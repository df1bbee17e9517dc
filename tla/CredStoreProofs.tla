--------------------------- MODULE CredStoreProofs ---------------------------
(***************************************************************************)
(* Theorems about CredStore, for every set of callers, processes, handles, *)
(* records and keys.                                                       *)
(***************************************************************************)
EXTENDS CredStore, TLAPS

-----------------------------------------------------------------------------
(* What the operators of Accounts return. *)

LEMMA NoAccountsType == NoAccounts \in Accts
  BY DEF NoAccounts, Accts

LEMMA NoReplyType == NoReply \in Replies
  BY NoAccountsType DEF NoReply, Replies

LEMMA RefusalType ==
  ASSUME NEW err \in Errors
  PROVE  Refusal(err) \in Replies
  BY NoAccountsType DEF Refusal, Replies

LEMMA EditType ==
  ASSUME NEW r \in Requests, NEW accts \in Accts
  PROVE  Edit(r, accts) \in Accts
  BY DEF Edit, Requests, Accts, Writes

LEMMA SuccessType ==
  ASSUME NEW r \in Requests, NEW accts \in Accts
  PROVE  Success(r, accts) \in Replies
<1>1. View(r, accts) \in Accts
  BY DEF View, Accts
<1>2. QED
  BY <1>1 DEF Success, Replies

LEMMA NoImageType == NoImage \in Images
  BY NoAccountsType DEF NoImage, Images

-----------------------------------------------------------------------------
(* Type correctness. *)

LEMMA TypeInit == Init => TypeOK
<1> SUFFICES ASSUME Init PROVE TypeOK
  OBVIOUS
<1>1. req \in [Threads -> Requests]
  BY DEF Init, Requests
<1>2. QED
  BY <1>1, NoImageType, NoReplyType, CredStoreAssumption DEF Init, TypeOK, Labels

LEMMA TypeStep == TypeOK /\ KeyCached /\ [Next]_vars => TypeOK'
<1> SUFFICES ASSUME TypeOK, KeyCached, [Next]_vars PROVE TypeOK'
  OBVIOUS
<1> USE CredStoreAssumption DEF TypeOK
<1>1. ASSUME NEW t \in Threads, NEW r \in Requests, Call(t, r) PROVE TypeOK'
  BY <1>1, NoReplyType DEF Call, At, Goto, Labels
<1>2. ASSUME NEW t \in Threads, Lock(t) PROVE TypeOK'
  BY <1>2 DEF Lock, At, Goto, Labels
<1>3. ASSUME NEW t \in Threads, ReadFile(t) PROVE TypeOK'
  <2>1. Refusal("corrupt") \in Replies
    BY RefusalType DEF Errors
  <2>2. image' \in [Threads -> Images]
    BY <1>3, NoImageType DEF ReadFile, Files, Images
  <2>3. pc' \in [Threads -> Labels] /\ reply' \in [Threads -> Replies]
    BY <1>3, <2>1 DEF ReadFile, Answer, Goto, Labels
  <2>4. QED
    BY <1>3, <2>2, <2>3 DEF ReadFile
<1>4. ASSUME NEW t \in Threads, GetKey(t) PROVE TypeOK'
  <2>1. pc' \in [Threads -> Labels]
    BY <1>4 DEF GetKey, Goto, AfterKey, GenerateAt, Labels
  <2>2. cache' \in [Processes -> Keys \union {NoKey}]
    BY <1>4 DEF GetKey
  <2>3. QED
    BY <1>4, <2>1, <2>2 DEF GetKey
<1>5. ASSUME NEW t \in Threads, GenerateKey(t) PROVE TypeOK'
  <2>1. pc' \in [Threads -> Labels]
    BY <1>5 DEF GenerateKey, Goto, AfterKey, Labels
  <2>2. cache' \in [Processes -> Keys \union {NoKey}] /\ keychain' \in Keys \union {NoKey}
    BY <1>5 DEF GenerateKey
  <2>3. QED
    BY <1>5, <2>1, <2>2 DEF GenerateKey
<1>6. ASSUME NEW t \in Threads, Decrypt(t) PROVE TypeOK'
  <2>1. Refusal("corrupt") \in Replies
    BY RefusalType DEF Errors
  <2>2. QED
    BY <1>6, <2>1 DEF Decrypt, Answer, Goto, Labels
<1>7. ASSUME NEW t \in Threads, Apply(t) PROVE TypeOK'
  <2>1. image[t] \in Images /\ image[t].accts \in Accts /\ req[t] \in Requests
    BY DEF Images
  <2>2. Refusal("notfound") \in Replies
    BY RefusalType DEF Errors
  <2>3. Success(req[t], image[t].accts) \in Replies
    BY <2>1, SuccessType
  <2>4. Edit(req[t], image[t].accts) \in Accts
    BY <2>1, EditType
  <2>5. image' \in [Threads -> Images]
    BY <1>7, <2>1, <2>4 DEF Apply, Images
  <2>6. pc' \in [Threads -> Labels] /\ reply' \in [Threads -> Replies]
    BY <1>7, <2>2, <2>3 DEF Apply, Answer, Goto, Labels
  <2>7. QED
    BY <1>7, <2>5, <2>6 DEF Apply
<1>8. ASSUME NEW t \in Threads, CreateTmp(t) PROVE TypeOK'
  BY <1>8 DEF CreateTmp, Goto, Labels, TmpOf
<1>9. ASSUME NEW t \in Threads, WriteTmp(t) PROVE TypeOK'
  <2>1. cache[ProcessOf[t]] \in Keys
    BY <1>9 DEF WriteTmp, At, KeyCached
  <2>2. [key |-> cache[ProcessOf[t]], accts |-> image[t].accts] \in Files
    BY <2>1 DEF Images, Files
  <2>3. tmp' \in [Processes -> Files \union {NoFile, Garbage}]
    BY <1>9, <2>2 DEF WriteTmp, TmpOf
  <2>4. QED
    BY <1>9, <2>3 DEF WriteTmp, Goto, Labels
<1>10. ASSUME NEW t \in Threads, Rename(t) PROVE TypeOK'
  <2>1. Success(req[t], image[t].accts) \in Replies
    BY SuccessType DEF Images
  <2>2. QED
    BY <1>10, <2>1 DEF Rename, Answer, Goto, Labels, TmpOf
<1>11. ASSUME NEW t \in Threads, Fail(t) PROVE TypeOK'
  <2>1. Refusal("failed") \in Replies
    BY RefusalType DEF Errors
  <2>2. QED
    BY <1>11, <2>1 DEF Fail, Answer, Goto, Labels, TmpOf
<1>12. ASSUME NEW t \in Threads, Return(t) PROVE TypeOK'
  BY <1>12, NoImageType DEF Return, Goto, Labels
<1>13. ASSUME NEW p \in Processes, Stop(p) PROVE TypeOK'
  BY <1>13, NoImageType, NoReplyType DEF Stop, Labels
<1>14. CASE UNCHANGED vars
  BY <1>14 DEF vars
<1>15. QED
  BY <1>1, <1>2, <1>3, <1>4, <1>5, <1>6, <1>7, <1>8, <1>9, <1>10, <1>11,
     <1>12, <1>13, <1>14 DEF Next, Step, Advance

-----------------------------------------------------------------------------
(* Whole files: the mutex and the process id in its name keep the temporary *)
(* file of a caller from every other caller.                                *)

LEMMA KeyCachedStep ==
  ASSUME TypeOK, KeyCached, [Next]_vars
  PROVE  KeyCached'
<1> USE CredStoreAssumption DEF TypeOK, KeyCached, At, Goto, Labels
<1>1. ASSUME NEW t \in Threads, NEW r \in Requests, Call(t, r) PROVE KeyCached'
  BY <1>1 DEF Call
<1>2. ASSUME NEW t \in Threads, Lock(t) PROVE KeyCached'
  BY <1>2 DEF Lock
<1>3. ASSUME NEW t \in Threads, ReadFile(t) PROVE KeyCached'
  BY <1>3 DEF ReadFile, Answer
<1>4. ASSUME NEW t \in Threads, GetKey(t) PROVE KeyCached'
  BY <1>4 DEF GetKey, AfterKey, GenerateAt
<1>5. ASSUME NEW t \in Threads, GenerateKey(t) PROVE KeyCached'
  BY <1>5 DEF GenerateKey, AfterKey
<1>6. ASSUME NEW t \in Threads, Decrypt(t) PROVE KeyCached'
  BY <1>6 DEF Decrypt, Answer
<1>7. ASSUME NEW t \in Threads, Apply(t) PROVE KeyCached'
  BY <1>7 DEF Apply, Answer
<1>8. ASSUME NEW t \in Threads, CreateTmp(t) PROVE KeyCached'
  BY <1>8 DEF CreateTmp
<1>9. ASSUME NEW t \in Threads, WriteTmp(t) PROVE KeyCached'
  BY <1>9 DEF WriteTmp
<1>10. ASSUME NEW t \in Threads, Rename(t) PROVE KeyCached'
  BY <1>10 DEF Rename, Answer
<1>11. ASSUME NEW t \in Threads, Fail(t) PROVE KeyCached'
  BY <1>11 DEF Fail, Answer
<1>12. ASSUME NEW t \in Threads, Return(t) PROVE KeyCached'
  BY <1>12 DEF Return
<1>13. ASSUME NEW p \in Processes, Stop(p) PROVE KeyCached'
  BY <1>13 DEF Stop
<1>14. CASE UNCHANGED vars
  BY <1>14 DEF vars
<1>15. QED
  BY <1>1, <1>2, <1>3, <1>4, <1>5, <1>6, <1>7, <1>8, <1>9, <1>10, <1>11, <1>12, <1>13,
     <1>14 DEF Next, Step, Advance

LEMMA HoldsLockStep ==
  ASSUME TypeOK, HoldsLock, [Next]_vars
  PROVE  HoldsLock'
<1> USE CredStoreAssumption DEF TypeOK, HoldsLock, At, Goto, Labels
<1>1. ASSUME NEW t \in Threads, NEW r \in Requests, Call(t, r) PROVE HoldsLock'
  BY <1>1 DEF Call
<1>2. ASSUME NEW t \in Threads, Lock(t) PROVE HoldsLock'
  BY <1>2 DEF Lock
<1>3. ASSUME NEW t \in Threads, ReadFile(t) PROVE HoldsLock'
  BY <1>3 DEF ReadFile, Answer
<1>4. ASSUME NEW t \in Threads, GetKey(t) PROVE HoldsLock'
  BY <1>4 DEF GetKey, AfterKey, GenerateAt
<1>5. ASSUME NEW t \in Threads, GenerateKey(t) PROVE HoldsLock'
  BY <1>5 DEF GenerateKey, AfterKey
<1>6. ASSUME NEW t \in Threads, Decrypt(t) PROVE HoldsLock'
  BY <1>6 DEF Decrypt, Answer
<1>7. ASSUME NEW t \in Threads, Apply(t) PROVE HoldsLock'
  BY <1>7 DEF Apply, Answer
<1>8. ASSUME NEW t \in Threads, CreateTmp(t) PROVE HoldsLock'
  BY <1>8 DEF CreateTmp
<1>9. ASSUME NEW t \in Threads, WriteTmp(t) PROVE HoldsLock'
  BY <1>9 DEF WriteTmp
<1>10. ASSUME NEW t \in Threads, Rename(t) PROVE HoldsLock'
  BY <1>10 DEF Rename, Answer
<1>11. ASSUME NEW t \in Threads, Fail(t) PROVE HoldsLock'
  BY <1>11 DEF Fail, Answer
<1>12. ASSUME NEW t \in Threads, Return(t) PROVE HoldsLock'
  BY <1>12 DEF Return
<1>13. ASSUME NEW p \in Processes, Stop(p) PROVE HoldsLock'
  BY <1>13 DEF Stop
<1>14. CASE UNCHANGED vars
  BY <1>14 DEF vars
<1>15. QED
  BY <1>1, <1>2, <1>3, <1>4, <1>5, <1>6, <1>7, <1>8, <1>9, <1>10, <1>11, <1>12, <1>13,
     <1>14 DEF Next, Step, Advance

LEMMA TmpWrittenStep ==
  ASSUME TypeOK, KeyCached, HoldsLock, TmpWritten, [Next]_vars
  PROVE  TmpWritten'
<1> USE CredStoreAssumption DEF TypeOK, KeyCached, HoldsLock, TmpWritten, At, Goto, TmpOf
<1>1. ASSUME NEW t \in Threads, NEW r \in Requests, Call(t, r) PROVE TmpWritten'
  BY <1>1 DEF Call
<1>2. ASSUME NEW t \in Threads, Lock(t) PROVE TmpWritten'
  BY <1>2 DEF Lock
<1>3. ASSUME NEW t \in Threads, ReadFile(t) PROVE TmpWritten'
  BY <1>3 DEF ReadFile, Answer
<1>4. ASSUME NEW t \in Threads, GetKey(t) PROVE TmpWritten'
  BY <1>4 DEF GetKey, AfterKey, GenerateAt
<1>5. ASSUME NEW t \in Threads, GenerateKey(t) PROVE TmpWritten'
  BY <1>5 DEF GenerateKey, AfterKey
<1>6. ASSUME NEW t \in Threads, Decrypt(t) PROVE TmpWritten'
  BY <1>6 DEF Decrypt, Answer
<1>7. ASSUME NEW t \in Threads, Apply(t) PROVE TmpWritten'
  BY <1>7 DEF Apply, Answer
<1>8. ASSUME NEW t \in Threads, CreateTmp(t) PROVE TmpWritten'
  BY <1>8 DEF CreateTmp
<1>9. ASSUME NEW t \in Threads, WriteTmp(t) PROVE TmpWritten'
  <2> DEFINE p == ProcessOf[t]
             sealed == [key |-> cache[p], accts |-> image[t].accts]
  <2>1. sealed \in Files
    BY <1>9 DEF WriteTmp, Files, Images
  <2>2. tmp' = [tmp EXCEPT ![p] = sealed] /\ image' = image
    BY <1>9 DEF WriteTmp
  <2>3. tmp'[p] = sealed /\ sealed.accts = image'[t].accts
    BY <2>2
  <2> HIDE DEF sealed
  <2>4. ASSUME NEW u \in Threads, pc'[u] = "rename"
        PROVE  /\ tmp'[ProcessOf[u]] \in Files
               /\ tmp'[ProcessOf[u]].accts = image'[u].accts
    <3>1. CASE u = t
      BY <2>1, <2>3, <3>1
    <3>2. CASE u # t
      <4>1. pc[u] = "rename" /\ pc[t] = "write"
        BY <1>9, <2>4, <3>2 DEF WriteTmp
      <4>2. ProcessOf[u] # p
        BY <3>2, <4>1
      <4>3. tmp'[ProcessOf[u]] = tmp[ProcessOf[u]]
        BY <2>2, <4>2
      <4>4. QED
        BY <2>2, <4>1, <4>3
    <3>3. QED
      BY <3>1, <3>2
  <2>5. QED
    BY <2>4 DEF TmpWritten
<1>10. ASSUME NEW t \in Threads, Rename(t) PROVE TmpWritten'
  BY <1>10 DEF Rename, Answer
<1>11. ASSUME NEW t \in Threads, Fail(t) PROVE TmpWritten'
  BY <1>11 DEF Fail, Answer
<1>12. ASSUME NEW t \in Threads, Return(t) PROVE TmpWritten'
  BY <1>12 DEF Return
<1>13. ASSUME NEW p \in Processes, Stop(p) PROVE TmpWritten'
  BY <1>13 DEF Stop
<1>14. CASE UNCHANGED vars
  BY <1>14 DEF vars
<1>15. QED
  BY <1>1, <1>2, <1>3, <1>4, <1>5, <1>6, <1>7, <1>8, <1>9, <1>10, <1>11, <1>12, <1>13,
     <1>14 DEF Next, Step, Advance

\* Type correctness of the store, with the facts its proof needs.
StoreInv == TypeOK /\ KeyCached /\ HoldsLock /\ TmpWritten

LEMMA StoreInvInit == Init => StoreInv
<1> SUFFICES ASSUME Init PROVE StoreInv
  OBVIOUS
<1>1. KeyCached /\ HoldsLock /\ TmpWritten
  BY DEF Init, KeyCached, HoldsLock, TmpWritten, At
<1>2. QED
  BY <1>1, TypeInit DEF StoreInv

LEMMA StoreInvStep == StoreInv /\ [Next]_vars => StoreInv'
  BY TypeStep, KeyCachedStep, HoldsLockStep, TmpWrittenStep DEF StoreInv

\* In every reachable state the components of the store have their types: the
\* key a caller seals with is a key, and not the empty value of a cache that
\* getKey has not filled yet.
THEOREM TypeCorrect == Spec => []TypeOK
<1>1. Spec => []StoreInv
  BY StoreInvInit, StoreInvStep, PTL DEF Spec
<1>2. StoreInv => TypeOK
  BY DEF StoreInv
<1>3. QED
  BY <1>1, <1>2, PTL

LEMMA WholeFileStep ==
  ASSUME StoreInv, [Next]_vars
  PROVE  file' # file => file' \in Files
<1> SUFFICES ASSUME file' # file PROVE file' \in Files
  OBVIOUS
<1>1. PICK t \in Threads : Rename(t)
  BY DEF Next, Step, Advance, Call, Lock, ReadFile, GetKey, GenerateKey, Decrypt,
         Apply, CreateTmp, WriteTmp, Fail, Return, Stop, vars
<1>2. tmp[TmpOf(t)] \in Files
  BY <1>1 DEF Rename, StoreInv, TmpWritten
<1>3. QED
  BY <1>1, <1>2 DEF Rename

\* The atomic write of keychain.go:242, for any number of processes with any
\* number of callers each, and with failures and exits at any point: cred.json
\* changes only to a complete file.
THEOREM WholeFiles == Spec => OnlyWholeFilesAppear
<1>1. Spec => []StoreInv
  BY StoreInvInit, StoreInvStep, PTL DEF Spec
<1>2. StoreInv /\ [Next]_vars => [file' # file => file' \in Files]_vars
  BY WholeFileStep
<1>3. QED
  BY <1>1, <1>2, PTL DEF Spec, OnlyWholeFilesAppear
-----------------------------------------------------------------------------
(* Keys: the file can always be opened, unless two processes meet on a      *)
(* machine that has no master key yet.                                      *)

LEMMA KeyStays == keychain # NoKey /\ [Next]_vars => keychain' # NoKey
<1> SUFFICES ASSUME keychain # NoKey, [Next]_vars, keychain' # keychain
             PROVE  keychain' # NoKey
  OBVIOUS
<1>1. PICK t \in Threads : GenerateKey(t)
  BY DEF Next, Step, Advance, Call, Lock, ReadFile, GetKey, Decrypt, Apply,
         CreateTmp, WriteTmp, Rename, Fail, Return, Stop, vars
<1>2. QED
  BY <1>1, CredStoreAssumption DEF GenerateKey

\* Two callers of one process are never both inside an operation.
LEMMA Alone ==
  ASSUME OneProcess, HoldsLock, NEW t \in Threads, NEW u \in Threads,
         pc[t] \notin {"idle", "lock"}, pc[u] \notin {"idle", "lock"}
  PROVE  t = u
  BY DEF OneProcess, HoldsLock

LEMMA KeysAgreeStep ==
  ASSUME StoreInv, FirstUseApart, KeysAgree, [Next]_vars
  PROVE  KeysAgree'
<1> USE CredStoreAssumption DEF StoreInv, TypeOK, KeysAgree, Readable, Sealed, At, Goto, TmpOf
<1>1. ASSUME NEW t \in Threads, NEW r \in Requests, Call(t, r) PROVE KeysAgree'
  BY <1>1 DEF Call
<1>2. ASSUME NEW t \in Threads, Lock(t) PROVE KeysAgree'
  BY <1>2 DEF Lock
<1>3. ASSUME NEW t \in Threads, ReadFile(t) PROVE KeysAgree'
  BY <1>3 DEF ReadFile, Answer
<1>4. ASSUME NEW t \in Threads, GetKey(t) PROVE KeysAgree'
  BY <1>4 DEF GetKey, AfterKey, GenerateAt
<1>5. ASSUME NEW t \in Threads, GenerateKey(t) PROVE KeysAgree'
  <2>1. pc[t] \in {"loadgen", "savegen"} /\ keychain = NoKey
    BY <1>5 DEF GenerateKey
  <2>2. \A u \in Threads : pc[u] \in {"loadgen", "savegen"} => u = t
    BY <2>1 DEF FirstUseApart, Files
  <2>3. PICK k \in Keys : keychain' = k /\ cache' = [cache EXCEPT ![ProcessOf[t]] = k]
    BY <1>5 DEF GenerateKey
  <2>4. file' = NoFile /\ tmp' = tmp
    BY <1>5, <2>1, FileAssumption DEF GenerateKey, Files
  <2>5. \A p \in Processes : tmp[p] \notin Files
    BY <2>1 DEF Files
  <2>6. \A p \in Processes : cache'[p] \in {NoKey, keychain'}
    BY <2>1, <2>3
  <2>7. \A u \in Threads : pc'[u] \notin {"loadgen", "savegen"}
    BY <1>5, <2>1, <2>2 DEF GenerateKey, AfterKey, Labels
  <2>8. QED
    BY <2>4, <2>5, <2>6, <2>7
<1>6. ASSUME NEW t \in Threads, Decrypt(t) PROVE KeysAgree'
  BY <1>6 DEF Decrypt, Answer
<1>7. ASSUME NEW t \in Threads, Apply(t) PROVE KeysAgree'
  BY <1>7 DEF Apply, Answer
<1>8. ASSUME NEW t \in Threads, CreateTmp(t) PROVE KeysAgree'
  BY <1>8, FileAssumption DEF CreateTmp
<1>9. ASSUME NEW t \in Threads, WriteTmp(t) PROVE KeysAgree'
  <2>1. cache[ProcessOf[t]] = keychain
    BY <1>9 DEF WriteTmp, KeyCached
  <2>2. \A p \in Processes : tmp'[p] \in Files => tmp'[p].key = keychain
    <3> DEFINE sealed == [key |-> cache[ProcessOf[t]], accts |-> image[t].accts]
    <3>1. sealed.key = keychain
      BY <2>1
    <3>2. tmp' = [tmp EXCEPT ![ProcessOf[t]] = sealed]
      BY <1>9 DEF WriteTmp
    <3> HIDE DEF sealed
    <3>3. QED
      BY <3>1, <3>2
  <2>3. UNCHANGED <<keychain, cache, file>>
    BY <1>9 DEF WriteTmp
  <2>4. \A u \in Threads : pc'[u] \in {"loadgen", "savegen"} => keychain = NoKey
    BY <1>9 DEF WriteTmp
  <2>5. QED
    BY <2>2, <2>3, <2>4
<1>10. ASSUME NEW t \in Threads, Rename(t) PROVE KeysAgree'
  <2>1. file' \in Files /\ file'.key = keychain'
    BY <1>10 DEF Rename, TmpWritten
  <2>2. \A p \in Processes : tmp'[p] \in Files => tmp'[p].key = keychain
    BY <1>10, FileAssumption DEF Rename
  <2>3. UNCHANGED <<keychain, cache>>
    BY <1>10 DEF Rename
  <2>4. \A u \in Threads : pc'[u] \in {"loadgen", "savegen"} => keychain = NoKey
    BY <1>10 DEF Rename, Answer
  <2>5. QED
    BY <2>1, <2>2, <2>3, <2>4
<1>11. ASSUME NEW t \in Threads, Fail(t) PROVE KeysAgree'
  BY <1>11, FileAssumption DEF Fail, Answer
<1>12. ASSUME NEW t \in Threads, Return(t) PROVE KeysAgree'
  BY <1>12 DEF Return
<1>13. ASSUME NEW p \in Processes, Stop(p) PROVE KeysAgree'
  BY <1>13 DEF Stop
<1>14. CASE UNCHANGED vars
  BY <1>14 DEF vars
<1>15. QED
  BY <1>1, <1>2, <1>3, <1>4, <1>5, <1>6, <1>7, <1>8, <1>9, <1>10, <1>11, <1>12, <1>13,
     <1>14 DEF Next, Step, Advance

KeyInv == StoreInv /\ KeysAgree

LEMMA KeyInvInit == Init /\ Readable => KeyInv
  BY StoreInvInit, FileAssumption DEF Init, KeysAgree, KeyInv

LEMMA KeyInvStep == FirstUseApart /\ KeyInv /\ [Next]_vars => KeyInv'
  BY StoreInvStep, KeysAgreeStep DEF KeyInv

LEMMA StartsReadable ==
  ASSUME Init, Installs \subseteq {"fresh", "keyed", "established"}
  PROVE  Readable
  BY FileAssumption DEF Init, StartsOn, Readable

\* A file that was written can be read again, for any number of processes, callers,
\* failures and exits, as long as no two callers are about to generate a master
\* key at once on a machine that has no file yet (keychain.go:163).
THEOREM ReadableIfFirstUseApart ==
  ASSUME Installs \subseteq {"fresh", "keyed", "established"}
  PROVE  Spec /\ []FirstUseApart => []Readable
<1>1. Init => KeyInv
  BY KeyInvInit, StartsReadable
<1>2. KeyInv => Readable
  BY DEF KeyInv, KeysAgree
<1>3. QED
  BY <1>1, <1>2, KeyInvStep, PTL DEF Spec

\* With one process at a time, whatever its callers do and wherever it is
\* killed, nobody else is about to generate a key.
LEMMA OneProcessFirst ==
  ASSUME OneProcess
  PROVE  Spec => []FirstUseApart
<1>1. StoreInv => FirstUseApart
  BY Alone DEF StoreInv, FirstUseApart
<1>2. QED
  BY <1>1, StoreInvInit, StoreInvStep, PTL DEF Spec

\* With one process at a time the key in the keychain opens cred.json.
THEOREM ReadableOneProcess ==
  ASSUME OneProcess, Installs \subseteq {"fresh", "keyed", "established"}
  PROVE  Spec => []Readable
<1>1. Spec => []FirstUseApart
  BY OneProcessFirst
<1>2. Spec /\ []FirstUseApart => []Readable
  BY ReadableIfFirstUseApart
<1>3. QED
  BY <1>1, <1>2, PTL

\* Once a master key exists, the same holds for any number of processes: nobody
\* generates another one.
THEOREM ReadableOnceKeyed ==
  ASSUME Installs \subseteq {"keyed", "established"}
  PROVE  Spec => []Readable
<1> DEFINE Keyed == KeyInv /\ keychain # NoKey
<1>1. Init => Keyed
  <2> SUFFICES ASSUME Init PROVE Keyed
    OBVIOUS
  <2>1. keychain # NoKey
    BY CredStoreAssumption DEF Init, StartsOn, Sealed, Files
  <2>2. QED
    BY <2>1, KeyInvInit, StartsReadable
<1>2. Keyed => FirstUseApart /\ Readable
  BY DEF KeyInv, KeysAgree, FirstUseApart
<1>3. Keyed /\ [Next]_vars => Keyed'
  BY <1>2, KeyInvStep, KeyStays
<1> HIDE DEF Keyed
<1>4. QED
  BY <1>1, <1>2, <1>3, PTL DEF Spec

-----------------------------------------------------------------------------
(* A file that cannot be opened. *)

LEMMA UnreadableStep ==
  ASSUME StoreInv, Unreadable, [Next]_vars
  PROVE  Unreadable' /\ file' = file
<1> USE CredStoreAssumption DEF StoreInv, TypeOK, Unreadable, At, Goto
<1>1. file' = file
  <2>1. \A t \in Threads : ~ Rename(t)
    BY DEF Rename
  <2> QED
    BY <2>1 DEF Next, Step, Advance, Call, Lock, ReadFile, GetKey, GenerateKey, Decrypt,
                Apply, CreateTmp, WriteTmp, Fail, Return, Stop, vars
<1>2. \A f \in Files : f.key \in Keys
  BY DEF Files
<1>3. ASSUME NEW t \in Threads, NEW r \in Requests, Call(t, r) PROVE Unreadable'
  BY <1>1, <1>3 DEF Call, Sealed
<1>4. ASSUME NEW t \in Threads, Lock(t) PROVE Unreadable'
  BY <1>1, <1>4 DEF Lock, Sealed
<1>5. ASSUME NEW t \in Threads, ReadFile(t) PROVE Unreadable'
  BY <1>1, <1>5 DEF ReadFile, Answer, Sealed
<1>6. ASSUME NEW t \in Threads, GetKey(t) PROVE Unreadable'
  BY <1>1, <1>6 DEF GetKey, AfterKey, GenerateAt, Sealed
<1>7. ASSUME NEW t \in Threads, GenerateKey(t) PROVE Unreadable'
  <2>1. PICK k \in Keys \ KeysInUse :
           keychain' = k /\ cache' = [cache EXCEPT ![ProcessOf[t]] = k]
    BY <1>7 DEF GenerateKey
  <2>2. file \in Files => k # file.key
    BY <2>1 DEF KeysInUse
  <2>3. ~ Sealed' /\ \A p \in Processes : file \in Files => cache'[p] # file.key
    BY <1>1, <2>1, <2>2 DEF Sealed
  <2> QED
    BY <1>1, <1>7, <2>3 DEF GenerateKey, AfterKey
<1>8. ASSUME NEW t \in Threads, Decrypt(t) PROVE Unreadable'
  <2>1. image[t].key # cache[ProcessOf[t]]
    BY <1>8 DEF Decrypt
  <2> QED
    BY <1>1, <1>8, <2>1 DEF Decrypt, Answer, Sealed
<1>9. ASSUME NEW t \in Threads, Apply(t) \/ CreateTmp(t) \/ WriteTmp(t) \/ Rename(t)
      PROVE  FALSE
  BY <1>9 DEF Apply, CreateTmp, WriteTmp, Rename
<1>10. ASSUME NEW t \in Threads, Fail(t) PROVE Unreadable'
  BY <1>1, <1>10 DEF Fail, Answer, Sealed
<1>11. ASSUME NEW t \in Threads, Return(t) PROVE Unreadable'
  BY <1>1, <1>11 DEF Return, Sealed
<1>12. ASSUME NEW p \in Processes, Stop(p) PROVE Unreadable'
  BY <1>1, <1>2, <1>12 DEF Stop, Sealed
<1>13. CASE UNCHANGED vars
  BY <1>13 DEF vars, Sealed
<1>14. QED
  BY <1>1, <1>3, <1>4, <1>5, <1>6, <1>7, <1>8, <1>9, <1>10, <1>11, <1>12, <1>13
     DEF Next, Step, Advance

\* A cred.json that cannot be opened stays as it is, whatever any processes do, as long
\* as no two callers are about to generate a key at once on a machine without a file.
THEOREM UnreadableKeptIfFirstUseApart == Spec /\ []FirstUseApart => UnreadableFileKept
<1> DEFINE Kept == file # NoFile /\ ~ Sealed => file' = file
           Inv == KeyInv \/ (StoreInv /\ Unreadable)
<1>1. ASSUME Init PROVE Inv
  <2>1. CASE ~ Readable
    <3>1. Unreadable
      BY <1>1, <2>1, CredStoreAssumption DEF Init, Unreadable, Readable, Files
    <3> QED
      BY <1>1, <3>1, StoreInvInit
  <2> QED
    BY <1>1, <2>1, KeyInvInit
<1>2. FirstUseApart /\ Inv /\ [Next]_vars => Inv'
  BY KeyInvStep, StoreInvStep, UnreadableStep
<1>3. Inv /\ [Next]_vars => [Kept]_vars
  BY UnreadableStep DEF KeyInv, KeysAgree, Readable
<1> HIDE DEF Inv, Kept
<1>4. Spec /\ []FirstUseApart => [][Kept]_vars
  BY <1>1, <1>2, <1>3, PTL DEF Spec
<1> QED
  BY <1>4 DEF UnreadableFileKept, Kept

\* On a machine that is not new a key is there, or a file that stays.
LEMMA UsedMachineFirst ==
  ASSUME "fresh" \notin Installs
  PROVE  Spec => []FirstUseApart
<1> DEFINE Inv == (KeyInv /\ keychain # NoKey) \/ (StoreInv /\ Unreadable)
<1>1. ASSUME Init PROVE Inv
  <2>1. CASE Readable
    <3>1. PICK kind \in Installs : StartsOn(kind)
      BY <1>1 DEF Init
    <3>2. kind \in {"keyed", "established"}
      BY <2>1, <3>1, FileAssumption, CredStoreAssumption
         DEF InstallKinds, StartsOn, Readable, Sealed
    <3>3. keychain # NoKey
      BY <3>1, <3>2, CredStoreAssumption DEF StartsOn, Sealed, Files
    <3> QED
      BY <1>1, <2>1, <3>3, KeyInvInit
  <2>2. CASE ~ Readable
    <3>1. Unreadable
      BY <1>1, <2>2, CredStoreAssumption DEF Init, Unreadable, Readable, Files
    <3> QED
      BY <1>1, <3>1, StoreInvInit
  <2> QED
    BY <2>1, <2>2
<1>2. Inv => FirstUseApart
  BY DEF KeyInv, KeysAgree, FirstUseApart, Unreadable
<1>3. Inv /\ [Next]_vars => Inv'
  BY <1>2, KeyInvStep, KeyStays, StoreInvStep, UnreadableStep
<1> HIDE DEF Inv
<1>4. QED
  BY <1>1, <1>2, <1>3, PTL DEF Spec

\* The two cases of it that need no look at the schedule: the callers of one process,
\* and machines that are not new.
THEOREM UnreadableKept ==
  ASSUME OneProcess \/ "fresh" \notin Installs
  PROVE  Spec => UnreadableFileKept
<1>1. Spec => []FirstUseApart
  BY OneProcessFirst, UsedMachineFirst
<1>2. QED
  BY <1>1, UnreadableKeptIfFirstUseApart, PTL

-----------------------------------------------------------------------------
(* Operations that do not overlap: the file is the atomic map of AccountStore. *)

LEMMA ImageCurrentStep ==
  ASSUME Apart, StoreInv, ImageCurrent, [Next]_vars
  PROVE  ImageCurrent'
<1> USE CredStoreAssumption DEF StoreInv, TypeOK, ImageCurrent, Contents, At, Goto
<1>1. ASSUME NEW t \in Threads, NEW r \in Requests, Call(t, r) PROVE ImageCurrent'
  BY <1>1 DEF Call
<1>2. ASSUME NEW t \in Threads, Lock(t) PROVE ImageCurrent'
  BY <1>2 DEF Lock
<1>3. ASSUME NEW t \in Threads, ReadFile(t) PROVE ImageCurrent'
  BY <1>3, FileAssumption DEF ReadFile, Answer, NoImage
<1>4. ASSUME NEW t \in Threads, GetKey(t) PROVE ImageCurrent'
  BY <1>4 DEF GetKey, AfterKey, GenerateAt
<1>5. ASSUME NEW t \in Threads, GenerateKey(t) PROVE ImageCurrent'
  BY <1>5 DEF GenerateKey, AfterKey
<1>6. ASSUME NEW t \in Threads, Decrypt(t) PROVE ImageCurrent'
  BY <1>6 DEF Decrypt, Answer
<1>7. ASSUME NEW t \in Threads, Apply(t) PROVE ImageCurrent'
  <2>1. image[t].accts = Contents
    BY <1>7 DEF Apply
  <2>2. CASE image' = [image EXCEPT ![t].accts = Edit(req[t], image[t].accts)]
             /\ pc' = [pc EXCEPT ![t] = "savekey"]
             /\ Writes(req[t]) /\ ~ Missing(req[t], image[t].accts)
    <3>1. image'[t].accts = Edit(req[t], Contents)
      BY <2>1, <2>2 DEF Images
    <3>2. file' = file /\ req' = req
      BY <1>7 DEF Apply
    <3>3. \A u \in Threads : u # t => image'[u] = image[u] /\ pc'[u] = pc[u]
      BY <2>2
    <3>4. pc'[t] = "savekey"
      BY <2>2
    <3>5. QED
      BY <2>1, <2>2, <3>1, <3>2, <3>3, <3>4
  <2>3. CASE image' = image /\ pc' = [pc EXCEPT ![t] = "return"]
    BY <1>7, <2>3 DEF Apply
  <2>4. QED
    BY <1>7, <2>2, <2>3 DEF Apply, Answer
<1>8. ASSUME NEW t \in Threads, CreateTmp(t) PROVE ImageCurrent'
  BY <1>8 DEF CreateTmp
<1>9. ASSUME NEW t \in Threads, WriteTmp(t) PROVE ImageCurrent'
  BY <1>9 DEF WriteTmp
<1>10. ASSUME NEW t \in Threads, Rename(t) PROVE ImageCurrent'
  <2>1. \A u \in Threads : u # t => pc'[u] = pc[u] /\ pc[u] \notin Between
    BY <1>10 DEF Rename, Answer, Apart
  <2>2. pc'[t] = "return"
    BY <1>10 DEF Rename, Answer
  <2>3. QED
    BY <2>1, <2>2 DEF Between
<1>11. ASSUME NEW t \in Threads, Fail(t) PROVE ImageCurrent'
  BY <1>11 DEF Fail, Answer
<1>12. ASSUME NEW t \in Threads, Return(t) PROVE ImageCurrent'
  BY <1>12 DEF Return
<1>13. ASSUME NEW p \in Processes, Stop(p) PROVE ImageCurrent'
  BY <1>13 DEF Stop
<1>14. CASE UNCHANGED vars
  BY <1>14 DEF vars
<1>15. QED
  BY <1>1, <1>2, <1>3, <1>4, <1>5, <1>6, <1>7, <1>8, <1>9, <1>10, <1>11, <1>12, <1>13,
     <1>14 DEF Next, Step, Advance

MapInv == StoreInv /\ ImageCurrent

LEMMA MapInvInit == Init => MapInv
<1>1. Init => ImageCurrent
  BY DEF Init, ImageCurrent
<1>2. QED
  BY <1>1, StoreInvInit DEF MapInv

LEMMA MapInvStep == Apart /\ MapInv /\ [Next]_vars => MapInv'
  BY StoreInvStep, ImageCurrentStep DEF MapInv

\* What a completed rename leaves in cred.json.
LEMMA RenameEdits ==
  ASSUME MapInv, NEW t \in Threads, Rename(t)
  PROVE  /\ Contents' = Edit(req[t], Contents)
         /\ Writes(req[t])
         /\ ~ Missing(req[t], Contents)
<1>1. tmp[TmpOf(t)] \in Files /\ tmp[TmpOf(t)].accts = image[t].accts
  BY DEF MapInv, StoreInv, TmpWritten, Rename
<1>2. /\ image[t].accts = Edit(req[t], Contents)
      /\ Writes(req[t]) /\ ~ Missing(req[t], Contents)
  BY DEF MapInv, ImageCurrent, Rename, At
<1>3. QED
  BY <1>1, <1>2 DEF Rename, Contents

LEMMA OnlyRenameWrites ==
  ASSUME [Next]_vars, file' # file
  PROVE  \E t \in Threads : Rename(t)
  BY DEF Next, Step, Advance, Call, Lock, ReadFile, GetKey, GenerateKey, Decrypt,
         Apply, CreateTmp, WriteTmp, Fail, Return, Stop, vars

\* Put and Delete change the record of their own handle and no other, for any
\* number of processes, as long as no caller replaces the file while another is
\* between reading and replacing it: two overlapping operations are the only way
\* in which an update can be lost (keychain.go:94).
THEOREM OtherAccountsKeptApart == Spec /\ []Apart => OtherAccountsKept
<1> DEFINE Own(h) == \E t \in Threads :
                        /\ At(t, "rename") /\ pc'[t] = "return"
                        /\ Writes(req[t]) /\ req[t].handle = h
           Kept == \A h \in Handles : Contents'[h] # Contents[h] => Own(h)
<1>1. Spec /\ []Apart => []MapInv
  BY MapInvInit, MapInvStep, PTL DEF Spec
<1>2. MapInv /\ [Next]_vars => [Kept]_vars
  <2> SUFFICES ASSUME MapInv, [Next]_vars,
                      NEW h \in Handles, Contents'[h] # Contents[h]
               PROVE  Own(h)
    OBVIOUS
  <2>1. PICK t \in Threads : Rename(t)
    BY OnlyRenameWrites DEF Contents
  <2>2. Contents' = Edit(req[t], Contents) /\ Writes(req[t])
    BY <2>1, RenameEdits
  <2>3. Contents \in Accts
    BY NoAccountsType DEF MapInv, StoreInv, TypeOK, Contents, Files
  <2>4. req[t].handle = h
    BY <2>2, <2>3 DEF Edit, Accts
  <2>5. At(t, "rename") /\ pc'[t] = "return"
    BY <2>1 DEF Rename, Answer, Goto, At, MapInv, StoreInv, TypeOK
  <2>6. QED
    BY <2>2, <2>4, <2>5
<1>3. QED
  BY <1>1, <1>2, PTL DEF Spec, OtherAccountsKept

\* The mutex spans the whole read-modify-write.
LEMMA OneProcessApart ==
  ASSUME OneProcess
  PROVE  Spec => []Apart
<1>1. StoreInv => Apart
  BY Alone DEF StoreInv, Apart, Between, At
<1>2. QED
  BY <1>1, StoreInvInit, StoreInvStep, PTL DEF Spec

\* Within one process, therefore, no update is lost.
THEOREM OtherAccountsKeptOneProcess ==
  ASSUME OneProcess
  PROVE  Spec => OtherAccountsKept
<1>1. Spec => []Apart
  BY OneProcessApart
<1>2. QED
  BY <1>1, OtherAccountsKeptApart, PTL

-----------------------------------------------------------------------------
(* The refinement. *)

\* The vocabulary of AccountStore is the one of CredStore.
LEMMA SameWords ==
  /\ Promised!Accts = Accts
  /\ Promised!Requests = Requests
  /\ Promised!Errors = Errors
  /\ Promised!NoReply = NoReply
  /\ \A err : Promised!Refusal(err) = Refusal(err)
  /\ \A r, a : /\ Promised!Missing(r, a) = Missing(r, a)
               /\ Promised!Edit(r, a) = Edit(r, a)
               /\ Promised!Success(r, a) = Success(r, a)
  BY DEF Promised!Accts, Accts, Promised!Requests, Requests, Promised!Errors, Errors,
         Promised!NoReply, NoReply, Promised!NoAccounts, NoAccounts,
         Promised!Refusal, Refusal, Promised!Missing, Missing, Promised!Edit, Edit,
         Promised!Writes, Writes, Promised!Success, Success, Promised!View, View

phaseMap == [t \in Threads |-> PhaseOf(pc[t])]

\* A step of the code inside an operation is no step of the map.
LEMMA Inside ==
  ASSUME TypeOK, NEW t \in Threads, NEW l \in Labels, Goto(t, l),
         PhaseOf(l) = PhaseOf(pc[t])
  PROVE  phaseMap' = phaseMap
  BY DEF TypeOK, Goto, phaseMap

\* Answering is the answer of the map.
LEMMA Answers ==
  ASSUME TypeOK, NEW t \in Threads, NEW r, Answer(t, r), req' = req,
         pc[t] \notin {"idle", "return"}
  PROVE  Promised!Answer(t, r)
<1>1. PhaseOf(pc[t]) = "called" /\ PhaseOf("return") = "answered"
  BY DEF PhaseOf
<1>2. phaseMap' = [phaseMap EXCEPT ![t] = "answered"]
  BY <1>1 DEF TypeOK, Answer, Goto, phaseMap
<1>3. phaseMap[t] = "called"
  BY <1>1 DEF phaseMap
<1>4. QED
  BY <1>2, <1>3 DEF Answer, phaseMap, Promised!Answer

LEMMA RefinesInit == Init => Promised!Init
<1> SUFFICES ASSUME Init PROVE Promised!Init
  OBVIOUS
<1>1. Contents \in Accts
  BY TypeInit, NoAccountsType DEF TypeOK, Contents, Files
<1>2. phaseMap = [t \in Threads |-> "idle"]
  BY DEF Init, phaseMap, PhaseOf
<1>3. req \in [Threads -> Requests]
  BY TypeInit DEF TypeOK
<1>4. QED
  BY <1>1, <1>2, <1>3, SameWords DEF Init, phaseMap, Promised!Init

LEMMA RefinesStep ==
  ASSUME MapInv, [Next]_vars
  PROVE  [Promised!Next]_(Promised!vars)
<1> USE CredStoreAssumption
<1> DEFINE Refined == [Promised!Next]_(Promised!vars)
           SameMap == Contents' = Contents /\ phaseMap' = phaseMap
                        /\ req' = req /\ reply' = reply
<1>a. TypeOK
  BY DEF MapInv, StoreInv
<1>b. SameMap => Refined
  BY DEF phaseMap, Promised!vars
<1>c. ASSUME NEW t \in Threads, NEW err \in {"corrupt", "failed"},
             Answer(t, Refusal(err)), pc[t] \notin {"idle", "return"},
             req' = req, file' = file
      PROVE  Refined
  <2>1. Promised!Answer(t, Refusal(err))
    BY <1>a, <1>c, Answers
  <2>2. Promised!Refuse(t, err)
    BY <1>c, <2>1, SameWords DEF Promised!Refuse, Contents
  <2>3. err \in Promised!Errors
    BY SameWords DEF Errors
  <2>4. QED
    BY <2>2, <2>3 DEF Promised!Next
<1>1. ASSUME NEW t \in Threads, NEW r \in Requests, Call(t, r) PROVE Refined
  <2>1. phaseMap[t] = "idle" /\ phaseMap' = [phaseMap EXCEPT ![t] = "called"]
    BY <1>1, <1>a DEF Call, At, Goto, phaseMap, PhaseOf, TypeOK
  <2>2. Promised!Call(t, r)
    BY <1>1, <2>1, SameWords DEF Call, Contents, phaseMap, Promised!Call
  <2>3. QED
    BY <2>2, SameWords DEF Promised!Next
<1>2. ASSUME NEW t \in Threads, Lock(t) PROVE Refined
  BY <1>2, <1>a, <1>b, Inside DEF Lock, At, Labels, PhaseOf, Contents
<1>3. ASSUME NEW t \in Threads, ReadFile(t) PROVE Refined
  <2>1. CASE Answer(t, Refusal("corrupt"))
    BY <1>3, <1>c, <2>1 DEF ReadFile, At
  <2>2. CASE reply' = reply /\ (Goto(t, "apply") \/ Goto(t, "loadkey"))
    BY <1>3, <1>a, <1>b, <2>2, Inside DEF ReadFile, At, Labels, PhaseOf, Contents
  <2>3. QED
    BY <1>3, <2>1, <2>2 DEF ReadFile
<1>4. ASSUME NEW t \in Threads, GetKey(t) PROVE Refined
  <2>1. /\ Goto(t, "decrypt") \/ Goto(t, "create") \/ Goto(t, "loadgen") \/ Goto(t, "savegen")
        /\ PhaseOf(pc[t]) = "called"
    BY <1>4 DEF GetKey, AfterKey, GenerateAt, PhaseOf
  <2>2. phaseMap' = phaseMap
    BY <1>a, <2>1, Inside DEF Labels, PhaseOf
  <2>3. QED
    BY <1>4, <1>b, <2>2 DEF GetKey, Contents
<1>5. ASSUME NEW t \in Threads, GenerateKey(t) PROVE Refined
  <2>1. /\ Goto(t, "decrypt") \/ Goto(t, "create")
        /\ PhaseOf(pc[t]) = "called"
    BY <1>5 DEF GenerateKey, AfterKey, PhaseOf
  <2>2. phaseMap' = phaseMap
    BY <1>a, <2>1, Inside DEF Labels, PhaseOf
  <2>3. QED
    BY <1>5, <1>b, <2>2 DEF GenerateKey, Contents
<1>6. ASSUME NEW t \in Threads, Decrypt(t) PROVE Refined
  <2>1. CASE Answer(t, Refusal("corrupt"))
    BY <1>6, <1>c, <2>1 DEF Decrypt, At
  <2>2. CASE reply' = reply /\ Goto(t, "apply")
    BY <1>6, <1>a, <1>b, <2>2, Inside DEF Decrypt, At, Labels, PhaseOf, Contents
  <2>3. QED
    BY <1>6, <2>1, <2>2 DEF Decrypt
<1>7. ASSUME NEW t \in Threads, Apply(t) PROVE Refined
  <2>1. image[t].accts = Contents
    BY <1>7 DEF Apply, At, MapInv, ImageCurrent
  <2>2. req' = req /\ Contents' = Contents /\ pc[t] = "apply"
    BY <1>7 DEF Apply, At, Contents
  <2>3. CASE Missing(req[t], Contents) /\ Answer(t, Refusal("notfound"))
    <3>1. Promised!Answer(t, Refusal("notfound"))
      BY <1>a, <2>2, <2>3, Answers
    <3>2. Promised!NotFound(t)
      BY <2>2, <2>3, <3>1, SameWords DEF Promised!NotFound
    <3>3. QED
      BY <3>2 DEF Promised!Next
  <2>4. CASE /\ ~ Missing(req[t], Contents)
             /\ ~ Writes(req[t])
             /\ Answer(t, Success(req[t], Contents))
    <3>1. Promised!Answer(t, Success(req[t], Contents))
      BY <1>a, <2>2, <2>4, Answers
    <3>2. Edit(req[t], Contents) = Contents
      BY <2>4 DEF Edit
    <3>3. Promised!Commit(t)
      BY <2>2, <2>4, <3>1, <3>2, SameWords DEF Promised!Commit
    <3>4. QED
      BY <3>3 DEF Promised!Next
  <2>5. CASE reply' = reply /\ Goto(t, "savekey")
    BY <1>a, <1>b, <2>2, <2>5, Inside DEF Labels, PhaseOf
  <2>6. QED
    BY <1>7, <2>1, <2>3, <2>4, <2>5 DEF Apply
<1>8. ASSUME NEW t \in Threads, CreateTmp(t) PROVE Refined
  BY <1>8, <1>a, <1>b, Inside DEF CreateTmp, At, Labels, PhaseOf, Contents
<1>9. ASSUME NEW t \in Threads, WriteTmp(t) PROVE Refined
  BY <1>9, <1>a, <1>b, Inside DEF WriteTmp, At, Labels, PhaseOf, Contents
<1>10. ASSUME NEW t \in Threads, Rename(t) PROVE Refined
  <2>1. /\ Contents' = Edit(req[t], Contents)
        /\ Writes(req[t]) /\ ~ Missing(req[t], Contents)
    BY <1>10, RenameEdits
  <2>2. Success(req[t], image[t].accts) = Success(req[t], Contents)
    BY <2>1 DEF Success, View, Writes
  <2>3. Promised!Answer(t, Success(req[t], Contents))
    BY <1>10, <1>a, <2>2, Answers DEF Rename, At
  <2>4. Promised!Commit(t)
    BY <2>1, <2>3, SameWords DEF Promised!Commit
  <2>5. QED
    BY <2>4 DEF Promised!Next
<1>11. ASSUME NEW t \in Threads, Fail(t) PROVE Refined
  BY <1>11, <1>c DEF Fail
<1>12. ASSUME NEW t \in Threads, Return(t) PROVE Refined
  <2>1. phaseMap[t] = "answered" /\ phaseMap' = [phaseMap EXCEPT ![t] = "idle"]
    BY <1>12, <1>a DEF Return, At, Goto, phaseMap, PhaseOf, TypeOK
  <2>2. Promised!Return(t)
    BY <1>12, <2>1 DEF Return, Contents, phaseMap, Promised!Return
  <2>3. QED
    BY <2>2 DEF Promised!Next
<1>13. ASSUME NEW p \in Processes, Stop(p) PROVE Refined
  <2> DEFINE ts == {t \in Threads : ProcessOf[t] = p}
  <2>1. phaseMap' = [t \in Threads |-> IF t \in ts THEN "idle" ELSE phaseMap[t]]
    BY <1>13 DEF Stop, phaseMap, PhaseOf
  <2>2. reply' = [t \in Threads |-> IF t \in ts THEN NoReply ELSE reply[t]]
    BY <1>13 DEF Stop
  <2>3. Contents' = Contents /\ req' = req
    BY <1>13 DEF Stop, Contents
  <2>4. Promised!Abandon(ts)
    BY <2>1, <2>2, <2>3, SameWords DEF phaseMap, Promised!Abandon
  <2>5. QED
    BY <2>4 DEF Promised!Next
<1>14. CASE UNCHANGED vars
  BY <1>14, <1>b DEF vars, phaseMap, Contents
<1>15. QED
  BY <1>1, <1>2, <1>3, <1>4, <1>5, <1>6, <1>7, <1>8, <1>9, <1>10, <1>11, <1>12, <1>13,
     <1>14 DEF Next, Step, Advance

\* As long as no caller replaces the file while another is between reading and
\* replacing it, cred.json is the atomic map of store.Store for any processes: each
\* operation takes effect at one instant, or fails and changes nothing, however
\* its steps interleave and wherever its process is killed.
THEOREM AtomicApart == Spec /\ []Apart => ImplementsAccountStore
<1>1. Spec /\ []Apart => []MapInv
  BY MapInvInit, MapInvStep, PTL DEF Spec
<1>2. MapInv /\ [Next]_vars => [Promised!Next]_(Promised!vars)
  BY RefinesStep
<1>3. QED
  BY <1>1, <1>2, RefinesInit, PTL DEF Spec, ImplementsAccountStore, Promised!Spec

\* The callers of one process have that from the mutex.
THEOREM AtomicOneProcess ==
  ASSUME OneProcess
  PROVE  Spec => ImplementsAccountStore
<1>1. Spec => []Apart
  BY OneProcessApart
<1>2. QED
  BY <1>1, AtomicApart, PTL

-----------------------------------------------------------------------------
(* Progress. *)

LEMMA LockHeldInsideStep ==
  ASSUME StoreInv, LockHeldInside, [Next]_vars
  PROVE  LockHeldInside'
<1> USE CredStoreAssumption DEF StoreInv, TypeOK, LockHeldInside, At, Goto
<1>1. ASSUME NEW t \in Threads, NEW r \in Requests, Call(t, r) PROVE LockHeldInside'
  BY <1>1 DEF Call
<1>2. ASSUME NEW t \in Threads, Lock(t) PROVE LockHeldInside'
  BY <1>2 DEF Lock
<1>3. ASSUME NEW t \in Threads, NEW label, Goto(t, label), lock' = lock,
             label \notin {"idle", "lock"}
      PROVE  LockHeldInside'
  BY <1>3
<1>4. ASSUME NEW t \in Threads, Advance(t) \/ Fail(t), ~ Return(t) PROVE LockHeldInside'
  BY <1>3, <1>4 DEF Advance, Fail, ReadFile, GetKey, GenerateKey, Decrypt, Apply,
                    CreateTmp, WriteTmp, Rename, Answer, AfterKey, GenerateAt
<1>5. ASSUME NEW t \in Threads, Return(t) PROVE LockHeldInside'
  <2>1. lock[ProcessOf[t]] = t
    BY <1>5 DEF Return, HoldsLock
  <2>2. QED
    BY <1>5, <2>1 DEF Return
<1>6. ASSUME NEW p \in Processes, Stop(p) PROVE LockHeldInside'
  BY <1>6 DEF Stop
<1>7. CASE UNCHANGED vars
  BY <1>7 DEF vars
<1>8. QED
  BY <1>1, <1>2, <1>4, <1>5, <1>6, <1>7 DEF Next, Step

LEMMA ForwardStep ==
  ASSUME TypeOK, [Next]_vars, NEW u \in Threads, pc[u] # "idle", pc'[u] # pc[u]
  PROVE  StepsLeft(pc'[u]) < StepsLeft(pc[u])
<1> USE DEF TypeOK, At, Goto, StepsLeft
<1>1. ASSUME NEW t \in Threads, Step(t) PROVE u = t
  BY <1>1 DEF Step, Advance, Lock, Fail, ReadFile, GetKey, GenerateKey, Decrypt, Apply,
              CreateTmp, WriteTmp, Rename, Return, Answer
<1>2. CASE Lock(u)
  BY <1>2 DEF Lock
<1>3. CASE ReadFile(u)
  BY <1>3 DEF ReadFile, Answer
<1>4. CASE GetKey(u)
  BY <1>4 DEF GetKey, AfterKey, GenerateAt
<1>5. CASE GenerateKey(u)
  BY <1>5 DEF GenerateKey, AfterKey
<1>6. CASE Decrypt(u)
  BY <1>6 DEF Decrypt, Answer
<1>7. CASE Apply(u)
  BY <1>7 DEF Apply, Answer
<1>8. CASE CreateTmp(u) \/ WriteTmp(u)
  BY <1>8 DEF CreateTmp, WriteTmp
<1>9. CASE Rename(u) \/ Return(u)
  BY <1>9 DEF Rename, Return, Answer
<1>10. CASE Fail(u)
  BY <1>10 DEF Fail, Answer
<1>11. ASSUME NEW t \in Threads, NEW r \in Requests, Call(t, r) PROVE FALSE
  BY <1>11 DEF Call
<1>12. ASSUME NEW p \in Processes, Stop(p) PROVE pc'[u] = "idle"
  BY <1>12 DEF Stop
<1>13. pc'[u] = "idle" => StepsLeft(pc'[u]) < StepsLeft(pc[u])
  BY DEF Labels
<1>14. QED
  BY <1>1, <1>2, <1>3, <1>4, <1>5, <1>6, <1>7, <1>8, <1>9, <1>10, <1>11, <1>12, <1>13
     DEF Next, Step, Advance, vars

\* What EveryCallReturns leaves to fairness is that a caller who can go on does, and
\* that a mutex which is handed back again and again is handed to everyone: for any
\* processes and callers, failures and exits included, the mutex is never left locked
\* by a caller who has returned or gone (defer s.mu.Unlock(), keychain.go:86), and an operation
\* is over after at most twelve steps.
THEOREM CallsAreBounded == Spec => []LockHeldInside /\ OperationsGoForward
<1> DEFINE Forward == \A t \in Threads :
                         pc[t] # "idle" /\ pc'[t] # pc[t]
                            => StepsLeft(pc'[t]) < StepsLeft(pc[t])
           Inv == StoreInv /\ LockHeldInside
<1>1. Init => Inv
  BY StoreInvInit DEF Init, LockHeldInside
<1>2. Inv /\ [Next]_vars => Inv'
  BY StoreInvStep, LockHeldInsideStep
<1>3. Inv /\ [Next]_vars => [Forward]_vars
  BY ForwardStep DEF StoreInv
<1>4. Inv => LockHeldInside
  OBVIOUS
<1> HIDE DEF Inv, Forward
<1>5. Spec => []LockHeldInside /\ [][Forward]_vars
  BY <1>1, <1>2, <1>3, <1>4, PTL DEF Spec
<1>6. QED
  BY <1>5 DEF OperationsGoForward, Forward

=============================================================================

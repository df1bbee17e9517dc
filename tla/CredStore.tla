------------------------------ MODULE CredStore ------------------------------
(***************************************************************************)
(* internal/store/keychain.go: token records in one encrypted file, sealed *)
(* under a master key that lives in the OS keychain.                       *)
(*                                                                         *)
(* Every Put and Delete is a read-modify-write of the whole file: read it, *)
(* fetch the key, decrypt, change the map, seal it, write a temporary file *)
(* named after the process id, rename it over cred.json.  A mutex orders   *)
(* the callers of one process; nothing orders two processes.  Between any  *)
(* two system calls another caller may run, a call may fail, or the        *)
(* process may end (it exits, or it is killed).                            *)
(***************************************************************************)
EXTENDS Naturals, Accounts

CONSTANTS Threads,      \* callers of the store
          Processes,    \* apl processes (process ids)
          ProcessOf,    \* the process a caller runs in
          NoThread,     \* the mutex is free
          Keys, NoKey,  \* AES-256 keys
          NoFile,       \* no such file
          Garbage,      \* a file that is not a complete credFile
          Installs      \* the states of the machine apl may start on

InstallKinds == {"fresh", "keyed", "established", "foreign", "damaged"}

ASSUME CredStoreAssumption ==
    /\ ProcessOf \in [Threads -> Processes]
    /\ NoThread \notin Threads
    /\ NoKey \notin Keys
    /\ Installs \subseteq InstallKinds

\* A complete file: the key it is sealed under and the map inside.
Files == [key : Keys, accts : Accts]

ASSUME FileAssumption ==
    /\ NoFile \notin Files
    /\ Garbage \notin Files
    /\ NoFile # Garbage

VARIABLES
    keychain,  \* the master-key entry of the OS keychain
    file,      \* cred.json
    tmp,       \* per process: cred.json.<pid>.tmp
    cache,     \* per process: keychainStore.key
    lock,      \* per process: the holder of keychainStore.mu
    pc,        \* per caller: where it stands in its operation
    req,       \* per caller: the operation
    image,     \* per caller: the key the bytes it read are sealed under, and
               \* the map it decrypted and then edits
    reply      \* per caller: what the operation returned

vars == <<keychain, file, tmp, cache, lock, pc, req, image, reply>>

-----------------------------------------------------------------------------
Labels == {"idle", "lock", "read", "loadkey", "loadgen", "decrypt", "apply",
           "savekey", "savegen", "create", "write", "rename", "return"}

Images == [key : Keys \union {NoKey}, accts : Accts]
NoImage == [key |-> NoKey, accts |-> NoAccounts]

TypeOK ==
    /\ keychain \in Keys \union {NoKey}
    /\ file \in Files \union {NoFile, Garbage}
    /\ tmp \in [Processes -> Files \union {NoFile, Garbage}]
    /\ cache \in [Processes -> Keys \union {NoKey}]
    /\ lock \in [Processes -> Threads \union {NoThread}]
    /\ pc \in [Threads -> Labels]
    /\ req \in [Threads -> Requests]
    /\ image \in [Threads -> Images]
    /\ reply \in [Threads -> Replies]

\* The file can be opened with the key in the keychain.
Sealed == file \in Files /\ file.key = keychain

\* The machine apl starts on: never used; used once and killed after it had
\* stored the key; in use; a cred.json without its key (copied from another
\* machine, or the keychain entry is gone); a damaged cred.json.
StartsOn(kind) ==
    /\ kind = "fresh" => file = NoFile /\ keychain = NoKey
    /\ kind = "keyed" => file = NoFile /\ keychain # NoKey
    /\ kind = "established" => Sealed
    /\ kind = "foreign" => file \in Files /\ ~ Sealed
    /\ kind = "damaged" => file = Garbage

Init ==
    /\ keychain \in Keys \union {NoKey}
    /\ file \in Files \union {NoFile, Garbage}
    /\ \E kind \in Installs : StartsOn(kind)
    /\ tmp = [p \in Processes |-> NoFile]
    /\ cache = [p \in Processes |-> NoKey]
    /\ lock = [p \in Processes |-> NoThread]
    /\ pc = [t \in Threads |-> "idle"]
    /\ req \in [Threads -> [kind : {"list"}, handle : Handles, rec : {NoRecord}]]
    /\ image = [t \in Threads |-> NoImage]
    /\ reply = [t \in Threads |-> NoReply]

-----------------------------------------------------------------------------
At(t, label) == pc[t] = label

(* Definitions named Bug... are mutations of the one that follows them: what *)
(* a plausible slip in the code would do.  No specification uses them.      *)

\* The process id left out of the name.
BugTmpSharedName(t) == CHOOSE p \in Processes : TRUE

\* The temporary file a caller uses: its name ends in the process id.
TmpOf(t) == ProcessOf[t]

Goto(t, label) == pc' = [pc EXCEPT ![t] = label]

\* The deferred Unlock runs when the caller returns, so every way out of an
\* operation passes through "return".
Answer(t, r) ==
    /\ Goto(t, "return")
    /\ reply' = [reply EXCEPT ![t] = r]

Call(t, r) ==
    /\ At(t, "idle")
    /\ Goto(t, "lock")
    /\ req' = [req EXCEPT ![t] = r]
    /\ reply' = [reply EXCEPT ![t] = NoReply]
    /\ UNCHANGED <<keychain, file, tmp, cache, lock, image>>

\* No mutex.
BugLockNoMutex(t) ==
    /\ At(t, "lock")
    /\ lock' = [lock EXCEPT ![ProcessOf[t]] = t]
    /\ Goto(t, "read")
    /\ UNCHANGED <<keychain, file, tmp, cache, req, image, reply>>

Lock(t) ==
    /\ At(t, "lock")
    /\ lock[ProcessOf[t]] = NoThread
    /\ lock' = [lock EXCEPT ![ProcessOf[t]] = t]
    /\ Goto(t, "read")
    /\ UNCHANGED <<keychain, file, tmp, cache, req, image, reply>>

\* Any read error taken for a missing file.
BugReadErrorIsEmpty(t) ==
    /\ At(t, "read")
    /\ \/ /\ image' = [image EXCEPT ![t] = NoImage]
          /\ Goto(t, "apply")
       \/ /\ file \in Files
          /\ image' = [image EXCEPT ![t] = file]
          /\ Goto(t, "loadkey")
    /\ UNCHANGED <<keychain, file, tmp, cache, lock, req, reply>>

\* os.ReadFile and the parsing of the wrapper.  A missing file is an empty
\* map, and the keychain is left alone.
ReadFile(t) ==
    /\ At(t, "read")
    /\ \/ /\ file = NoFile
          /\ image' = [image EXCEPT ![t] = NoImage]
          /\ Goto(t, "apply")
          /\ UNCHANGED reply
       \/ /\ file = Garbage
          /\ Answer(t, Refusal("corrupt"))
          /\ UNCHANGED image
       \/ /\ file \in Files
          /\ image' = [image EXCEPT ![t] = file]
          /\ Goto(t, "loadkey")
          /\ UNCHANGED reply
    /\ UNCHANGED <<keychain, file, tmp, cache, lock, req>>

\* getKey serves loadPlainLocked and savePlainLocked; each goes on with it.
AfterKey(label) == IF label \in {"loadkey", "loadgen"} THEN "decrypt" ELSE "create"
GenerateAt(label) == IF label = "loadkey" THEN "loadgen" ELSE "savegen"

\* getKey: the cached key, else keyring.Get.
GetKey(t) ==
    /\ pc[t] \in {"loadkey", "savekey"}
    /\ \/ /\ cache[ProcessOf[t]] # NoKey
          /\ Goto(t, AfterKey(pc[t]))
          /\ UNCHANGED cache
       \/ /\ cache[ProcessOf[t]] = NoKey
          /\ keychain # NoKey
          /\ cache' = [cache EXCEPT ![ProcessOf[t]] = keychain]
          /\ Goto(t, AfterKey(pc[t]))
       \/ /\ cache[ProcessOf[t]] = NoKey
          /\ keychain = NoKey
          /\ Goto(t, GenerateAt(pc[t]))
          /\ UNCHANGED cache
    /\ UNCHANGED <<keychain, file, tmp, lock, req, image, reply>>

\* Keys that exist somewhere; 32 random bytes are never one of them.
KeysInUse ==
    {keychain} \union {cache[p] : p \in Processes}
      \union {image[t].key : t \in Threads}
      \union {f.key : f \in ({file} \union {tmp[p] : p \in Processes}) \intersect Files}

\* keyring.Set forgotten; s.key = k forgotten.
BugGenerateKeyUnsaved(t) ==
    /\ pc[t] \in {"loadgen", "savegen"}
    /\ \E k \in Keys \ KeysInUse : cache' = [cache EXCEPT ![ProcessOf[t]] = k]
    /\ Goto(t, AfterKey(pc[t]))
    /\ UNCHANGED <<keychain, file, tmp, lock, req, image, reply>>

BugGenerateKeyUncached(t) ==
    /\ pc[t] \in {"loadgen", "savegen"}
    /\ keychain' \in Keys \ KeysInUse
    /\ Goto(t, AfterKey(pc[t]))
    /\ UNCHANGED <<file, tmp, cache, lock, req, image, reply>>

\* getKey, first use: keyring.Set of a new key.  The entry is not looked at
\* again, so one that another process stored meanwhile is overwritten.
GenerateKey(t) ==
    /\ pc[t] \in {"loadgen", "savegen"}
    /\ \E k \in Keys \ KeysInUse :
          /\ keychain' = k
          /\ cache' = [cache EXCEPT ![ProcessOf[t]] = k]
    /\ Goto(t, AfterKey(pc[t]))
    /\ UNCHANGED <<file, tmp, lock, req, image, reply>>

\* A file that cannot be opened taken for an empty one.
BugDecryptStartsAfresh(t) ==
    /\ At(t, "decrypt")
    /\ image' = [image EXCEPT ![t] =
                    IF @.key = cache[ProcessOf[t]] THEN @ ELSE NoImage]
    /\ Goto(t, "apply")
    /\ UNCHANGED <<keychain, file, tmp, cache, lock, req, reply>>

\* aead.Open fails unless the key is the one that sealed the file.
Decrypt(t) ==
    /\ At(t, "decrypt")
    /\ \/ /\ image[t].key = cache[ProcessOf[t]]
          /\ Goto(t, "apply")
          /\ UNCHANGED reply
       \/ /\ image[t].key # cache[ProcessOf[t]]
          /\ Answer(t, Refusal("corrupt"))
    /\ UNCHANGED <<keychain, file, tmp, cache, lock, req, image>>

\* Delete does not look whether the record exists.
BugApplyUnchecked(t) ==
    /\ At(t, "apply")
    /\ IF Writes(req[t])
       THEN /\ image' = [image EXCEPT ![t].accts = Edit(req[t], @)]
            /\ Goto(t, "savekey")
            /\ UNCHANGED reply
       ELSE /\ Answer(t, Success(req[t], image[t].accts))
            /\ UNCHANGED image
    /\ UNCHANGED <<keychain, file, tmp, cache, lock, req>>

\* What Put, Get, List and Delete do with the loaded map.
Apply(t) ==
    LET r == req[t]
        accts == image[t].accts
    IN  /\ At(t, "apply")
        /\ \/ /\ Missing(r, accts)
              /\ Answer(t, Refusal("notfound"))
              /\ UNCHANGED image
           \/ /\ ~ Missing(r, accts)
              /\ ~ Writes(r)
              /\ Answer(t, Success(r, accts))
              /\ UNCHANGED image
           \/ /\ ~ Missing(r, accts)
              /\ Writes(r)
              /\ image' = [image EXCEPT ![t].accts = Edit(r, accts)]
              /\ Goto(t, "savekey")
              /\ UNCHANGED reply
        /\ UNCHANGED <<keychain, file, tmp, cache, lock, req>>

\* os.OpenFile with O_TRUNC: what an earlier process of this id left is gone.
CreateTmp(t) ==
    /\ At(t, "create")
    /\ tmp' = [tmp EXCEPT ![TmpOf(t)] = Garbage]
    /\ Goto(t, "write")
    /\ UNCHANGED <<keychain, file, cache, lock, req, image, reply>>

\* Write, fsync, close and chmod of the sealed map.
WriteTmp(t) ==
    /\ At(t, "write")
    /\ tmp' = [tmp EXCEPT ![TmpOf(t)] =
                  [key |-> cache[ProcessOf[t]], accts |-> image[t].accts]]
    /\ Goto(t, "rename")
    /\ UNCHANGED <<keychain, file, cache, lock, req, image, reply>>

Rename(t) ==
    /\ At(t, "rename")
    /\ file' = tmp[TmpOf(t)]
    /\ tmp' = [tmp EXCEPT ![TmpOf(t)] = NoFile]
    /\ Answer(t, Success(req[t], image[t].accts))
    /\ UNCHANGED <<keychain, cache, lock, req, image>>

\* The system call at hand fails (the keychain is unavailable or denied, the
\* disk is full, ...).  After the temporary file exists it is removed, and an
\* error of os.Remove is ignored.  A cached key cannot fail.
Fail(t) ==
    /\ pc[t] \in {"read", "loadkey", "loadgen", "savekey", "savegen",
                  "create", "write", "rename"}
    /\ pc[t] \in {"loadkey", "savekey"} => cache[ProcessOf[t]] = NoKey
    /\ \/ pc[t] \in {"write", "rename"} /\ tmp' = [tmp EXCEPT ![TmpOf(t)] = NoFile]
       \/ UNCHANGED tmp
    /\ Answer(t, Refusal("failed"))
    /\ UNCHANGED <<keychain, file, cache, lock, req, image>>

\* No deferred Unlock: an error path returns with the mutex held.
BugReturnLocked(t) ==
    /\ At(t, "return")
    /\ lock' = IF reply[t].status \in Errors THEN lock
               ELSE [lock EXCEPT ![ProcessOf[t]] = NoThread]
    /\ Goto(t, "idle")
    /\ image' = [image EXCEPT ![t] = NoImage]
    /\ UNCHANGED <<keychain, file, tmp, cache, req, reply>>

Return(t) ==
    /\ At(t, "return")
    /\ lock' = [lock EXCEPT ![ProcessOf[t]] = NoThread]
    /\ Goto(t, "idle")
    /\ image' = [image EXCEPT ![t] = NoImage]
    /\ UNCHANGED <<keychain, file, tmp, cache, req, reply>>

\* The process exits or is killed; another of the same id may start later.
Stop(p) ==
    /\ cache' = [cache EXCEPT ![p] = NoKey]
    /\ lock' = [lock EXCEPT ![p] = NoThread]
    /\ pc' = [t \in Threads |-> IF ProcessOf[t] = p THEN "idle" ELSE pc[t]]
    /\ reply' = [t \in Threads |-> IF ProcessOf[t] = p THEN NoReply ELSE reply[t]]
    /\ image' = [t \in Threads |-> IF ProcessOf[t] = p THEN NoImage ELSE image[t]]
    /\ UNCHANGED <<keychain, file, tmp, req>>

-----------------------------------------------------------------------------
\* What a caller does once it holds the mutex, its failures left out.
Advance(t) ==
    \/ ReadFile(t) \/ GetKey(t) \/ GenerateKey(t) \/ Decrypt(t) \/ Apply(t)
    \/ CreateTmp(t) \/ WriteTmp(t) \/ Rename(t) \/ Return(t)

Step(t) == Lock(t) \/ Advance(t) \/ Fail(t)

Next ==
    \/ \E t \in Threads :
          \/ \E r \in Requests : Call(t, r)
          \/ Step(t)
    \/ \E p \in Processes : Stop(p)

Spec == Init /\ [][Next]_vars

\* System calls return, and sync.Mutex hands itself to a waiter in the end
\* (its starvation mode).  No fairness for failures, new calls and exits.
Fairness == \A t \in Threads : WF_vars(Advance(t)) /\ SF_vars(Lock(t))

FairSpec == Spec /\ Fairness

-----------------------------------------------------------------------------
\* The records a user has.
Contents == IF file \in Files THEN file.accts ELSE NoAccounts

\* keychain.go:242 "Atomic write": whatever is interrupted, by a failure, an
\* exit or another caller, cred.json changes only from one complete file to
\* another.  It needs the mutex, as the callers of a process share the name of
\* the temporary file, and the process id in that name.
OnlyWholeFilesAppear == [][file' # file => file' \in Files]_vars

\* A file that was written can be read again: the key in the keychain is the
\* one that seals it.  For installs that start readable.
Readable == file # NoFile => Sealed

\* A cred.json that cannot be opened (damaged, or sealed under a key that the
\* keychain does not hold) is never replaced: no operation answers "corrupt"
\* and then destroys what it could not read.
UnreadableFileKept == [][file # NoFile /\ ~ Sealed => file' = file]_vars

\* A record appears, changes or goes only when an operation on its own handle
\* completes: Put and Delete write back the whole map, and must not undo what
\* happened to the other accounts since they read it.
OtherAccountsKept ==
    [][\A h \in Handles :
          Contents'[h] # Contents[h] =>
            \E t \in Threads :
               /\ At(t, "rename") /\ pc'[t] = "return"
               /\ Writes(req[t]) /\ req[t].handle = h]_vars

\* An account that is stored stays until a Delete of it completes: what a completed
\* Put has stored is not lost because another process wrote back a map it had read
\* before (spec-token-storage.md:21).
NoAccountLost ==
    [][\A h \in Handles :
          Contents[h] # NoRecord /\ Contents'[h] = NoRecord =>
            \E t \in Threads :
               /\ At(t, "rename") /\ pc'[t] = "return"
               /\ req[t].kind = "delete" /\ req[t].handle = h]_vars

\* Every operation returns (to a caller whose process goes on): no way out of
\* it leaves the mutex locked.
EveryCallReturns == \A t \in Threads : pc[t] # "idle" ~> pc[t] = "idle"

-----------------------------------------------------------------------------
(* Inductive strengthenings. *)

\* A caller that has fetched the key for saving has it cached.
KeyCached ==
    \A t \in Threads : pc[t] \in {"create", "write"} => cache[ProcessOf[t]] # NoKey

\* A caller inside an operation holds the mutex of its process.
HoldsLock ==
    \A t \in Threads : pc[t] \notin {"idle", "lock"} => lock[ProcessOf[t]] = t

\* The file about to be renamed is complete, and is the one its caller wrote.
TmpWritten ==
    \A t \in Threads :
       At(t, "rename") =>
          /\ tmp[TmpOf(t)] \in Files
          /\ tmp[TmpOf(t)].accts = image[t].accts

\* Every key in sight is the one in the keychain, and a caller about to
\* generate one has seen an empty entry that is still empty.
KeysAgree ==
    /\ \A p \in Processes :
          /\ cache[p] \in {NoKey, keychain}
          /\ tmp[p] \in Files => tmp[p].key = keychain
    /\ Readable
    /\ \A t \in Threads : pc[t] \in {"loadgen", "savegen"} => keychain = NoKey

\* The file cannot be opened, and nobody gets past the attempt: the key that sealed it
\* is not at hand, and no operation is about to write.
Unreadable ==
    /\ file # NoFile /\ ~ Sealed
    /\ \A p \in Processes : file \in Files => cache[p] # file.key
    /\ \A t \in Threads :
          /\ pc[t] \notin {"apply", "savekey", "savegen", "create", "write", "rename"}
          /\ pc[t] \in {"loadkey", "loadgen", "decrypt"} => file \in Files /\ image[t] = file

\* What a caller has read is what the file holds, and what it is about to
\* write is that with its own change.
ImageCurrent ==
    \A t \in Threads :
       /\ pc[t] \in {"loadkey", "loadgen", "decrypt", "apply"} =>
             image[t].accts = Contents
       /\ pc[t] \in {"savekey", "savegen", "create", "write", "rename"} =>
             /\ Writes(req[t])
             /\ ~ Missing(req[t], Contents)
             /\ image[t].accts = Edit(req[t], Contents)

\* All callers live in one process.
OneProcess == \A t, u \in Threads : ProcessOf[t] = ProcessOf[u]

\* The steps between reading the file and replacing it.
Between == {"loadkey", "loadgen", "decrypt", "apply", "savekey", "savegen", "create",
            "write", "rename"}

\* No caller replaces the file while another is between reading and replacing it:
\* what the mutex sees to in one process, and a file lock would in several.
Apart ==
    \A t, u \in Threads : At(t, "rename") /\ pc[u] \in Between => t = u

\* On a machine without a file no two callers are about to generate a key.
FirstUseApart ==
    file = NoFile =>
       \A t, u \in Threads :
          pc[t] \in {"loadgen", "savegen"} /\ pc[u] \in {"loadgen", "savegen"} => t = u

-----------------------------------------------------------------------------
(* What EveryCallReturns rests on, as properties of states and steps. *)

\* The holder of a mutex is inside an operation, in the process of the mutex: who
\* waits for it waits for a caller that can go on.
LockHeldInside ==
    \A p \in Processes :
       lock[p] # NoThread => /\ lock[p] \in Threads
                             /\ ProcessOf[lock[p]] = p
                             /\ pc[lock[p]] \notin {"idle", "lock"}

\* How many steps an operation has before it at most.
StepsLeft(label) ==
    CASE label = "lock" -> 12
      [] label = "read" -> 11
      [] label = "loadkey" -> 10
      [] label = "loadgen" -> 9
      [] label = "decrypt" -> 8
      [] label = "apply" -> 7
      [] label = "savekey" -> 6
      [] label = "savegen" -> 5
      [] label = "create" -> 4
      [] label = "write" -> 3
      [] label = "rename" -> 2
      [] label = "return" -> 1
      [] label = "idle" -> 0

\* An operation never goes back, whatever fails: twelve steps end it.
OperationsGoForward ==
    [][\A t \in Threads :
          pc[t] # "idle" /\ pc'[t] # pc[t] => StepsLeft(pc'[t]) < StepsLeft(pc[t])]_vars

-----------------------------------------------------------------------------
\* The atomic map of store.Store, and that the file implements it.
PhaseOf(label) ==
    CASE label = "idle" -> "idle"
      [] label = "return" -> "answered"
      [] OTHER -> "called"

Promised == INSTANCE AccountStore WITH
                accounts <- Contents,
                phase <- [t \in Threads |-> PhaseOf(pc[t])],
                request <- req

ImplementsAccountStore == Promised!Spec
=============================================================================

--------------------------- MODULE SetupRunnerProofs ---------------------------
(***************************************************************************)
(* Theorems about SetupRunner, for both providers, any app registrations   *)
(* and whichever failures occur: its type correctness, its safety          *)
(* properties and the bound on what one run does.                          *)
(***************************************************************************)
EXTENDS SetupRunner, TLAPS

-----------------------------------------------------------------------------
(* The step lists. *)

Lists == {FullSteps, ReuseSteps, MicrosoftSteps}

\* No list has a step twice.
LEMMA ListsDistinct ==
    ASSUME NEW l \in Lists, NEW i \in DOMAIN l, NEW k \in DOMAIN l, l[i] = l[k]
    PROVE  i = k
<1>1. CASE l = FullSteps
  BY <1>1 DEF FullSteps
<1>2. CASE l = ReuseSteps
  BY <1>2 DEF ReuseSteps
<1>3. CASE l = MicrosoftSteps
  BY <1>3 DEF MicrosoftSteps
<1> QED
  BY <1>1, <1>2, <1>3 DEF Lists

LEMMA ListLengths ==
    ASSUME NEW l \in Lists
    PROVE  Len(l) \in Nat \ {0} /\ DOMAIN l = 1 .. Len(l)
BY DEF Lists, FullSteps, ReuseSteps, MicrosoftSteps

\* The list of a provider has its steps.
LEMMA ListTyped ==
    ASSUME provider \in {"google", "ms"}, NEW reuse \in BOOLEAN
    PROVE  /\ StepList(reuse) \in Lists
           /\ \A i \in DOMAIN StepList(reuse) : StepList(reuse)[i] \in Ids
BY DEF StepList, Lists, Ids, IdsOf, Elements

LEMMA NewTyped == NewJournal \in Journals
BY DEF NewJournal, StepState, Journals, JournalsOf, StepStatesOf, Statuses, Outputs, Ids

LEMMA NoActionTyped == NoAction \in StepStatesOf(provider)
BY DEF NoAction, StepState, StepStatesOf, Statuses, Outputs

-----------------------------------------------------------------------------
(* Type correctness, of the machine and of the process. *)

MachineOK ==
    /\ provider \in Providers
    /\ faults \in FaultSets
    /\ disk = NoJournal \/ disk \in Journals
    /\ config = NoConfig \/ config \in Configs
    /\ signedIn \in BOOLEAN
    /\ apps \in SUBSET Apps
    /\ permitted \in SUBSET Values

ProcessOK ==
    /\ pc \in {"off", "scan", "step", "returned", "persist", "cleanup"}
    /\ st \in Journals
    /\ list \in {StepList(reuse) : reuse \in BOOLEAN}
    /\ pos \in 1 .. Len(list) + 1
    /\ pc \in {"step", "returned"} => pos \in DOMAIN list
    /\ act \in StepStatesOf(provider)
    /\ exit \in {"none", "completed", "suspended", "failed", "killed"}

LEMMA TypeParts ==
    /\ TypeOK <=> MachineOK /\ ProcessOK
    /\ TypeOK' <=> MachineOK' /\ ProcessOK'
BY DEF TypeOK, MachineOK, ProcessOK

LEMMA ListAtWork ==
    ASSUME TypeOK
    PROVE  /\ provider \in {"google", "ms"}
           /\ list \in Lists
           /\ \A i \in DOMAIN list : list[i] \in Ids
<1>1. provider \in {"google", "ms"}
  BY SetupAssumption DEF TypeOK
<1> QED
  BY <1>1, ListTyped DEF TypeOK

\* The provider never changes, nor what depends on it.
LEMMA ProviderFixed ==
    ASSUME UNCHANGED provider
    PROVE  /\ UNCHANGED <<Ids, Fields, Journals, NewJournal>>
           /\ StepStatesOf(provider)' = StepStatesOf(provider)
           /\ \A reuse \in BOOLEAN : StepList(reuse)' = StepList(reuse)
BY DEF Ids, Fields, Journals, NewJournal, StepList

LEMMA FinishTyped ==
    ASSUME provider \in {"google", "ms"}, UNCHANGED provider,
           NEW how \in {"completed", "suspended", "failed", "killed"}, Finish(how)
    PROVE  ProcessOK'
<1>1. /\ Len(StepList(FALSE)) \in Nat
      /\ st' \in Journals'
      /\ act' \in StepStatesOf(provider)'
      /\ list' \in {StepList(reuse) : reuse \in BOOLEAN}'
  BY ProviderFixed, NewTyped, NoActionTyped, ListTyped, ListLengths DEF Finish
<1>2. list' = StepList(FALSE) /\ pc' = "off" /\ pos' = 1 /\ exit' = how
  BY DEF Finish
<1>3. pos' \in 1 .. Len(list') + 1
  <2> DEFINE l == StepList(FALSE)
  <2>1. Len(l) \in Nat /\ list' = l /\ pos' = 1
    BY <1>1, <1>2
  <2> HIDE DEF l
  <2> QED
    BY <2>1
<1> QED
  BY <1>1, <1>2, <1>3 DEF ProcessOK

\* The journal with another state of the step at work.
LEMMA JournalTyped ==
    ASSUME TypeOK, NEW s \in StepStatesOf(provider)
    PROVE  [st EXCEPT !.steps[Id] = s] \in Journals
BY DEF TypeOK, ProcessOK, Journals, JournalsOf

LEMMA StepStateTyped ==
    ASSUME NEW s \in Statuses, NEW out \in Outputs, NEW fields \in SUBSET Fields
    PROVE  StepState(s, out, fields) \in StepStatesOf(provider)
BY DEF StepState, StepStatesOf, Fields

\* Record and RecordLast, at a step of the list.
LEMMA RecordTyped ==
    ASSUME TypeOK, NEW s \in StepStatesOf(provider), NEW next, NEW label \in {"scan", "step"},
           pos \in DOMAIN list, next = pos \/ (next = pos + 1 /\ label = "scan"),
           Record(s, next, label), UNCHANGED <<config, world>>
    PROVE  TypeOK'
<1>1. provider \in {"google", "ms"} /\ UNCHANGED provider
  BY ListAtWork DEF world, fixed
<1>2. CASE Finish("failed") /\ UNCHANGED disk
  BY <1>1, <1>2, FinishTyped, ProviderFixed, TypeParts DEF MachineOK, world, fixed
<1>3. ASSUME NEW j, j = [st EXCEPT !.steps[Id] = s], disk' = j, st' = j, pos' = next,
             pc' = label, act' = NoAction, UNCHANGED <<list, exit>>
      PROVE  TypeOK'
  <2>1. j \in Journals
    BY <1>3, JournalTyped
  <2>2. DOMAIN list = 1 .. Len(list) /\ Len(list) \in Nat
    BY ListAtWork, ListLengths
  <2>3. MachineOK'
    BY <1>1, <1>3, <2>1, ProviderFixed DEF TypeOK, MachineOK, world, fixed
  <2>4. pos' \in 1 .. Len(list) + 1 /\ (pc' \in {"step", "returned"} => pos' \in DOMAIN list)
    BY <1>3, <2>2
  <2>5. ProcessOK'
    BY <1>1, <1>3, <2>1, <2>4, ProviderFixed, NoActionTyped DEF TypeOK, ProcessOK
  <2> QED
    BY <2>3, <2>5, TypeParts
<1> QED
  BY <1>2, <1>3 DEF Record

LEMMA RecordLastTyped ==
    ASSUME TypeOK, NEW s \in StepStatesOf(provider), NEW how \in {"suspended", "failed"},
           RecordLast(s, how), UNCHANGED <<config, world>>
    PROVE  TypeOK'
<1>1. provider \in {"google", "ms"} /\ UNCHANGED provider
  BY ListAtWork DEF world, fixed
<1>2. disk' = NoJournal \/ disk' \in Journals
  BY JournalTyped DEF RecordLast, TypeOK, MachineOK
<1> QED
  BY <1>1, <1>2, FinishTyped, ProviderFixed, TypeParts DEF RecordLast, MachineOK, world, fixed

\* What a step returns.
LEMMA OutputsTyped ==
    ASSUME NEW id, NEW key
    PROVE  OutputOf(id, key) \in SUBSET Values
BY DEF OutputOf

LEMMA ReturnsTyped ==
    ASSUME NEW out \in Outputs, NEW fields \in SUBSET Fields
    PROVE  {DoneWith(out), AskFor(fields), AwaitHuman, Failed} \subseteq StepStatesOf(provider)
BY StepStateTyped DEF DoneWith, AskFor, AwaitHuman, Failed, StepState, Statuses, Outputs,
   StepStatesOf, Fields

LEMMA ResultsTyped ==
    ASSUME TypeOK, NEW id \in Ids
    PROVE  Results(id) \subseteq StepStatesOf(provider)
<1> DEFINE T == StepStatesOf(provider)
<1>1. provider \in {"google", "ms"}
  BY ListAtWork
<1>2. {"own", "other", "given"} \subseteq Values /\ AppId \subseteq Values
  BY DEF Values, AppId, OutputOf
<1>3. \A key \in {"account", "project_id", "client_id", "app_id", "tenant"}, v \in Values :
         {<<key, v>>} \in Outputs
  BY DEF Outputs
<1>4. /\ {} \in Outputs
      /\ {<<"account", "own">>, <<"tenant", "own">>} \in Outputs
      /\ {<<"project_id", "other">>, <<"client_id", "other">>} \in Outputs
  BY <1>2 DEF Outputs
<1>5. \A out \in Outputs : DoneWith(out) \in T
  BY ReturnsTyped
<1>6. AwaitHuman \in T /\ Failed \in T
  BY <1>4, ReturnsTyped
<1>7. \A fields \in SUBSET Fields : AskFor(fields) \in T
  BY <1>4, ReturnsTyped
<1> HIDE DEF T
<1>8. ASSUME provider = "ms"
      PROVE  Results(id) \subseteq T
  <2>1. id \in {"account", "app_pick", "app_create", "permissions", "admin_consent_notice"}
    BY <1>8 DEF Ids, IdsOf, Elements, MicrosoftSteps
  <2>2. CASE id = "account"
    BY <1>4, <1>5, <1>6, <1>8, <2>2 DEF Results, AccountResults
  <2>3. CASE id = "app_pick"
    BY <1>2, <1>3, <1>4, <1>5, <2>3 DEF Results
  <2>4. CASE id = "app_create"
    BY <1>2, <1>3, <1>5, <2>4 DEF Results
  <2>5. CASE id = "permissions"
    BY <1>4, <1>5, <1>6, <2>5 DEF Results
  <2>6. CASE id = "admin_consent_notice"
    BY <1>4, <1>5, <1>6, <2>6 DEF Results, NoticeResults
  <2> QED
    BY <2>1, <2>2, <2>3, <2>4, <2>5, <2>6
<1>9. ASSUME provider = "google"
      PROVE  Results(id) \subseteq T
  <2>1. id \in {"account", "project", "enable_apis", "consent_screen", "scopes_and_test_user",
               "client_create", "client_file", "reuse_confirm", "add_test_user", "save_reuse"}
    BY <1>9 DEF Ids, IdsOf, Elements, FullSteps, ReuseSteps
  <2>2. {{"account"}, {"project_id"}, {"client_secret_file"}, {"reuse_confirm"}} \subseteq SUBSET Fields
    BY <1>9 DEF Fields, FieldsOf
  <2>3. CASE id = "account"
    BY <1>2, <1>3, <1>5, <1>6, <1>7, <1>9, <2>2, <2>3 DEF Results, AccountResults
  <2>4. CASE id = "project"
    BY <1>2, <1>3, <1>5, <1>7, <2>2, <2>4 DEF Results, ProjectResults
  <2>5. CASE id = "enable_apis"
    BY <1>4, <1>5, <1>6, <2>5 DEF Results, NeedsProject
  <2>6. CASE id = "consent_screen"
    BY <1>4, <1>5, <1>6, <2>6 DEF Results, NeedsProject, ConsentResults
  <2>7. CASE id \in {"scopes_and_test_user", "add_test_user"}
    BY <1>6, <2>7 DEF Results
  <2>8. CASE id = "client_create"
    BY <1>7, <2>2, <2>8 DEF Results
  <2>9. CASE id = "client_file"
    BY <1>2, <1>3, <1>5, <1>6, <1>7, <2>2, <2>9 DEF Results, ClientFileResults
  <2>10. CASE id = "reuse_confirm"
    BY <1>2, <1>3, <1>5, <1>7, <2>2, <2>10 DEF Results, ConfirmResults
  <2>11. CASE id = "save_reuse"
    BY <1>4, <1>5, <2>11 DEF Results
  <2> QED
    BY <2>1, <2>3, <2>4, <2>5, <2>6, <2>7, <2>8, <2>9, <2>10, <2>11
<1> QED
  BY <1>1, <1>8, <1>9 DEF T

-----------------------------------------------------------------------------
LEMMA TypeStep ==
    ASSUME TypeOK, [Next]_vars
    PROVE  TypeOK'
<1> USE TypeParts
<1>1. /\ provider \in {"google", "ms"} /\ list \in Lists
      /\ \A i \in DOMAIN list : list[i] \in Ids
      /\ DOMAIN list = 1 .. Len(list) /\ Len(list) \in Nat
  BY ListAtWork, ListLengths
<1>2. UNCHANGED provider
  BY DEF Next, Run, SignIn, Invoke, FirstInvocation, ResumeAsTold, AnyInvocation, ResetState,
     SkipDone, PassHuman, AskAgain, Begin, RunStep, CreateApp, RecordResult, AllDone,
     PersistConfig, Cleanup, Kill, fixed, world, vars
<1>3. ASSUME NEW how \in {"completed", "suspended", "failed", "killed"}, Finish(how), MachineOK'
      PROVE  TypeOK'
  BY <1>1, <1>2, <1>3, FinishTyped DEF TypeOK
<1>4. ASSUME UNCHANGED <<disk, config, world>>
      PROVE  MachineOK'
  BY <1>2, <1>4, ProviderFixed DEF TypeOK, MachineOK, world, fixed
<1>5. ASSUME UNCHANGED <<pc, st, list, pos, act, exit>>
      PROVE  ProcessOK'
  BY <1>2, <1>5, ProviderFixed DEF TypeOK, ProcessOK
<1>6. CASE SignIn
  BY <1>2, <1>5, <1>6, ProviderFixed DEF SignIn, TypeOK, MachineOK, fixed
<1>7. ASSUME NEW resume, NEW reuse \in BOOLEAN, NEW flags \in SUBSET Fields,
             Invoke(resume, reuse, flags)
      PROVE  TypeOK'
  <2> DEFINE found == IF resume /\ disk # NoJournal THEN disk ELSE NewJournal
  <2>1. found \in Journals
    BY NewTyped DEF TypeOK, MachineOK
  <2> HIDE DEF found
  <2>2. [found EXCEPT !.inputs = @ \union flags] \in Journals
    BY <2>1 DEF Journals, JournalsOf, Fields
  <2>3. st' \in Journals
    BY <1>7, <2>2 DEF Invoke, found
  <2>4. Len(StepList(reuse)) \in Nat
    BY <1>1, ListTyped, ListLengths
  <2>5. pos' \in 1 .. Len(list') + 1
    <3> DEFINE l == StepList(reuse)
    <3>1. Len(l) \in Nat /\ list' = l /\ pos' = 1
      BY <1>7, <2>4 DEF Invoke
    <3> HIDE DEF l
    <3> QED
      BY <3>1
  <2>6. ProcessOK'
    BY <1>2, <1>7, <2>3, <2>5, ProviderFixed, NoActionTyped DEF Invoke, ProcessOK
  <2> QED
    BY <1>4, <1>7, <2>6 DEF Invoke, TypeOK
<1>8. Asked \subseteq Fields
  BY <1>1 DEF Asked, TypeOK, Journals, JournalsOf, StepStatesOf, Ids, Fields
<1>9. CASE FirstInvocation \/ ResumeAsTold \/ AnyInvocation
  BY <1>7, <1>8, <1>9 DEF FirstInvocation, ResumeAsTold, AnyInvocation, ReuseFlags
<1>10. CASE ResetState
  BY <1>2, <1>10, ProviderFixed DEF ResetState, TypeOK, MachineOK, ProcessOK, world, fixed
<1>11. CASE SkipDone
  <2>1. pos' \in 1 .. Len(list) + 1
    BY <1>1, <1>11 DEF SkipDone, TypeOK
  <2>2. ProcessOK'
    BY <1>2, <1>11, <2>1, ProviderFixed DEF SkipDone, TypeOK, ProcessOK
  <2> QED
    BY <1>4, <1>11, <2>2 DEF SkipDone, TypeOK
<1>12. pos <= Len(list) => pos \in DOMAIN list
  BY <1>1 DEF TypeOK
<1>13. CASE PassHuman
  <2>1. DoneWith({}) \in StepStatesOf(provider)
    BY ReturnsTyped DEF Outputs
  <2> QED
    BY <1>12, <1>13, <2>1, RecordTyped DEF PassHuman
<1>14. CASE AskAgain
  BY <1>3, <1>4, <1>14 DEF AskAgain
<1>15. CASE Begin
  <2>1. StepState("in_progress", {}, {}) \in StepStatesOf(provider)
    BY StepStateTyped DEF Statuses, Outputs
  <2> QED
    BY <1>12, <1>15, <2>1, RecordTyped DEF Begin
<1>16. ASSUME NEW a \in StepStatesOf(provider), pc = "step", Return(a),
              UNCHANGED <<st, list, pos, exit>>
       PROVE  ProcessOK'
  BY <1>2, <1>16, ProviderFixed DEF Return, TypeOK, ProcessOK
<1>17. Failed \in StepStatesOf(provider) /\ \A out \in Outputs : DoneWith(out) \in StepStatesOf(provider)
  BY ReturnsTyped DEF Outputs
<1>18. CASE RunStep
  <2>1. \E a \in StepStatesOf(provider) : Return(a)
    <3>1. Id \in Ids
      BY <1>1, <1>18 DEF RunStep, TypeOK, ProcessOK, Id
    <3> QED
      BY <1>17, <1>18, <3>1, ResultsTyped DEF RunStep
  <2>2. permitted' \in SUBSET Values
    BY <1>18 DEF RunStep, AppId, OutputOf, TypeOK, MachineOK
  <2>3. MachineOK'
    BY <1>2, <1>18, <2>2, ProviderFixed DEF RunStep, TypeOK, MachineOK, fixed
  <2> QED
    BY <1>16, <1>18, <2>1, <2>3 DEF RunStep, TypeOK
<1>19. CASE CreateApp
  <2>1. \A a \in Apps : {<<"app_id", a>>} \in Outputs
    BY DEF Outputs, Values
  <2>2. \E a \in StepStatesOf(provider) : Return(a)
    BY <1>17, <1>19, <2>1 DEF CreateApp
  <2>3. MachineOK'
    BY <1>2, <1>19, ProviderFixed DEF CreateApp, TypeOK, MachineOK, fixed
  <2> QED
    BY <1>16, <1>19, <2>2, <2>3 DEF CreateApp, TypeOK
<1>20. CASE RecordResult
  <2>1. act \in StepStatesOf(provider) /\ pos \in DOMAIN list
    BY <1>20 DEF RecordResult, TypeOK, ProcessOK
  <2> QED
    BY <1>20, <2>1, RecordTyped, RecordLastTyped DEF RecordResult
<1>21. CASE AllDone
  <2>1. ProcessOK'
    BY <1>2, <1>21, ProviderFixed DEF AllDone, TypeOK, ProcessOK
  <2> QED
    BY <1>4, <1>21, <2>1 DEF AllDone, TypeOK
<1>22. CASE PersistConfig
  <2>1. config' = NoConfig \/ config' \in Configs
    <3>1. \A key : AllOutputs(key) \subseteq Values
      BY DEF AllOutputs, OutputOf
    <3> QED
      BY <1>22, <3>1 DEF PersistConfig, Clients, OneOf, Configs, TypeOK, MachineOK
  <2>2. MachineOK'
    BY <1>2, <1>22, <2>1, ProviderFixed DEF PersistConfig, TypeOK, MachineOK, world, fixed
  <2>3. CASE Finish("failed")
    BY <1>3, <2>2, <2>3
  <2>4. CASE pc' = "cleanup" /\ UNCHANGED <<st, list, pos, act, exit>>
    BY <1>2, <2>2, <2>4, ProviderFixed DEF TypeOK, ProcessOK
  <2> QED
    BY <1>22, <2>3, <2>4 DEF PersistConfig
<1>23. CASE Cleanup
  <2>1. MachineOK'
    BY <1>2, <1>23, ProviderFixed DEF Cleanup, TypeOK, MachineOK, world, fixed
  <2> QED
    BY <1>3, <1>23, <2>1 DEF Cleanup
<1>24. CASE Kill
  BY <1>3, <1>4, <1>24 DEF Kill
<1>25. CASE UNCHANGED vars
  BY <1>4, <1>5, <1>25 DEF vars, TypeOK
<1> QED
  BY <1>6, <1>9, <1>10, <1>11, <1>13, <1>14, <1>15, <1>18, <1>19, <1>20, <1>21, <1>22,
     <1>23, <1>24, <1>25 DEF Next, Run

\* Type correctness: in particular, the journal has the steps of its provider, and
\* the process is at one of them.
THEOREM TypeCorrect == Spec => []TypeOK
<1>1. Init => TypeOK
  <2>1. ASSUME Init
        PROVE  provider \in {"google", "ms"}
    BY <2>1, SetupAssumption DEF Init
  <2>2. ASSUME Init
        PROVE  ProcessOK
    <3>1. Len(StepList(FALSE)) \in Nat
      BY <2>1, <2>2, ListTyped, ListLengths
    <3>2. pos \in 1 .. Len(list) + 1
      <4> DEFINE l == StepList(FALSE)
      <4>1. Len(l) \in Nat /\ list = l /\ pos = 1
        BY <2>2, <3>1 DEF Init
      <4> HIDE DEF l
      <4> QED
        BY <4>1
    <3> QED
      BY <2>2, <3>2, NewTyped, NoActionTyped DEF Init, ProcessOK
  <2> QED
    BY <2>2, TypeParts DEF Init, MachineOK
<1> QED
  BY <1>1, TypeStep, PTL DEF Spec

-----------------------------------------------------------------------------
(* The memory of the process and the journal. *)

\* A process that has ended has nothing in memory.
LEMMA FinishMemory ==
    ASSUME NEW how, Finish(how), UNCHANGED provider
    PROVE  MemoryIsJournal'
<1>1. st' = NewJournal' /\ \A id \in Ids' : st'.steps[id].status = "pending"
  BY ProviderFixed DEF Finish, NewJournal, StepState
<1> QED
  BY <1>1 DEF Finish, MemoryIsJournal

\* Record puts the step at work into the file and into memory.
LEMMA RecordMemory ==
    ASSUME TypeOK, MemoryIsJournal, pc # "off", NEW s \in StepStatesOf(provider),
           NEW next, NEW label \in {"scan", "step"},
           pos \in DOMAIN list, Record(s, next, label), UNCHANGED provider,
           \/ next = pos + 1 /\ s.status = "done" /\ label = "scan"
           \/ next = pos /\ s.status = "in_progress"
    PROVE  MemoryIsJournal'
<1>1. CASE Finish("failed")
  BY <1>1, FinishMemory
<1>2. ASSUME NEW j, j = [st EXCEPT !.steps[Id] = s], disk' = j, st' = j, pos' = next,
             pc' = label, UNCHANGED <<list, exit>>
      PROVE  MemoryIsJournal'
  <2>1. /\ DOMAIN list = 1 .. Len(list) /\ Len(list) \in Nat /\ list \in Lists
        /\ Id \in Ids
    BY ListAtWork, ListLengths DEF Id
  <2>2. j \in Journals /\ j # NoJournal
    BY <1>2, JournalTyped, ListAtWork, SetupAssumption DEF Journals
  <2>3. j.steps[Id] = s /\ \A id \in Ids \ {Id} : j.steps[id] = st.steps[id]
    BY <1>2, <2>1 DEF TypeOK, Journals, JournalsOf, Ids
  <2>4. \A i \in 1 .. pos - 1 : j.steps[list[i]].status = "done"
    <3>1. SUFFICES ASSUME NEW i \in 1 .. pos - 1
                   PROVE  j.steps[list[i]].status = "done"
      OBVIOUS
    <3>2. i \in DOMAIN list /\ i # pos
      BY <2>1
    <3>3. list[i] # Id /\ list[i] \in Ids
      BY <2>1, <3>2, ListsDistinct, ListAtWork DEF Id
    <3> QED
      BY <2>3, <3>3 DEF MemoryIsJournal
  <2>5. \A i \in 1 .. pos' - 1 : st'.steps[list'[i]].status = "done"
    <3>1. CASE next = pos
      BY <1>2, <2>4, <3>1
    <3>2. CASE next = pos + 1 /\ s.status = "done"
      <4>1. \A i \in 1 .. next - 1 : i \in 1 .. pos - 1 \/ i = pos
        BY <2>1, <3>2
      <4> QED
        BY <1>2, <2>3, <2>4, <3>2, <4>1 DEF Id
    <3> QED
      BY <3>1, <3>2
  <2>6. disk' = st' /\ disk' # NoJournal /\ exit' = "none" /\ pc' \in {"scan", "step"}
    BY <1>2, <2>2 DEF MemoryIsJournal
  <2>7. pc' = "step" => Current'.status = "in_progress"
    BY <1>2, <2>3 DEF Current, Id
  <2> QED
    BY <2>5, <2>6, <2>7 DEF MemoryIsJournal
<1> QED
  BY <1>1, <1>2 DEF Record

LEMMA MemoryStep ==
    ASSUME TypeOK, MemoryIsJournal, [Next]_vars
    PROVE  MemoryIsJournal'
<1>1. /\ provider \in {"google", "ms"}
      /\ DOMAIN list = 1 .. Len(list) /\ Len(list) \in Nat
  BY ListAtWork, ListLengths
<1>2. pos \in Nat \ {0} /\ (pos <= Len(list) => pos \in DOMAIN list)
  BY <1>1 DEF TypeOK
<1>3. ASSUME UNCHANGED <<disk, pc, st, list, pos, exit>>, UNCHANGED provider
      PROVE  MemoryIsJournal'
  BY <1>3, ProviderFixed DEF MemoryIsJournal, Current, Id
<1>4. CASE SignIn
  BY <1>3, <1>4 DEF SignIn, fixed
<1>5. ASSUME NEW resume, NEW reuse \in BOOLEAN, NEW flags,
             Invoke(resume, reuse, flags)
      PROVE  MemoryIsJournal'
  <2>1. UNCHANGED <<disk, provider>> /\ pc' = "scan" /\ exit' = "none" /\ pos' = 1
    BY <1>5 DEF Invoke, world, fixed
  <2>2. \/ disk # NoJournal /\ st' = [disk EXCEPT !.inputs = @ \union flags]
        \/ st' = [NewJournal EXCEPT !.inputs = @ \union flags]
    BY <1>5 DEF Invoke
  <2>3. CASE disk # NoJournal /\ st' = [disk EXCEPT !.inputs = @ \union flags]
    <3>1. st'.steps = disk.steps
      BY <2>3 DEF TypeOK, Journals, JournalsOf
    <3> QED
      BY <2>1, <2>3, <3>1 DEF MemoryIsJournal
  <2>4. CASE st' = [NewJournal EXCEPT !.inputs = @ \union flags]
    <3>1. \A id \in Ids : st'.steps[id].status = "pending"
      BY <2>4 DEF NewJournal, StepState
    <3> QED
      BY <2>1, <3>1, ProviderFixed DEF MemoryIsJournal
  <2> QED
    BY <2>2, <2>3, <2>4
<1>6. CASE FirstInvocation \/ ResumeAsTold \/ AnyInvocation
  BY <1>5, <1>6 DEF FirstInvocation, ResumeAsTold, AnyInvocation, ReuseFlags
<1>7. CASE ResetState
  <2>1. \A id \in Ids : st.steps[id].status = "pending"
    BY <1>7 DEF ResetState, MemoryIsJournal, NewJournal, StepState
  <2> QED
    BY <1>7, <2>1, ProviderFixed DEF ResetState, MemoryIsJournal, world, fixed
<1>8. ASSUME NEW how, Finish(how), UNCHANGED provider
      PROVE  MemoryIsJournal'
  BY <1>8, FinishMemory
<1>9. CASE SkipDone
  <2>1. \A i \in 1 .. pos' - 1 : i \in 1 .. pos - 1 \/ i = pos
    BY <1>2, <1>9 DEF SkipDone
  <2>2. \A i \in 1 .. pos' - 1 : st.steps[list[i]].status = "done"
    BY <1>9, <2>1 DEF SkipDone, Current, Id, MemoryIsJournal
  <2> QED
    BY <1>9, <2>2, ProviderFixed DEF SkipDone, MemoryIsJournal, world, fixed
<1>10. CASE PassHuman
  <2>1. DoneWith({}) \in StepStatesOf(provider) /\ DoneWith({}).status = "done"
    BY ReturnsTyped DEF Outputs, DoneWith, StepState
  <2> QED
    BY <1>2, <1>10, <2>1, RecordMemory DEF PassHuman, world, fixed
<1>11. CASE AskAgain
  BY <1>8, <1>11 DEF AskAgain, world, fixed
<1>12. CASE Begin
  <2>1. /\ StepState("in_progress", {}, {}) \in StepStatesOf(provider)
        /\ StepState("in_progress", {}, {}).status = "in_progress"
    BY StepStateTyped DEF Statuses, Outputs, StepState
  <2> QED
    BY <1>2, <1>12, <2>1, RecordMemory DEF Begin, world, fixed
<1>13. CASE RunStep \/ CreateApp
  <2>1. pc = "step" /\ pc' = "returned" /\ UNCHANGED <<provider, disk, st, list, pos, exit>>
    BY <1>13 DEF RunStep, CreateApp, Return, fixed
  <2> QED
    BY <2>1, ProviderFixed DEF MemoryIsJournal, Current, Id
<1>14. CASE RecordResult
  <2>1. act \in StepStatesOf(provider) /\ pos \in DOMAIN list
    BY <1>14 DEF RecordResult, TypeOK
  <2> QED
    BY <1>8, <1>14, <2>1, RecordMemory DEF RecordResult, RecordLast, world, fixed
<1>15. CASE AllDone
  BY <1>15, ProviderFixed DEF AllDone, MemoryIsJournal, world, fixed
<1>16. CASE PersistConfig
  <2>1. CASE pc' = "cleanup" /\ UNCHANGED <<st, list, pos, act, exit>>
    BY <1>16, <2>1, ProviderFixed DEF PersistConfig, MemoryIsJournal, world, fixed
  <2> QED
    BY <1>8, <1>16, <2>1 DEF PersistConfig, world, fixed
<1>17. CASE Cleanup \/ Kill
  BY <1>8, <1>17 DEF Cleanup, Kill, world, fixed
<1>18. CASE UNCHANGED vars
  BY <1>3, <1>18 DEF vars, world, fixed
<1> QED
  BY <1>4, <1>6, <1>7, <1>9, <1>10, <1>11, <1>12, <1>13, <1>14, <1>15, <1>16, <1>17,
     <1>18 DEF Next, Run

LEMMA Remembered == Spec => []MemoryIsJournal
<1>1. Init => MemoryIsJournal
  BY DEF Init, MemoryIsJournal, NewJournal, StepState
<1> QED
  BY <1>1, MemoryStep, TypeCorrect, PTL DEF Spec

\* Whatever is killed or not saved, and whatever the user does, a step is run only
\* when the file has all earlier ones as done (runner.go:112).
THEOREM NoStepSkipped == Spec => DoneBeforeNext
<1> DEFINE Ready == pc = "step" /\ pc' = "returned" =>
                       /\ disk # NoJournal
                       /\ \A i \in 1 .. pos - 1 : disk.steps[list[i]].status = "done"
<1>1. ASSUME TypeOK, MemoryIsJournal, [Next]_vars
      PROVE  [Ready]_vars
  <2>1. SUFFICES ASSUME pc = "step"
                 PROVE  /\ disk # NoJournal
                        /\ \A i \in 1 .. pos - 1 : disk.steps[list[i]].status = "done"
    OBVIOUS
  <2>2. disk = st
    BY <1>1, <2>1 DEF MemoryIsJournal
  <2>3. st # NoJournal
    BY <1>1, ListAtWork, SetupAssumption DEF TypeOK, Journals
  <2> QED
    BY <1>1, <2>2, <2>3 DEF MemoryIsJournal
<1> QED
  BY <1>1, TypeCorrect, Remembered, PTL DEF Spec, DoneBeforeNext

\* A setup that says it is suspended waits for someone in the file, if the file
\* could be written (runner.go:72).
THEOREM SuspensionsSaved == Spec => []SuspendedIsSaved
<1> DEFINE Waiting(j) == \E id \in Ids : j.steps[id].status
                                            \in {"awaiting_human", "awaiting_input", "failed"}
<1>1. Init => SuspendedIsSaved
  BY DEF Init, SuspendedIsSaved
<1>2. ASSUME TypeOK, MemoryIsJournal, SuspendedIsSaved, [Next]_vars
      PROVE  SuspendedIsSaved'
  <2>1. exit' \in {"none", "failed", "killed", "completed"} => SuspendedIsSaved'
    BY DEF SuspendedIsSaved
  <2>2. ASSUME NEW how \in {"failed", "killed", "completed"}, Finish(how)
        PROVE  SuspendedIsSaved'
    BY <2>1, <2>2 DEF Finish
  <2>3. CASE UNCHANGED <<exit, disk, fixed>>
    BY <1>2, <2>3, ProviderFixed DEF SuspendedIsSaved, fixed
  <2>4. ASSUME pc # "off", UNCHANGED exit
        PROVE  SuspendedIsSaved'
    BY <1>2, <2>1, <2>4 DEF MemoryIsJournal
  <2>5. /\ DOMAIN list = 1 .. Len(list) /\ pos \in Nat \ {0}
        /\ \A i \in DOMAIN list : list[i] \in Ids
    BY <1>2, ListAtWork, ListLengths DEF TypeOK
  <2>6. CASE AskAgain
    <3>1. Id \in Ids /\ Current.status = "awaiting_input"
      BY <2>5, <2>6 DEF AskAgain, Id
    <3>2. disk # NoJournal /\ disk.steps = st.steps
      BY <1>2, <3>1 DEF MemoryIsJournal, Current
    <3>3. disk # NoJournal /\ Waiting(disk)
      BY <3>1, <3>2 DEF Current
    <3> QED
      BY <2>6, <3>3, ProviderFixed DEF AskAgain, SuspendedIsSaved, world, fixed
  <2>7. CASE RecordResult
    <3>1. CASE \E how : RecordLast(act, how) /\ act.status # "done"
      <4>1. act.status \in {"awaiting_human", "awaiting_input", "failed"}
        BY <2>7, <3>1 DEF RecordResult, RecordLast
      <4>2. pos \in DOMAIN list /\ act \in StepStatesOf(provider)
        BY <1>2, <2>7 DEF RecordResult, TypeOK
      <4>3. Id \in Ids /\ [st EXCEPT !.steps[Id] = act] \in Journals
        BY <1>2, <2>5, <4>2, JournalTyped DEF Id
      <4>4. CASE disk' = [st EXCEPT !.steps[Id] = act]
        <5>1. disk'.steps[Id] = act
          BY <1>2, <4>3, <4>4 DEF TypeOK, Journals, JournalsOf, Ids
        <5>2. disk' # NoJournal
          BY <1>2, <4>3, <4>4, ListAtWork, SetupAssumption DEF Journals
        <5>3. Waiting(disk')
          BY <4>1, <4>3, <5>1
        <5> QED
          BY <2>7, <5>2, <5>3, ProviderFixed DEF RecordResult, SuspendedIsSaved, world, fixed
      <4>5. CASE "save" \in faults
        BY <2>7, <4>5 DEF RecordResult, SuspendedIsSaved, world, fixed
      <4> QED
        BY <3>1, <4>4, <4>5 DEF RecordLast
    <3>2. CASE \E next, label : Record(act, next, label)
      <4>1. pc # "off"
        BY <2>7 DEF RecordResult
      <4> QED
        BY <2>2, <2>4, <3>2, <4>1 DEF Record
    <3> QED
      BY <2>7, <3>1, <3>2 DEF RecordResult
  <2>8. CASE SignIn \/ UNCHANGED vars
    BY <2>3, <2>8 DEF SignIn, vars, world
  <2>9. CASE FirstInvocation \/ ResumeAsTold \/ AnyInvocation \/ ResetState
    BY <2>1, <2>9 DEF FirstInvocation, ResumeAsTold, AnyInvocation, Invoke, ResetState
  <2>10. CASE SkipDone \/ RunStep \/ CreateApp \/ AllDone
    BY <2>4, <2>10 DEF SkipDone, RunStep, CreateApp, AllDone
  <2>11. CASE PassHuman \/ Begin
    BY <2>2, <2>4, <2>11 DEF PassHuman, Begin, Record
  <2>12. CASE PersistConfig \/ Cleanup \/ Kill
    BY <2>2, <2>4, <2>12 DEF PersistConfig, Cleanup, Kill
  <2> QED
    BY <1>2, <2>6, <2>7, <2>8, <2>9, <2>10, <2>11, <2>12 DEF Next, Run
<1> QED
  BY <1>1, <1>2, TypeCorrect, Remembered, PTL DEF Spec

-----------------------------------------------------------------------------
(* The apps that a Microsoft journal names. *)

LEMMA StaysPermitted ==
    ASSUME NEW j, NEW good, NEW better, NamesPermitted(j, good), good \subseteq better
    PROVE  NamesPermitted(j, better)
BY DEF NamesPermitted

LEMMA NewPermitted ==
    ASSUME provider = "ms", NEW good, NEW inputs
    PROVE  NamesPermitted([NewJournal EXCEPT !.inputs = inputs], good)
BY DEF NamesPermitted, NewJournal, StepState, Ids, IdsOf, Elements, MicrosoftSteps, AppSteps,
       AppsFrom

\* The list of Microsoft, and where its steps are.
LEMMA MicrosoftList ==
    ASSUME TypeOK, provider = "ms"
    PROVE  /\ list = MicrosoftSteps /\ Len(list) = 5 /\ DOMAIN list = 1 .. 5
           /\ list[1] = "account" /\ list[2] = "app_pick" /\ list[3] = "app_create"
           /\ list[4] = "permissions" /\ list[5] = "admin_consent_notice"
           /\ Ids = Elements(MicrosoftSteps)
           /\ Elements(MicrosoftSteps) = {"account", "app_pick", "app_create", "permissions",
                                         "admin_consent_notice"}
BY DEF TypeOK, StepList, MicrosoftSteps, Ids, IdsOf, Elements

\* A step that is recorded when it is not done leaves the apps of a journal with
\* permissions alone.
LEMMA RecordPermitted ==
    ASSUME TypeOK, MemoryIsJournal, provider = "ms", NEW good,
           NamesPermitted(st, good), pos \in DOMAIN list, Current.status # "done",
           NEW s \in StepStatesOf(provider), AppsFrom(Id, s.out),
           Id = "permissions" => s.status \in {"in_progress", "done", "failed"},
           Id = "permissions" /\ s.status = "done" => AppId \subseteq good
    PROVE  NamesPermitted([st EXCEPT !.steps[Id] = s], good)
<1> DEFINE j == [st EXCEPT !.steps[Id] = s]
<1>1. Id \in Ids /\ Ids = Elements(MicrosoftSteps)
  BY MicrosoftList DEF Id
<1>2. j.steps[Id] = s /\ \A id \in Ids \ {Id} : j.steps[id] = st.steps[id]
  BY <1>1 DEF TypeOK, Journals, JournalsOf, Ids
<1>3. AppSteps \subseteq Ids /\ "permissions" \in Ids /\ "permissions" \notin AppSteps
  BY MicrosoftList DEF AppSteps
<1> HIDE DEF j
<1>4. \A id \in Elements(MicrosoftSteps) : AppsFrom(id, j.steps[id].out)
  BY <1>1, <1>2 DEF NamesPermitted
<1>5. CASE Id = "permissions"
  <2>1. pos = 4
    BY <1>5, MicrosoftList DEF Id
  <2>2. \A id \in AppSteps : st.steps[id].status = "done"
    BY <2>1, MicrosoftList DEF MemoryIsJournal, AppSteps
  <2>3. \A id \in AppSteps : j.steps[id] = st.steps[id]
    BY <1>2, <1>3, <1>5
  <2>4. s.status = "done" => \A id \in AppSteps, v \in Values :
                                <<"app_id", v>> \in st.steps[id].out => v \in good
    BY <1>5 DEF AppId, OutputOf, AppSteps
  <2> QED
    BY <1>2, <1>4, <1>5, <2>2, <2>3, <2>4 DEF NamesPermitted, j
<1>6. CASE Id \in AppSteps
  <2>1. st.steps["permissions"].status = "pending"
    BY <1>6 DEF NamesPermitted, Current
  <2>2. j.steps["permissions"].status = "pending"
    BY <1>2, <1>3, <1>6, <2>1
  <2> QED
    BY <1>4, <2>2 DEF NamesPermitted, j
<1>7. CASE Id \notin AppSteps \union {"permissions"}
  BY <1>2, <1>3, <1>4, <1>7 DEF NamesPermitted, j
<1> QED
  BY <1>5, <1>6, <1>7

\* Only the steps of a journal count.
LEMMA StepsPermitted ==
    ASSUME NEW j, NEW k, j.steps = k.steps, NEW good, NamesPermitted(k, good)
    PROVE  NamesPermitted(j, good)
BY DEF NamesPermitted

LEMMA NothingPermitted ==
    ASSUME provider = "ms", NEW good
    PROVE  NamesPermitted(NewJournal, good)
BY DEF NamesPermitted, NewJournal, StepState, Ids, IdsOf, Elements, MicrosoftSteps, AppSteps,
       AppsFrom

\* What a Microsoft step returns.
LEMMA ResultsPermitted ==
    ASSUME provider = "ms", NEW id \in Elements(MicrosoftSteps), NEW a \in Results(id)
    PROVE  /\ AppsFrom(id, a.out)
           /\ id = "permissions" => a.status \in {"done", "failed"}
<1> USE DEF Results, AppsFrom, AppSteps, DoneWith, AwaitHuman, Failed, StepState
<1>1. CASE id = "account"
  BY <1>1 DEF AccountResults
<1>2. CASE id = "app_pick"
  BY <1>2
<1>3. CASE id = "app_create"
  BY <1>3
<1>4. CASE id = "permissions"
  BY <1>4
<1>5. CASE id = "admin_consent_notice"
  BY <1>5 DEF NoticeResults
<1> QED
  BY <1>1, <1>2, <1>3, <1>4, <1>5 DEF Elements, MicrosoftSteps

\* A journal whose steps are all done names permitted apps only.
LEMMA ClientsPermitted ==
    ASSUME TypeOK, MemoryIsJournal, provider = "ms", NEW good, NamesPermitted(st, good),
           pc = "persist"
    PROVE  Clients \subseteq good
<1>1. st.steps["permissions"].status = "done"
  <2>1. 4 \in 1 .. pos - 1
    BY MicrosoftList DEF MemoryIsJournal, TypeOK
  <2> QED
    BY <2>1, MicrosoftList DEF MemoryIsJournal
<1>2. Ids = Elements(MicrosoftSteps) /\ AppSteps \subseteq Ids
  BY MicrosoftList DEF AppSteps
<1>3. AllOutputs("client_id") = {}
  BY <1>2 DEF AllOutputs, OutputOf, NamesPermitted, AppsFrom
<1>4. AllOutputs("app_id") \subseteq good
  BY <1>1, <1>2 DEF AllOutputs, OutputOf, NamesPermitted, AppsFrom
<1> QED
  BY <1>3, <1>4 DEF Clients

LEMMA AppsPermittedStep ==
    ASSUME TypeOK, MemoryIsJournal, AppsArePermitted, [Next]_vars
    PROVE  AppsArePermitted'
<1>1. UNCHANGED provider
  BY DEF Next, Run, SignIn, Invoke, FirstInvocation, ResumeAsTold, AnyInvocation, ResetState,
     SkipDone, PassHuman, AskAgain, Begin, RunStep, CreateApp, RecordResult, AllDone,
     PersistConfig, Cleanup, Kill, fixed, world, vars
<1>2. SUFFICES ASSUME provider = "ms"
               PROVE  AppsArePermitted'
  BY <1>1 DEF AppsArePermitted
<1>3. /\ NamesPermitted(st, permitted)
      /\ disk # NoJournal => NamesPermitted(disk, permitted)
      /\ config # NoConfig => config.client \in permitted
  BY <1>2 DEF AppsArePermitted
<1>4. /\ DOMAIN list = 1 .. 5 /\ Len(list) = 5 /\ Ids = Elements(MicrosoftSteps)
      /\ \A i \in DOMAIN list : list[i] \in Ids
  BY <1>2, MicrosoftList, ListAtWork
<1>5. pos \in Nat \ {0} /\ (pos <= Len(list) => pos \in DOMAIN list)
  BY <1>4 DEF TypeOK
<1>6. ASSUME permitted \subseteq permitted', pc' # "returned",
             NamesPermitted(st', permitted),
             disk' # NoJournal => NamesPermitted(disk', permitted),
             config' # NoConfig => config'.client \in permitted
      PROVE  AppsArePermitted'
  <2>1. /\ NamesPermitted(st', permitted')
        /\ disk' # NoJournal => NamesPermitted(disk', permitted')
    BY <1>6, StaysPermitted
  <2> QED
    BY <1>6, <2>1 DEF AppsArePermitted, NamesPermitted
<1>7. ASSUME NEW how, Finish(how), UNCHANGED <<config, permitted>>,
             disk' # NoJournal => NamesPermitted(disk', permitted)
      PROVE  AppsArePermitted'
  <2>1. st' = NewJournal /\ pc' = "off"
    BY <1>7 DEF Finish
  <2> QED
    BY <1>2, <1>3, <1>6, <1>7, <2>1, NothingPermitted
<1>8. ASSUME NEW s \in StepStatesOf(provider), AppsFrom(Id, s.out), pos \in DOMAIN list,
             Current.status # "done",
             Id = "permissions" => s.status \in {"in_progress", "done", "failed"},
             Id = "permissions" /\ s.status = "done" => AppId \subseteq permitted
      PROVE  NamesPermitted([st EXCEPT !.steps[Id] = s], permitted)
  BY <1>2, <1>3, <1>8, RecordPermitted
<1>9. ASSUME NEW s, NEW next, NEW label \in {"scan", "step"}, Record(s, next, label),
             UNCHANGED <<config, permitted>>,
             NamesPermitted([st EXCEPT !.steps[Id] = s], permitted)
      PROVE  AppsArePermitted'
  <2>1. CASE Finish("failed") /\ UNCHANGED disk
    BY <1>3, <1>7, <1>9, <2>1
  <2>2. CASE /\ disk' = [st EXCEPT !.steps[Id] = s] /\ st' = [st EXCEPT !.steps[Id] = s]
             /\ pc' = label
    BY <1>3, <1>6, <1>9, <2>2
  <2> QED
    BY <1>9, <2>1, <2>2 DEF Record
<1>10. CASE SignIn \/ UNCHANGED vars
  <2>1. UNCHANGED <<provider, disk, config, permitted, pc, st, list, pos, act>>
    BY <1>10 DEF SignIn, vars, world, fixed
  <2> QED
    BY <2>1 DEF AppsArePermitted, AppId, OutputOf, Id, NamesPermitted
<1>11. ASSUME NEW resume, NEW reuse, NEW flags, Invoke(resume, reuse, flags)
       PROVE  AppsArePermitted'
  <2>1. pc' = "scan" /\ UNCHANGED <<disk, config, permitted>>
    BY <1>11 DEF Invoke, world
  <2>2. CASE disk # NoJournal /\ st' = [disk EXCEPT !.inputs = @ \union flags]
    <3>1. st'.steps = disk.steps
      BY <2>2 DEF TypeOK, Journals, JournalsOf
    <3> QED
      BY <1>3, <1>6, <2>1, <2>2, <3>1, StepsPermitted
  <2>3. CASE st' = [NewJournal EXCEPT !.inputs = @ \union flags]
    <3>1. st'.steps = NewJournal.steps
      BY <2>3 DEF NewJournal
    <3> QED
      BY <1>2, <1>3, <1>6, <2>1, <3>1, StepsPermitted, NothingPermitted
  <2> QED
    BY <1>11, <2>2, <2>3 DEF Invoke
<1>12. CASE FirstInvocation \/ ResumeAsTold \/ AnyInvocation
  BY <1>11, <1>12 DEF FirstInvocation, ResumeAsTold, AnyInvocation
<1>13. CASE ResetState
  BY <1>3, <1>6, <1>13 DEF ResetState, world
<1>14. CASE SkipDone \/ AllDone
  BY <1>3, <1>6, <1>14 DEF SkipDone, AllDone, world
<1>15. CASE PassHuman
  <2>1. Id # "permissions" /\ Current.status # "done" /\ pos \in DOMAIN list
    BY <1>3, <1>5, <1>15 DEF PassHuman, Current, NamesPermitted
  <2>2. DoneWith({}) \in StepStatesOf(provider) /\ AppsFrom(Id, DoneWith({}).out)
    BY ReturnsTyped DEF Outputs, AppsFrom, DoneWith, StepState
  <2>3. NamesPermitted([st EXCEPT !.steps[Id] = DoneWith({})], permitted)
    BY <1>8, <2>1, <2>2
  <2> QED
    BY <1>9, <1>15, <2>3 DEF PassHuman, world
<1>16. CASE AskAgain
  BY <1>3, <1>7, <1>16 DEF AskAgain, world
<1>17. CASE Begin
  <2> DEFINE s == StepState("in_progress", {}, {})
  <2>1. s \in StepStatesOf(provider) /\ AppsFrom(Id, s.out) /\ s.status = "in_progress"
    BY StepStateTyped DEF Statuses, Outputs, AppsFrom, StepState
  <2>2. Current.status # "done" /\ pos \in DOMAIN list
    BY <1>5, <1>17 DEF Begin
  <2>3. NamesPermitted([st EXCEPT !.steps[Id] = s], permitted)
    BY <1>8, <2>1, <2>2
  <2> QED
    BY <1>9, <1>17, <2>3 DEF Begin, world
<1>18. ASSUME pc = "step", pc' = "returned", AppsFrom(Id, act'.out),
              Id = "permissions" => act'.status \in {"done", "failed"},
              Id = "permissions" /\ act'.status = "done" => AppId \subseteq permitted',
              permitted \subseteq permitted', UNCHANGED <<disk, config, st, list, pos>>
       PROVE  AppsArePermitted'
  <2>1. /\ NamesPermitted(st, permitted')
        /\ disk # NoJournal => NamesPermitted(disk, permitted')
    BY <1>3, <1>18, StaysPermitted
  <2>2. UNCHANGED <<Id, AppId>>
    BY <1>18 DEF Id, AppId, OutputOf
  <2> QED
    BY <1>3, <1>18, <2>1, <2>2 DEF AppsArePermitted, NamesPermitted
<1>19. CASE RunStep
  <2>1. Id \in Elements(MicrosoftSteps) /\ Failed.out = {} /\ Failed.status = "failed"
    BY <1>4, <1>19 DEF RunStep, TypeOK, Id, Failed, StepState
  <2>2. /\ AppsFrom(Id, act'.out)
        /\ Id = "permissions" => act'.status \in {"done", "failed"}
    BY <1>2, <1>19, <2>1, ResultsPermitted DEF RunStep, Return, AppsFrom
  <2>3. /\ permitted \subseteq permitted'
        /\ Id = "permissions" /\ act'.status = "done" => AppId \subseteq permitted'
    BY <1>19, <2>1 DEF RunStep, Return
  <2> QED
    BY <1>18, <1>19, <2>2, <2>3 DEF RunStep, Return
<1>20. CASE CreateApp
  <2>1. Id = "app_create"
    BY <1>20 DEF CreateApp, NeedsCreation
  <2>2. AppsFrom(Id, act'.out)
    BY <1>20, <2>1 DEF CreateApp, Return, AppsFrom, AppSteps, DoneWith, Failed, StepState
  <2> QED
    BY <1>18, <1>20, <2>1, <2>2 DEF CreateApp, Return
<1>21. CASE RecordResult
  <2>1. /\ act \in StepStatesOf(provider) /\ pos \in DOMAIN list
        /\ Current.status = "in_progress"
        /\ AppsFrom(Id, act.out)
        /\ Id = "permissions" => act.status \in {"done", "failed"}
        /\ Id = "permissions" /\ act.status = "done" => AppId \subseteq permitted
    BY <1>2, <1>21 DEF RecordResult, TypeOK, MemoryIsJournal, AppsArePermitted
  <2>2. NamesPermitted([st EXCEPT !.steps[Id] = act], permitted)
    BY <1>8, <2>1
  <2>3. ASSUME NEW how, RecordLast(act, how)
        PROVE  AppsArePermitted'
    BY <1>3, <1>7, <1>21, <2>2, <2>3 DEF RecordResult, RecordLast, world
  <2> QED
    BY <1>9, <1>21, <2>2, <2>3 DEF RecordResult, world
<1>22. CASE PersistConfig
  <2>1. Clients \subseteq permitted /\ UNCHANGED <<disk, permitted>>
    BY <1>2, <1>3, <1>22, ClientsPermitted DEF PersistConfig, world
  <2>2. CASE Finish("failed") /\ UNCHANGED config
    BY <1>3, <1>7, <2>1, <2>2
  <2>3. CASE /\ \E c \in Clients, p \in OneOf(AllOutputs("project_id")),
                   t \in OneOf(AllOutputs("tenant")) :
                   config' = [client |-> c, project |-> p, tenant |-> t]
             /\ pc' = "cleanup" /\ UNCHANGED st
    <3>1. config'.client \in permitted
      BY <2>1, <2>3
    <3> QED
      BY <1>3, <1>6, <2>1, <2>3, <3>1
  <2> QED
    BY <1>22, <2>2, <2>3 DEF PersistConfig
<1>23. CASE Cleanup \/ Kill
  BY <1>3, <1>7, <1>23 DEF Cleanup, Kill, world
<1> QED
  BY <1>10, <1>12, <1>13, <1>14, <1>15, <1>16, <1>17, <1>19, <1>20, <1>21, <1>22,
     <1>23 DEF Next, Run

\* The app that config.yaml names for Microsoft has the permissions, however often
\* the setup was interrupted, reset or resumed (setup_llm.go:165).
THEOREM ConfigsUsable == Spec => []ConfigIsUsable
<1>1. Init => AppsArePermitted
  <2>1. ASSUME Init, provider = "ms"
        PROVE  NamesPermitted(st, permitted)
    BY <2>1, NothingPermitted DEF Init
  <2> QED
    BY <2>1 DEF Init, AppsArePermitted
<1>2. AppsArePermitted => ConfigIsUsable
  BY DEF AppsArePermitted, ConfigIsUsable
<1> QED
  BY <1>1, <1>2, AppsPermittedStep, TypeCorrect, Remembered, PTL DEF Spec

-----------------------------------------------------------------------------
(* Steps that are done. *)

LEMMA FromFileStep ==
    ASSUME TypeOK, FollowedFromFile, [Next]_vars
    PROVE  FollowedFromFile'
<1>1. ASSUME pc # "off", UNCHANGED <<faults, disk, st>>
      PROVE  FollowedFromFile'
  BY <1>1 DEF FollowedFromFile
<1>2. ASSUME NEW how, Finish(how)
      PROVE  FollowedFromFile'
  BY <1>2 DEF Finish, FollowedFromFile
<1>3. ASSUME NEW s, NEW next, NEW label, Record(s, next, label)
      PROVE  FollowedFromFile'
  BY <1>2, <1>3 DEF Record, FollowedFromFile
<1>4. CASE SignIn \/ UNCHANGED vars
  BY <1>4 DEF SignIn, FollowedFromFile, vars, world, fixed
<1>5. CASE FirstInvocation \/ AnyInvocation
  BY <1>5 DEF FirstInvocation, AnyInvocation, Invoke, FollowedFromFile, world, fixed
<1>6. CASE ResumeAsTold
  <2>1. disk' = disk /\ st' = [disk EXCEPT !.inputs = @ \union Asked]
    BY <1>6 DEF ResumeAsTold, Invoke
  <2>2. st'.steps = disk.steps
    BY <1>6, <2>1 DEF ResumeAsTold, TypeOK, Journals, JournalsOf
  <2> QED
    BY <2>1, <2>2 DEF FollowedFromFile
<1>7. CASE ResetState
  BY <1>7 DEF ResetState, FollowedFromFile
<1>8. CASE SkipDone \/ RunStep \/ CreateApp \/ AllDone
  BY <1>1, <1>8 DEF SkipDone, RunStep, CreateApp, AllDone, world, fixed
<1>9. CASE PassHuman \/ Begin
  BY <1>3, <1>9 DEF PassHuman, Begin
<1>10. CASE RecordResult
  BY <1>2, <1>3, <1>10 DEF RecordResult, RecordLast
<1>11. CASE AskAgain \/ Cleanup \/ Kill
  BY <1>2, <1>11 DEF AskAgain, Cleanup, Kill
<1>12. CASE PersistConfig
  BY <1>1, <1>2, <1>12 DEF PersistConfig, world, fixed
<1> QED
  BY <1>4, <1>5, <1>6, <1>7, <1>8, <1>9, <1>10, <1>11, <1>12 DEF Next, Run

\* What the runner writes takes nothing back that is done: it writes what it has from
\* the file, with another state of the one step at work, which is not done.
LEMMA WriteKeepsDone ==
    ASSUME TypeOK, FollowedFromFile, "stray" \notin faults, pc # "off", disk # NoJournal,
           pos \in DOMAIN list, Current.status # "done",
           NEW s, disk' \in {disk, NoJournal, [st EXCEPT !.steps[Id] = s]},
           disk' # NoJournal, NEW id \in Ids, disk.steps[id].status = "done"
    PROVE  disk'.steps[id] = disk.steps[id]
<1>1. disk.steps = st.steps
  BY DEF FollowedFromFile
<1>2. CASE disk' = [st EXCEPT !.steps[Id] = s]
  <2>1. id # Id
    BY <1>1 DEF Current
  <2>2. disk'.steps = [st.steps EXCEPT ![Id] = s]
    BY <1>2 DEF TypeOK, Journals, JournalsOf
  <2>3. disk'.steps[id] = st.steps[id]
    BY <2>1, <2>2 DEF TypeOK, Journals, JournalsOf, Ids
  <2> QED
    BY <1>1, <2>3
<1> QED
  BY <1>2

\* For a user who follows the events, whatever else goes wrong: what the file has as
\* done stays done until the setup is complete (runner.go:83).
THEOREM DoneStays == Spec => StepsStayDone
<1> DEFINE Stay == ("stray" \notin faults /\ disk # NoJournal /\ disk' # NoJournal) =>
                      \A id \in Ids : disk.steps[id].status = "done" =>
                                         disk'.steps[id] = disk.steps[id]
<1>1. Init => FollowedFromFile
  BY DEF Init, FollowedFromFile
<1>2. ASSUME TypeOK, MemoryIsJournal, FollowedFromFile, [Next]_vars
      PROVE  [Stay]_vars
  <2> SUFFICES ASSUME "stray" \notin faults, disk # NoJournal, disk' # NoJournal
               PROVE  Stay
    OBVIOUS
  <2>1. pos <= Len(list) => pos \in DOMAIN list
    BY <1>2, ListAtWork, ListLengths DEF TypeOK
  <2>2. ASSUME UNCHANGED disk
        PROVE  Stay
    BY <2>2
  <2>3. ASSUME NEW s, pc # "off", pos \in DOMAIN list, Current.status # "done",
               disk' \in {disk, NoJournal, [st EXCEPT !.steps[Id] = s]}
        PROVE  Stay
    BY <1>2, <2>3, WriteKeepsDone
  <2>4. CASE PassHuman
    BY <2>1, <2>3, <2>4 DEF PassHuman, Record
  <2>5. CASE Begin
    BY <2>1, <2>3, <2>5 DEF Begin, Record
  <2>6. CASE RecordResult
    <3>1. pos \in DOMAIN list /\ Current.status = "in_progress" /\ pc # "off"
      BY <1>2, <2>6 DEF RecordResult, TypeOK, MemoryIsJournal
    <3> QED
      BY <2>3, <2>6, <3>1 DEF RecordResult, Record, RecordLast
  <2>7. CASE Cleanup
    BY <2>2, <2>7 DEF Cleanup
  <2>8. CASE ResetState \/ AnyInvocation
    BY <2>8 DEF ResetState, AnyInvocation
  <2>9. CASE \/ FirstInvocation \/ ResumeAsTold \/ SkipDone \/ AskAgain \/ RunStep \/ CreateApp
             \/ AllDone \/ PersistConfig \/ Kill \/ SignIn \/ UNCHANGED vars
    BY <2>2, <2>9 DEF FirstInvocation, ResumeAsTold, Invoke, SkipDone, AskAgain, RunStep,
       CreateApp, AllDone, PersistConfig, Kill, SignIn, vars
  <2> QED
    BY <1>2, <2>4, <2>5, <2>6, <2>7, <2>8, <2>9 DEF Next, Run
<1> QED
  BY <1>1, <1>2, FromFileStep, TypeCorrect, Remembered, PTL DEF Spec, StepsStayDone

-----------------------------------------------------------------------------
(* Progress. *)

LEMMA StepsCounted ==
    ASSUME TypeOK
    PROVE  /\ Len(list) \in Nat /\ DOMAIN list = 1 .. Len(list)
           /\ pos \in 1 .. Len(list) + 1 /\ StepsLeft \in Nat
<1>1. Len(list) \in Nat /\ DOMAIN list = 1 .. Len(list) /\ pos \in 1 .. Len(list) + 1
  BY ListAtWork, ListLengths DEF TypeOK
<1> DEFINE n == Len(list)
<1>2. n \in Nat /\ pos \in 1 .. n + 1
  BY <1>1
<1>3. StepsLeft \in Nat
  <2> HIDE DEF n
  <2>1. n + 1 - pos \in Nat
    BY <1>2
  <2> QED
    BY <2>1 DEF StepsLeft, n
<1> QED
  BY <1>1, <1>3

\* Whatever a running setup does brings it closer to its end.
LEMMA RunForward ==
    ASSUME TypeOK, TypeOK', Run \/ Kill
    PROVE  StepsLeft' \in 0 .. StepsLeft - 1
<1> DEFINE n == Len(list)
<1>1. /\ n \in Nat /\ DOMAIN list = 1 .. n /\ pos \in 1 .. n + 1
      /\ StepsLeft \in Nat
      /\ pc \in {"step", "returned"} => pos <= n
  <2>1. /\ Len(list) \in Nat /\ DOMAIN list = 1 .. Len(list)
        /\ pos \in 1 .. Len(list) + 1 /\ StepsLeft \in Nat
        /\ pc \in {"step", "returned"} => pos \in DOMAIN list
    BY StepsCounted DEF TypeOK
  <2> HIDE DEF n
  <2>2. n = Len(list)
    BY DEF n
  <2> QED
    BY <2>1, <2>2
<1> HIDE DEF n
<1>2. UNCHANGED list => pos' \in 1 .. n + 1 /\ (pc' \in {"step", "returned"} => pos' <= n)
  <2>1. UNCHANGED list => DOMAIN list' = 1 .. n
    BY <1>1
  <2> QED
    BY <1>1, <2>1 DEF TypeOK, n
<1>3. /\ pc = "scan" => StepsLeft = 3 * (n + 1 - pos) + 3
      /\ pc = "step" => StepsLeft = 3 * (n + 1 - pos) + 2
      /\ pc = "returned" => StepsLeft = 3 * (n + 1 - pos) + 1
      /\ pc = "persist" => StepsLeft = 2
      /\ pc = "cleanup" => StepsLeft = 1
      /\ pc # "off" => StepsLeft > 0
  BY <1>1 DEF StepsLeft, n, TypeOK
<1>4. UNCHANGED list =>
        /\ pc' = "scan" => StepsLeft' = 3 * (n + 1 - pos') + 3
        /\ pc' = "step" => StepsLeft' = 3 * (n + 1 - pos') + 2
        /\ pc' = "returned" => StepsLeft' = 3 * (n + 1 - pos') + 1
        /\ pc' = "persist" => StepsLeft' = 2
        /\ pc' = "cleanup" => StepsLeft' = 1
  BY DEF StepsLeft, n
<1>5. ASSUME NEW how, Finish(how), pc # "off"
      PROVE  StepsLeft' \in 0 .. StepsLeft - 1
  <2>1. StepsLeft' = 0
    BY <1>5 DEF Finish, StepsLeft
  <2> QED
    BY <1>1, <1>3, <1>5, <2>1
<1>6. CASE SkipDone
  BY <1>1, <1>2, <1>3, <1>4, <1>6 DEF SkipDone, n
<1>7. ASSUME NEW s, Record(s, pos + 1, "scan"), pc \in {"scan", "returned"}
      PROVE  StepsLeft' \in 0 .. StepsLeft - 1
  <2>1. CASE Finish("failed")
    BY <1>5, <1>7, <2>1
  <2>2. CASE pos' = pos + 1 /\ pc' = "scan" /\ UNCHANGED list
    BY <1>1, <1>2, <1>3, <1>4, <1>7, <2>2
  <2> QED
    BY <1>7, <2>1, <2>2 DEF Record
<1>8. CASE PassHuman
  BY <1>7, <1>8 DEF PassHuman
<1>9. CASE Begin
  <2>1. CASE Finish("failed")
    BY <1>5, <1>9, <2>1 DEF Begin
  <2>2. CASE pos' = pos /\ pc' = "step" /\ UNCHANGED list
    BY <1>1, <1>2, <1>3, <1>4, <1>9, <2>2 DEF Begin
  <2> QED
    BY <1>9, <2>1, <2>2 DEF Begin, Record
<1>10. CASE RunStep \/ CreateApp
  <2>1. pc = "step" /\ pc' = "returned" /\ UNCHANGED <<list, pos>>
    BY <1>10 DEF RunStep, CreateApp, Return
  <2> QED
    BY <1>1, <1>2, <1>3, <1>4, <2>1
<1>11. CASE RecordResult
  BY <1>5, <1>7, <1>11 DEF RecordResult, RecordLast
<1>12. CASE AllDone
  <2>1. pc = "scan" /\ pc' = "persist" /\ UNCHANGED <<list, pos>>
    BY <1>12 DEF AllDone
  <2> QED
    BY <1>1, <1>2, <1>3, <1>4, <2>1
<1>13. CASE PersistConfig
  <2>1. CASE pc' = "cleanup" /\ UNCHANGED list
    BY <1>3, <1>4, <1>13, <2>1 DEF PersistConfig
  <2> QED
    BY <1>5, <1>13, <2>1 DEF PersistConfig
<1>14. CASE AskAgain \/ Cleanup \/ Kill
  BY <1>5, <1>14 DEF AskAgain, Cleanup, Kill
<1> QED
  BY <1>6, <1>8, <1>9, <1>10, <1>11, <1>12, <1>13, <1>14 DEF Run

\* A run of either setup, with any failures, ends after a bounded number of effects:
\* it never goes back over its list (runner.go:80).
THEOREM RunsAreBounded == Spec => RunsGoForward
<1> DEFINE Forward == pc # "off" =>
              \/ StepsLeft' \in 0 .. StepsLeft - 1
              \/ UNCHANGED <<disk, config, apps, permitted, pc, st, list, pos, act>>
<1>1. ASSUME TypeOK, TypeOK', [Next]_vars
      PROVE  [Forward]_vars
  <2>1. CASE Run \/ Kill
    BY <1>1, <2>1, RunForward
  <2>2. CASE FirstInvocation \/ ResumeAsTold \/ AnyInvocation \/ ResetState
    BY <2>2 DEF FirstInvocation, ResumeAsTold, AnyInvocation, ResetState, Invoke
  <2>3. CASE SignIn
    BY <2>3 DEF SignIn
  <2> QED
    BY <1>1, <2>1, <2>2, <2>3 DEF Next
<1> QED
  BY <1>1, TypeCorrect, PTL DEF Spec, RunsGoForward
=============================================================================

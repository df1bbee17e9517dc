----------------------------- MODULE SetupRunner -----------------------------
(***************************************************************************)
(* `apl setup google|ms --json|--resume|--reset-state` for one label: the  *)
(* command (internal/cli/setup_llm.go), the runner and its journal         *)
(* (internal/setup/runner.go, state.go) and the step lists of the two      *)
(* providers (internal/setup/google.go, microsoft.go).                     *)
(*                                                                         *)
(* The user invokes the command again and again; each process works on a   *)
(* copy of the journal, and can be killed between any two of its effects.  *)
(* The values of inputs and outputs are abstracted to where they come      *)
(* from: the user's own project and client, those of another label, or a   *)
(* registered application.                                                 *)
(***************************************************************************)
EXTENDS Sequences, Naturals

CONSTANTS
    Providers,   \* of "google" and "ms"
    Other,       \* what --reuse finds: "none", "nosecret" or "full"
    FaultSets,   \* the combinations of failures to look at
    Apps,        \* bound: the app registrations that can be created
    NoJournal, NoConfig

\* "stray": the user does something other than what the events ask for.
Failures == {"kill", "save", "tool", "stray"}

\* The first two never change: they say which command it is, and what can go
\* wrong.
VARIABLES
    provider, faults,
    disk,      \* the journal file setup-state/<provider>-<label>.yaml
    config,    \* the entry of this label in config.yaml
    signedIn,  \* gcloud or az is signed in to the user's account
    apps,      \* the app registrations that exist in Azure
    permitted, \* those with all the Graph permissions
    pc,        \* where the process is
    st,        \* the journal in its memory
    list,      \* its step list
    pos,       \* the step it works on
    act,       \* what the step has returned
    exit       \* how the last process ended

fixed == <<provider, faults>>
world == <<fixed, signedIn, apps, permitted>>
vars == <<disk, config, world, pc, st, list, pos, act, exit>>

-----------------------------------------------------------------------------
FullSteps == <<"account", "project", "enable_apis", "consent_screen",
               "scopes_and_test_user", "client_create", "client_file">>
ReuseSteps == <<"reuse_confirm", "add_test_user", "save_reuse">>
MicrosoftSteps == <<"account", "app_pick", "app_create", "permissions",
                    "admin_consent_notice">>

\* The switch of setup_llm.go:109 and GoogleSteps: all three values of the other
\* label must be there.
StepList(reuse) ==
    IF provider = "ms" THEN MicrosoftSteps
    ELSE IF reuse /\ Other = "full" THEN ReuseSteps ELSE FullSteps

Elements(s) == {s[i] : i \in DOMAIN s}

IdsOf(p) == IF p = "ms" THEN Elements(MicrosoftSteps)
            ELSE Elements(FullSteps) \union Elements(ReuseSteps)

FieldsOf(p) == IF p = "ms" THEN {"app_id", "include_recording"}
               ELSE {"account", "project_id", "client_secret_file", "reuse_confirm"}

Ids == IdsOf(provider)
Fields == FieldsOf(provider)

\* Outputs: the user's own project or client, another label's, an app given by
\* --app-id, or a registered one.
Values == {"own", "other", "given"} \union Apps
Outputs == SUBSET ({"account", "project_id", "client_id", "app_id", "tenant"} \X Values)

Statuses == {"pending", "in_progress", "done", "awaiting_human", "awaiting_input",
             "failed"}

StepState(status, out, fields) == [status |-> status, out |-> out, fields |-> fields]

StepStatesOf(p) == [status : Statuses, out : Outputs, fields : SUBSET FieldsOf(p)]

JournalsOf(p) == [steps : [IdsOf(p) -> StepStatesOf(p)], inputs : SUBSET FieldsOf(p)]

Journals == JournalsOf(provider)

NewJournal == [steps |-> [id \in Ids |-> StepState("pending", {}, {})], inputs |-> {}]

\* What Step.Run returns.
DoneWith(out) == StepState("done", out, {})
AwaitHuman == StepState("awaiting_human", {}, {})
AskFor(fields) == StepState("awaiting_input", {}, fields)
Failed == StepState("failed", {}, {})
NoAction == StepState("pending", {}, {})

Configs == [client : Values, project : Values \union {"none"},
            tenant : Values \union {"none"}]

ASSUME SetupAssumption ==
    /\ Providers \subseteq {"google", "ms"}
    /\ Other \in {"none", "nosecret", "full"}
    /\ FaultSets \subseteq SUBSET Failures
    /\ NoConfig \notin Configs
    /\ \A p \in {"google", "ms"} : NoJournal \notin JournalsOf(p)

TypeOK ==
    /\ provider \in Providers
    /\ faults \in FaultSets
    /\ disk = NoJournal \/ disk \in Journals
    /\ config = NoConfig \/ config \in Configs
    /\ signedIn \in BOOLEAN
    /\ apps \in SUBSET Apps
    /\ permitted \in SUBSET Values
    /\ pc \in {"off", "scan", "step", "returned", "persist", "cleanup"}
    /\ st \in Journals
    /\ list \in {StepList(reuse) : reuse \in BOOLEAN}
    /\ pos \in 1 .. Len(list) + 1
    /\ pc \in {"step", "returned"} => pos \in DOMAIN list
    /\ act \in StepStatesOf(provider)
    /\ exit \in {"none", "completed", "suspended", "failed", "killed"}

Init ==
    /\ provider \in Providers
    /\ faults \in FaultSets
    /\ disk = NoJournal
    /\ config = NoConfig
    /\ signedIn \in BOOLEAN
    /\ apps = {} /\ permitted = {}
    /\ pc = "off"
    /\ st = NewJournal
    /\ list = StepList(FALSE)
    /\ pos = 1
    /\ act = NoAction
    /\ exit = "none"

-----------------------------------------------------------------------------
(* The user. *)

SignIn == ~ signedIn /\ signedIn' = TRUE
          /\ UNCHANGED <<fixed, disk, config, apps, permitted, pc, st, list, pos, act, exit>>

\* The fields that the journal waits for.
Asked == IF disk = NoJournal THEN {}
         ELSE UNION {disk.steps[id].fields : id \in Ids}

\* Mutant: --resume starts anew as well.
BugInvokeStartsAnew(resume, reuse, flags) ==
    /\ pc = "off"
    /\ pc' = "scan"
    /\ st' = [NewJournal EXCEPT !.inputs = @ \union flags]
    /\ list' = StepList(reuse)
    /\ pos' = 1
    /\ act' = NoAction
    /\ exit' = "none"
    /\ UNCHANGED <<disk, config, world>>

\* A fresh run starts from a new journal, and leaves the old file for the first
\* Save to replace.  --reuse without such a label is refused before anything.
Invoke(resume, reuse, flags) ==
    /\ pc = "off"
    /\ pc' = "scan"
    /\ LET found == IF resume /\ disk # NoJournal THEN disk ELSE NewJournal
       IN  st' = [found EXCEPT !.inputs = @ \union flags]
    /\ list' = StepList(reuse)
    /\ pos' = 1
    /\ act' = NoAction
    /\ exit' = "none"
    /\ UNCHANGED <<disk, config, world>>

\* --reuse is a flag of the google command, and needs the other label.
ReuseFlags == IF provider = "google" /\ Other # "none" THEN BOOLEAN ELSE {FALSE}

AnyInvocation ==
    /\ "stray" \in faults
    /\ \E resume \in BOOLEAN, reuse \in ReuseFlags, flags \in SUBSET Fields :
          Invoke(resume, reuse, flags)

\* The first command, and then the resume_command of the events, which names
\* neither --reuse nor the inputs given before (buildResumeCmd), with the
\* required fields.
FirstInvocation ==
    /\ disk = NoJournal
    /\ \E reuse \in ReuseFlags, flags \in SUBSET Fields : Invoke(FALSE, reuse, flags)

ResumeAsTold == disk # NoJournal /\ Invoke(TRUE, FALSE, Asked)

ResetState ==
    /\ "stray" \in faults
    /\ pc = "off" /\ disk # NoJournal
    /\ disk' = NoJournal
    /\ exit' = "none"
    /\ UNCHANGED <<config, world, pc, st, list, pos, act>>

-----------------------------------------------------------------------------
(* The runner. *)

Id == list[pos]
Current == st.steps[Id]

\* A process that ends forgets what is only in its memory.
Finish(how) ==
    /\ pc' = "off" /\ exit' = how
    /\ st' = NewJournal /\ pos' = 1 /\ list' = StepList(FALSE) /\ act' = NoAction

\* Mutant: an error of this Save is ignored.
BugRecordIgnoresError(s, next, label) ==
    LET j == [st EXCEPT !.steps[Id] = s]
    IN  /\ disk' = j \/ ("save" \in faults /\ UNCHANGED disk)
        /\ st' = j /\ pos' = next /\ pc' = label /\ act' = NoAction
        /\ UNCHANGED <<list, exit>>

\* SetStep, Save and on: to the next step or into this one.  A failure of this
\* Save ends the run.
Record(s, next, label) ==
    LET j == [st EXCEPT !.steps[Id] = s]
    IN  \/ /\ disk' = j /\ st' = j /\ pos' = next /\ pc' = label /\ act' = NoAction
           /\ UNCHANGED <<list, exit>>
        \/ "save" \in faults /\ Finish("failed") /\ UNCHANGED disk

\* Mutant: the process suspends without a Save.
BugRecordLastUnsaved(s, how) == Finish(how) /\ UNCHANGED disk

\* SetStep and Save before the process ends; a failure of this Save is ignored.
RecordLast(s, how) ==
    /\ \/ disk' = [st EXCEPT !.steps[Id] = s]
       \/ "save" \in faults /\ UNCHANGED disk
    /\ Finish(how)

\* Mutant: a step that was under way when the process died counts as done.
BugSkipInProgress ==
    /\ pc = "scan" /\ pos <= Len(list) /\ Current.status \in {"done", "in_progress"}
    /\ pos' = pos + 1
    /\ UNCHANGED <<disk, config, world, pc, st, list, act, exit>>

SkipDone ==
    /\ pc = "scan" /\ pos <= Len(list) /\ Current.status = "done"
    /\ pos' = pos + 1
    /\ UNCHANGED <<disk, config, world, pc, st, list, act, exit>>

\* Mutant: a step that awaits a human is announced again.
BugPassHumanAsksAgain ==
    /\ pc = "scan" /\ pos <= Len(list) /\ Current.status = "awaiting_human"
    /\ Finish("suspended")
    /\ UNCHANGED <<disk, config, world>>

\* The human is presumed to have done it; the step is not run again.
PassHuman ==
    /\ pc = "scan" /\ pos <= Len(list) /\ Current.status = "awaiting_human"
    /\ Record(DoneWith({}), pos + 1, "scan")
    /\ UNCHANGED <<config, world>>

\* No Save here: inputs given for later steps are forgotten.
AskAgain ==
    /\ pc = "scan" /\ pos <= Len(list) /\ Current.status = "awaiting_input"
    /\ ~ Current.fields \subseteq st.inputs
    /\ Finish("suspended")
    /\ UNCHANGED <<disk, config, world>>

Begin ==
    /\ pc = "scan" /\ pos <= Len(list)
    /\ \/ Current.status \in {"pending", "in_progress", "failed"}
       \/ Current.status = "awaiting_input" /\ Current.fields \subseteq st.inputs
    /\ Record(StepState("in_progress", {}, {}), pos, "step")
    /\ UNCHANGED <<config, world>>

\* What an earlier step has put out under a key.
OutputOf(id, key) == {v \in Values : <<key, v>> \in st.steps[id].out}

AppId == OutputOf("app_pick", "app_id") \union OutputOf("app_create", "app_id")
Given(field) == field \in st.inputs

AccountResults ==
    IF provider = "ms"
    THEN {IF signedIn THEN DoneWith({<<"account", "own">>, <<"tenant", "own">>})
          ELSE AwaitHuman}
    ELSE IF ~ Given("account") THEN {AskFor({"account"})}
    ELSE {IF signedIn THEN DoneWith({<<"account", "own">>}) ELSE AwaitHuman}

ProjectResults ==
    {IF Given("project_id") THEN DoneWith({<<"project_id", "own">>})
     ELSE AskFor({"project_id"})}

\* The steps that read project_id fail without it.
NeedsProject(results) ==
    IF OutputOf("project", "project_id") = {} THEN {Failed} ELSE results

\* An unreadable or unsuitable file fails the step in a way that can be retried.
ClientFileResults ==
    IF Given("client_secret_file") THEN {DoneWith({<<"client_id", "own">>}), Failed}
    ELSE {AskFor({"client_secret_file"})}

\* gcloud creates the consent screen, or the human does.
ConsentResults == {AwaitHuman} \union IF signedIn THEN {DoneWith({})} ELSE {}

\* A confirmation other than yes is asked for again.
ConfirmResults ==
    {AskFor({"reuse_confirm"})} \union
    IF Given("reuse_confirm") THEN {DoneWith({<<"project_id", "other">>})} ELSE {}

NoticeResults ==
    {DoneWith({})} \union IF Given("include_recording") THEN {AwaitHuman} ELSE {}

Results(id) ==
    CASE id = "account" -> AccountResults
      [] id = "project" -> ProjectResults
      [] id = "enable_apis" -> NeedsProject({DoneWith({})})
      [] id = "consent_screen" -> NeedsProject(ConsentResults)
      [] id = "scopes_and_test_user" -> {AwaitHuman}
      [] id = "client_create" -> {AskFor({"client_secret_file"})}
      [] id = "client_file" -> ClientFileResults
      [] id = "reuse_confirm" -> ConfirmResults
      [] id = "add_test_user" -> {AwaitHuman}
      [] id = "save_reuse" ->
           {DoneWith({<<"project_id", "other">>, <<"client_id", "other">>})}
      [] id = "app_pick" ->
           {DoneWith(IF Given("app_id") THEN {<<"app_id", "given">>} ELSE {})}
      [] id = "app_create" -> {DoneWith({<<"app_id", a>>}) : a \in AppId}
      [] id = "permissions" -> {IF AppId = {} THEN Failed ELSE DoneWith({})}
      [] id = "admin_consent_notice" -> NoticeResults

\* The steps that end when gcloud or az is missing or fails; all but the first ask
\* it for what is the user's, so it has to be signed in.
ToolSteps == {"account", "project", "enable_apis", "permissions"}
                \union IF Given("app_id") THEN {} ELSE {"app_pick"}

ToolFails == "tool" \in faults \/ (Id # "account" /\ ~ signedIn)
ToolServes == Id = "account" \/ signedIn

Return(a) == pc' = "returned" /\ act' = a

NeedsCreation == Id = "app_create" /\ AppId = {}

RunStep ==
    /\ pc = "step" /\ ~ NeedsCreation
    /\ \/ /\ Id \in ToolSteps => ToolServes
          /\ \E a \in Results(Id) :
                /\ Return(a)
                /\ permitted' = IF Id = "permissions" /\ a.status = "done"
                                THEN permitted \union AppId ELSE permitted
       \/ Id \in ToolSteps /\ ToolFails /\ Return(Failed) /\ UNCHANGED permitted
    /\ UNCHANGED <<fixed, disk, config, signedIn, apps, st, list, pos, exit>>

\* app_create without an app from app_pick: az, signed in, creates one, and may
\* fail before or after it has.
CreateApp ==
    /\ pc = "step" /\ NeedsCreation
    /\ \/ /\ signedIn
          /\ \E a \in Apps \ apps :
                /\ apps' = apps \union {a}
                /\ \/ Return(DoneWith({<<"app_id", a>>}))
                   \/ "tool" \in faults /\ Return(Failed)
       \/ /\ ToolFails \/ apps = Apps
          /\ Return(Failed)
          /\ UNCHANGED apps
    /\ UNCHANGED <<fixed, disk, config, signedIn, permitted, st, list, pos, exit>>

\* Mutant: after a step that is done the next one is run at once.
BugRecordResultRunsOn ==
    /\ pc = "returned"
    /\ \/ act.status = "done" /\ Record(act, pos + 1, "step")
       \/ /\ act.status \in {"awaiting_human", "awaiting_input"}
          /\ RecordLast(act, "suspended")
       \/ act.status = "failed" /\ RecordLast(act, "failed")
    /\ UNCHANGED <<config, world>>

RecordResult ==
    /\ pc = "returned"
    /\ \/ act.status = "done" /\ Record(act, pos + 1, "scan")
       \/ /\ act.status \in {"awaiting_human", "awaiting_input"}
          /\ RecordLast(act, "suspended")
       \/ /\ act.status = "failed"
          /\ RecordLast(act, IF Id = "client_file" THEN "suspended" ELSE "failed")
    /\ UNCHANGED <<config, world>>

AllDone ==
    /\ pc = "scan" /\ pos > Len(list)
    /\ pc' = "persist"
    /\ UNCHANGED <<disk, config, world, st, list, pos, act, exit>>

\* persistFinalConfig walks all steps of the journal, of whatever list, in the
\* order of a Go map: where several have a key, any may come last.
AllOutputs(key) == UNION {OutputOf(id, key) : id \in Ids}
OneOf(values) == IF values = {} THEN {"none"} ELSE values

Clients == IF AllOutputs("client_id") # {} THEN AllOutputs("client_id")
           ELSE AllOutputs("app_id")

PersistConfig ==
    /\ pc = "persist"
    /\ \/ /\ \E c \in Clients, p \in OneOf(AllOutputs("project_id")),
                t \in OneOf(AllOutputs("tenant")) :
                config' = [client |-> c, project |-> p, tenant |-> t]
          /\ pc' = "cleanup"
          /\ UNCHANGED <<st, list, pos, act, exit>>
       \/ /\ Clients = {} \/ "save" \in faults
          /\ Finish("failed")
          /\ UNCHANGED config
    /\ UNCHANGED <<disk, world>>

Cleanup ==
    /\ pc = "cleanup"
    /\ Finish("completed")
    /\ \/ disk' = NoJournal
       \/ "save" \in faults /\ UNCHANGED disk
    /\ UNCHANGED <<config, world>>

Kill ==
    /\ "kill" \in faults /\ pc # "off"
    /\ Finish("killed")
    /\ UNCHANGED <<disk, config, world>>

Run ==
    \/ SkipDone \/ PassHuman \/ AskAgain \/ Begin \/ RunStep \/ CreateApp
    \/ RecordResult \/ AllDone \/ PersistConfig \/ Cleanup

Next ==
    \/ Run \/ Kill \/ SignIn
    \/ FirstInvocation \/ ResumeAsTold \/ AnyInvocation \/ ResetState

Spec == Init /\ [][Next]_vars

\* A started process runs on, and a user who does what the events ask for does
\* it in the end: signs in, perhaps long after the setup was resumed, and resumes.
FairSpec ==
    /\ Spec
    /\ WF_vars(Run)
    /\ WF_vars(FirstInvocation) /\ WF_vars(ResumeAsTold) /\ WF_vars(SignIn)

-----------------------------------------------------------------------------
\* A step is run only when the journal on disk has every earlier one as done:
\* whatever is killed or fails to be saved, a resumed setup neither skips a step
\* nor builds on one that is not recorded (runner.go:112).
DoneBeforeNext ==
    [][pc = "step" /\ pc' = "returned" =>
          /\ disk # NoJournal
          /\ \A i \in 1 .. pos - 1 : disk.steps[list[i]].status = "done"]_vars

\* A user who follows the events never has a step done twice: once the file has it
\* as done, with what it has put out, no crash, failure or resumed run takes that
\* back, until the setup is complete and the file goes (runner.go:83).
StepsStayDone ==
    [][("stray" \notin faults /\ disk # NoJournal /\ disk' # NoJournal) =>
          \A id \in Ids : disk.steps[id].status = "done" =>
                           disk'.steps[id] = disk.steps[id]]_vars

\* The app that config.yaml names has all the permissions: the user can sign in
\* with it.  For Google, where --reuse may be given on one invocation and not
\* on the next, see AllOutputs (setup_llm.go:165).
ConfigIsUsable ==
    config # NoConfig /\ provider = "ms" => config.client \in permitted

\* "The state has been persisted and is resumable" (runner.go:72) whenever the
\* process says that it is suspended, unless the last Save failed, which the
\* runner ignores: the journal waits for someone.
SuspendedIsSaved ==
    exit = "suspended" /\ "save" \notin faults =>
        /\ disk # NoJournal
        /\ \E id \in Ids : disk.steps[id].status
                              \in {"awaiting_human", "awaiting_input", "failed"}

\* A user who does what the events ask for gets a configuration (README.md:124).
SetupCompletes == faults = {} => <>(config # NoConfig)

\* ... which the code keeps for Microsoft, also when the user resumes before the
\* sign-in that the event asked for: the runner takes it for done (runner.go:87), a
\* later az call fails, and the failed step is run again on the next resume.
MicrosoftCompletes == provider = "ms" => SetupCompletes

-----------------------------------------------------------------------------
(* Inductive strengthenings. *)

\* What the process has in memory it has from the file or put there, and it has
\* done the steps it has passed.
MemoryIsJournal ==
    /\ pc # "off" => exit = "none"
    /\ pc = "off" => st = NewJournal
    /\ \A i \in 1 .. pos - 1 : st.steps[list[i]].status = "done"
    /\ pc \in {"step", "returned"} => disk = st /\ Current.status = "in_progress"
    /\ pc \in {"persist", "cleanup"} => pos > Len(list)
    /\ \/ \A id \in Ids : st.steps[id].status = "pending"
       \/ disk # NoJournal /\ disk.steps = st.steps

AppSteps == {"app_pick", "app_create"}

\* Only these steps put out an app.
AppsFrom(id, out) ==
    \A v \in Values : /\ <<"client_id", v>> \notin out
                      /\ <<"app_id", v>> \in out => id \in AppSteps

\* A Microsoft journal whose permissions are done names permitted apps, and goes on
\* naming them: the steps that put out an app are not run again.
NamesPermitted(j, good) ==
    /\ \A id \in Elements(MicrosoftSteps) : AppsFrom(id, j.steps[id].out)
    /\ j.steps["permissions"].status # "pending" =>
          \A id \in AppSteps : j.steps[id].status = "done"
    /\ j.steps["permissions"].status \notin {"awaiting_human", "awaiting_input"}
    /\ j.steps["permissions"].status = "done" =>
          \A id \in AppSteps, v \in Values :
             <<"app_id", v>> \in j.steps[id].out => v \in good

AppsArePermitted ==
    provider = "ms" =>
       /\ NamesPermitted(st, permitted)
       /\ disk # NoJournal => NamesPermitted(disk, permitted)
       /\ pc = "returned" =>
             /\ AppsFrom(Id, act.out)
             /\ Id = "permissions" => act.status \in {"done", "failed"}
             /\ Id = "permissions" /\ act.status = "done" => AppId \subseteq permitted
       /\ config # NoConfig => config.client \in permitted

\* Only a user who starts again, against the events, has a journal in memory that
\* differs from the file in more than the inputs.
FollowedFromFile ==
    "stray" \notin faults /\ pc # "off" => disk = NoJournal \/ disk.steps = st.steps

-----------------------------------------------------------------------------
(* Progress. *)

\* Effects that the process still has before it, at most: three for each step of
\* its list, and three for the end.
StepsLeft ==
    LET steps == Len(list) + 1 - pos
    IN  CASE pc = "scan" -> 3 * steps + 3
          [] pc = "step" -> 3 * steps + 2
          [] pc = "returned" -> 3 * steps + 1
          [] pc = "persist" -> 2
          [] pc = "cleanup" -> 1
          [] OTHER -> 0

\* A running setup never goes back over its list: it comes closer to its end with
\* whatever it does, and nothing but its own steps changes what it works on
\* (runner.go:80).
RunsGoForward ==
    [][pc # "off" => \/ StepsLeft' \in 0 .. StepsLeft - 1
                     \/ UNCHANGED <<disk, config, apps, permitted, pc, st, list, pos, act>>]_vars
=============================================================================

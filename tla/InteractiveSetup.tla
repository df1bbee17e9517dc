--------------------------- MODULE InteractiveSetup ---------------------------
(***************************************************************************)
(* `apl setup [google|ms] --label L [--reconfigure] [--reset]`, the dialog *)
(* in the terminal: RunSetup (internal/cli/setup.go), the two provider     *)
(* flows (setup_google.go, setup_microsoft.go) and the file they write,    *)
(* config.yaml with the entries of all labels (internal/config).           *)
(*                                                                         *)
(* gcloud and az act on the cloud, and keep the account they act for in    *)
(* files of their own, outside the process.  One process runs at a time;   *)
(* what another terminal does meanwhile is a failure like the others.      *)
(***************************************************************************)
EXTENDS Naturals, FiniteSets

CONSTANTS
    Labels, NoLabel,  \* --label, and its absence
    Accounts,         \* the accounts gcloud and az can act for
    Projects, Apps,   \* bounds: GCP projects and app registrations
    Permissions,      \* the default Graph permissions of an app
    OptIn,            \* the permission that is offered by a prompt
    FaultSets,        \* the combinations of failures to look at
    NoEntry, Damaged, NoOne

\* "tool": gcloud or az is missing or fails; "other": another terminal writes
\* config.yaml or switches accounts.
Failures == {"tool", "save", "kill", "other"}

Keys == {"google", "ms"} \X Labels

\* A Google entry has the client of a file that was read, or one of another
\* form than googleClientIDRe; a Microsoft entry has an app.
Entries ==
    [client : {"wellformed", "malformed"}, project : Projects]
      \union [client : Apps]

Configs == [Keys -> Entries \union {NoEntry}]

ASSUME InteractiveAssumption ==
    /\ NoLabel \notin Labels
    /\ NoEntry \notin Entries
    /\ Damaged \notin Configs
    /\ NoOne \notin Accounts \union Projects \union Apps
    /\ Apps \intersect {"wellformed", "malformed"} = {}
    /\ Permissions \intersect OptIn = {}
    /\ IsFiniteSet(Permissions \union OptIn)
    /\ FaultSets \subseteq SUBSET Failures

VARIABLES
    faults,    \* fixed: what can go wrong
    config,    \* config.yaml
    acting,    \* the account that gcloud and az act for
    projects,  \* the GCP projects that exist
    enabled,   \* those with the four APIs
    apps,      \* the app registrations that exist
    granted,   \* the Graph permissions of each
    pc,        \* where the process is
    job,       \* its command line
    cur,       \* the configuration it has loaded
    next,      \* the one it will save
    todo,      \* the providers left to set up
    picked,    \* the account the user has picked
    target,    \* the project or app it works on
    wanted,    \* the permissions left to add
    attempts,  \* the client files that have been refused
    exit       \* how the last process ended

cloud == <<acting, projects, enabled, apps, granted>>
local == <<picked, target, wanted, attempts>>
vars == <<faults, config, cloud, pc, job, cur, next, todo, local, exit>>

-----------------------------------------------------------------------------
Empty == [k \in Keys |-> NoEntry]

Jobs == [label : Labels \union {NoLabel}, providers : SUBSET {"google", "ms"},
         reconfigure : BOOLEAN, reset : BOOLEAN]

NoJob == [label |-> NoLabel, providers |-> {}, reconfigure |-> FALSE, reset |-> FALSE]

MaxAttempts == 3

TypeOK ==
    /\ faults \in FaultSets
    /\ config \in Configs \union {Damaged}
    /\ acting \in [{"gcloud", "az"} -> Accounts]
    /\ projects \in SUBSET Projects
    /\ enabled \in SUBSET projects
    /\ apps \in SUBSET Apps
    /\ granted \in [Apps -> SUBSET (Permissions \union OptIn)]
    /\ pc \in {"off", "reset", "plan", "g_account", "g_project", "g_apis",
               "g_console", "g_client", "m_account", "m_confirm", "m_app",
               "m_permit", "save"}
    /\ job \in Jobs
    /\ cur \in Configs /\ next \in Configs
    /\ todo \in SUBSET {"google", "ms"}
    /\ picked \in Accounts \union {NoOne}
    /\ target \in Projects \union Apps \union {NoOne}
    /\ wanted \in SUBSET (Permissions \union OptIn)
    /\ attempts \in 0 .. MaxAttempts - 1
    /\ exit \in {"none", "ok", "user", "cli", "provider", "killed"}
    /\ pc \in {"g_apis", "g_console", "g_client"} => target \in projects
    /\ pc = "m_permit" => target \in apps
    /\ pc \notin {"off", "reset", "plan"} => job.label # NoLabel

\* config.yaml is missing, has an entry with an unusable client, or is damaged.
Init ==
    /\ faults \in FaultSets
    /\ \/ config = Damaged
       \/ config = Empty
       \/ \E l \in Labels, j \in Projects :
             config = [Empty EXCEPT ![<<"google", l>>] =
                                      [client |-> "malformed", project |-> j]]
    /\ acting \in [{"gcloud", "az"} -> Accounts]
    /\ projects \in SUBSET Projects
    /\ enabled = {}
    /\ apps = {} /\ granted = [a \in Apps |-> {}]
    /\ pc = "off" /\ job = NoJob
    /\ cur = Empty /\ next = Empty /\ todo = {}
    /\ picked = NoOne /\ target = NoOne /\ wanted = {} /\ attempts = 0
    /\ exit = "none"

-----------------------------------------------------------------------------
(* RunSetup. *)

\* Ends the process, whose memory is lost.
Finish(code) ==
    /\ pc' = "off" /\ exit' = code
    /\ job' = NoJob /\ cur' = Empty /\ next' = Empty /\ todo' = {}
    /\ picked' = NoOne /\ target' = NoOne /\ wanted' = {} /\ attempts' = 0

Goto(label) == pc' = label /\ UNCHANGED <<job, cur, exit>>

Fails == "tool" \in faults

\* GetProvider: the entry counts when its client has the right form.
IsConfigured(c, provider, label) ==
    LET entry == c[<<provider, label>>]
    IN  entry # NoEntry /\ entry.client # "malformed"

\* Mutant: any error of Load is tolerated, as that of a missing file is.
BugStartToleratesDamage(j) ==
    /\ pc = "off" /\ j.providers # {}
    /\ pc' = IF j.reset THEN "reset" ELSE "plan"
    /\ job' = j /\ cur' = IF config = Damaged THEN Empty ELSE config
    /\ exit' = "none"
    /\ UNCHANGED <<faults, config, cloud, next, todo, local>>

\* The command line, and config.Load: a file that cannot be read or parsed ends
\* every setup, also one that would reset it.
Start(j) ==
    /\ pc = "off" /\ j.providers # {}
    /\ \/ /\ config # Damaged
          /\ pc' = IF j.reset THEN "reset" ELSE "plan"
          /\ job' = j /\ cur' = config /\ exit' = "none"
          /\ UNCHANGED <<next, todo, local>>
       \/ config = Damaged /\ Finish("user")
    /\ UNCHANGED <<faults, config, cloud>>

\* config.Save: a temporary file of the process, renamed over the old one.
Save(c) == config' = c
SaveFails == "save" \in faults /\ UNCHANGED config

ResetConfig ==
    /\ pc = "reset"
    /\ \/ Finish("user") /\ UNCHANGED config          \* not confirmed
       \/ SaveFails /\ Finish("user")
       \/ /\ Save(Empty)
          /\ pc' = "plan" /\ cur' = Empty
          /\ UNCHANGED <<job, next, todo, local, exit>>
    /\ UNCHANGED <<faults, cloud>>

\* The flows of the providers, Google's first.
FlowOf(providers) ==
    IF "google" \in providers THEN "g_account"
    ELSE IF "ms" \in providers THEN "m_account" ELSE "save"

Plan ==
    LET open == {p \in job.providers :
                    job.reconfigure \/ ~ IsConfigured(cur, p, job.label)}
    IN  /\ pc = "plan"
        /\ \/ job.label = NoLabel /\ Finish("user")
           \/ job.label # NoLabel /\ open = {} /\ Finish("ok")
           \/ /\ job.label # NoLabel /\ open # {}
              /\ Goto(FlowOf(open))
              /\ todo' = open /\ next' = cur
              /\ UNCHANGED local
        /\ UNCHANGED <<faults, config, cloud>>

\* Mutant: each finished flow is saved at once.
BugFlowDoneSaves(provider, entry) ==
    /\ next' = [next EXCEPT ![<<provider, job.label>>] = entry]
    /\ config' = next'
    /\ todo' = todo \ {provider}
    /\ Goto(FlowOf(todo'))
    /\ picked' = NoOne /\ target' = NoOne /\ wanted' = {} /\ attempts' = 0

\* A flow returns its ProviderConfig, and the next one begins.
FlowDone(provider, entry) ==
    /\ next' = [next EXCEPT ![<<provider, job.label>>] = entry]
    /\ UNCHANGED config
    /\ todo' = todo \ {provider}
    /\ Goto(FlowOf(todo'))
    /\ picked' = NoOne /\ target' = NoOne /\ wanted' = {} /\ attempts' = 0

\* Mutant: the entries of other labels are not carried over.
BugSaveConfigOwnOnly ==
    /\ pc = "save"
    /\ \/ Save([k \in Keys |-> IF k[2] = job.label THEN next[k] ELSE NoEntry])
          /\ Finish("ok")
       \/ SaveFails /\ Finish("user")
    /\ UNCHANGED <<faults, cloud>>

SaveConfig ==
    /\ pc = "save"
    /\ \/ Save(next) /\ Finish("ok")
       \/ SaveFails /\ Finish("user")
    /\ UNCHANGED <<faults, cloud>>

-----------------------------------------------------------------------------
(* The account pickers. *)

Act(tool, a) == acting' = [acting EXCEPT ![tool] = a]

GoOnAs(a, label) ==
    /\ picked' = a
    /\ Goto(label)
    /\ UNCHANGED <<next, todo, target, wanted, attempts>>

\* Mutant: the account that was picked is not made the active one.
BugPickAccountOnlyNotes(tool, label) ==
    /\ \E a \in Accounts : GoOnAs(a, label) /\ UNCHANGED acting
    /\ UNCHANGED <<faults, config, projects, enabled, apps, granted>>

\* The tool is missing or nobody is signed in; or the user picks an account,
\* which is made the active one, or signs in with it; or names none.
PickAccount(tool, label) ==
    /\ \/ Fails /\ Finish("cli") /\ UNCHANGED acting
       \/ \E a \in Accounts : Act(tool, a) /\ GoOnAs(a, label)
       \/ Finish("provider") /\ UNCHANGED acting
       \/ \E a \in Accounts : Fails /\ Act(tool, a) /\ Finish("provider")
    /\ UNCHANGED <<faults, config, projects, enabled, apps, granted>>

GoogleAccount == pc = "g_account" /\ PickAccount("gcloud", "g_project")
MicrosoftAccount == pc = "m_account" /\ PickAccount("az", "m_confirm")

-----------------------------------------------------------------------------
(* runGoogle. *)

WorkOn(t, label) ==
    /\ target' = t
    /\ Goto(label)
    /\ UNCHANGED <<next, todo, picked, wanted, attempts>>

\* projects list, the picker, and projects create; the user may decline, and a
\* quota ends the creations.
GoogleProject ==
    /\ pc = "g_project"
    /\ \/ \E j \in projects : WorkOn(j, "g_apis") /\ UNCHANGED projects
       \/ \E j \in Projects \ projects :
             projects' = projects \union {j} /\ WorkOn(j, "g_apis")
       \/ \E j \in Projects \ projects :
             Fails /\ projects' = projects \union {j} /\ Finish("provider")
       \/ /\ Fails \/ projects \in {{}, Projects}
          /\ Finish("provider")
          /\ UNCHANGED projects
    /\ UNCHANGED <<faults, config, acting, enabled, apps, granted>>

\* Mutant: an error of services enable is ignored.
BugGoogleApisIgnoresError ==
    /\ pc = "g_apis"
    /\ WorkOn(target, "g_console")
    /\ enabled' = enabled \union {target} \/ (Fails /\ UNCHANGED enabled)
    /\ UNCHANGED <<faults, config, acting, projects, apps, granted>>

GoogleApis ==
    /\ pc = "g_apis"
    /\ \/ enabled' = enabled \union {target} /\ WorkOn(target, "g_console")
       \/ Fails /\ Finish("provider") /\ UNCHANGED enabled
    /\ UNCHANGED <<faults, config, acting, projects, apps, granted>>

\* The consent screen: created by gcloud, found, or set up in the browser, where
\* stdin may end before the user presses ENTER.
GoogleConsole ==
    /\ pc = "g_console"
    /\ WorkOn(target, "g_client") \/ Finish("user")
    /\ UNCHANGED <<faults, config, cloud>>

\* Mutant: a refused file leads back to the console, uncounted.
BugGoogleClientUncounted ==
    /\ pc = "g_client"
    /\ \/ FlowDone("google", [client |-> "wellformed", project |-> target])
       \/ WorkOn(target, "g_console") /\ UNCHANGED config
    /\ UNCHANGED <<faults, cloud>>

\* Mutant: the attempts are counted, but do not end the loop in time.
BugGoogleClientUnbounded ==
    /\ pc = "g_client"
    /\ \/ FlowDone("google", [client |-> "wellformed", project |-> target])
       \/ /\ attempts < MaxAttempts
          /\ attempts' = attempts + 1
          /\ UNCHANGED <<config, pc, job, cur, next, todo, picked, target, wanted, exit>>
       \/ attempts = MaxAttempts /\ Finish("provider") /\ UNCHANGED config
    /\ UNCHANGED <<faults, cloud>>

\* googleClientIDLoop: a file is taken, or refused, which ends the setup the
\* third time.  The validator of the program accepts every client.
GoogleClient ==
    /\ pc = "g_client"
    /\ \/ FlowDone("google", [client |-> "wellformed", project |-> target])
       \/ /\ attempts + 1 < MaxAttempts
          /\ attempts' = attempts + 1
          /\ UNCHANGED <<config, pc, job, cur, next, todo, picked, target, wanted, exit>>
       \/ attempts + 1 = MaxAttempts /\ Finish("provider") /\ UNCHANGED config
    /\ UNCHANGED <<faults, cloud>>

-----------------------------------------------------------------------------
(* runMicrosoft. *)

\* "Continue as this user?", and the table of Graph permissions.
MicrosoftConfirm ==
    /\ pc = "m_confirm"
    /\ \/ GoOnAs(picked, "m_app")
       \/ Finish("cli")
       \/ Fails /\ Finish("provider")
    /\ UNCHANGED <<faults, config, cloud>>

\* The app has been chosen; the opt-in permission was offered before.
AddPermissionsTo(a) ==
    /\ target' = a
    /\ \E optional \in SUBSET OptIn : wanted' = Permissions \union optional
    /\ Goto("m_permit")
    /\ UNCHANGED <<next, todo, picked, attempts>>

\* app list, the picker, and app create, which may fail after the app exists.
MicrosoftApp ==
    /\ pc = "m_app"
    /\ \/ \E a \in apps : AddPermissionsTo(a) /\ UNCHANGED apps
       \/ \E a \in Apps \ apps : apps' = apps \union {a} /\ AddPermissionsTo(a)
       \/ \E a \in Apps \ apps :
             Fails /\ apps' = apps \union {a} /\ Finish("provider")
       \/ (Fails \/ apps = Apps) /\ Finish("provider") /\ UNCHANGED apps
    /\ UNCHANGED <<faults, config, acting, projects, enabled, granted>>

\* Mutant: a permission that could not be added is passed over.
BugMicrosoftPermitPassesOver ==
    /\ pc = "m_permit" /\ wanted # {}
    /\ \E s \in wanted :
          /\ wanted' = wanted \ {s}
          /\ \/ granted' = [granted EXCEPT ![target] = @ \union {s}]
             \/ Fails /\ UNCHANGED granted
    /\ Goto("m_permit")
    /\ UNCHANGED <<faults, config, acting, projects, enabled, apps, next, todo,
                   picked, target, attempts>>

\* permission add, one by one, the optional one last.
MicrosoftPermit ==
    /\ pc = "m_permit" /\ wanted # {}
    /\ \E s \in IF wanted \subseteq OptIn THEN wanted ELSE wanted \ OptIn :
          \/ /\ granted' = [granted EXCEPT ![target] = @ \union {s}]
             /\ wanted' = wanted \ {s}
             /\ Goto("m_permit")
             /\ UNCHANGED <<next, todo, picked, target, attempts>>
          \/ Fails /\ Finish("provider") /\ UNCHANGED granted
    /\ UNCHANGED <<faults, config, acting, projects, enabled, apps>>

MicrosoftDone ==
    /\ pc = "m_permit" /\ wanted = {}
    /\ FlowDone("ms", [client |-> target])
    /\ UNCHANGED <<faults, cloud>>

-----------------------------------------------------------------------------
(* The rest of the machine. *)

Kill ==
    /\ "kill" \in faults /\ pc # "off"
    /\ Finish("killed")
    /\ UNCHANGED <<faults, config, cloud>>

\* Another setup saves one entry that is in order (persistFinalConfig of
\* setup_llm.go, or this program), or the user switches accounts.
OtherTerminal ==
    /\ "other" \in faults
    /\ \/ \E tool \in {"gcloud", "az"}, a \in Accounts :
             Act(tool, a) /\ UNCHANGED config
       \/ /\ config # Damaged
          /\ \E l \in Labels :
                \/ \E j \in enabled :
                      Save([config EXCEPT ![<<"google", l>>] =
                              [client |-> "wellformed", project |-> j]])
                \/ \E a \in {b \in apps : Permissions \subseteq granted[b]} :
                      Save([config EXCEPT ![<<"ms", l>>] = [client |-> a]])
          /\ UNCHANGED acting
    /\ UNCHANGED <<faults, projects, enabled, apps, granted, pc, job, cur, next,
                   todo, local, exit>>

Run ==
    \/ ResetConfig \/ Plan \/ SaveConfig
    \/ GoogleAccount \/ GoogleProject \/ GoogleApis \/ GoogleConsole \/ GoogleClient
    \/ MicrosoftAccount \/ MicrosoftConfirm \/ MicrosoftApp \/ MicrosoftPermit
    \/ MicrosoftDone

Next == Run \/ (\E j \in Jobs : Start(j)) \/ Kill \/ OtherTerminal

Spec == Init /\ [][Next]_vars

\* gcloud and az return, and the user answers each prompt in the end.
FairSpec == Spec /\ WF_vars(Run)

-----------------------------------------------------------------------------
\* The green check of isConfigured means that the cloud is ready for this client:
\* the project has its APIs, or the app all the default permissions, whatever
\* failed on the way there and however often the setup was run (setup.go:112,
\* setup_microsoft.go:314, setup_google.go:201).
ConfiguredIsReady ==
    config # Damaged =>
        \A l \in Labels :
           /\ IsConfigured(config, "google", l)
                 => config[<<"google", l>>].project \in enabled
           /\ IsConfigured(config, "ms", l)
                 => Permissions \subseteq granted[config[<<"ms", l>>].client]

Alone == "other" \notin faults

\* A setup that fails or is killed leaves config.yaml as it found it, or as the
\* confirmed reset left it, also when one of two providers was finished
\* (TestSetup_AbortMidFlow_NoPartialConfig); one that reports success has every
\* requested provider configured (setup.go:129, 141).
AllOrNothing ==
    [][pc # "off" /\ pc' = "off" /\ Alone =>
          IF exit' = "ok"
          THEN \A p \in job.providers : IsConfigured(config', p, job.label)
          ELSE config' = cur]_vars

\* Whole-file saves keep the entries of other labels and providers: setup changes
\* only what it was asked for, unless the user confirms a reset (setup.go:59,
\* "atomically writes the merged config").
OtherEntriesKept ==
    [][config # Damaged /\ Alone /\ pc # "reset" =>
          \A k \in Keys :
             config'[k] # config[k] => k \in job.providers \X {job.label}]_vars

\* A config.yaml that cannot be read is never replaced: its entries are not
\* lost to a setup that takes it for missing (setup.go:81).
DamagedFileKept == [][config = Damaged => config' = Damaged]_vars

\* gcloud and az act for the account the user has picked when they create and
\* change things in the cloud (setup_google.go:111, setup_microsoft.go:218).
ActsAsPicked ==
    /\ Alone /\ pc \in {"g_project", "g_apis", "g_console"} => acting["gcloud"] = picked
    /\ Alone /\ pc \in {"m_confirm", "m_app", "m_permit"} => acting["az"] = picked

\* Every setup ends, whatever the user answers: no prompt is repeated without
\* bound (setup_google.go:369).
SetupEnds == pc # "off" ~> pc = "off"

-----------------------------------------------------------------------------
(* Progress. *)

\* How many steps a setup has before it at most, with all its prompts.
StepsLeft ==
    LET all == Cardinality(Permissions \union OptIn)
    IN  CASE pc = "off" -> 0
          [] pc = "save" -> 1
          [] pc = "m_permit" -> 2 + Cardinality(wanted)
          [] pc = "m_app" -> 3 + all
          [] pc = "m_confirm" -> 4 + all
          [] pc = "m_account" -> 5 + all
          [] pc = "g_client" -> 5 + all + (MaxAttempts - attempts)
          [] pc = "g_console" -> 9 + all
          [] pc = "g_apis" -> 10 + all
          [] pc = "g_project" -> 11 + all
          [] pc = "g_account" -> 12 + all
          [] pc = "plan" -> 13 + all
          [] pc = "reset" -> 14 + all

\* Every step of a setup brings it nearer to its end, and nothing that happens on the
\* machine meanwhile takes it back.
SetupGoesForward ==
    [][pc # "off" /\ ~ UNCHANGED <<pc, wanted, attempts>> => StepsLeft' < StepsLeft]_vars

-----------------------------------------------------------------------------
(* Inductive strengthenings. *)

\* ... in a cloud with these projects and permissions.
EntriesReady(c, ready, has) ==
    \A l \in Labels :
       /\ IsConfigured(c, "google", l) => c[<<"google", l>>].project \in ready
       /\ IsConfigured(c, "ms", l)
             => c[<<"ms", l>>].client \in {a \in Apps : Permissions \subseteq has[a]}

\* Every configuration in the file or in memory is ready, and the flows are on the
\* way to a ready entry.
ReadyOnTheWay ==
    /\ config # Damaged => EntriesReady(config, enabled, granted)
    /\ EntriesReady(cur, enabled, granted) /\ EntriesReady(next, enabled, granted)
    /\ pc \in {"g_console", "g_client"} => target \in enabled
    /\ pc = "m_permit" => Permissions \subseteq granted[target] \union wanted

InGoogle == pc \in {"g_account", "g_project", "g_apis", "g_console", "g_client"}
InMicrosoft == pc \in {"m_account", "m_confirm", "m_app", "m_permit"}

\* Microsoft's flow comes when Google's is over.
GoogleFirst == InMicrosoft \/ pc = "save" => "google" \notin todo

\* The process has the file in memory, and changes of it what it has finished.
CarriesTheFile ==
    /\ pc # "off" => config # Damaged
    /\ pc # "off" /\ Alone => config = cur
    /\ InGoogle => "google" \in todo
    /\ InMicrosoft => "ms" \in todo
    /\ pc = "save" => todo = {}
    /\ InGoogle \/ InMicrosoft \/ pc = "save" =>
          /\ todo \subseteq job.providers
          /\ \A p \in job.providers \ todo : IsConfigured(next, p, job.label)
          /\ \A k \in Keys : next[k] # cur[k] => k \in job.providers \X {job.label}
=============================================================================

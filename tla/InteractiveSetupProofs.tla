------------------------ MODULE InteractiveSetupProofs ------------------------
(***************************************************************************)
(* Theorems about InteractiveSetup, for any labels, accounts, projects,    *)
(* apps and permissions, and whichever failures occur: its type            *)
(* correctness and its safety properties.                                  *)
(***************************************************************************)
EXTENDS InteractiveSetup, FiniteSetTheorems, TLAPS

-----------------------------------------------------------------------------
(* Type correctness, of the machine and of the process. *)

MachineOK ==
    /\ faults \in FaultSets
    /\ config \in Configs \union {Damaged}
    /\ acting \in [{"gcloud", "az"} -> Accounts]
    /\ projects \in SUBSET Projects
    /\ enabled \in SUBSET projects
    /\ apps \in SUBSET Apps
    /\ granted \in [Apps -> SUBSET (Permissions \union OptIn)]

ProcessOK ==
    /\ pc \in {"off", "reset", "plan", "g_account", "g_project", "g_apis",
               "g_console", "g_client", "m_account", "m_confirm", "m_app",
               "m_permit", "save"}
    /\ job \in Jobs
    /\ cur \in Configs /\ next \in Configs
    /\ todo \in SUBSET {"google", "ms"}
    /\ picked \in Accounts \union {NoOne}
    /\ target \in Projects \union Apps \union {NoOne}
    /\ wanted \in SUBSET (Permissions \union OptIn)
    /\ attempts \in 0 .. MaxAttempts - 1
    /\ exit \in {"none", "ok", "user", "cli", "provider", "killed"}
    /\ pc \in {"g_apis", "g_console", "g_client"} => target \in projects
    /\ pc = "m_permit" => target \in apps
    /\ pc \notin {"off", "reset", "plan"} => job.label # NoLabel

LEMMA TypeParts ==
    /\ TypeOK <=> MachineOK /\ ProcessOK
    /\ TypeOK' <=> MachineOK' /\ ProcessOK'
BY DEF TypeOK, MachineOK, ProcessOK

LEMMA EmptyTyped == Empty \in Configs /\ NoJob \in Jobs
BY DEF Empty, Configs, NoJob, Jobs

\* A process that ends is as good as new.
LEMMA FinishTyped ==
    ASSUME NEW code \in {"ok", "user", "cli", "provider", "killed"}, Finish(code)
    PROVE  ProcessOK'
BY EmptyTyped DEF Finish, ProcessOK, MaxAttempts

LEMMA FlowOfTyped ==
    ASSUME NEW providers
    PROVE  FlowOf(providers) \in {"g_account", "m_account", "save"}
BY DEF FlowOf

LEMMA FlowDoneTyped ==
    ASSUME TypeOK, NEW provider \in {"google", "ms"}, NEW entry \in Entries,
           FlowDone(provider, entry), job.label # NoLabel
    PROVE  ProcessOK' /\ UNCHANGED config
<1>1. job.label \in Labels
  BY DEF TypeOK, Jobs
<1>2. next' \in Configs
  BY <1>1 DEF FlowDone, TypeOK, Configs, Keys
<1>3. pc' \in {"g_account", "m_account", "save"}
  BY FlowOfTyped DEF FlowDone, Goto
<1> QED
  BY <1>2, <1>3 DEF FlowDone, Goto, TypeOK, ProcessOK, MaxAttempts

\* The steps within a flow.
LEMMA WorkOnTyped ==
    ASSUME TypeOK, NEW t \in projects', NEW label \in {"g_apis", "g_console", "g_client"},
           WorkOn(t, label), job.label # NoLabel, projects' \in SUBSET Projects
    PROVE  ProcessOK'
BY DEF WorkOn, Goto, TypeOK, ProcessOK

LEMMA GoOnAsTyped ==
    ASSUME TypeOK, NEW a \in Accounts \union {NoOne},
           NEW label \in {"g_project", "m_confirm", "m_app"},
           GoOnAs(a, label), job.label # NoLabel
    PROVE  ProcessOK'
BY DEF GoOnAs, Goto, TypeOK, ProcessOK

LEMMA PermitTyped ==
    ASSUME TypeOK, NEW a \in apps', AddPermissionsTo(a), job.label # NoLabel,
           apps' \in SUBSET Apps
    PROVE  ProcessOK'
<1>1. wanted' \in SUBSET (Permissions \union OptIn)
  BY DEF AddPermissionsTo
<1> QED
  BY <1>1 DEF AddPermissionsTo, Goto, TypeOK, ProcessOK

LEMMA MachineStays ==
    ASSUME MachineOK, UNCHANGED <<faults, config, cloud>>
    PROVE  MachineOK'
BY DEF MachineOK, cloud

-----------------------------------------------------------------------------
LEMMA TypeStep ==
    ASSUME TypeOK, [Next]_vars
    PROVE  TypeOK'
<1> USE TypeParts
<1>1. ASSUME NEW j \in Jobs, Start(j)
      PROVE  TypeOK'
  <2>1. MachineOK'
    BY <1>1, MachineStays DEF Start
  <2>2. CASE Finish("user")
    BY <2>1, <2>2, FinishTyped
  <2>3. CASE ~ Finish("user")
    BY <1>1, <2>1, <2>3 DEF Start, TypeOK, ProcessOK, local
  <2> QED
    BY <2>2, <2>3
<1>2. CASE ResetConfig
  <2>1. MachineOK'
    BY <1>2, EmptyTyped DEF ResetConfig, Save, SaveFails, MachineOK, cloud
  <2>2. CASE Finish("user")
    BY <2>1, <2>2, FinishTyped
  <2>3. CASE pc' = "plan" /\ cur' = Empty /\ UNCHANGED <<job, next, todo, local, exit>>
    BY <2>1, <2>3, EmptyTyped DEF TypeOK, ProcessOK, local
  <2> QED
    BY <1>2, <2>2, <2>3 DEF ResetConfig
<1>3. CASE Plan
  <2>1. MachineOK'
    BY <1>3, MachineStays DEF Plan
  <2> DEFINE open == {p \in job.providers :
                         job.reconfigure \/ ~ IsConfigured(cur, p, job.label)}
  <2>2. CASE Finish("user") \/ Finish("ok")
    BY <2>1, <2>2, FinishTyped
  <2>3. CASE /\ job.label # NoLabel
             /\ Goto(FlowOf(open))
             /\ todo' = open /\ next' = cur
             /\ UNCHANGED local
    <3>1. open \in SUBSET {"google", "ms"}
      BY DEF TypeOK, Jobs
    <3> HIDE DEF open
    <3>2. pc' \in {"g_account", "m_account", "save"}
      BY <2>3, FlowOfTyped DEF Goto
    <3> QED
      BY <2>1, <2>3, <3>1, <3>2 DEF Goto, TypeOK, ProcessOK, local
  <2> QED
    BY <1>3, <2>2, <2>3 DEF Plan
<1>4. CASE SaveConfig
  <2>1. MachineOK'
    BY <1>4 DEF SaveConfig, Save, SaveFails, MachineOK, ProcessOK, cloud
  <2> QED
    BY <1>4, <2>1, FinishTyped DEF SaveConfig
<1>5. ASSUME NEW tool \in {"gcloud", "az"}, NEW label \in {"g_project", "m_confirm"},
             PickAccount(tool, label), job.label # NoLabel
      PROVE  TypeOK'
  <2>1. MachineOK'
    BY <1>5 DEF PickAccount, Act, MachineOK
  <2> QED
    BY <1>5, <2>1, FinishTyped, GoOnAsTyped DEF PickAccount
<1>6. CASE GoogleAccount \/ MicrosoftAccount
  BY <1>5, <1>6 DEF GoogleAccount, MicrosoftAccount, TypeOK
<1>7. CASE GoogleProject
  <2>1. MachineOK'
    BY <1>7 DEF GoogleProject, MachineOK
  <2>2. CASE Finish("provider")
    BY <2>1, <2>2, FinishTyped
  <2>3. CASE \E j \in projects' : WorkOn(j, "g_apis")
    BY <1>7, <2>1, <2>3, WorkOnTyped DEF GoogleProject, TypeOK, MachineOK
  <2> QED
    BY <1>7, <2>2, <2>3 DEF GoogleProject
<1>8. CASE GoogleApis
  <2>1. MachineOK'
    BY <1>8 DEF GoogleApis, MachineOK, ProcessOK
  <2>2. target \in projects' /\ job.label # NoLabel
    BY <1>8 DEF GoogleApis, ProcessOK
  <2> QED
    BY <1>8, <2>1, <2>2, FinishTyped, WorkOnTyped DEF GoogleApis, MachineOK
<1>9. CASE GoogleConsole
  <2>1. MachineOK'
    BY <1>9, MachineStays DEF GoogleConsole
  <2>2. target \in projects' /\ job.label # NoLabel
    BY <1>9 DEF GoogleConsole, ProcessOK, cloud
  <2> QED
    BY <1>9, <2>1, <2>2, FinishTyped, WorkOnTyped DEF GoogleConsole, MachineOK
<1>10. CASE GoogleClient
  <2>1. target \in Projects /\ job.label # NoLabel
    BY <1>10 DEF GoogleClient, ProcessOK, MachineOK
  <2>2. CASE FlowDone("google", [client |-> "wellformed", project |-> target])
    <3>1. [client |-> "wellformed", project |-> target] \in Entries
      BY <2>1 DEF Entries
    <3> QED
      BY <1>10, <2>1, <2>2, <3>1, FlowDoneTyped, MachineStays DEF GoogleClient
  <2>3. CASE UNCHANGED config /\ Finish("provider")
    BY <1>10, <2>3, FinishTyped, MachineStays DEF GoogleClient
  <2>4. CASE /\ attempts + 1 < MaxAttempts
             /\ attempts' = attempts + 1
             /\ UNCHANGED <<config, pc, job, cur, next, todo, picked, target, wanted, exit>>
    <3>1. MachineOK'
      BY <1>10, <2>4, MachineStays DEF GoogleClient
    <3> QED
      BY <1>10, <2>4, <3>1 DEF GoogleClient, TypeOK, ProcessOK, MaxAttempts, cloud
  <2> QED
    BY <1>10, <2>2, <2>3, <2>4 DEF GoogleClient
<1>11. CASE MicrosoftConfirm
  <2>1. MachineOK'
    BY <1>11, MachineStays DEF MicrosoftConfirm
  <2>2. picked \in Accounts \union {NoOne} /\ job.label # NoLabel
    BY <1>11 DEF MicrosoftConfirm, ProcessOK
  <2> QED
    BY <1>11, <2>1, <2>2, FinishTyped, GoOnAsTyped DEF MicrosoftConfirm
<1>12. CASE MicrosoftApp
  <2>1. MachineOK'
    BY <1>12 DEF MicrosoftApp, MachineOK
  <2>2. CASE Finish("provider")
    BY <2>1, <2>2, FinishTyped
  <2>3. CASE \E a \in apps' : AddPermissionsTo(a)
    BY <1>12, <2>1, <2>3, PermitTyped DEF MicrosoftApp, TypeOK, MachineOK
  <2> QED
    BY <1>12, <2>2, <2>3 DEF MicrosoftApp
<1>13. CASE MicrosoftPermit
  <2>1. PICK s \in wanted :
           \/ /\ granted' = [granted EXCEPT ![target] = @ \union {s}]
              /\ wanted' = wanted \ {s}
              /\ Goto("m_permit")
              /\ UNCHANGED <<next, todo, picked, target, attempts>>
           \/ Finish("provider") /\ UNCHANGED granted
    BY <1>13 DEF MicrosoftPermit
  <2>2. target \in Apps /\ s \in Permissions \union OptIn /\ pc = "m_permit"
    BY <1>13, <2>1 DEF MicrosoftPermit, ProcessOK, MachineOK
  <2>3. MachineOK'
    <3>1. granted' \in [Apps -> SUBSET (Permissions \union OptIn)]
      BY <2>1, <2>2 DEF MachineOK
    <3> QED
      BY <1>13, <3>1 DEF MicrosoftPermit, MachineOK
  <2>4. CASE Finish("provider")
    BY <2>3, <2>4, FinishTyped
  <2>5. CASE /\ wanted' = wanted \ {s}
             /\ Goto("m_permit")
             /\ UNCHANGED <<next, todo, picked, target, attempts>>
    BY <1>13, <2>2, <2>3, <2>5 DEF MicrosoftPermit, Goto, TypeOK, ProcessOK
  <2> QED
    BY <2>1, <2>4, <2>5
<1>14. CASE MicrosoftDone
  <2>1. [client |-> target] \in Entries /\ job.label # NoLabel
    BY <1>14 DEF MicrosoftDone, ProcessOK, MachineOK, Entries
  <2> QED
    BY <1>14, <2>1, FlowDoneTyped, MachineStays DEF MicrosoftDone
<1>15. CASE Kill
  BY <1>15, FinishTyped, MachineStays DEF Kill
<1>16. CASE OtherTerminal
  <2>1. ASSUME config # Damaged, NEW k \in Keys, NEW entry \in Entries
        PROVE  [config EXCEPT ![k] = entry] \in Configs
    BY <2>1 DEF MachineOK, Configs
  <2>2. config' \in Configs \union {Damaged}
    <3>1. \A l \in Labels : <<"google", l>> \in Keys /\ <<"ms", l>> \in Keys
      BY DEF Keys
    <3>2. \A j \in enabled : [client |-> "wellformed", project |-> j] \in Entries
      BY DEF Entries, MachineOK
    <3>3. \A a \in apps : [client |-> a] \in Entries
      BY DEF Entries, MachineOK
    <3>4. \/ UNCHANGED config
          \/ config # Damaged /\ \E k \in Keys, entry \in Entries :
                                    config' = [config EXCEPT ![k] = entry]
      BY <1>16, <3>1, <3>2, <3>3 DEF OtherTerminal, Save
    <3> QED
      BY <2>1, <3>4 DEF MachineOK
  <2>3. acting' \in [{"gcloud", "az"} -> Accounts]
    BY <1>16 DEF OtherTerminal, Act, MachineOK
  <2> QED
    BY <1>16, <2>2, <2>3 DEF OtherTerminal, TypeOK, MachineOK, ProcessOK, local
<1>17. CASE UNCHANGED vars
  BY <1>17 DEF vars, TypeOK, cloud, local
<1> QED
  BY <1>1, <1>2, <1>3, <1>4, <1>6, <1>7, <1>8, <1>9, <1>10, <1>11, <1>12, <1>13,
     <1>14, <1>15, <1>16, <1>17 DEF Next, Run

\* Type correctness: in particular, the project or app at work exists, and the
\* attempts at a client file stay below their bound (setup_google.go:369).
THEOREM TypeCorrect == Spec => []TypeOK
<1>1. Init => TypeOK
  <2>1. ASSUME NEW l \in Labels, NEW j \in Projects
        PROVE  [Empty EXCEPT ![<<"google", l>>] =
                           [client |-> "malformed", project |-> j]] \in Configs
    BY EmptyTyped DEF Configs, Entries, Keys
  <2>2. ASSUME Init
        PROVE  MachineOK
    <3>1. config \in Configs \union {Damaged}
      BY <2>1, <2>2, EmptyTyped DEF Init
    <3>2. granted \in [Apps -> SUBSET (Permissions \union OptIn)]
      BY <2>2 DEF Init
    <3> QED
      BY <2>2, <3>1, <3>2 DEF Init, MachineOK
  <2>3. ASSUME Init
        PROVE  ProcessOK
    BY <2>3, EmptyTyped DEF Init, ProcessOK, MaxAttempts
  <2> QED
    BY <2>2, <2>3, TypeParts
<1> QED
  BY <1>1, TypeStep, PTL DEF Spec

-----------------------------------------------------------------------------
(* What is configured is ready. *)

\* The cloud loses nothing.
CloudGrows == enabled \subseteq enabled' /\ \A a \in Apps : granted[a] \subseteq granted'[a]

LEMMA Grows ==
    ASSUME TypeOK, [Next]_vars
    PROVE  CloudGrows
<1>1. CASE UNCHANGED <<enabled, granted>>
  BY <1>1 DEF CloudGrows
<1>2. CASE GoogleApis
  BY <1>2 DEF GoogleApis, CloudGrows
<1>3. CASE MicrosoftPermit
  <2>1. \/ UNCHANGED granted
        \/ \E s \in wanted : granted' = [granted EXCEPT ![target] = @ \union {s}]
    BY <1>3 DEF MicrosoftPermit
  <2>2. \A a \in Apps : granted[a] \subseteq granted'[a]
    BY <2>1 DEF TypeOK
  <2> QED
    BY <1>3, <2>2 DEF MicrosoftPermit, CloudGrows
<1>4. ASSUME NEW j \in Jobs, Start(j)
      PROVE  UNCHANGED <<enabled, granted>>
  BY <1>4 DEF Start, cloud
<1>5. ASSUME \/ ResetConfig \/ Plan \/ SaveConfig \/ GoogleAccount \/ GoogleProject
             \/ GoogleConsole \/ GoogleClient \/ MicrosoftAccount \/ MicrosoftConfirm
             \/ MicrosoftApp \/ MicrosoftDone \/ Kill \/ OtherTerminal \/ UNCHANGED vars
      PROVE  UNCHANGED <<enabled, granted>>
  BY <1>5 DEF ResetConfig, Plan, SaveConfig, GoogleAccount, GoogleProject, GoogleConsole,
     GoogleClient, MicrosoftAccount, MicrosoftConfirm, MicrosoftApp, MicrosoftDone, Kill,
     OtherTerminal, PickAccount, vars, cloud
<1> QED
  BY <1>1, <1>2, <1>3, <1>4, <1>5 DEF Next, Run

LEMMA StaysReady ==
    ASSUME CloudGrows, NEW c, EntriesReady(c, enabled, granted)
    PROVE  EntriesReady(c, enabled', granted')
BY DEF CloudGrows, EntriesReady, IsConfigured

LEMMA EmptyReady ==
    ASSUME NEW ready, NEW has
    PROVE  EntriesReady(Empty, ready, has)
BY DEF EntriesReady, IsConfigured, Empty, Keys

\* A process that ends has nothing in memory that could be unready.
LEMMA FinishReady ==
    ASSUME NEW code, Finish(code),
           config' # Damaged => EntriesReady(config', enabled', granted')
    PROVE  ReadyOnTheWay'
BY EmptyReady DEF Finish, ReadyOnTheWay

\* So has one that enters a flow, or goes on within one, with what it had.
LEMMA GoesOnReady ==
    ASSUME ReadyOnTheWay, CloudGrows, UNCHANGED <<config, cur, next>>,
           pc' \in {"g_console", "g_client"} => target' \in enabled',
           pc' = "m_permit" => Permissions \subseteq granted'[target'] \union wanted'
    PROVE  ReadyOnTheWay'
<1>1. /\ config # Damaged => EntriesReady(config', enabled', granted')
      /\ EntriesReady(cur', enabled', granted') /\ EntriesReady(next', enabled', granted')
  BY StaysReady DEF ReadyOnTheWay
<1> QED
  BY <1>1 DEF ReadyOnTheWay

\* A flow that is done adds a ready entry.
LEMMA FlowDoneReady ==
    ASSUME TypeOK, ReadyOnTheWay, CloudGrows, NEW provider \in {"google", "ms"},
           NEW entry, FlowDone(provider, entry), UNCHANGED cloud,
           provider = "google" => entry.project \in enabled,
           provider = "ms" => entry.client \in {a \in Apps : Permissions \subseteq granted[a]}
    PROVE  ReadyOnTheWay'
<1>1. \A k \in Keys : next'[k] = IF k = <<provider, job.label>> THEN entry ELSE next[k]
  BY DEF FlowDone, TypeOK, Configs
<1>2. EntriesReady(next', enabled', granted')
  BY <1>1 DEF ReadyOnTheWay, EntriesReady, IsConfigured, Keys, cloud
<1>3. /\ config # Damaged => EntriesReady(config', enabled', granted')
      /\ EntriesReady(cur', enabled', granted')
      /\ UNCHANGED <<config, cur>>
  BY StaysReady DEF ReadyOnTheWay, FlowDone, Goto
<1>4. pc' \in {"g_account", "m_account", "save"}
  BY FlowOfTyped DEF FlowDone, Goto
<1> QED
  BY <1>2, <1>3, <1>4 DEF ReadyOnTheWay

LEMMA ReadyStep ==
    ASSUME TypeOK, ReadyOnTheWay, [Next]_vars
    PROVE  ReadyOnTheWay'
<1>1. CloudGrows
  BY Grows
<1>2. config # Damaged => EntriesReady(config, enabled', granted')
  BY <1>1, StaysReady DEF ReadyOnTheWay
<1>3. ASSUME NEW code, Finish(code), UNCHANGED config
      PROVE  ReadyOnTheWay'
  BY <1>1, <1>2, <1>3, FinishReady
<1>4. ASSUME NEW j \in Jobs, Start(j)
      PROVE  ReadyOnTheWay'
  <2>1. CASE Finish("user")
    BY <1>3, <1>4, <2>1 DEF Start
  <2>2. CASE config # Damaged /\ pc' \in {"reset", "plan"} /\ cur' = config /\ UNCHANGED <<config, next>>
    <3>1. EntriesReady(cur', enabled', granted') /\ EntriesReady(next', enabled', granted')
      BY <1>1, <1>2, <2>2, StaysReady DEF ReadyOnTheWay
    <3> QED
      BY <1>2, <2>2, <3>1 DEF ReadyOnTheWay
  <2> QED
    BY <1>4, <2>1, <2>2 DEF Start
<1>5. CASE ResetConfig
  <2>1. CASE UNCHANGED config /\ Finish("user")
    BY <1>3, <2>1
  <2>2. CASE Save(Empty) /\ pc' = "plan" /\ cur' = Empty /\ UNCHANGED next
    <3>1. EntriesReady(Empty, enabled', granted') /\ EntriesReady(next', enabled', granted')
      BY <1>1, <2>2, EmptyReady, StaysReady DEF ReadyOnTheWay
    <3> QED
      BY <2>2, <3>1 DEF ReadyOnTheWay, Save
  <2> QED
    BY <1>5, <2>1, <2>2 DEF ResetConfig, SaveFails
<1>6. CASE Plan
  <2>1. CASE \E code : Finish(code)
    BY <1>3, <1>6, <2>1 DEF Plan
  <2>2. CASE pc' \in {"g_account", "m_account", "save"} /\ UNCHANGED cur /\ next' = cur
    <3>1. EntriesReady(cur', enabled', granted') /\ EntriesReady(next', enabled', granted')
      BY <1>1, <2>2, StaysReady DEF ReadyOnTheWay
    <3> QED
      BY <1>2, <1>6, <2>2, <3>1 DEF ReadyOnTheWay, Plan
  <2> QED
    BY <1>6, <2>1, <2>2, FlowOfTyped DEF Plan, Goto
<1>7. CASE SaveConfig
  <2>1. CASE Save(next) /\ Finish("ok")
    <3>1. EntriesReady(config', enabled', granted')
      BY <1>1, <2>1, StaysReady DEF ReadyOnTheWay, Save
    <3> QED
      BY <1>1, <2>1, <3>1, FinishReady
  <2> QED
    BY <1>3, <1>7, <2>1 DEF SaveConfig, SaveFails
<1>8. ASSUME UNCHANGED <<config, cur, next>>,
             pc' \in {"g_account", "g_project", "g_apis", "m_account", "m_confirm", "m_app"}
      PROVE  ReadyOnTheWay'
  BY <1>1, <1>8, GoesOnReady
<1>9. CASE GoogleAccount \/ MicrosoftAccount
  BY <1>3, <1>8, <1>9 DEF GoogleAccount, MicrosoftAccount, PickAccount, GoOnAs, Goto
<1>10. CASE GoogleProject
  BY <1>3, <1>8, <1>10 DEF GoogleProject, WorkOn, Goto
<1>11. CASE GoogleApis
  <2>1. CASE enabled' = enabled \union {target} /\ WorkOn(target, "g_console")
    BY <1>1, <1>11, <2>1, GoesOnReady DEF GoogleApis, WorkOn, Goto
  <2> QED
    BY <1>3, <1>11, <2>1 DEF GoogleApis
<1>12. CASE GoogleConsole
  <2>1. CASE WorkOn(target, "g_client")
    <3>1. target \in enabled
      BY <1>12 DEF GoogleConsole, ReadyOnTheWay
    <3> QED
      BY <1>1, <1>12, <2>1, <3>1, GoesOnReady DEF GoogleConsole, WorkOn, Goto, cloud
  <2> QED
    BY <1>3, <1>12, <2>1 DEF GoogleConsole
<1>13. CASE GoogleClient
  <2>1. target \in enabled /\ UNCHANGED cloud
    BY <1>13 DEF GoogleClient, ReadyOnTheWay
  <2>2. CASE FlowDone("google", [client |-> "wellformed", project |-> target])
    BY <1>1, <2>1, <2>2, FlowDoneReady
  <2>3. CASE UNCHANGED <<config, pc, cur, next, target, wanted>>
    BY <1>1, <1>13, <2>1, <2>3, GoesOnReady DEF GoogleClient, cloud
  <2> QED
    BY <1>3, <1>13, <2>2, <2>3 DEF GoogleClient
<1>14. CASE MicrosoftConfirm
  BY <1>3, <1>8, <1>14 DEF MicrosoftConfirm, GoOnAs, Goto
<1>15. CASE MicrosoftApp
  <2>1. CASE \E a \in Apps : AddPermissionsTo(a)
    <3>1. Permissions \subseteq wanted' /\ pc' = "m_permit" /\ UNCHANGED <<cur, next>>
      BY <2>1 DEF AddPermissionsTo, Goto
    <3> QED
      BY <1>1, <1>15, <3>1, GoesOnReady DEF MicrosoftApp
  <2> QED
    BY <1>3, <1>15, <2>1 DEF MicrosoftApp, TypeOK
<1>16. CASE MicrosoftPermit
  <2>1. CASE \E s \in wanted : /\ granted' = [granted EXCEPT ![target] = @ \union {s}]
                               /\ wanted' = wanted \ {s}
                               /\ Goto("m_permit")
                               /\ UNCHANGED <<next, target>>
    <3>1. Permissions \subseteq granted[target] \union wanted /\ target \in Apps
      BY <1>16 DEF MicrosoftPermit, ReadyOnTheWay, TypeOK
    <3>2. Permissions \subseteq granted'[target] \union wanted'
      BY <2>1, <3>1 DEF TypeOK
    <3> QED
      BY <1>1, <1>16, <2>1, <3>2, GoesOnReady DEF MicrosoftPermit, Goto
  <2> QED
    BY <1>3, <1>16, <2>1 DEF MicrosoftPermit
<1>17. CASE MicrosoftDone
  <2>1. target \in {a \in Apps : Permissions \subseteq granted[a]}
    BY <1>17 DEF MicrosoftDone, ReadyOnTheWay, TypeOK
  <2> QED
    BY <1>1, <1>17, <2>1, FlowDoneReady DEF MicrosoftDone
<1>18. CASE Kill
  BY <1>3, <1>18 DEF Kill
<1>19. CASE OtherTerminal
  <2>1. UNCHANGED <<pc, cur, next, target, wanted, enabled, granted>>
    BY <1>19 DEF OtherTerminal, local
  <2>2. config' # Damaged => EntriesReady(config', enabled', granted')
    <3>1. CASE UNCHANGED config
      BY <1>2, <3>1
    <3>2. ASSUME config # Damaged, NEW k \in Keys, NEW entry,
                 config' = [config EXCEPT ![k] = entry],
                 k[1] = "google" => entry.project \in enabled,
                 k[1] = "ms" => entry.client \in {a \in Apps : Permissions \subseteq granted[a]}
          PROVE  EntriesReady(config', enabled', granted')
      <4>1. \A key \in Keys : config'[key] = IF key = k THEN entry ELSE config[key]
        BY <3>2 DEF TypeOK, Configs
      <4>2. EntriesReady(config, enabled, granted) /\ UNCHANGED <<enabled, granted>>
        BY <2>1, <3>2 DEF ReadyOnTheWay
      <4>3. ASSUME NEW l \in Labels, IsConfigured(config', "google", l)
            PROVE  config'[<<"google", l>>].project \in enabled
        <5>1. <<"google", l>> \in Keys
          BY DEF Keys
        <5>2. CASE k = <<"google", l>>
          BY <3>2, <4>1, <5>1, <5>2
        <5>3. CASE k # <<"google", l>>
          BY <4>1, <4>2, <4>3, <5>1, <5>3 DEF EntriesReady, IsConfigured
        <5> QED
          BY <5>2, <5>3
      <4>4. ASSUME NEW l \in Labels, IsConfigured(config', "ms", l)
            PROVE  config'[<<"ms", l>>].client \in {a \in Apps : Permissions \subseteq granted[a]}
        <5>1. <<"ms", l>> \in Keys
          BY DEF Keys
        <5>2. CASE k = <<"ms", l>>
          BY <3>2, <4>1, <5>1, <5>2
        <5>3. CASE k # <<"ms", l>>
          BY <4>1, <4>2, <4>4, <5>1, <5>3 DEF EntriesReady, IsConfigured
        <5> QED
          BY <5>2, <5>3
      <4> QED
        BY <4>2, <4>3, <4>4 DEF EntriesReady
    <3>3. \A l \in Labels : /\ <<"google", l>> \in Keys /\ <<"google", l>>[1] = "google"
                            /\ <<"ms", l>> \in Keys /\ <<"ms", l>>[1] = "ms"
      BY DEF Keys
    <3> QED
      BY <1>19, <3>1, <3>2, <3>3 DEF OtherTerminal, Save, TypeOK
  <2> QED
    BY <1>1, <2>1, <2>2, StaysReady DEF ReadyOnTheWay
<1>20. CASE UNCHANGED vars
  BY <1>20 DEF vars, cloud, local, ReadyOnTheWay
<1> QED
  BY <1>4, <1>5, <1>6, <1>7, <1>9, <1>10, <1>11, <1>12, <1>13, <1>14, <1>15, <1>16,
     <1>17, <1>18, <1>19, <1>20 DEF Next, Run

\* Whatever fails on the way and however often the setup is run, a provider that
\* counts as configured has its APIs or its permissions (setup.go:112).
THEOREM ConfiguredReady == Spec => []ConfiguredIsReady
<1>1. Init => ReadyOnTheWay
  <2>1. ASSUME Init, config # Damaged
        PROVE  EntriesReady(config, enabled, granted)
    <3>1. CASE config = Empty
      BY <3>1, EmptyReady
    <3>2. ASSUME NEW l \in Labels, NEW j \in Projects,
                 config = [Empty EXCEPT ![<<"google", l>>] =
                                      [client |-> "malformed", project |-> j]]
          PROVE  EntriesReady(config, enabled, granted)
      <4>1. \A k \in Keys : config[k] = NoEntry \/ config[k].client = "malformed"
        BY <3>2 DEF Empty
      <4> QED
        BY <4>1 DEF EntriesReady, IsConfigured, Keys
    <3> QED
      BY <2>1, <3>1, <3>2 DEF Init
  <2>2. ASSUME Init
        PROVE  pc = "off" /\ EntriesReady(cur, enabled, granted) /\ EntriesReady(next, enabled, granted)
    BY <2>2, EmptyReady DEF Init
  <2> QED
    BY <2>1, <2>2 DEF ReadyOnTheWay
<1>2. ReadyOnTheWay => ConfiguredIsReady
  BY DEF ReadyOnTheWay, EntriesReady, ConfiguredIsReady
<1> QED
  BY <1>1, <1>2, ReadyStep, TypeCorrect, PTL DEF Spec

-----------------------------------------------------------------------------
(* The process has the file in memory, and changes only what it was asked for. *)

LEMMA FinishCarries ==
    ASSUME NEW code, Finish(code)
    PROVE  CarriesTheFile'
BY DEF Finish, CarriesTheFile, InGoogle, InMicrosoft

LEMMA GoesOnCarries ==
    ASSUME CarriesTheFile, UNCHANGED <<faults, config, job, cur, next, todo>>,
           (InGoogle /\ InGoogle') \/ (InMicrosoft /\ InMicrosoft')
    PROVE  CarriesTheFile'
BY DEF CarriesTheFile, InGoogle, InMicrosoft, Alone, IsConfigured

\* Where FlowOf leads.
LEMMA FlowOfLeads ==
    ASSUME NEW providers \in SUBSET {"google", "ms"}
    PROVE  \/ FlowOf(providers) = "g_account" /\ "google" \in providers
           \/ FlowOf(providers) = "m_account" /\ "ms" \in providers
           \/ FlowOf(providers) = "save" /\ providers = {}
BY DEF FlowOf

LEMMA FlowDoneCarries ==
    ASSUME TypeOK, CarriesTheFile, NEW provider \in {"google", "ms"}, NEW entry \in Entries,
           entry.client # "malformed", FlowDone(provider, entry), UNCHANGED faults,
           (InGoogle /\ provider = "google") \/ (InMicrosoft /\ provider = "ms")
    PROVE  CarriesTheFile'
<1>1. /\ provider \in todo /\ provider \in job.providers
      /\ pc # "off"
  BY DEF CarriesTheFile, InGoogle, InMicrosoft
<1>2. \A k \in Keys : next'[k] = IF k = <<provider, job.label>> THEN entry ELSE next[k]
  BY DEF FlowDone, TypeOK, Configs
<1>3. todo' \in SUBSET {"google", "ms"} /\ todo' = todo \ {provider} /\ pc' = FlowOf(todo')
      /\ UNCHANGED <<config, job, cur>>
  BY DEF FlowDone, Goto, TypeOK
<1>4. job.label \in Labels /\ job.providers \subseteq {"google", "ms"}
  BY <1>1 DEF TypeOK, Jobs, InGoogle, InMicrosoft
<1>5. \A p \in job.providers \ todo' : IsConfigured(next', p, job.label)
  <2>1. SUFFICES ASSUME NEW p \in job.providers \ todo'
                 PROVE  IsConfigured(next', p, job.label)
    OBVIOUS
  <2>2. <<p, job.label>> \in Keys
    BY <1>4 DEF Keys
  <2>3. CASE p = provider
    BY <1>2, <2>2, <2>3, InteractiveAssumption DEF IsConfigured
  <2>4. CASE p # provider
    <3>1. IsConfigured(next, p, job.label)
      BY <1>3, <2>4 DEF CarriesTheFile
    <3>2. next'[<<p, job.label>>] = next[<<p, job.label>>]
      BY <1>2, <2>2, <2>4
    <3> QED
      BY <3>1, <3>2 DEF IsConfigured
  <2> QED
    BY <2>3, <2>4
<1>6. \A k \in Keys : next'[k] # cur'[k] => k \in job.providers \X {job.label}
  BY <1>1, <1>2, <1>3 DEF CarriesTheFile
<1>7. \/ pc' = "g_account" /\ "google" \in todo'
      \/ pc' = "m_account" /\ "ms" \in todo'
      \/ pc' = "save" /\ todo' = {}
  BY <1>3, FlowOfLeads
<1>8. config # Damaged /\ (Alone => config = cur) /\ todo' \subseteq job.providers
  BY <1>1, <1>3 DEF CarriesTheFile
<1> QED
  BY <1>3, <1>5, <1>6, <1>7, <1>8 DEF CarriesTheFile, InGoogle, InMicrosoft, Alone

LEMMA CarryStep ==
    ASSUME TypeOK, CarriesTheFile, [Next]_vars
    PROVE  CarriesTheFile'
<1>1. ASSUME NEW code, Finish(code)
      PROVE  CarriesTheFile'
  BY <1>1, FinishCarries
<1>2. ASSUME NEW j \in Jobs, Start(j)
      PROVE  CarriesTheFile'
  BY <1>1, <1>2 DEF Start, CarriesTheFile, InGoogle, InMicrosoft, Alone
<1>3. CASE ResetConfig
  <2>1. CASE Save(Empty) /\ pc' = "plan" /\ cur' = Empty
    BY <2>1, EmptyTyped, InteractiveAssumption DEF Save, CarriesTheFile, InGoogle, InMicrosoft
  <2> QED
    BY <1>1, <1>3, <2>1 DEF ResetConfig
<1>4. CASE Plan
  <2> DEFINE open == {p \in job.providers :
                         job.reconfigure \/ ~ IsConfigured(cur, p, job.label)}
  <2>1. ASSUME Goto(FlowOf(open)), todo' = open, next' = cur
        PROVE  CarriesTheFile'
    <3>1. open \in SUBSET {"google", "ms"} /\ open \subseteq job.providers
      BY DEF TypeOK, Jobs
    <3>2. \A p \in job.providers \ open : IsConfigured(cur, p, job.label)
      OBVIOUS
    <3> HIDE DEF open
    <3>3. \/ pc' = "g_account" /\ "google" \in todo'
          \/ pc' = "m_account" /\ "ms" \in todo'
          \/ pc' = "save" /\ todo' = {}
      BY <2>1, <3>1, FlowOfLeads DEF Goto
    <3>4. UNCHANGED <<faults, config, job, cur>> /\ pc = "plan"
      BY <1>4, <2>1 DEF Plan, Goto
    <3>5. config # Damaged /\ (Alone => config = cur)
      BY <3>4 DEF CarriesTheFile
    <3> QED
      BY <2>1, <3>1, <3>2, <3>3, <3>4, <3>5 DEF CarriesTheFile, InGoogle, InMicrosoft, Alone
  <2> QED
    BY <1>1, <1>4, <2>1 DEF Plan
<1>5. CASE SaveConfig
  BY <1>1, <1>5 DEF SaveConfig
<1>6. CASE GoogleAccount
  BY <1>1, <1>6, GoesOnCarries
     DEF GoogleAccount, PickAccount, GoOnAs, Goto, InGoogle
<1>7. CASE MicrosoftAccount
  BY <1>1, <1>7, GoesOnCarries
     DEF MicrosoftAccount, PickAccount, GoOnAs, Goto, InMicrosoft
<1>8. CASE GoogleProject \/ GoogleApis \/ GoogleConsole
  BY <1>1, <1>8, GoesOnCarries
     DEF GoogleProject, GoogleApis, GoogleConsole, WorkOn, Goto, InGoogle
<1>9. CASE GoogleClient
  <2>1. CASE FlowDone("google", [client |-> "wellformed", project |-> target])
    <3>1. [client |-> "wellformed", project |-> target] \in Entries /\ InGoogle
      BY <1>9 DEF GoogleClient, TypeOK, Entries, InGoogle
    <3> QED
      BY <1>9, <2>1, <3>1, FlowDoneCarries DEF GoogleClient
  <2>2. CASE UNCHANGED <<config, pc, job, cur, next, todo>>
    BY <1>9, <2>2, GoesOnCarries DEF GoogleClient, InGoogle
  <2> QED
    BY <1>1, <1>9, <2>1, <2>2 DEF GoogleClient
<1>10. CASE MicrosoftConfirm
  BY <1>1, <1>10, GoesOnCarries DEF MicrosoftConfirm, GoOnAs, Goto, InMicrosoft
<1>11. CASE MicrosoftApp
  BY <1>1, <1>11, GoesOnCarries DEF MicrosoftApp, AddPermissionsTo, Goto, InMicrosoft
<1>12. CASE MicrosoftPermit
  BY <1>1, <1>12, GoesOnCarries DEF MicrosoftPermit, Goto, InMicrosoft
<1>13. CASE MicrosoftDone
  <2>1. target \in Apps /\ InMicrosoft
    BY <1>13 DEF MicrosoftDone, TypeOK, InMicrosoft
  <2>2. [client |-> target] \in Entries /\ [client |-> target].client # "malformed"
    BY <2>1, InteractiveAssumption DEF Entries
  <2> QED
    BY <1>13, <2>1, <2>2, FlowDoneCarries DEF MicrosoftDone
<1>14. CASE Kill
  BY <1>1, <1>14 DEF Kill
<1>15. CASE OtherTerminal
  <2>1. config # Damaged => config' # Damaged
    <3>1. ASSUME config # Damaged, NEW k, NEW entry \in Entries, k \in Keys,
                 config' = [config EXCEPT ![k] = entry]
          PROVE  config' # Damaged
      BY <3>1, InteractiveAssumption DEF TypeOK, Configs
    <3>2. \A l \in Labels : <<"google", l>> \in Keys /\ <<"ms", l>> \in Keys
      BY DEF Keys
    <3>3. /\ \A j \in enabled : [client |-> "wellformed", project |-> j] \in Entries
          /\ \A a \in apps : [client |-> a] \in Entries
      BY DEF Entries, TypeOK
    <3> QED
      BY <1>15, <3>1, <3>2, <3>3 DEF OtherTerminal, Save
  <2>2. ~ Alone /\ UNCHANGED <<faults, pc, job, cur, next, todo>>
    BY <1>15 DEF OtherTerminal, Alone
  <2> QED
    BY <2>1, <2>2 DEF CarriesTheFile, InGoogle, InMicrosoft, Alone
<1>16. CASE UNCHANGED vars
  BY <1>16 DEF vars, CarriesTheFile, InGoogle, InMicrosoft, Alone
<1> QED
  BY <1>2, <1>3, <1>4, <1>5, <1>6, <1>7, <1>8, <1>9, <1>10, <1>11, <1>12, <1>13,
     <1>14, <1>15, <1>16 DEF Next, Run

LEMMA FileCarried == Spec => [](TypeOK /\ CarriesTheFile)
<1>1. Init => CarriesTheFile
  BY DEF Init, CarriesTheFile, InGoogle, InMicrosoft
<1> QED
  BY <1>1, CarryStep, TypeCorrect, PTL DEF Spec

\* Who writes config.yaml: the reset, the save at the end, and other terminals.
LEMMA Writers ==
    ASSUME [Next]_vars, ~ UNCHANGED config
    PROVE  \/ ResetConfig /\ config' = Empty /\ pc' = "plan"
           \/ SaveConfig /\ config' = next /\ Finish("ok")
           \/ OtherTerminal /\ config # Damaged
<1>1. CASE ResetConfig
  BY <1>1 DEF ResetConfig, SaveFails, Save
<1>2. CASE SaveConfig
  BY <1>2 DEF SaveConfig, SaveFails, Save
<1>3. CASE OtherTerminal
  BY <1>3 DEF OtherTerminal
<1>4. ASSUME NEW j \in Jobs, Start(j)
      PROVE  UNCHANGED config
  BY <1>4 DEF Start
<1>5. ASSUME Plan \/ GoogleAccount \/ GoogleProject \/ GoogleApis \/ GoogleConsole
      PROVE  UNCHANGED config
  BY <1>5 DEF Plan, GoogleAccount, PickAccount, GoogleProject, GoogleApis, GoogleConsole
<1>6. ASSUME MicrosoftAccount \/ MicrosoftConfirm \/ MicrosoftApp \/ MicrosoftPermit \/ Kill
      PROVE  UNCHANGED config
  BY <1>6 DEF MicrosoftAccount, PickAccount, MicrosoftConfirm, MicrosoftApp,
              MicrosoftPermit, Kill
<1>7. GoogleClient \/ MicrosoftDone => UNCHANGED config
  BY DEF GoogleClient, MicrosoftDone, FlowDone
<1>8. UNCHANGED vars => UNCHANGED config
  BY DEF vars
<1> QED
  BY <1>1, <1>2, <1>3, <1>4, <1>5, <1>6, <1>7, <1>8 DEF Next, Run

\* Who reports success: the save, and a plan with nothing to do.
LEMMA Reporters ==
    ASSUME [Next]_vars, pc # "off", pc' = "off", exit' = "ok"
    PROVE  SaveConfig \/ Plan
<1>1. \A j \in Jobs : ~ Start(j)
  BY DEF Start
<1>2. ASSUME NEW code, Finish(code)
      PROVE  code = "ok"
  BY <1>2 DEF Finish
<1>3. ASSUME NEW label, Goto(label)
      PROVE  label = "off"
  BY <1>3 DEF Goto
<1>4. ~ ResetConfig /\ ~ Kill
  BY <1>2 DEF ResetConfig, Kill
<1>5. ~ GoogleAccount /\ ~ MicrosoftAccount
  BY <1>2, <1>3 DEF GoogleAccount, MicrosoftAccount, PickAccount, GoOnAs
<1>6. ~ GoogleProject /\ ~ GoogleApis /\ ~ GoogleConsole
  BY <1>2, <1>3 DEF GoogleProject, GoogleApis, GoogleConsole, WorkOn
<1>7. ~ MicrosoftConfirm /\ ~ MicrosoftApp /\ ~ MicrosoftPermit
  BY <1>2, <1>3 DEF MicrosoftConfirm, GoOnAs, MicrosoftApp, AddPermissionsTo, MicrosoftPermit
<1>8. ~ GoogleClient /\ ~ MicrosoftDone
  BY <1>2, <1>3, FlowOfTyped DEF GoogleClient, MicrosoftDone, FlowDone
<1>9. ~ OtherTerminal /\ ~ UNCHANGED vars
  BY DEF OtherTerminal, vars
<1> QED
  BY <1>1, <1>4, <1>5, <1>6, <1>7, <1>8, <1>9 DEF Next, Run

\* A damaged file is never replaced (setup.go:81).
THEOREM DamageKept == Spec => DamagedFileKept
<1>1. ASSUME TypeOK, CarriesTheFile, [Next]_vars
      PROVE  [config = Damaged => config' = Damaged]_vars
  <2>1. ResetConfig \/ SaveConfig => pc # "off"
    BY DEF ResetConfig, SaveConfig
  <2> QED
    BY <1>1, <2>1, Writers DEF CarriesTheFile
<1> QED
  BY <1>1, FileCarried, PTL DEF Spec, DamagedFileKept

\* Entries of other labels and providers survive every setup (setup.go:59).
THEOREM OthersKept == Spec => OtherEntriesKept
<1> DEFINE Kept == config # Damaged /\ Alone /\ pc # "reset" =>
                      \A k \in Keys :
                         config'[k] # config[k] => k \in job.providers \X {job.label}
<1>1. ASSUME TypeOK, CarriesTheFile, [Next]_vars
      PROVE  [Kept]_vars
  <2>1. CASE UNCHANGED config
    BY <2>1
  <2>2. CASE SaveConfig /\ config' = next
    BY <1>1, <2>2 DEF SaveConfig, CarriesTheFile
  <2>3. (ResetConfig => pc = "reset") /\ (OtherTerminal => ~ Alone)
    BY DEF ResetConfig, OtherTerminal, Alone
  <2> QED
    BY <1>1, <2>1, <2>2, <2>3, Writers
<1> QED
  BY <1>1, FileCarried, PTL DEF Spec, OtherEntriesKept

\* A setup is done in full, or leaves the file as it was (setup.go:129, 141).
THEOREM FullOrNothing == Spec => AllOrNothing
<1> DEFINE Whole == pc # "off" /\ pc' = "off" /\ Alone =>
                       IF exit' = "ok"
                       THEN \A p \in job.providers : IsConfigured(config', p, job.label)
                       ELSE config' = cur
<1>1. ASSUME TypeOK, CarriesTheFile, [Next]_vars
      PROVE  [Whole]_vars
  <2>1. SUFFICES ASSUME pc # "off", pc' = "off", Alone
                 PROVE  Whole
    OBVIOUS
  <2>2. config = cur
    BY <1>1, <2>1 DEF CarriesTheFile
  <2>3. CASE exit' # "ok"
    <3>1. UNCHANGED config
      BY <1>1, <2>1, <2>3, Writers DEF Finish, OtherTerminal, Alone
    <3> QED
      BY <2>2, <2>3, <3>1
  <2>4. CASE SaveConfig /\ exit' = "ok"
    <3>1. config' = next /\ pc = "save"
      BY <2>4 DEF SaveConfig, Save, Finish
    <3> QED
      BY <1>1, <2>4, <3>1 DEF CarriesTheFile
  <2>5. CASE Plan /\ exit' = "ok"
    <3>1. \A p \in job.providers : IsConfigured(cur, p, job.label)
      BY <2>1, <2>5, FlowOfTyped DEF Plan, Goto, Finish
    <3>2. UNCHANGED config
      BY <2>5 DEF Plan
    <3> QED
      BY <2>2, <2>5, <3>1, <3>2
  <2> QED
    BY <1>1, <2>1, <2>3, <2>4, <2>5, Reporters
<1> QED
  BY <1>1, FileCarried, PTL DEF Spec, AllOrNothing

\* gcloud and az act for the account that was picked (setup_google.go:111,
\* setup_microsoft.go:218).
THEOREM ActingAsPicked == Spec => []ActsAsPicked
<1>1. Init => ActsAsPicked
  BY DEF Init, ActsAsPicked
<1>2. ASSUME TypeOK, ActsAsPicked, [Next]_vars
      PROVE  ActsAsPicked'
  <2>1. ASSUME NEW code, Finish(code)
        PROVE  ActsAsPicked'
    BY <2>1 DEF Finish, ActsAsPicked
  <2>2. CASE pc' \in {"reset", "plan", "g_account", "m_account", "save"}
    BY <2>2 DEF ActsAsPicked
  <2>3. CASE GoogleAccount
    BY <1>2, <2>1, <2>3
       DEF GoogleAccount, PickAccount, Act, GoOnAs, Goto, TypeOK, ActsAsPicked
  <2>4. CASE MicrosoftAccount
    BY <1>2, <2>1, <2>4
       DEF MicrosoftAccount, PickAccount, Act, GoOnAs, Goto, TypeOK, ActsAsPicked
  <2>5. CASE GoogleProject \/ GoogleApis \/ GoogleConsole
    BY <1>2, <2>1, <2>5
       DEF GoogleProject, GoogleApis, GoogleConsole, WorkOn, Goto, ActsAsPicked, Alone, cloud
  <2>6. CASE MicrosoftConfirm \/ MicrosoftApp \/ MicrosoftPermit
    BY <1>2, <2>1, <2>6
       DEF MicrosoftConfirm, GoOnAs, MicrosoftApp, AddPermissionsTo, MicrosoftPermit,
           Goto, ActsAsPicked, Alone, cloud
  <2>7. CASE UNCHANGED <<faults, pc, picked, acting>>
    BY <1>2, <2>7 DEF ActsAsPicked, Alone
  <2>8. GoogleClient \/ MicrosoftDone => \/ \E code : Finish(code)
                                       \/ pc' \in {"g_account", "m_account", "save"}
                                       \/ UNCHANGED <<faults, pc, picked, acting>>
    BY FlowOfTyped DEF GoogleClient, MicrosoftDone, FlowDone, Goto, cloud
  <2>9. ResetConfig \/ Plan \/ SaveConfig \/ Kill
          => (\E code : Finish(code)) \/ pc' \in {"reset", "plan", "g_account", "m_account", "save"}
    BY FlowOfTyped DEF ResetConfig, Plan, SaveConfig, Kill, Goto
  <2>10. ASSUME NEW j \in Jobs, Start(j)
         PROVE  (\E code : Finish(code)) \/ pc' \in {"reset", "plan"}
    BY <2>10 DEF Start
  <2>11. OtherTerminal => ~ Alone'
    BY DEF OtherTerminal, Alone
  <2>12. ~ Alone' => ActsAsPicked'
    BY DEF ActsAsPicked
  <2>13. UNCHANGED vars => UNCHANGED <<faults, pc, picked, acting>>
    BY DEF vars, cloud, local
  <2> QED
    BY <1>2, <2>1, <2>2, <2>3, <2>4, <2>5, <2>6, <2>7, <2>8, <2>9, <2>10, <2>11, <2>12,
       <2>13 DEF Next, Run
<1> QED
  BY <1>1, <1>2, TypeCorrect, PTL DEF Spec
-----------------------------------------------------------------------------
(* Every setup is bounded. *)

LEMMA GoogleFirstStep ==
    ASSUME TypeOK, GoogleFirst, [Next]_vars
    PROVE  GoogleFirst'
<1>1. ASSUME NEW code, Finish(code)
      PROVE  GoogleFirst'
  BY <1>1 DEF Finish, GoogleFirst, InMicrosoft
<1>2. ASSUME NEW label, Goto(label), label = FlowOf(todo')
      PROVE  GoogleFirst'
  BY <1>2 DEF Goto, FlowOf, GoogleFirst, InMicrosoft
<1>3. ASSUME InMicrosoft \/ ~ InMicrosoft', pc' # "save", UNCHANGED todo
      PROVE  GoogleFirst'
  BY <1>3 DEF GoogleFirst
<1>4. ASSUME NEW j \in Jobs, Start(j)
      PROVE  GoogleFirst'
  BY <1>1, <1>4 DEF Start, GoogleFirst, InMicrosoft
<1>5. CASE ResetConfig
  BY <1>1, <1>5 DEF ResetConfig, GoogleFirst, InMicrosoft
<1>6. CASE Plan
  BY <1>1, <1>2, <1>6 DEF Plan
<1>7. CASE SaveConfig \/ Kill
  BY <1>1, <1>7 DEF SaveConfig, Kill
<1>8. CASE GoogleAccount \/ MicrosoftAccount
  BY <1>1, <1>3, <1>8
     DEF GoogleAccount, MicrosoftAccount, PickAccount, GoOnAs, Goto, InMicrosoft
<1>9. CASE GoogleProject \/ GoogleApis \/ GoogleConsole
  BY <1>1, <1>3, <1>9
     DEF GoogleProject, GoogleApis, GoogleConsole, WorkOn, Goto, InMicrosoft
<1>10. CASE MicrosoftConfirm \/ MicrosoftApp \/ MicrosoftPermit
  BY <1>1, <1>3, <1>10
     DEF MicrosoftConfirm, GoOnAs, MicrosoftApp, AddPermissionsTo, MicrosoftPermit,
         Goto, InMicrosoft
<1>11. CASE GoogleClient
  BY <1>1, <1>2, <1>3, <1>11 DEF GoogleClient, FlowDone, InMicrosoft
<1>12. CASE MicrosoftDone
  BY <1>2, <1>12 DEF MicrosoftDone, FlowDone
<1>13. CASE OtherTerminal \/ UNCHANGED vars
  BY <1>13 DEF OtherTerminal, vars, local, GoogleFirst, InMicrosoft
<1> QED
  BY <1>4, <1>5, <1>6, <1>7, <1>8, <1>9, <1>10, <1>11, <1>12, <1>13 DEF Next, Run

\* The permissions that are left to add.
LEMMA Counts ==
    /\ Cardinality(Permissions \union OptIn) \in Nat
    /\ \A w \in SUBSET (Permissions \union OptIn) :
          /\ Cardinality(w) \in Nat
          /\ Cardinality(w) <= Cardinality(Permissions \union OptIn)
          /\ \A s \in w : Cardinality(w \ {s}) = Cardinality(w) - 1
BY InteractiveAssumption, FS_Subset, FS_CardinalityType, FS_RemoveElement

LEMMA ForwardStep ==
    ASSUME TypeOK, GoogleFirst, [Next]_vars, pc # "off", ~ UNCHANGED <<pc, wanted, attempts>>
    PROVE  StepsLeft' < StepsLeft
<1> DEFINE all == Cardinality(Permissions \union OptIn)
<1>1. /\ wanted \in SUBSET (Permissions \union OptIn)
      /\ wanted' \in SUBSET (Permissions \union OptIn)
      /\ attempts \in 0 .. 2 /\ attempts' \in 0 .. 2
      /\ MaxAttempts = 3
  BY TypeStep DEF TypeOK, MaxAttempts
<1>2. /\ all \in Nat
      /\ Cardinality(wanted) \in Nat
      /\ Cardinality(wanted') \in Nat /\ Cardinality(wanted') <= all
  BY <1>1, Counts
<1> HIDE DEF all
<1>3. /\ pc = "off" => StepsLeft = 0
      /\ pc = "save" => StepsLeft = 1
      /\ pc = "m_permit" => StepsLeft = 2 + Cardinality(wanted)
      /\ pc = "m_app" => StepsLeft = 3 + all
      /\ pc = "m_confirm" => StepsLeft = 4 + all
      /\ pc = "m_account" => StepsLeft = 5 + all
      /\ pc = "g_client" => StepsLeft = 8 + all - attempts
      /\ pc = "g_console" => StepsLeft = 9 + all
      /\ pc = "g_apis" => StepsLeft = 10 + all
      /\ pc = "g_project" => StepsLeft = 11 + all
      /\ pc = "g_account" => StepsLeft = 12 + all
      /\ pc = "plan" => StepsLeft = 13 + all
      /\ pc = "reset" => StepsLeft = 14 + all
  BY <1>1, <1>2 DEF StepsLeft, all
<1>4. /\ pc' = "off" => StepsLeft' = 0
      /\ pc' = "save" => StepsLeft' = 1
      /\ pc' = "m_permit" => StepsLeft' = 2 + Cardinality(wanted')
      /\ pc' = "m_app" => StepsLeft' = 3 + all
      /\ pc' = "m_confirm" => StepsLeft' = 4 + all
      /\ pc' = "m_account" => StepsLeft' = 5 + all
      /\ pc' = "g_client" => StepsLeft' = 8 + all - attempts'
      /\ pc' = "g_console" => StepsLeft' = 9 + all
      /\ pc' = "g_apis" => StepsLeft' = 10 + all
      /\ pc' = "g_project" => StepsLeft' = 11 + all
      /\ pc' = "g_account" => StepsLeft' = 12 + all
      /\ pc' = "plan" => StepsLeft' = 13 + all
      /\ pc' = "reset" => StepsLeft' = 14 + all
  BY <1>1, <1>2 DEF StepsLeft, all
<1>5. ASSUME NEW code, Finish(code)
      PROVE  StepsLeft' < StepsLeft
  BY <1>1, <1>2, <1>3, <1>4, <1>5 DEF Finish, TypeOK
<1>6. ASSUME NEW provider, NEW entry, FlowDone(provider, entry)
      PROVE  pc' \in {"g_account", "m_account", "save"} /\ pc' = FlowOf(todo \ {provider})
  BY <1>6, FlowOfTyped DEF FlowDone, Goto
<1>7. \A j \in Jobs : ~ Start(j)
  BY DEF Start
<1>8. CASE ResetConfig
  BY <1>2, <1>3, <1>4, <1>5, <1>8 DEF ResetConfig
<1>9. CASE Plan
  <2>1. CASE \E code : Finish(code)
    BY <1>5, <2>1
  <2>2. CASE pc' \in {"g_account", "m_account", "save"}
    BY <1>2, <1>3, <1>4, <1>9, <2>2 DEF Plan
  <2> QED
    BY <1>9, <2>1, <2>2, FlowOfTyped DEF Plan, Goto
<1>10. CASE SaveConfig \/ Kill
  BY <1>5, <1>10 DEF SaveConfig, Kill
<1>11. CASE GoogleAccount \/ MicrosoftAccount
  <2>1. \/ \E code : Finish(code)
        \/ pc = "g_account" /\ pc' = "g_project"
        \/ pc = "m_account" /\ pc' = "m_confirm"
    BY <1>11 DEF GoogleAccount, MicrosoftAccount, PickAccount, GoOnAs, Goto
  <2> QED
    BY <1>2, <1>3, <1>4, <1>5, <2>1
<1>12. CASE GoogleProject \/ GoogleApis \/ GoogleConsole
  <2>1. \/ \E code : Finish(code)
        \/ pc = "g_project" /\ pc' = "g_apis"
        \/ pc = "g_apis" /\ pc' = "g_console"
        \/ pc = "g_console" /\ pc' = "g_client"
    BY <1>12 DEF GoogleProject, GoogleApis, GoogleConsole, WorkOn, Goto
  <2> QED
    BY <1>1, <1>2, <1>3, <1>4, <1>5, <2>1
<1>13. CASE MicrosoftConfirm \/ MicrosoftApp
  <2>1. \/ \E code : Finish(code)
        \/ pc = "m_confirm" /\ pc' = "m_app"
        \/ pc = "m_app" /\ pc' = "m_permit"
    BY <1>13 DEF MicrosoftConfirm, GoOnAs, MicrosoftApp, AddPermissionsTo, Goto
  <2>2. CASE pc = "m_app" /\ pc' = "m_permit"
    BY <1>2, <1>3, <1>4, <2>2
  <2> QED
    BY <1>2, <1>3, <1>4, <1>5, <2>1, <2>2
<1>14. CASE MicrosoftPermit
  <2>1. \/ \E code : Finish(code)
        \/ /\ pc = "m_permit" /\ pc' = "m_permit"
           /\ \E s \in wanted : wanted' = wanted \ {s}
    BY <1>14 DEF MicrosoftPermit, Goto
  <2>2. CASE pc = "m_permit" /\ pc' = "m_permit" /\ \E s \in wanted : wanted' = wanted \ {s}
    <3>1. Cardinality(wanted') = Cardinality(wanted) - 1
      BY <1>1, <2>2, Counts
    <3>2. StepsLeft = 2 + Cardinality(wanted)
      BY <1>3, <2>2
    <3> QED
      BY <1>2, <1>4, <2>2, <3>1, <3>2
  <2> QED
    BY <1>5, <2>1, <2>2
<1>15. CASE GoogleClient
  <2>1. pc = "g_client"
    BY <1>15 DEF GoogleClient
  <2>2. CASE \E entry : FlowDone("google", entry)
    <3>1. pc' \in {"m_account", "save"}
      BY <1>6, <2>2 DEF FlowOf
    <3> QED
      BY <1>1, <1>2, <1>3, <1>4, <2>1, <3>1
  <2>3. CASE UNCHANGED pc /\ attempts' = attempts + 1
    BY <1>1, <1>2, <1>3, <1>4, <2>1, <2>3
  <2> QED
    BY <1>5, <1>15, <2>2, <2>3 DEF GoogleClient
<1>16. CASE MicrosoftDone
  <2>1. pc = "m_permit" /\ \E entry : FlowDone("ms", entry)
    BY <1>16 DEF MicrosoftDone
  <2>2. todo \ {"ms"} = {}
    BY <2>1 DEF GoogleFirst, InMicrosoft, TypeOK
  <2>3. pc' = "save"
    BY <1>6, <2>1, <2>2 DEF FlowOf
  <2> QED
    BY <1>2, <1>3, <1>4, <2>1, <2>3
<1>17. ~ OtherTerminal /\ ~ UNCHANGED vars
  BY DEF OtherTerminal, vars, local
<1> QED
  BY <1>7, <1>8, <1>9, <1>10, <1>11, <1>12, <1>13, <1>14, <1>15, <1>16, <1>17 DEF Next, Run

\* No setup prompts or waits without bound, whatever is answered, fails, or happens in
\* another terminal: every step brings it nearer to its end (setup_google.go:369).
THEOREM SetupsAreBounded == Spec => SetupGoesForward
<1>1. Init => GoogleFirst
  BY DEF Init, GoogleFirst, InMicrosoft
<1>2. ASSUME TypeOK, GoogleFirst, [Next]_vars
      PROVE  [pc # "off" /\ ~ UNCHANGED <<pc, wanted, attempts>> => StepsLeft' < StepsLeft]_vars
  BY <1>2, ForwardStep
<1> QED
  BY <1>1, <1>2, GoogleFirstStep, TypeCorrect, PTL DEF Spec, SetupGoesForward
=============================================================================

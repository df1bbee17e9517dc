---------------------------- MODULE AccountStore ----------------------------
(***************************************************************************)
(* What the interface store.Store promises to its callers: one map from    *)
(* handles to token records, read and changed by atomic operations.  An    *)
(* operation takes effect at one instant between its call and its return,  *)
(* or it fails and changes nothing.                                        *)
(***************************************************************************)
EXTENDS Accounts

CONSTANT Threads     \* the callers: goroutines of apl processes

VARIABLES accounts,  \* the records of the user
          phase,     \* per caller: "idle", "called", "answered"
          request,   \* per caller: its latest request
          reply      \* per caller: the reply to it

vars == <<accounts, phase, request, reply>>

TypeOK ==
    /\ accounts \in Accts
    /\ phase \in [Threads -> {"idle", "called", "answered"}]
    /\ request \in [Threads -> Requests]
    /\ reply \in [Threads -> Replies]

Init ==
    /\ accounts \in Accts
    /\ phase = [t \in Threads |-> "idle"]
    /\ request \in [Threads -> Requests]
    /\ reply = [t \in Threads |-> NoReply]

Call(t, req) ==
    /\ phase[t] = "idle"
    /\ phase' = [phase EXCEPT ![t] = "called"]
    /\ request' = [request EXCEPT ![t] = req]
    /\ reply' = [reply EXCEPT ![t] = NoReply]
    /\ UNCHANGED accounts

Answer(t, r) ==
    /\ phase[t] = "called"
    /\ phase' = [phase EXCEPT ![t] = "answered"]
    /\ reply' = [reply EXCEPT ![t] = r]
    /\ UNCHANGED request

\* The instant at which an operation takes effect.
Commit(t) ==
    /\ ~ Missing(request[t], accounts)
    /\ Answer(t, Success(request[t], accounts))
    /\ accounts' = Edit(request[t], accounts)

NotFound(t) ==
    /\ Missing(request[t], accounts)
    /\ Answer(t, Refusal("notfound"))
    /\ UNCHANGED accounts

Refuse(t, err) ==
    /\ err \in {"corrupt", "failed"}
    /\ Answer(t, Refusal(err))
    /\ UNCHANGED accounts

Return(t) ==
    /\ phase[t] = "answered"
    /\ phase' = [phase EXCEPT ![t] = "idle"]
    /\ UNCHANGED <<accounts, request, reply>>

\* The process of the callers in ts ends; what they asked for is abandoned.
Abandon(ts) ==
    /\ phase' = [t \in Threads |-> IF t \in ts THEN "idle" ELSE phase[t]]
    /\ reply' = [t \in Threads |-> IF t \in ts THEN NoReply ELSE reply[t]]
    /\ UNCHANGED <<accounts, request>>

Next ==
    \/ \E t \in Threads :
          \/ \E req \in Requests : Call(t, req)
          \/ Commit(t)
          \/ NotFound(t)
          \/ \E err \in Errors : Refuse(t, err)
          \/ Return(t)
    \/ \E ts \in SUBSET Threads : Abandon(ts)

Spec == Init /\ [][Next]_vars
=============================================================================

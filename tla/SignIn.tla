-------------------------------- MODULE SignIn --------------------------------
(***************************************************************************)
(* What a sign-in in the browser promises whoever calls oauth.RunFlow      *)
(* (internal/oauth/flow.go), with no port, server, request or goroutine    *)
(* in sight.  A sign-in hears at most one answer.  It ends once, as that   *)
(* answer says, as its caller asks, or as a failure; and it may redeem the *)
(* code of the answer, if it is its own, as it ends.                       *)
(*                                                                         *)
(* Codes are named by the sign-in they were issued for.                    *)
(***************************************************************************)
CONSTANTS Flows,     \* the sign-ins
          NoFlow     \* that of an answer without a code

VARIABLES consented,  \* the sign-ins whose user has consented
          asked,      \* per sign-in: its caller has asked to cancel it
          heard,      \* per sign-in: the answer it has heard
          presented,  \* per sign-in: who has presented its code to be redeemed
          told        \* per sign-in: how it has ended

vars == <<consented, asked, heard, presented, told>>

Code(f) == [kind |-> "code", state |-> f]
Refusal == [kind |-> "error", state |-> NoFlow]
Silence == [kind |-> "none", state |-> NoFlow]

Init ==
    /\ consented = {}
    /\ asked = [f \in Flows |-> FALSE]
    /\ heard = [f \in Flows |-> Silence]
    /\ presented = [f \in Flows |-> {}]
    /\ told = [f \in Flows |-> "none"]

\* A user consents, or not.
Consent(f) ==
    /\ consented' = consented \union {f}
    /\ UNCHANGED <<asked, heard, presented, told>>

\* The caller gives up.
Ask(f) ==
    /\ asked' = [asked EXCEPT ![f] = TRUE]
    /\ UNCHANGED <<consented, heard, presented, told>>

\* The one answer: a refusal, or a code somebody has consented to.
Hear(f) ==
    /\ heard[f] = Silence
    /\ \E answer \in {Refusal} \union {Code(g) : g \in consented} :
          heard' = [heard EXCEPT ![f] = answer]
    /\ UNCHANGED <<consented, asked, presented, told>>

\* Which ends are open to a sign-in that redeems nothing.
Ends(f) ==
    {"failed"}
      \union (IF asked[f] THEN {"cancelled", "closed"} ELSE {})
      \union (IF heard[f].kind = "error" THEN {"denied"} ELSE {})
      \union (IF heard[f].kind = "code" /\ heard[f].state # f THEN {"mismatch"} ELSE {})

End(f, result) ==
    /\ told[f] = "none"
    /\ told' = [told EXCEPT ![f] = result]

GiveUp(f) ==
    /\ \E result \in Ends(f) : End(f, result)
    /\ UNCHANGED <<consented, asked, heard, presented>>

\* The only way to tokens.
Redeem(f) ==
    /\ heard[f] = Code(f)
    /\ presented' = [presented EXCEPT ![f] = {f}]
    /\ \E result \in {"tokens", "failed"} : End(f, result)
    /\ UNCHANGED <<consented, asked, heard>>

Next == \E f \in Flows : Consent(f) \/ Ask(f) \/ Hear(f) \/ GiveUp(f) \/ Redeem(f)

Spec == Init /\ [][Next]_vars
=============================================================================

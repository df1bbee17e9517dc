----------------------------- MODULE MCCredStore -----------------------------
(***************************************************************************)
(* Instances of CredStore for TLC.                                         *)
(***************************************************************************)
EXTENDS CredStore, TLC

CONSTANTS t1, t2, p1, p2

SharedProcess == (t1 :> p1) @@ (t2 :> p1)
OwnProcesses == (t1 :> p1) @@ (t2 :> p2)
=============================================================================

---------------------------- MODULE MCScopedAccess ----------------------------
(***************************************************************************)
(* Instances of ScopedAccess for TLC.                                      *)
(***************************************************************************)
EXTENDS ScopedAccess, TLC

\* Part of googleAliases: a plain alias, and the one that stands for three.
Aliases == ("calendar" :> {"uri:calendar"}) @@ ("profile" :> OIDC)
             @@ ("openid" :> {"openid"}) @@ ("email" :> {"email"})

TypedFlags == {{}, {"calendar"}, {"uri:calendar"}, {"uri:mail"},
               {"uri:calendar", "uri:mail"}, {"openid", "uri:mail"},
               {"Mail.Read"}, {"Mail.Read", "Chat.Read"}}
=============================================================================

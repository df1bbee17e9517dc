----------------------------- MODULE ScopedAccess -----------------------------
(***************************************************************************)
(* Scopes: what `apl login` asks for and writes into the record            *)
(* (provider/google.go, microsoft.go), what `apl call --scope` demands of  *)
(* the record (cli/call.go), what a refresh asks for, and what the tokens  *)
(* are really good for, which only the identity provider knows.            *)
(*                                                                         *)
(* One user, one command at a time (TokenSessions has several): he wants   *)
(* to make a call, and when it is refused he runs the command the refusal  *)
(* names and calls again.                                                  *)
(***************************************************************************)
EXTENDS Naturals, FiniteSets

CONSTANTS
    Google, Microsoft,   \* the handles of either provider
    Uris,                \* scopes named by a URI
    GoogleAliases,       \* googleAliases: name -> the scopes it stands for
    MicrosoftNames,      \* microsoftAliases: names that stand for themselves
    GoogleDefaults, MicrosoftDefaults,   \* DefaultScopes of either provider
    Typed                \* the --scope flags a user may type, {} for none

Handles == Google \union Microsoft

OIDC == {"openid", "email", "profile"}

Scopes == Uris \union OIDC \union MicrosoftNames

\* What may be written after --scope.
Names == Scopes \union DOMAIN GoogleAliases

ASSUME ScopeAssumption ==
    /\ Google \intersect Microsoft = {}
    /\ \A a \in DOMAIN GoogleAliases :
          GoogleAliases[a] \subseteq Uris \union OIDC /\ GoogleAliases[a] # {}
    /\ Uris \intersect (DOMAIN GoogleAliases \union MicrosoftNames) = {}
    /\ GoogleDefaults \subseteq Uris \union OIDC
    /\ OIDC \union {"offline_access"} \subseteq MicrosoftNames
    /\ MicrosoftDefaults \subseteq MicrosoftNames
    /\ Typed \subseteq SUBSET Names

VARIABLES
    accounts,  \* the handles that have a record
    recorded,  \* per handle: Scopes of its TokenRecord
    stale,     \* per handle: its access token is due for a refresh
    covers,    \* the identity provider: what the tokens of the record are good for
    consented, \* the identity provider: all the user ever consented to
    declined,  \* the user: what he declined when the record was made
    step,      \* the user: what he does next
    handle,    \* the account he wants to call with
    need,      \* the --scope flags of his call
    advice     \* the --scope flags of the login he is told to run

account == <<accounts, recorded, stale, covers, consented, declined>>
user == <<step, handle, need, advice>>
vars == <<account, user>>

-----------------------------------------------------------------------------
TypeOK ==
    /\ accounts \in SUBSET Handles
    /\ recorded \in [Handles -> SUBSET Scopes]
    /\ stale \in [Handles -> BOOLEAN]
    /\ covers \in [Handles -> SUBSET Scopes]
    /\ consented \in [Handles -> SUBSET Scopes]
    /\ declined \in [Handles -> SUBSET Scopes]
    /\ step \in {"free", "call", "advised", "through", "stopped"}
    /\ handle \in Handles
    /\ need \in SUBSET Names
    /\ advice \in SUBSET Names

Init ==
    /\ accounts = {}
    /\ recorded = [h \in Handles |-> {}]
    /\ stale = [h \in Handles |-> FALSE]
    /\ covers = [h \in Handles |-> {}]
    /\ consented = [h \in Handles |-> {}]
    /\ declined = [h \in Handles |-> {}]
    /\ step = "free"
    /\ handle \in Handles
    /\ need = {}
    /\ advice = {}

-----------------------------------------------------------------------------
(* Provider.ExpandScopes, DefaultScopes and the scopes of Provider.Login. *)

\* The names a provider accepts: URIs, and those of its table.
Known(h, names) ==
    names \subseteq Uris \union (IF h \in Google THEN DOMAIN GoogleAliases
                                 ELSE MicrosoftNames)

\* Mutant: aliases are passed on as they are.
BugExpandScopesNot(h, names) == names

ExpandScopes(h, names) ==
    IF h \in Google
    THEN (names \intersect Uris)
           \union UNION {GoogleAliases[a] : a \in names \ Uris}
    ELSE names

DefaultScopes(h) == IF h \in Google THEN GoogleDefaults ELSE MicrosoftDefaults

EnsureOIDC(scopes) == scopes \union OIDC

NormalizeScopes(scopes) == scopes \union {"offline_access"}

\* What a login asks for; without --scope the defaults.
Requested(h, names) ==
    LET scopes == EnsureOIDC(IF names = {} THEN DefaultScopes(h)
                             ELSE ExpandScopes(h, names))
    IN  IF h \in Google THEN scopes ELSE NormalizeScopes(scopes)

\* The scopes the token answer names.  Google lets the user decline single
\* scopes, and grants what was asked for now; Microsoft takes all or nothing,
\* and grants with it what the user has consented to before.
Answered(h, requested, no) ==
    IF h \in Google THEN requested \ no ELSE requested \union consented[h]

\* Mutants: the scopes of the answer are left out; those of the record that is
\* replaced are kept.
BugGrantedAsRequested(h, requested, answered) == requested
BugGrantedKeepsOld(h, requested, answered) ==
    requested \union answered \union recorded[h]

\* unionScopes: the record names what was asked for and what was answered.
Granted(h, requested, answered) == requested \union answered

\* A sign-in in the browser to which the user consents, but for some scopes.
SignIn(h, names) ==
    \E no \in SUBSET (Requested(h, names) \ OIDC) :
       LET requested == Requested(h, names)
           answered == Answered(h, requested, no)
       IN  /\ h \in Microsoft => no = {}
           /\ accounts' = accounts \union {h}
           /\ recorded' = [recorded EXCEPT ![h] = Granted(h, requested, answered)]
           /\ covers' = [covers EXCEPT ![h] = answered]
           /\ consented' = [consented EXCEPT ![h] = @ \union answered]
           /\ declined' = [declined EXCEPT ![h] = no]
           /\ stale' = [stale EXCEPT ![h] = FALSE]

-----------------------------------------------------------------------------
(* The commands. *)

\* apl login h --force [--scope name ...], on the user's own account.
Login(h, names) ==
    /\ step = "free"
    /\ Known(h, names)
    /\ SignIn(h, names)
    /\ UNCHANGED user

\* The access token comes to its end.
Expire(h) ==
    /\ h \in accounts
    /\ ~ stale[h]
    /\ stale' = [stale EXCEPT ![h] = TRUE]
    /\ UNCHANGED <<accounts, recorded, covers, consented, declined, user>>

Logout(h) ==
    /\ step = "free"
    /\ h \in accounts
    /\ accounts' = accounts \ {h}
    /\ recorded' = [recorded EXCEPT ![h] = {}]
    /\ covers' = [covers EXCEPT ![h] = {}]
    /\ declined' = [declined EXCEPT ![h] = {}]
    /\ stale' = [stale EXCEPT ![h] = FALSE]
    /\ UNCHANGED <<consented, user>>

\* The user turns to a call.
Want(h, names) ==
    /\ step = "free"
    /\ step' = "call"
    /\ handle' = h
    /\ need' = names
    /\ UNCHANGED <<account, advice>>

\* missingScopes: the names after --scope are compared as they are given with
\* the scopes of the record, which Login has expanded.
MissingScopes(h, names) == names \ recorded[h]

Advise(names) ==
    /\ step' = "advised"
    /\ advice' = names
    /\ UNCHANGED <<account, handle, need>>

\* Mutant: the advice does not name the scopes.
BugRefusedUnnamed ==
    /\ step = "call"
    /\ \/ handle \notin accounts /\ Advise({})
       \/ /\ handle \in accounts
          /\ MissingScopes(handle, need) # {}
          /\ Advise({})

\* call.go:157, :164: refused before the network is touched.
Refused ==
    /\ step = "call"
    /\ \/ handle \notin accounts /\ Advise({})
       \/ /\ handle \in accounts
          /\ MissingScopes(handle, need) # {}
          /\ Advise(MissingScopes(handle, need))

\* The scopes oauth.Refresh asks for are those of the record (google.go:286).  A
\* provider refuses to refresh for more than it has granted, with invalid_scope,
\* and Microsoft gives out refresh tokens only with offline_access.
RefreshGranted(h) ==
    /\ recorded[h] \subseteq covers[h]
    /\ h \in Microsoft => "offline_access" \in covers[h]

\* The call itself: a refresh if it is due, then the request, which the API
\* carries out if the token is good for it.
Call ==
    /\ step = "call"
    /\ handle \in accounts
    /\ MissingScopes(handle, need) = {}
    /\ \/ /\ stale[handle] => RefreshGranted(handle)
          /\ need \subseteq covers[handle]
          /\ step' = "through"
          /\ stale' = [stale EXCEPT ![handle] = FALSE]
       \/ /\ stale[handle] => RefreshGranted(handle)
          /\ ~ need \subseteq covers[handle]
          /\ step' = "stopped"
          /\ stale' = [stale EXCEPT ![handle] = FALSE]
       \/ /\ stale[handle] /\ ~ RefreshGranted(handle)
          /\ step' = "stopped"
          /\ UNCHANGED stale
    /\ UNCHANGED <<accounts, recorded, covers, consented, declined, handle, need, advice>>

\* The user runs the login he is told to run; a name the provider does not know
\* is an error of his.
FollowAdvice ==
    /\ step = "advised"
    /\ \/ /\ Known(handle, advice)
          /\ SignIn(handle, advice)
          /\ step' = "call"
       \/ /\ ~ Known(handle, advice)
          /\ step' = "stopped"
          /\ UNCHANGED account
    /\ advice' = {}
    /\ UNCHANGED <<handle, need>>

\* He is done with the call.
Rest ==
    /\ step \in {"through", "stopped"}
    /\ step' = "free"
    /\ need' = {}
    /\ UNCHANGED <<account, handle, advice>>

-----------------------------------------------------------------------------
Next ==
    \/ \E h \in Handles :
          \/ Expire(h) \/ Logout(h)
          \/ \E names \in Typed : Login(h, names) \/ Want(h, names)
    \/ Refused \/ Call \/ FollowAdvice \/ Rest

Spec == Init /\ [][Next]_vars

\* The user does not give up: he calls, and runs what he is told to run.
FairSpec == Spec /\ WF_vars(Refused \/ Call \/ FollowAdvice)

-----------------------------------------------------------------------------
\* A call the guard lets through is carried out, now and after every refresh,
\* unless the user declined a scope: the record claims nothing the tokens are
\* not good for, whichever sign-ins came before (google.go:238, 286; call.go:164).
ServedUnlessDeclined ==
    [][step = "call" /\ step' = "stopped" => declined[handle] # {}]_vars

\* A call whose --scope flags are names of scopes is refused only for a scope the
\* tokens are not good for: what the provider grants beyond the request is recorded
\* too (microsoft.go:183, google.go:238).  Nothing of the kind holds of an alias that
\* is no scope itself: call.go:164 refuses it whatever the tokens are good for.
RefusedOnlyIfLacking ==
    [][step = "call" /\ step' = "advised" /\ handle \in accounts /\ need \subseteq Scopes
          => ~ need \subseteq covers[handle]]_vars

\* The scopes the advice can bring together: at Google each login replaces what
\* the one before was granted, and no alias is ever found in a record.
Attainable(h, names) ==
    IF h \in Google THEN names \subseteq Uris \union OIDC /\ Cardinality(names \ OIDC) <= 1
    ELSE names \subseteq Uris \union MicrosoftNames

\* A user who is refused and does what he is told gets his call through, unless
\* he declines a scope (call.go:158, 165).
AdviceHelps ==
    \A h \in Handles, names \in Typed :
       step = "call" /\ handle = h /\ need = names /\ Attainable(h, names)
          ~> step = "through" \/ declined[h] # {}

-----------------------------------------------------------------------------
(* Inductive strengthening. *)

\* The record names what the tokens are good for and, beyond that, only what the
\* user declined.
RecordTellsConsent ==
    \A h \in accounts :
       /\ covers[h] \subseteq recorded[h]
       /\ recorded[h] \ covers[h] \subseteq declined[h]
       /\ h \in Microsoft => "offline_access" \in covers[h]
=============================================================================

-------------------------- MODULE ScopedAccessProofs --------------------------
(***************************************************************************)
(* Theorems about ScopedAccess, for any accounts, scopes, aliases and      *)
(* defaults: its type correctness, and that the record tells what the      *)
(* tokens are good for, but for the scopes the user declined.              *)
(***************************************************************************)
EXTENDS ScopedAccess, TLAPS

\* What a login asks for, what is answered and what is recorded are scopes, if
\* the names are known to the provider.
LEMMA RequestedScopes ==
    ASSUME NEW h \in Handles, NEW names \in SUBSET Names, Known(h, names)
    PROVE  Requested(h, names) \in SUBSET Scopes
<1>1. ExpandScopes(h, names) \in SUBSET Scopes
  BY ScopeAssumption DEF Known, ExpandScopes, Handles, Names, Scopes
<1>2. DefaultScopes(h) \in SUBSET Scopes
  BY ScopeAssumption DEF DefaultScopes, Scopes
<1>3. OIDC \union {"offline_access"} \in SUBSET Scopes
  BY ScopeAssumption DEF Scopes
<1> QED
  BY <1>1, <1>2, <1>3 DEF Requested, EnsureOIDC, NormalizeScopes

\* Microsoft is always asked for offline_access.
LEMMA OfflineRequested ==
    ASSUME NEW h \in Microsoft, NEW names
    PROVE  "offline_access" \in Requested(h, names)
BY ScopeAssumption DEF Requested, NormalizeScopes

\* A sign-in with known names keeps the types of what it changes.
LEMMA SignInTyped ==
    ASSUME TypeOK, NEW h \in Handles, NEW names \in SUBSET Names,
           Known(h, names), SignIn(h, names)
    PROVE  /\ accounts' \in SUBSET Handles
           /\ recorded' \in [Handles -> SUBSET Scopes]
           /\ stale' \in [Handles -> BOOLEAN]
           /\ covers' \in [Handles -> SUBSET Scopes]
           /\ consented' \in [Handles -> SUBSET Scopes]
           /\ declined' \in [Handles -> SUBSET Scopes]
<1> DEFINE requested == Requested(h, names)
<1>1. requested \in SUBSET Scopes
  BY RequestedScopes
<1>2. PICK no \in SUBSET (requested \ OIDC) :
         LET answered == Answered(h, requested, no)
         IN  /\ h \in Microsoft => no = {}
             /\ accounts' = accounts \union {h}
             /\ recorded' = [recorded EXCEPT ![h] = Granted(h, requested, answered)]
             /\ covers' = [covers EXCEPT ![h] = answered]
             /\ consented' = [consented EXCEPT ![h] = @ \union answered]
             /\ declined' = [declined EXCEPT ![h] = no]
             /\ stale' = [stale EXCEPT ![h] = FALSE]
  BY DEF SignIn
<1>3. Answered(h, requested, no) \in SUBSET Scopes
  BY <1>1 DEF TypeOK, Answered
<1>4. no \in SUBSET Scopes
  BY <1>1
<1> HIDE DEF requested
<1> QED
  BY <1>1, <1>2, <1>3, <1>4 DEF TypeOK, Granted

\* A sign-in records what is answered and claims beyond that only what the user
\* declines.
LEMMA SignInTells ==
    ASSUME TypeOK, RecordTellsConsent, NEW h \in Handles, NEW names, SignIn(h, names)
    PROVE  RecordTellsConsent'
<1> DEFINE requested == Requested(h, names)
<1>1. PICK no \in SUBSET (requested \ OIDC) :
         LET answered == Answered(h, requested, no)
         IN  /\ h \in Microsoft => no = {}
             /\ accounts' = accounts \union {h}
             /\ recorded' = [recorded EXCEPT ![h] = Granted(h, requested, answered)]
             /\ covers' = [covers EXCEPT ![h] = answered]
             /\ consented' = [consented EXCEPT ![h] = @ \union answered]
             /\ declined' = [declined EXCEPT ![h] = no]
             /\ stale' = [stale EXCEPT ![h] = FALSE]
  BY DEF SignIn
<1> DEFINE answered == Answered(h, requested, no)
<1>2. requested \ answered \subseteq no
  BY DEF Answered
<1>3. h \in Microsoft => "offline_access" \in answered
  BY OfflineRequested, ScopeAssumption DEF Answered
<1>4. /\ recorded'[h] = requested \union answered
      /\ covers'[h] = answered
      /\ declined'[h] = no
  BY <1>1 DEF TypeOK, Granted
<1>5. \A g \in Handles \ {h} : /\ recorded'[g] = recorded[g]
                               /\ covers'[g] = covers[g]
                               /\ declined'[g] = declined[g]
  BY <1>1 DEF TypeOK
<1> HIDE DEF requested, answered
<1>6. SUFFICES ASSUME NEW g \in accounts'
               PROVE  /\ covers'[g] \subseteq recorded'[g]
                      /\ recorded'[g] \ covers'[g] \subseteq declined'[g]
                      /\ g \in Microsoft => "offline_access" \in covers'[g]
  BY DEF RecordTellsConsent
<1>7. CASE g = h
  BY <1>2, <1>3, <1>4, <1>7
<1>8. CASE g # h
  <2>1. g \in accounts /\ g \in Handles \ {h}
    BY <1>1, <1>8 DEF TypeOK
  <2> QED
    BY <2>1, <1>5 DEF RecordTellsConsent
<1> QED
  BY <1>7, <1>8

-----------------------------------------------------------------------------
\* The names a user types, those he needs and those he is advised are names.
LEMMA TypeStep ==
    ASSUME TypeOK, [Next]_vars
    PROVE  TypeOK'
<1>1. ASSUME NEW h \in Handles, Expire(h)
      PROVE  TypeOK'
  BY <1>1 DEF Expire, TypeOK, user
<1>2. ASSUME NEW h \in Handles, Logout(h)
      PROVE  TypeOK'
  BY <1>2 DEF Logout, TypeOK, user
<1>3. ASSUME NEW h \in Handles, NEW names \in Typed, Login(h, names)
      PROVE  TypeOK'
  <2>1. names \in SUBSET Names
    BY ScopeAssumption
  <2>2. Known(h, names) /\ SignIn(h, names) /\ UNCHANGED user
    BY <1>3 DEF Login
  <2> QED
    BY <2>1, <2>2, SignInTyped DEF TypeOK, user
<1>4. ASSUME NEW h \in Handles, NEW names \in Typed, Want(h, names)
      PROVE  TypeOK'
  <2>1. names \in SUBSET Names
    BY ScopeAssumption
  <2> QED
    BY <1>4, <2>1 DEF Want, TypeOK, account
<1>5. CASE Refused
  <2>1. MissingScopes(handle, need) \in SUBSET Names
    BY DEF MissingScopes, TypeOK
  <2> QED
    BY <1>5, <2>1 DEF Refused, Advise, TypeOK, account
<1>6. CASE Call
  BY <1>6 DEF Call, TypeOK
<1>7. CASE FollowAdvice
  <2>1. CASE Known(handle, advice) /\ SignIn(handle, advice) /\ step' = "call"
    BY <1>7, <2>1, SignInTyped DEF FollowAdvice, TypeOK
  <2>2. CASE step' = "stopped" /\ UNCHANGED account
    BY <1>7, <2>2 DEF FollowAdvice, TypeOK, account
  <2> QED
    BY <1>7, <2>1, <2>2 DEF FollowAdvice
<1>8. CASE Rest
  BY <1>8 DEF Rest, TypeOK, account
<1>9. CASE UNCHANGED vars
  BY <1>9 DEF TypeOK, vars, account, user
<1> QED
  BY <1>1, <1>2, <1>3, <1>4, <1>5, <1>6, <1>7, <1>8, <1>9 DEF Next

LEMMA ConsentStep ==
    ASSUME TypeOK, RecordTellsConsent, [Next]_vars
    PROVE  RecordTellsConsent'
<1>1. ASSUME NEW h \in Handles, Logout(h)
      PROVE  RecordTellsConsent'
  BY <1>1 DEF Logout, TypeOK, RecordTellsConsent
<1>2. ASSUME NEW h \in Handles, NEW names \in Typed, Login(h, names)
      PROVE  RecordTellsConsent'
  BY <1>2, SignInTells DEF Login
<1>3. CASE FollowAdvice
  <2>1. handle \in Handles
    BY DEF TypeOK
  <2>2. CASE SignIn(handle, advice)
    BY <2>1, <2>2, SignInTells
  <2>3. CASE UNCHANGED account
    BY <2>3 DEF account, RecordTellsConsent
  <2> QED
    BY <1>3, <2>2, <2>3 DEF FollowAdvice
<1>4. CASE UNCHANGED <<accounts, recorded, covers, declined>>
  BY <1>4 DEF RecordTellsConsent
<1>5. ASSUME NEW h \in Handles, Expire(h) \/ (\E names \in Typed : Want(h, names))
      PROVE  UNCHANGED <<accounts, recorded, covers, declined>>
  BY <1>5 DEF Expire, Want, account
<1>6. Refused \/ Call \/ Rest \/ UNCHANGED vars
        => UNCHANGED <<accounts, recorded, covers, declined>>
  BY DEF Refused, Advise, Call, Rest, vars, account
<1> QED
  BY <1>1, <1>2, <1>3, <1>4, <1>5, <1>6 DEF Next

-----------------------------------------------------------------------------
\* Type correctness: every --scope name is expanded before it is asked for or
\* recorded.
THEOREM TypeCorrect == Spec => []TypeOK
<1>1. Init => TypeOK
  BY DEF Init, TypeOK
<1> QED
  BY <1>1, TypeStep, PTL DEF Spec

\* The record names what the tokens are good for and, beyond that, only what the
\* user declined (google.go:238, microsoft.go:242).
THEOREM RecordsTellConsent == Spec => []RecordTellsConsent
<1>1. Init => RecordTellsConsent
  BY DEF Init, RecordTellsConsent
<1> QED
  BY <1>1, ConsentStep, TypeCorrect, PTL DEF Spec

\* Whoever passes the guard of `apl call` is served, after any sign-ins,
\* refreshes and logouts, unless he declined a scope (call.go:164).
THEOREM CallsServed == Spec => ServedUnlessDeclined
<1> DEFINE Served == step = "call" /\ step' = "stopped" => declined[handle] # {}
<1>1. ASSUME TypeOK, RecordTellsConsent, [Next]_vars
      PROVE  [Served]_vars
  <2>1. SUFFICES ASSUME step = "call", step' = "stopped"
                 PROVE  declined[handle] # {}
    BY DEF Served
  <2>2. Call
    BY <1>1, <2>1 DEF Next, Expire, Logout, Login, Want, Refused, Advise, FollowAdvice,
                      Rest, vars, user
  <2>3. handle \in accounts /\ need \subseteq recorded[handle]
    BY <2>2 DEF Call, MissingScopes
  <2>4. CASE ~ need \subseteq covers[handle]
    BY <1>1, <2>3, <2>4 DEF RecordTellsConsent
  <2>5. CASE ~ RefreshGranted(handle)
    BY <1>1, <2>3, <2>5 DEF RecordTellsConsent, RefreshGranted
  <2> QED
    BY <2>1, <2>2, <2>4, <2>5 DEF Call
<1> QED
  BY <1>1, TypeCorrect, RecordsTellConsent, PTL DEF Spec, ServedUnlessDeclined, Served

\* A call that names scopes, and not aliases of them, is refused only for a scope the
\* tokens are not good for (call.go:164, microsoft.go:183, google.go:238).
THEOREM RefusalsRight == Spec => RefusedOnlyIfLacking
<1> DEFINE Right == step = "call" /\ step' = "advised" /\ handle \in accounts /\ need \subseteq Scopes
                      => ~ need \subseteq covers[handle]
<1>1. ASSUME TypeOK, RecordTellsConsent, [Next]_vars
      PROVE  [Right]_vars
  <2>1. SUFFICES ASSUME step = "call", step' = "advised", handle \in accounts
                 PROVE  ~ need \subseteq covers[handle]
    BY DEF Right
  <2>2. Refused
    BY <1>1, <2>1 DEF Next, Expire, Logout, Login, Want, Call, FollowAdvice,
                      Rest, vars, user
  <2>3. ~ need \subseteq recorded[handle]
    BY <2>1, <2>2 DEF Refused, MissingScopes
  <2> QED
    BY <1>1, <2>1, <2>3 DEF RecordTellsConsent
<1> QED
  BY <1>1, TypeCorrect, RecordsTellConsent, PTL DEF Spec, RefusedOnlyIfLacking, Right
=============================================================================

------------------------- MODULE TokenSessionsProofs -------------------------
(***************************************************************************)
(* Theorems about TokenSessions, for every set of processes, handles,      *)
(* consents and failures.                                                  *)
(***************************************************************************)
EXTENDS TokenSessions, TLAPS

-----------------------------------------------------------------------------
(* What the operators return. *)

LEMMA Constants ==
    /\ MaxNow \in Nat /\ MaxRefreshes \in Nat
    /\ ExpiresIn \in Nat /\ ExpiresIn > 1
    /\ Faults \subseteq {"net", "store", "kill", "api"}
    /\ Google \intersect Microsoft = {}
    /\ Handles = Google \union Microsoft
  BY SessionAssumption DEF Handles

LEMMA JobsType ==
  ASSUME NEW j \in Jobs
  PROVE  /\ j.kind \in {"login", "call", "logout"}
         /\ j.handle \in Handles
         /\ j.scopes \in SUBSET Scopes
         /\ j.force \in BOOLEAN
         /\ j # NoJob
<1>1. /\ j.kind \in {"login", "call", "logout"}
      /\ j.handle \in Handles
      /\ j.scopes \in SUBSET Scopes
      /\ j.force \in BOOLEAN
  BY DEF Jobs
<1>2. NoJob.kind = "none"
  BY DEF NoJob
<1>3. QED
  BY <1>1, <1>2

LEMMA AnswersType ==
  ASSUME NEW a \in Answers
  PROVE  /\ a.status = "token" => a.at \in AccessTokens /\ a.rt \in RefreshTokens
         /\ a.status \in {"none", "invalid_grant", "error", "2xx", "401", "4xx",
                          "429", "5xx", "token"}
  BY DEF Answers

LEMMA NoAnswerType == NoAnswer \in Answers
  BY DEF NoAnswer, Answers

LEMMA RecordsType ==
  ASSUME NEW r \in TokenRecords
  PROVE  /\ r.rt \in RefreshTokens /\ r.rt.grant \in Grants
         /\ r.at \in AccessTokens /\ r.at.until \in Nat
         /\ r.expires \in Nat
         /\ r.scopes \in SUBSET Scopes
         /\ r # NoRecord
  BY Constants, NoRecordAssumption DEF TokenRecords, RefreshTokens, AccessTokens, Times

LEMMA ExitsType ==
  /\ \A p \in Procs, status \in STRING :
        RefreshErrorExits(p, status) \subseteq {"auth", "network"}
  /\ \A status : StatusToExit(status) \in {"ok", "user", "throttled", "server"}
  BY DEF RefreshErrorExits, StatusToExit

LEMMA NewAccessTokenType ==
  ASSUME TypeOK, NEW g \in Grants, NEW gen \in Generations
  PROVE  /\ NewAccessToken(g, gen) \in AccessTokens
         /\ NewAccessToken(g, gen).until = now + ExpiresIn
  BY Constants DEF NewAccessToken, AccessTokens, Times, TypeOK

-----------------------------------------------------------------------------
(* Type correctness.  That served counts no further than one needs          *)
(* ServedOnce.                                                               *)

\* A process is busy with its job.
LEMMA BusyType ==
  ASSUME CommandOK, NEW p \in Procs, pc[p] # "idle"
  PROVE  /\ job[p] \in Jobs
         /\ job[p].kind \in {"login", "call", "logout"}
         /\ job[p].handle \in Handles
         /\ job[p].scopes \in SUBSET Scopes
  BY JobsType DEF CommandOK

LEMMA FinishType ==
  ASSUME CommandOK, NEW p \in Procs, NEW code \in Exits, Finish(p, code)
  PROVE  CommandOK'
  BY Constants, NoAnswerType, JobsType DEF CommandOK, Finish, Goto, Labels

LEMMA TakeType ==
  ASSUME CommandOK, NEW p \in Procs, NEW r \in TokenRecords,
         NEW label \in Labels \ {"idle"}, pc[p] # "idle", Take(p, label, r)
  PROVE  CommandOK'
  BY NoAnswerType, RecordsType DEF CommandOK, Take, Goto, Deliver

\* The consents that records and answers are of.
LEMMA GrantsOf ==
  ASSUME TypeOK
  PROVE  /\ \A h \in Handles : accounts[h] # NoRecord => accounts[h].rt.grant \in Grants
         /\ \A p \in Procs :
               /\ rec[p] # NoRecord => rec[p].rt.grant \in Grants
               /\ answer[p].status = "token" => answer[p].rt.grant \in Grants
<1>1. \A h \in Handles : accounts[h] # NoRecord => accounts[h] \in TokenRecords
  BY DEF TypeOK
<1>2. \A p \in Procs : rec[p] # NoRecord => rec[p] \in TokenRecords
  BY DEF TypeOK, CommandOK
<1>3. \A p \in Procs : answer[p] \in Answers
  BY DEF TypeOK, CommandOK
<1>4. \A p \in Procs : answer[p].status = "token" => answer[p].rt.grant \in Grants
  BY <1>3, AnswersType DEF RefreshTokens
<1>5. QED
  BY <1>1, <1>2, <1>4, RecordsType

\* What ends with its holder is the latest token of a consent.
LEMMA LoseType ==
  ASSUME TypeOK, NEW p \in Procs, Lose(p)
  PROVE  lost' \subseteq Grants
<1>1. \A rt \in InHands(p) : rt.grant \in Grants
  <2>1. answer[p].status = "token" => answer[p].rt.grant \in Grants
    BY GrantsOf
  <2>2. pc[p] \in {"put", "store"} => rec[p].rt.grant \in Grants
    BY GrantsOf DEF TypeOK, CommandOK
  <2> QED
    BY <2>1, <2>2 DEF InHands
<1> QED
  BY <1>1 DEF Lose, TypeOK

LEMMA TypeInit == Init => TypeOK
<1> SUFFICES ASSUME Init PROVE TypeOK
  OBVIOUS
<1>1. grant \in [Grants -> GrantStates]
  BY Constants DEF Init, GrantStates, Generations
<1>2. CommandOK
  BY Constants, NoAnswerType, JobsType DEF Init, CommandOK, Labels, Exits
<1>3. QED
  BY <1>1, <1>2, Constants DEF Init, TypeOK

LEMMA TypeStep ==
  ASSUME TypeOK, ServedOnce, [Next]_vars
  PROVE  TypeOK'
<1> USE Constants DEF TypeOK
<1>0. /\ now \in Nat /\ now <= MaxNow
      /\ accounts \in [Handles -> TokenRecords \union {NoRecord}]
      /\ grant \in [Grants -> GrantStates]
      /\ lost \subseteq Grants
      /\ CommandOK
  OBVIOUS
<1>1. ASSUME NEW p \in Procs, NEW j \in Jobs, Start(p, j) PROVE TypeOK'
  <2>1. CommandOK'
    BY <1>0, <1>1, JobsType DEF Start, Goto, CommandOK, Labels, Exits
  <2>2. QED
    BY <1>0, <1>1, <2>1 DEF Start
<1>2. ASSUME NEW p \in Procs, GetRecord(p) PROVE TypeOK'
  <2>1. job[p] \in Jobs /\ job[p].handle \in Handles
    BY <1>0, <1>2, BusyType DEF GetRecord
  <2>2. accounts[job[p].handle] # NoRecord => accounts[job[p].handle] \in TokenRecords
    BY <1>0, <2>1
  <2>3. CASE \E label \in {"revoke", "refresh"} :
                /\ accounts[job[p].handle] # NoRecord
                /\ Take(p, label, accounts[job[p].handle])
    BY <1>0, <1>2, <2>2, <2>3, TakeType DEF GetRecord, Labels
  <2>4. CASE \E code \in {"auth", "network"} : Finish(p, code)
    BY <1>0, <1>2, <2>4, FinishType DEF GetRecord, Exits
  <2>5. CASE Goto(p, "consent") /\ UNCHANGED command
    <3>1. CommandOK'
      BY <1>0, <1>2, <2>5 DEF GetRecord, Goto, command, CommandOK, Labels
    <3>2. QED
      BY <1>0, <1>2, <3>1 DEF GetRecord
  <2>6. QED
    BY <1>2, <2>3, <2>4, <2>5 DEF GetRecord
<1>3. ASSUME NEW p \in Procs, Consent(p) PROVE TypeOK'
  <2>1. job[p] \in Jobs /\ job[p].handle \in Handles
    BY <1>0, <1>3, BusyType DEF Consent
  <2>2. 0 \in Generations
    BY DEF Generations
  <2>3. grant' \in [Grants -> GrantStates]
    <3>1. ASSUME NEW g \in Grants,
                 grant' = [grant EXCEPT ![g].state = "live", ![g].of = job[p].handle]
          PROVE  grant' \in [Grants -> GrantStates]
      <4> DEFINE live == [grant EXCEPT ![g].state = "live"]
      <4>1. live \in [Grants -> GrantStates]
        BY <1>0 DEF GrantStates
      <4>2. grant' = [live EXCEPT ![g].of = job[p].handle]
        BY <3>1
      <4> HIDE DEF live
      <4>3. QED
        BY <2>1, <4>1, <4>2 DEF GrantStates
    <3>2. QED
      BY <1>0, <1>3, <3>1 DEF Consent
  <2>4. \A g \in Grants :
           [status |-> "token", at |-> NewAccessToken(g, 0), rt |-> [grant |-> g, gen |-> 0]]
              \in Answers
    BY <2>2, NewAccessTokenType DEF Answers, RefreshTokens
  <2>5. answer' \in [Procs -> Answers]
    <3>1. [status |-> "error"] \in Answers
      BY DEF Answers
    <3>2. \E a \in Answers : Deliver(p, a)
      BY <1>3, <2>4, <3>1 DEF Consent
    <3>3. QED
      BY <1>0, <3>2 DEF Deliver, CommandOK
  <2>6. CommandOK'
    BY <1>0, <1>3, <2>5 DEF Consent, Goto, CommandOK, Labels
  <2>7. QED
    BY <1>0, <1>3, <2>3, <2>6 DEF Consent
<1>4. ASSUME NEW p \in Procs, BuildRecord(p) PROVE TypeOK'
  <2>1. job[p] \in Jobs /\ job[p].scopes \in SUBSET Scopes
    BY <1>0, <1>4, BusyType DEF BuildRecord
  <2>2. answer[p] \in Answers
    BY <1>0 DEF CommandOK
  <2> DEFINE r == [rt |-> answer[p].rt, at |-> answer[p].at,
                   expires |-> now + ExpiresIn - 1,
                   scopes |-> IF job[p].scopes = {} THEN DefaultScopes
                              ELSE job[p].scopes]
  <2>3. CASE answer[p].status = "token" /\ Take(p, "store", r)
    <3>1. r \in TokenRecords
      BY <1>0, <2>1, <2>2, <2>3, AnswersType, SessionAssumption DEF TokenRecords, Times
    <3>2. CommandOK'
      BY <1>0, <1>4, <2>3, <3>1, TakeType DEF BuildRecord, Labels
    <3>3. QED
      BY <1>0, <1>4, <3>2 DEF BuildRecord
  <2>4. CASE Finish(p, "network")
    BY <1>0, <1>4, <2>4, FinishType DEF BuildRecord, Exits
  <2>5. QED
    BY <1>4, <2>3, <2>4 DEF BuildRecord
<1>5. ASSUME NEW p \in Procs, StoreLogin(p) PROVE TypeOK'
  <2>1. rec[p] \in TokenRecords
    BY <1>0, <1>5 DEF StoreLogin, CommandOK
  <2>2. accounts' \in [Handles -> TokenRecords \union {NoRecord}]
    BY <1>0, <1>5, <2>1 DEF StoreLogin
  <2>3. CommandOK'
    BY <1>0, <1>5, FinishType DEF StoreLogin, Exits
  <2>4. QED
    BY <1>0, <1>5, <2>2, <2>3, LoseType DEF StoreLogin
<1>6. ASSUME NEW p \in Procs, KeepToken(p) PROVE TypeOK'
  <2>1. CASE Finish(p, "ok")
    BY <1>0, <1>6, <2>1, FinishType DEF KeepToken, Exits
  <2>2. CASE Goto(p, "put") /\ UNCHANGED command
    <3>1. CommandOK'
      BY <1>0, <1>6, <2>2 DEF KeepToken, Goto, command, CommandOK, Labels
    <3>2. QED
      BY <1>0, <1>6, <3>1 DEF KeepToken
  <2>3. QED
    BY <1>6, <2>1, <2>2 DEF KeepToken
<1>7. ASSUME NEW p \in Procs, AskToken(p) PROVE TypeOK'
  <2>1. CommandOK'
    BY <1>0, <1>7 DEF AskToken, Goto, CommandOK, Labels
  <2>2. QED
    BY <1>0, <1>7, <2>1 DEF AskToken
<1>8. ASSUME NEW p \in Procs, TokenEndpoint(p) PROVE TypeOK'
  <2> DEFINE rt == rec[p].rt
             g == rt.grant
             gen == grant[g].gen
  <2>1. rec[p] \in TokenRecords
    BY <1>0, <1>8 DEF TokenEndpoint, CommandOK
  <2>2. rt \in RefreshTokens /\ g \in Grants
    BY <2>1, RecordsType
  <2>3. gen \in Generations /\ grant[g] \in GrantStates
    BY <1>0, <2>2 DEF GrantStates
  <2>4. gen < MaxRefreshes => gen + 1 \in Generations
    BY <2>3 DEF Generations
  <2>5. grant' \in [Grants -> GrantStates]
    BY <1>0, <1>8, <2>2, <2>3, <2>4 DEF TokenEndpoint, GrantStates
  <2> DEFINE fresh == [status |-> "token", at |-> NewAccessToken(g, gen + 1),
                       rt |-> IF grant[g].of \in Microsoft
                              THEN [rt EXCEPT !.gen = gen + 1] ELSE rt]
  <2>6. gen < MaxRefreshes => fresh \in Answers
    <3>1. gen < MaxRefreshes => [rt EXCEPT !.gen = gen + 1] \in RefreshTokens
      BY <2>2, <2>4 DEF RefreshTokens
    <3>2. gen < MaxRefreshes => NewAccessToken(g, gen + 1) \in AccessTokens
      BY <2>2, <2>4, NewAccessTokenType
    <3>3. QED
      BY <2>2, <3>1, <3>2 DEF Answers
  <2>7. [status |-> "invalid_grant"] \in Answers /\ [status |-> "error"] \in Answers
    BY DEF Answers
  <2>8. answer' \in [Procs -> Answers]
    BY <1>0, <1>8, <2>6, <2>7 DEF TokenEndpoint, Deliver, CommandOK
  <2>9. CommandOK'
    BY <1>0, <1>8, <2>8 DEF TokenEndpoint, Goto, CommandOK, Labels
  <2>10. QED
    BY <1>0, <1>8, <2>5, <2>9 DEF TokenEndpoint
<1>9. ASSUME NEW p \in Procs, TokenAnswer(p) PROVE TypeOK'
  <2> DEFINE r == [rt |-> answer[p].rt, at |-> answer[p].at,
                   expires |-> since[p] + ExpiresIn - 1, scopes |-> rec[p].scopes]
  <2>1. /\ answer[p] \in Answers /\ since[p] \in 0 .. MaxNow
        /\ rec[p] \in TokenRecords
    BY <1>0, <1>9 DEF TokenAnswer, CommandOK
  <2>2. CASE answer[p].status = "token" /\ Take(p, "put", r)
    <3>1. r \in TokenRecords
      BY <2>1, <2>2, AnswersType, RecordsType DEF TokenRecords, Times
    <3>2. CommandOK'
      BY <1>0, <1>9, <2>2, <3>1, TakeType DEF TokenAnswer, Labels
    <3>3. QED
      BY <1>0, <1>9, <3>2 DEF TokenAnswer
  <2>3. CASE \E code \in RefreshErrorExits(p, answer[p].status) : Finish(p, code)
    <3>1. RefreshErrorExits(p, answer[p].status) \subseteq Exits
      BY DEF RefreshErrorExits, Exits
    <3>2. CommandOK'
      BY <1>0, <2>3, <3>1, FinishType
    <3>3. QED
      BY <1>0, <1>9, <3>2 DEF TokenAnswer
  <2>4. QED
    BY <1>9, <2>2, <2>3 DEF TokenAnswer
<1>10. ASSUME NEW p \in Procs, TokenLost(p) PROVE TypeOK'
  <2>1. RefreshErrorExits(p, "lost") \subseteq Exits
    BY DEF RefreshErrorExits, Exits
  <2>2. CommandOK'
    BY <1>0, <1>10, <2>1, FinishType DEF TokenLost
  <2>3. QED
    BY <1>0, <1>10, <2>2, LoseType DEF TokenLost
<1>11. ASSUME NEW p \in Procs, PutRefreshed(p) PROVE TypeOK'
  <2>1. rec[p] \in TokenRecords
    BY <1>0, <1>11 DEF PutRefreshed, CommandOK
  <2>2. accounts' \in [Handles -> TokenRecords \union {NoRecord}]
    BY <1>0, <1>11, <2>1 DEF PutRefreshed
  <2>3. CASE Finish(p, "ok")
    <3>1. CommandOK'
      BY <1>0, <2>3, FinishType DEF Exits
    <3>2. QED
      BY <1>0, <1>11, <2>2, <3>1, LoseType DEF PutRefreshed
  <2>4. CASE Goto(p, "request") /\ UNCHANGED command
    <3>1. CommandOK'
      BY <1>0, <1>11, <2>4 DEF PutRefreshed, Goto, command, CommandOK, Labels
    <3>2. QED
      BY <1>0, <1>11, <2>2, <3>1, LoseType DEF PutRefreshed
  <2>5. QED
    BY <1>11, <2>3, <2>4 DEF PutRefreshed
<1>12. ASSUME NEW p \in Procs, Serve(p) PROVE TypeOK'
  <2>1. served[p] = 0
    BY <1>12 DEF Serve, ServedOnce
  <2>2. served' \in [Procs -> 0 .. 1]
    BY <1>0, <1>12, <2>1 DEF Serve, CommandOK
  <2>3. \A status \in {"2xx", "4xx", "429", "5xx", "401"} : [status |-> status] \in Answers
    BY DEF Answers
  <2>4. answer' \in [Procs -> Answers]
    BY <1>0, <1>12, <2>3 DEF Serve, Deliver, CommandOK
  <2>5. CommandOK'
    BY <1>0, <1>12, <2>2, <2>4 DEF Serve, Goto, CommandOK, Labels
  <2>6. QED
    BY <1>0, <1>12, <2>5 DEF Serve
<1>13. ASSUME NEW p \in Procs, Reply(p) PROVE TypeOK'
  <2>1. CASE \E code \in Exits : Finish(p, code)
    BY <1>0, <1>13, <2>1, FinishType DEF Reply
  <2>2. CASE /\ Goto(p, "refresh")
             /\ retried' = [retried EXCEPT ![p] = TRUE]
             /\ Deliver(p, NoAnswer)
             /\ UNCHANGED <<job, rec, since, served, exit>>
    <3>1. CommandOK'
      BY <1>0, <1>13, <2>2, NoAnswerType DEF Reply, Goto, Deliver, CommandOK, Labels
    <3>2. QED
      BY <1>0, <1>13, <3>1 DEF Reply
  <2>3. StatusToExit(answer[p].status) \in Exits /\ "auth" \in Exits
    BY DEF StatusToExit, Exits
  <2>4. QED
    BY <1>13, <2>1, <2>2, <2>3 DEF Reply
<1>14. ASSUME NEW p \in Procs, ReplyLost(p) PROVE TypeOK'
  BY <1>0, <1>14, FinishType DEF ReplyLost, Exits
<1>15. ASSUME NEW p \in Procs, Revoke(p) PROVE TypeOK'
  <2>1. rec[p] \in TokenRecords
    BY <1>0, <1>15 DEF Revoke, CommandOK
  <2>2. grant' \in [Grants -> GrantStates]
    BY <1>0, <1>15, <2>1, RecordsType DEF Revoke, GrantStates
  <2>3. answer' \in [Procs -> Answers]
    <3>1. [status |-> "error"] \in Answers
      BY DEF Answers
    <3> QED
      BY <1>0, <1>15, <3>1 DEF Revoke, Deliver, CommandOK
  <2>4. CommandOK'
    BY <1>0, <1>15, <2>3 DEF Revoke, Goto, CommandOK, Labels
  <2>5. QED
    BY <1>0, <1>15, <2>2, <2>4 DEF Revoke
<1>16. ASSUME NEW p \in Procs, DeleteRecord(p) PROVE TypeOK'
  <2>1. accounts' \in [Handles -> TokenRecords \union {NoRecord}]
    BY <1>0, <1>16 DEF DeleteRecord
  <2>2. CommandOK'
    BY <1>0, <1>16, FinishType DEF DeleteRecord, Exits
  <2>3. QED
    BY <1>0, <1>16, <2>1, <2>2 DEF DeleteRecord
<1>17. ASSUME NEW p \in Procs, Kill(p) PROVE TypeOK'
  <2>1. CommandOK'
    BY <1>0, <1>17, FinishType DEF Kill, Exits
  <2>2. QED
    BY <1>0, <1>17, <2>1, LoseType DEF Kill
<1>17a. ASSUME NEW p \in Procs, Refuse(p) PROVE TypeOK'
  BY <1>0, <1>17a, FinishType DEF Refuse, Exits
<1>18. ASSUME Tick PROVE TypeOK'
  BY <1>0, <1>18 DEF Tick, command, CommandOK
<1>19. ASSUME NEW g \in Grants, RejectTokens(g) \/ Withdraw(g) PROVE TypeOK'
  <2>1. grant' \in [Grants -> GrantStates]
    BY <1>0, <1>19 DEF RejectTokens, Withdraw, GrantStates, Generations
  <2>2. QED
    BY <1>0, <1>19, <2>1 DEF RejectTokens, Withdraw, command, CommandOK
<1>20. CASE UNCHANGED vars
  BY <1>0, <1>20 DEF vars, command, CommandOK
<1>21. QED
  BY <1>1, <1>2, <1>3, <1>4, <1>5, <1>6, <1>7, <1>8, <1>9, <1>10, <1>11, <1>12,
     <1>13, <1>14, <1>15, <1>16, <1>17, <1>17a, <1>18, <1>19, <1>20
     DEF Next, Client, Waiting

-----------------------------------------------------------------------------
(* Which commands get where, and how often a request is carried out. *)

SessionInv == TypeOK /\ KindAt /\ ServedOnce

LEMMA SessionInvInit == Init => SessionInv
  BY TypeInit DEF Init, SessionInv, KindAt, ServedOnce

LEMMA KindAtStep ==
  ASSUME TypeOK, KindAt, [Next]_vars
  PROVE  KindAt'
<1> USE DEF TypeOK, CommandOK, KindAt, Goto, Finish
<1>1. ASSUME NEW p \in Procs, NEW j \in Jobs, Start(p, j) PROVE KindAt'
  BY <1>1, JobsType DEF Start
<1>2. ASSUME NEW p \in Procs, GetRecord(p) PROVE KindAt'
  BY <1>2, BusyType DEF GetRecord, Take, Deliver, command
<1>3. ASSUME NEW p \in Procs, Consent(p) PROVE KindAt'
  BY <1>3 DEF Consent, Deliver
<1>4. ASSUME NEW p \in Procs, BuildRecord(p) PROVE KindAt'
  BY <1>4 DEF BuildRecord, Take, Deliver
<1>5. ASSUME NEW p \in Procs, StoreLogin(p) PROVE KindAt'
  BY <1>5 DEF StoreLogin
<1>6. ASSUME NEW p \in Procs, KeepToken(p) PROVE KindAt'
  BY <1>6 DEF KeepToken, command
<1>7. ASSUME NEW p \in Procs, AskToken(p) PROVE KindAt'
  BY <1>7 DEF AskToken
<1>8. ASSUME NEW p \in Procs, TokenEndpoint(p) PROVE KindAt'
  BY <1>8 DEF TokenEndpoint, Deliver
<1>9. ASSUME NEW p \in Procs, TokenAnswer(p) PROVE KindAt'
  BY <1>9 DEF TokenAnswer, Take, Deliver
<1>10. ASSUME NEW p \in Procs, TokenLost(p) PROVE KindAt'
  BY <1>10 DEF TokenLost
<1>11. ASSUME NEW p \in Procs, PutRefreshed(p) PROVE KindAt'
  BY <1>11 DEF PutRefreshed, command
<1>12. ASSUME NEW p \in Procs, Serve(p) PROVE KindAt'
  BY <1>12 DEF Serve, Deliver
<1>13. ASSUME NEW p \in Procs, Reply(p) PROVE KindAt'
  BY <1>13 DEF Reply, Deliver
<1>14. ASSUME NEW p \in Procs, ReplyLost(p) PROVE KindAt'
  BY <1>14 DEF ReplyLost
<1>15. ASSUME NEW p \in Procs, Revoke(p) PROVE KindAt'
  BY <1>15 DEF Revoke, Deliver
<1>16. ASSUME NEW p \in Procs, DeleteRecord(p) PROVE KindAt'
  BY <1>16 DEF DeleteRecord
<1>17. ASSUME NEW p \in Procs, Kill(p) \/ Refuse(p) PROVE KindAt'
  BY <1>17 DEF Kill, Refuse
<1>18. CASE Tick \/ (\E g \in Grants : RejectTokens(g) \/ Withdraw(g)) \/ UNCHANGED vars
  BY <1>18 DEF Tick, RejectTokens, Withdraw, vars, command
<1>19. QED
  BY <1>1, <1>2, <1>3, <1>4, <1>5, <1>6, <1>7, <1>8, <1>9, <1>10, <1>11, <1>12, <1>13, <1>14, <1>15, <1>16, <1>17, <1>18
     DEF Next, Client, Waiting

LEMMA ServedOnceStep ==
  ASSUME TypeOK, ServedOnce, [Next]_vars
  PROVE  ServedOnce'
<1> USE DEF TypeOK, CommandOK, ServedOnce, Goto, Finish
<1>1. ASSUME NEW p \in Procs, NEW j \in Jobs, Start(p, j) PROVE ServedOnce'
  BY <1>1 DEF Start
<1>2. ASSUME NEW p \in Procs, GetRecord(p) PROVE ServedOnce'
  BY <1>2 DEF GetRecord, Take, Deliver, command
<1>3. ASSUME NEW p \in Procs, Consent(p) PROVE ServedOnce'
  BY <1>3 DEF Consent, Deliver
<1>4. ASSUME NEW p \in Procs, BuildRecord(p) PROVE ServedOnce'
  BY <1>4 DEF BuildRecord, Take, Deliver
<1>5. ASSUME NEW p \in Procs, StoreLogin(p) PROVE ServedOnce'
  BY <1>5 DEF StoreLogin
<1>6. ASSUME NEW p \in Procs, KeepToken(p) PROVE ServedOnce'
  BY <1>6 DEF KeepToken, command
<1>7. ASSUME NEW p \in Procs, AskToken(p) PROVE ServedOnce'
  BY <1>7 DEF AskToken
<1>8. ASSUME NEW p \in Procs, TokenEndpoint(p) PROVE ServedOnce'
  BY <1>8 DEF TokenEndpoint, Deliver
<1>9. ASSUME NEW p \in Procs, TokenAnswer(p) PROVE ServedOnce'
  BY <1>9 DEF TokenAnswer, Take, Deliver
<1>10. ASSUME NEW p \in Procs, TokenLost(p) PROVE ServedOnce'
  BY <1>10 DEF TokenLost
<1>11. ASSUME NEW p \in Procs, PutRefreshed(p) PROVE ServedOnce'
  BY <1>11 DEF PutRefreshed, command
<1>12. ASSUME NEW p \in Procs, Serve(p) PROVE ServedOnce'
  BY <1>12 DEF Serve, Deliver
<1>13. ASSUME NEW p \in Procs, Reply(p) PROVE ServedOnce'
  BY <1>13 DEF Reply, Deliver
<1>14. ASSUME NEW p \in Procs, ReplyLost(p) PROVE ServedOnce'
  BY <1>14 DEF ReplyLost
<1>15. ASSUME NEW p \in Procs, Revoke(p) PROVE ServedOnce'
  BY <1>15 DEF Revoke, Deliver
<1>16. ASSUME NEW p \in Procs, DeleteRecord(p) PROVE ServedOnce'
  BY <1>16 DEF DeleteRecord
<1>17. ASSUME NEW p \in Procs, Kill(p) \/ Refuse(p) PROVE ServedOnce'
  BY <1>17 DEF Kill, Refuse
<1>18. CASE Tick \/ (\E g \in Grants : RejectTokens(g) \/ Withdraw(g)) \/ UNCHANGED vars
  BY <1>18 DEF Tick, RejectTokens, Withdraw, vars, command
<1>19. QED
  BY <1>1, <1>2, <1>3, <1>4, <1>5, <1>6, <1>7, <1>8, <1>9, <1>10, <1>11, <1>12, <1>13, <1>14, <1>15, <1>16, <1>17, <1>18
     DEF Next, Client, Waiting

LEMMA SessionInvStep == SessionInv /\ [Next]_vars => SessionInv'
  BY TypeStep, KindAtStep, ServedOnceStep DEF SessionInv

\* Every variable keeps the values it can have, whatever the processes, the
\* providers and the failures do.
THEOREM TypeCorrect == Spec => []TypeOK
<1>1. SessionInv => TypeOK
  BY DEF SessionInv
<1>2. QED
  BY <1>1, SessionInvInit, SessionInvStep, PTL DEF Spec

\* How a command may end, by the step that ends it.
ExitFits(p) ==
    job[p].kind = "call" /\ pc'[p] = "idle" =>
       /\ exit'[p] = "auth" => served[p] = 0
       /\ exit'[p] \in {"ok", "throttled", "server"} => served[p] = 1
       /\ exit'[p] = "user" => served[p] = 1 \/ pc[p] = "get"

LEMMA ExitFitsStep ==
  ASSUME SessionInv, [Next]_vars, NEW p \in Procs, pc[p] # "idle"
  PROVE  ExitFits(p)
<1> USE DEF SessionInv, TypeOK, CommandOK, KindAt, ServedOnce, ExitFits, Goto, Finish
<1>1. ASSUME NEW q \in Procs, NEW j \in Jobs, Start(q, j) PROVE ExitFits(p)
  BY <1>1 DEF Start
<1>2. ASSUME NEW q \in Procs, GetRecord(q) PROVE ExitFits(p)
  BY <1>2 DEF GetRecord, Take, Deliver, command
<1>3. ASSUME NEW q \in Procs, Consent(q) PROVE ExitFits(p)
  BY <1>3 DEF Consent, Deliver
<1>4. ASSUME NEW q \in Procs, BuildRecord(q) PROVE ExitFits(p)
  BY <1>4 DEF BuildRecord, Take, Deliver
<1>5. ASSUME NEW q \in Procs, StoreLogin(q) PROVE ExitFits(p)
  BY <1>5 DEF StoreLogin
<1>6. ASSUME NEW q \in Procs, KeepToken(q) PROVE ExitFits(p)
  BY <1>6 DEF KeepToken, command
<1>7. ASSUME NEW q \in Procs, AskToken(q) PROVE ExitFits(p)
  BY <1>7 DEF AskToken
<1>8. ASSUME NEW q \in Procs, TokenEndpoint(q) PROVE ExitFits(p)
  BY <1>8 DEF TokenEndpoint, Deliver
<1>9. ASSUME NEW q \in Procs, TokenAnswer(q) PROVE ExitFits(p)
  BY <1>9 DEF TokenAnswer, Take, Deliver, RefreshErrorExits
<1>10. ASSUME NEW q \in Procs, TokenLost(q) PROVE ExitFits(p)
  BY <1>10 DEF TokenLost, RefreshErrorExits, Asking
<1>11. ASSUME NEW q \in Procs, PutRefreshed(q) PROVE ExitFits(p)
  BY <1>11 DEF PutRefreshed, command
<1>12. ASSUME NEW q \in Procs, Serve(q) PROVE ExitFits(p)
  BY <1>12 DEF Serve, Deliver
<1>13. ASSUME NEW q \in Procs, Reply(q) PROVE ExitFits(p)
  BY <1>13 DEF Reply, Deliver, StatusToExit
<1>14. ASSUME NEW q \in Procs, ReplyLost(q) PROVE ExitFits(p)
  BY <1>14 DEF ReplyLost
<1>15. ASSUME NEW q \in Procs, Revoke(q) PROVE ExitFits(p)
  BY <1>15 DEF Revoke, Deliver
<1>16. ASSUME NEW q \in Procs, DeleteRecord(q) PROVE ExitFits(p)
  BY <1>16 DEF DeleteRecord
<1>17. ASSUME NEW q \in Procs, Kill(q) \/ Refuse(q) PROVE ExitFits(p)
  BY <1>17 DEF Kill, Refuse
<1>18. CASE Tick \/ (\E g \in Grants : RejectTokens(g) \/ Withdraw(g)) \/ UNCHANGED vars
  BY <1>18 DEF Tick, RejectTokens, Withdraw, vars, command
<1>19. QED
  BY <1>1, <1>2, <1>3, <1>4, <1>5, <1>6, <1>7, <1>8, <1>9, <1>10, <1>11, <1>12, <1>13, <1>14, <1>15, <1>16, <1>17, <1>18
     DEF Next, Client, Waiting

\* Any number of processes, any failures: the exit code of `apl call` tells
\* whether the API has carried the request out, once at most, or has been asked at all.
THEOREM ExitsTellServed == Spec => ExitTellsServed
<1> DEFINE TellsOf(p) ==
             /\ served'[p] <= 1
             /\ Running(p, "call") /\ pc'[p] = "idle" =>
                   /\ exit'[p] = "auth" => served[p] = 0
                   /\ exit'[p] \in {"ok", "throttled", "server"} => served[p] = 1
                   /\ exit'[p] = "user" => served[p] = 1 \/ pc[p] = "get"
           Tells == \A p \in Procs : TellsOf(p)
<1>1. ASSUME SessionInv, SessionInv', [Next]_vars, NEW p \in Procs PROVE TellsOf(p)
  <2>1. served'[p] <= 1
    BY <1>1 DEF SessionInv, ServedOnce
  <2>2. pc[p] # "idle" => ExitFits(p)
    BY <1>1, ExitFitsStep
  <2>3. QED
    BY <2>1, <2>2 DEF Running, ExitFits
<1>2. SessionInv /\ SessionInv' /\ [Next]_vars => [Tells]_vars
  BY <1>1
<1> HIDE DEF Tells
<1>3. Spec => [][Tells]_vars
  BY <1>2, SessionInvInit, SessionInvStep, PTL DEF Spec
<1>4. QED
  BY <1>3 DEF ExitTellsServed, Tells
-----------------------------------------------------------------------------
(* The margins of 30 seconds: no record, in the store or in a process, and  *)
(* no answer under way promises more than its access token lives.           *)

LEMMA MarginsInit == Init => Margins
  BY Constants, SessionAssumption DEF Init, Margins, Sound, NoAnswer

LEMMA MarginsStep ==
  ASSUME TypeOK, TypeOK', Margins, [Next]_vars
  PROVE  Margins'
<1> USE Constants DEF TypeOK, CommandOK, Margins, Sound, Goto, Finish
<1>1. ASSUME NEW p \in Procs, NEW j \in Jobs, Start(p, j) PROVE Margins'
  BY <1>1 DEF Start
<1>2. ASSUME NEW p \in Procs, GetRecord(p) PROVE Margins'
  <2>1. job[p].handle \in Handles
    BY <1>2, BusyType DEF GetRecord
  <2>2. QED
    BY <1>2, <2>1 DEF GetRecord, Take, Deliver, command
<1>3. ASSUME NEW p \in Procs, Consent(p) PROVE Margins'
  <2>1. answer'[p].status = "token" => now + ExpiresIn <= answer'[p].at.until
    <3>1. CASE Deliver(p, [status |-> "error"])
      <4>1. answer'[p] = [status |-> "error"]
        BY <3>1 DEF Deliver
      <4>2. QED
        BY <4>1
    <3>2. ASSUME NEW g \in Grants,
                 Deliver(p, [status |-> "token", at |-> NewAccessToken(g, 0),
                             rt |-> [grant |-> g, gen |-> 0]])
          PROVE  now + ExpiresIn <= answer'[p].at.until
      <4>1. answer'[p].at = NewAccessToken(g, 0)
        BY <3>2 DEF Deliver
      <4>2. QED
        BY <4>1 DEF NewAccessToken
    <3>3. QED
      BY <1>3, <3>1, <3>2 DEF Consent
  <2>2. answer'[p].status = "token" => answer'[p].at.until \in Nat
    BY AnswersType DEF AccessTokens, Times
  <2>3. \A q \in Procs \ {p} : answer'[q] = answer[q]
    BY <1>3 DEF Consent, Deliver
  <2>4. /\ since' = [since EXCEPT ![p] = now] /\ pc' = [pc EXCEPT ![p] = "exchanged"]
        /\ UNCHANGED <<accounts, now, rec>>
    BY <1>3 DEF Consent
  <2>5. QED
    BY <2>1, <2>2, <2>3, <2>4
<1>4. ASSUME NEW p \in Procs, BuildRecord(p) PROVE Margins'
  <2>1. answer[p].status = "token" => answer[p].at.until \in Nat
    BY AnswersType DEF AccessTokens, Times
  <2>2. Sound(rec'[p])
    BY <1>4, <2>1 DEF BuildRecord, Take, InTime
  <2>3. QED
    BY <1>4, <2>2 DEF BuildRecord, Take, Deliver
<1>5. ASSUME NEW p \in Procs, StoreLogin(p) PROVE Margins'
  BY <1>5 DEF StoreLogin
<1>6. ASSUME NEW p \in Procs, KeepToken(p) PROVE Margins'
  BY <1>6 DEF KeepToken, command
<1>7. ASSUME NEW p \in Procs, AskToken(p) PROVE Margins'
  BY <1>7 DEF AskToken
<1>8. ASSUME NEW p \in Procs, TokenEndpoint(p) PROVE Margins'
  <2>1. answer'[p].status = "token" => now + ExpiresIn <= answer'[p].at.until
    BY <1>8 DEF TokenEndpoint, Deliver, NewAccessToken
  <2>2. since[p] + ExpiresIn <= now + ExpiresIn
    OBVIOUS
  <2>3. answer'[p].status = "token" => answer'[p].at.until \in Nat
    BY AnswersType DEF AccessTokens, Times
  <2>4. QED
    BY <1>8, <2>1, <2>2, <2>3 DEF TokenEndpoint, Deliver
<1>9. ASSUME NEW p \in Procs, TokenAnswer(p) PROVE Margins'
  <2>1. answer[p].status = "token" => answer[p].at.until \in Nat
    BY AnswersType DEF AccessTokens, Times
  <2>2. Sound(rec'[p])
    BY <1>9, <2>1 DEF TokenAnswer, Take
  <2>3. QED
    BY <1>9, <2>2 DEF TokenAnswer, Take, Deliver
<1>10. ASSUME NEW p \in Procs, TokenLost(p) PROVE Margins'
  BY <1>10 DEF TokenLost
<1>11. ASSUME NEW p \in Procs, PutRefreshed(p) PROVE Margins'
  BY <1>11 DEF PutRefreshed, command
<1>12. ASSUME NEW p \in Procs, Serve(p) PROVE Margins'
  BY <1>12 DEF Serve, Deliver
<1>13. ASSUME NEW p \in Procs, Reply(p) PROVE Margins'
  BY <1>13 DEF Reply, Deliver
<1>14. ASSUME NEW p \in Procs, ReplyLost(p) PROVE Margins'
  BY <1>14 DEF ReplyLost
<1>15. ASSUME NEW p \in Procs, Revoke(p) PROVE Margins'
  BY <1>15 DEF Revoke, Deliver
<1>16. ASSUME NEW p \in Procs, DeleteRecord(p) PROVE Margins'
  BY <1>16 DEF DeleteRecord
<1>17. ASSUME NEW p \in Procs, Kill(p) \/ Refuse(p) PROVE Margins'
  BY <1>17 DEF Kill, Refuse
<1>18. CASE Tick \/ (\E g \in Grants : RejectTokens(g) \/ Withdraw(g)) \/ UNCHANGED vars
  BY <1>18 DEF Tick, RejectTokens, Withdraw, vars, command
<1>19. QED
  BY <1>1, <1>2, <1>3, <1>4, <1>5, <1>6, <1>7, <1>8, <1>9, <1>10, <1>11, <1>12, <1>13, <1>14, <1>15, <1>16, <1>17, <1>18
     DEF Next, Client, Waiting

MarginInv == SessionInv /\ Margins

LEMMA MarginInvInit == Init => MarginInv
  BY SessionInvInit, MarginsInit DEF MarginInv

LEMMA MarginInvStep == MarginInv /\ [Next]_vars => MarginInv'
  BY SessionInvStep, MarginsStep DEF MarginInv, SessionInv

LEMMA RefreshSteps ==
  ASSUME TypeOK, Next, NEW p \in Procs, pc[p] = "refresh", pc'[p] # "refresh"
  PROVE  KeepToken(p) \/ AskToken(p) \/ Kill(p)
<1> USE DEF TypeOK, CommandOK, Goto, Finish, Take
<1>1. ASSUME NEW q \in Procs,
             \/ \E j \in Jobs : Start(q, j)
             \/ Refuse(q) \/ GetRecord(q) \/ Consent(q) \/ BuildRecord(q) \/ StoreLogin(q)
      PROVE  FALSE
  BY <1>1 DEF Start, Refuse, GetRecord, Consent, BuildRecord, StoreLogin
<1>2. ASSUME NEW q \in Procs,
             \/ TokenEndpoint(q) \/ TokenAnswer(q) \/ TokenLost(q) \/ PutRefreshed(q)
      PROVE  FALSE
  BY <1>2 DEF TokenEndpoint, TokenAnswer, TokenLost, Asking, PutRefreshed
<1>3. ASSUME NEW q \in Procs,
             Serve(q) \/ Reply(q) \/ ReplyLost(q) \/ Revoke(q) \/ DeleteRecord(q)
      PROVE  FALSE
  BY <1>3 DEF Serve, Reply, ReplyLost, Revoke, DeleteRecord
<1>4. ASSUME NEW q \in Procs, KeepToken(q) \/ AskToken(q) \/ Kill(q)
      PROVE  KeepToken(p) \/ AskToken(p) \/ Kill(p)
  BY <1>4 DEF KeepToken, AskToken, Kill
<1>5. ~ Tick /\ \A g \in Grants : ~ RejectTokens(g) /\ ~ Withdraw(g)
  BY DEF Tick, RejectTokens, Withdraw
<1>6. QED
  BY <1>1, <1>2, <1>3, <1>4, <1>5 DEF Next, Client, Waiting

\* Any number of processes, any failures: a token that Refresh keeps instead of
\* asking for another lives for more than 30 seconds.
THEOREM KeptTokensLive == Spec => KeptTokenLives
<1> DEFINE KeptLives ==
      \A p \in Procs :
          pc[p] = "refresh" /\ pc'[p] \in {"idle", "put"} /\ exit'[p] # "killed"
             => rec[p].at.until - now > 1
<1>1. MarginInv /\ [Next]_vars => [KeptLives]_vars
  <2> SUFFICES ASSUME MarginInv, Next, NEW p \in Procs, pc[p] = "refresh",
                      pc'[p] \in {"idle", "put"}, exit'[p] # "killed"
               PROVE  rec[p].at.until - now > 1
    OBVIOUS
  <2> USE DEF MarginInv, SessionInv, TypeOK
  <2>1. CommandOK /\ now \in Nat
    BY Constants
  <2>2. KeepToken(p) \/ AskToken(p) \/ Kill(p)
    BY RefreshSteps
  <2>3. ~ AskToken(p) /\ ~ Kill(p)
    BY <2>1 DEF AskToken, Kill, Goto, Finish, CommandOK
  <2>4. Fresh(rec[p])
    BY <2>2, <2>3 DEF KeepToken
  <2>5. rec[p] \in TokenRecords
    BY <2>1 DEF CommandOK
  <2>6. rec[p].expires \in Nat /\ rec[p].at.until \in Nat
    BY <2>5, RecordsType
  <2>7. rec[p].expires <= rec[p].at.until
    BY <2>5, RecordsType DEF Margins, Sound
  <2>8. QED
    BY <2>1, <2>4, <2>6, <2>7 DEF Fresh
<1> HIDE DEF KeptLives
<1>2. Spec => [][KeptLives]_vars
  BY <1>1, MarginInvInit, MarginInvStep, PTL DEF Spec
<1>3. QED
  BY <1>2 DEF KeptTokenLives, KeptLives

-----------------------------------------------------------------------------
(* The good token of each account: which consents belong to whom, and where *)
(* the good token is while a command works on the account.                  *)

\* What a step may do to the consents, in the projections the invariants use.
Ages(g) ==
    /\ grant'[g].of = grant[g].of
    /\ grant'[g].gen = grant[g].gen
    /\ grant'[g].state \in {grant[g].state, "revoked"}

LEMMA GrantsAge ==
  ASSUME TypeOK,
         \/ \E p \in Procs : Revoke(p)
         \/ \E g \in Grants : RejectTokens(g) \/ Withdraw(g)
  PROVE  \A g \in Grants : Ages(g)
<1> USE DEF TypeOK, GrantStates, Ages
<1>1. ASSUME NEW p \in Procs, Revoke(p) PROVE \A g \in Grants : Ages(g)
  BY <1>1 DEF Revoke
<1>2. ASSUME NEW h \in Grants, RejectTokens(h) PROVE \A g \in Grants : Ages(g)
  BY <1>2 DEF RejectTokens
<1>3. ASSUME NEW h \in Grants, Withdraw(h) PROVE \A g \in Grants : Ages(g)
  BY <1>3 DEF Withdraw
<1>4. QED
  BY <1>1, <1>2, <1>3

LEMMA EndpointRenews ==
  ASSUME TypeOK, NEW p \in Procs, TokenEndpoint(p)
  PROVE  \A g \in Grants :
            /\ grant'[g].of = grant[g].of
            /\ grant'[g].state = grant[g].state
            /\ g # rec[p].rt.grant \/ grant[g].state # "live"
                  => grant'[g].gen = grant[g].gen
  BY DEF TypeOK, GrantStates, TokenEndpoint, Honoured

LEMMA ConsentGrants ==
  ASSUME TypeOK, NEW p \in Procs, Consent(p)
  PROVE  \/ /\ answer' = [answer EXCEPT ![p] = [status |-> "error"]]
            /\ grant' = grant
         \/ \E g \in Grants :
               /\ grant[g].state = "unused"
               /\ answer'[p].status = "token" /\ answer'[p].rt = [grant |-> g, gen |-> 0]
               /\ \A q \in Procs \ {p} : answer'[q] = answer[q]
               /\ grant'[g].state = "live" /\ grant'[g].of = job[p].handle
               /\ grant'[g].gen = grant[g].gen
               /\ \A h \in Grants \ {g} : grant'[h] = grant[h]
<1> USE DEF TypeOK, CommandOK
<1>1. CASE Deliver(p, [status |-> "error"]) /\ UNCHANGED grant
  BY <1>1 DEF Deliver
<1>2. ASSUME NEW g \in Grants, grant[g].state = "unused",
             grant' = [grant EXCEPT ![g].state = "live", ![g].of = job[p].handle],
             Deliver(p, [status |-> "token", at |-> NewAccessToken(g, 0),
                         rt |-> [grant |-> g, gen |-> 0]])
      PROVE  /\ answer'[p].status = "token" /\ answer'[p].rt = [grant |-> g, gen |-> 0]
             /\ \A q \in Procs \ {p} : answer'[q] = answer[q]
             /\ grant'[g].state = "live" /\ grant'[g].of = job[p].handle
             /\ grant'[g].gen = grant[g].gen
             /\ \A h \in Grants \ {g} : grant'[h] = grant[h]
  <2> DEFINE live == [grant EXCEPT ![g].state = "live"]
  <2>1. /\ live \in [Grants -> GrantStates] /\ live[g].state = "live"
        /\ live[g].gen = grant[g].gen
        /\ \A h \in Grants \ {g} : live[h] = grant[h]
    BY DEF GrantStates
  <2>2. grant' = [live EXCEPT ![g].of = job[p].handle]
    BY <1>2
  <2> HIDE DEF live
  <2>3. /\ grant'[g].state = "live" /\ grant'[g].of = job[p].handle
        /\ grant'[g].gen = grant[g].gen
        /\ \A h \in Grants \ {g} : grant'[h] = grant[h]
    BY <2>1, <2>2 DEF GrantStates
  <2>4. answer'[p] = [status |-> "token", at |-> NewAccessToken(g, 0),
                      rt |-> [grant |-> g, gen |-> 0]]
    BY <1>2 DEF Deliver
  <2>5. \A q \in Procs \ {p} : answer'[q] = answer[q]
    BY <1>2 DEF Deliver
  <2>6. QED
    BY <2>3, <2>4, <2>5
<1>3. QED
  BY <1>1, <1>2 DEF Consent

LEMMA OwnedInit == Init => Owned
  BY DEF Init, Owned, OwnTokensOnly, NoAnswer

LEMMA OwnedStep ==
  ASSUME TypeOK, Owned, [Next]_vars
  PROVE  Owned'
<1> USE DEF TypeOK, CommandOK, Owned, OwnTokensOnly, Goto, Finish, NoAnswer
<1>1. ASSUME NEW p \in Procs, NEW j \in Jobs, Start(p, j) PROVE Owned'
  BY <1>1 DEF Start
<1>2. ASSUME NEW p \in Procs, GetRecord(p) PROVE Owned'
  <2>1. job[p].handle \in Handles
    BY <1>2, BusyType DEF GetRecord
  <2>2. QED
    BY <1>2, <2>1 DEF GetRecord, Take, Deliver, command
<1>3. ASSUME NEW p \in Procs, Consent(p) PROVE Owned'
  <2>1. /\ UNCHANGED <<accounts, rec, job>> /\ pc' = [pc EXCEPT ![p] = "exchanged"]
        /\ job[p].handle \in Handles
    BY <1>3, BusyType DEF Consent
  <2>2. CASE answer' = [answer EXCEPT ![p] = [status |-> "error"]] /\ grant' = grant
    BY <2>1, <2>2
  <2>3. ASSUME NEW g \in Grants,
               grant[g].state = "unused",
               answer'[p].status = "token", answer'[p].rt = [grant |-> g, gen |-> 0],
               \A q \in Procs \ {p} : answer'[q] = answer[q],
               grant'[g].state = "live", grant'[g].of = job[p].handle,
               \A h \in Grants \ {g} : grant'[h] = grant[h]
        PROVE  Owned'
    <3>1. /\ \A h \in Handles : accounts[h] # NoRecord => accounts[h].rt.grant # g
          /\ \A q \in Procs : rec[q] # NoRecord /\ job[q] # NoJob => rec[q].rt.grant # g
          /\ \A q \in Procs : answer[q].status = "token" /\ job[q] # NoJob
                => answer[q].rt.grant # g
      BY <2>3, NoRecordAssumption, JobsType
    <3>2. \A h \in Handles : accounts'[h] # NoRecord
              => grant'[accounts'[h].rt.grant].of = h
      BY <2>1, <2>3, <3>1, GrantsOf
    <3>3. \A q \in Procs : rec'[q] # NoRecord
              => grant'[rec'[q].rt.grant].of = job'[q].handle
      BY <2>1, <2>3, <3>1, GrantsOf
    <3>4. \A q \in Procs : answer'[q].status = "token"
              => grant'[answer'[q].rt.grant].of = job'[q].handle
      BY <2>1, <2>3, <3>1, GrantsOf
    <3>5. QED
      BY <2>1, <2>3, <3>2, <3>3, <3>4
  <2>4. QED
    BY <1>3, <2>2, <2>3, ConsentGrants
<1>4. ASSUME NEW p \in Procs, BuildRecord(p) PROVE Owned'
  BY <1>4 DEF BuildRecord, Take, Deliver
<1>5. ASSUME NEW p \in Procs, StoreLogin(p) PROVE Owned'
  BY <1>5 DEF StoreLogin
<1>6. ASSUME NEW p \in Procs, KeepToken(p) PROVE Owned'
  BY <1>6 DEF KeepToken, command
<1>7. ASSUME NEW p \in Procs, AskToken(p) PROVE Owned'
  BY <1>7 DEF AskToken
<1>8. ASSUME NEW p \in Procs, TokenEndpoint(p) PROVE Owned'
  <2>1. /\ UNCHANGED <<accounts, rec, job>> /\ pc' = [pc EXCEPT ![p] = "tokened"]
        /\ rec[p] # NoRecord
        /\ \A q \in Procs \ {p} : answer'[q] = answer[q]
    BY <1>8 DEF TokenEndpoint, Deliver
  <2>2. answer'[p].status = "token" => answer'[p].rt.grant = rec[p].rt.grant
    BY <1>8, <2>1, RecordsType DEF TokenEndpoint, Deliver, RefreshTokens
  <2>3. QED
    <3>1. \A g \in Grants : /\ grant'[g].of = grant[g].of
                            /\ grant'[g].state = grant[g].state
                            /\ grant[g].state = "unused" => grant'[g].gen = grant[g].gen
      BY <1>8, EndpointRenews
    <3>2. \A h \in Handles : accounts'[h] # NoRecord
              => grant'[accounts'[h].rt.grant].of = h
      BY <2>1, <3>1, GrantsOf
    <3>3. \A q \in Procs : rec'[q] # NoRecord
              => grant'[rec'[q].rt.grant].of = job'[q].handle
      BY <2>1, <3>1, GrantsOf
    <3>4. \A q \in Procs : answer'[q].status = "token"
              => grant'[answer'[q].rt.grant].of = job'[q].handle
      BY <2>1, <2>2, <3>1, GrantsOf
    <3>5. QED
      BY <2>1, <3>1, <3>2, <3>3, <3>4
<1>9. ASSUME NEW p \in Procs, TokenAnswer(p) PROVE Owned'
  BY <1>9 DEF TokenAnswer, Take, Deliver
<1>10. ASSUME NEW p \in Procs, TokenLost(p) PROVE Owned'
  BY <1>10 DEF TokenLost
<1>11. ASSUME NEW p \in Procs, PutRefreshed(p) PROVE Owned'
  BY <1>11 DEF PutRefreshed, command
<1>12. ASSUME NEW p \in Procs, Serve(p) PROVE Owned'
  BY <1>12 DEF Serve, Deliver
<1>13. ASSUME NEW p \in Procs, Reply(p) PROVE Owned'
  BY <1>13 DEF Reply, Deliver
<1>14. ASSUME NEW p \in Procs, ReplyLost(p) PROVE Owned'
  BY <1>14 DEF ReplyLost
<1>15. ASSUME NEW p \in Procs, Revoke(p) PROVE Owned'
  <2>1. \A g \in Grants : Ages(g)
    BY <1>15, GrantsAge
  <2>2. /\ UNCHANGED <<accounts, rec, job>>
        /\ pc' = [pc EXCEPT ![p] = "delete"] /\ pc[p] # "idle"
        /\ \A q \in Procs : answer'[q] = answer[q] \/ answer'[q].status # "token"
    BY <1>15 DEF Revoke, Deliver
  <2>3. QED
    BY <2>1, <2>2, GrantsOf DEF Ages
<1>16. ASSUME NEW p \in Procs, DeleteRecord(p) PROVE Owned'
  BY <1>16 DEF DeleteRecord
<1>17. ASSUME NEW p \in Procs, Kill(p) \/ Refuse(p) PROVE Owned'
  BY <1>17 DEF Kill, Refuse
<1>18. CASE Tick \/ UNCHANGED vars
  BY <1>18 DEF Tick, vars, command
<1>19. ASSUME NEW g \in Grants, RejectTokens(g) \/ Withdraw(g) PROVE Owned'
  <2>1. \A h \in Grants : Ages(h)
    BY <1>19, GrantsAge
  <2>2. UNCHANGED <<accounts, rec, job, answer, pc>>
    BY <1>19 DEF RejectTokens, Withdraw, command
  <2>3. QED
    BY <2>1, <2>2, GrantsOf DEF Ages
<1>20. QED
  BY <1>1, <1>2, <1>3, <1>4, <1>5, <1>6, <1>7, <1>8, <1>9, <1>10, <1>11, <1>12, <1>13, <1>14, <1>15, <1>16, <1>17, <1>18, <1>19
     DEF Next, Client, Waiting

\* In every reachable state, for any processes and all failures, the tokens stored
\* for an account come from a sign-in to that account: however the commands overlap, no
\* record ends up under another handle (login.go:66, call.go:185).
THEOREM TokensOwned == Spec => []OwnTokensOnly
<1> DEFINE Inv == SessionInv /\ Owned
<1>1. Init => Inv
  BY SessionInvInit, OwnedInit
<1>2. Inv /\ [Next]_vars => Inv'
  BY SessionInvStep, OwnedStep DEF SessionInv
<1>3. Inv => OwnTokensOnly
  BY DEF Owned
<1> HIDE DEF Inv
<1>4. QED
  BY <1>1, <1>2, <1>3, PTL DEF Spec

\* StoredTokenHonoured for one account.
StoredFor(h) ==
    accounts[h] # NoRecord =>
       \/ Good(accounts[h].rt)
       \/ \E p \in Procs : pc[p] \in {"tokened", "put"} /\ job[p].handle = h

LEMMA StoredIs ==
  /\ StoredTokenHonoured <=> \A h \in Handles : StoredFor(h)
  /\ StoredTokenHonoured' <=> \A h \in Handles : StoredFor(h)'
  BY DEF StoredTokenHonoured, StoredFor, Good

HandInv == SessionInv /\ Owned /\ InHand /\ StoredTokenHonoured

LEMMA HandInvInit == Init => HandInv
  BY SessionInvInit, OwnedInit
     DEF HandInv, Init, InHand, InHandOf, Working, StoredTokenHonoured

\* Consents that only age leave good tokens good.
LEMMA GoodAges ==
  ASSUME \A g \in Grants : Ages(g), UNCHANGED lost
  PROVE  \A rt : rt.grant \in Grants /\ Good(rt) => Good(rt)'
  BY DEF Ages, Good, Honoured

\* So does the loss of others.
LEMMA GoodStays ==
  ASSUME UNCHANGED grant, lost \subseteq lost'
  PROVE  \A rt : Good(rt) => Good(rt)'
  BY DEF Good, Honoured

\* What goes is accounted for: the token in the store stays good in the sense of Good.
LEMMA LossIsKnown ==
  ASSUME TypeOK, Owned, NEW p \in Procs, Lose(p), UNCHANGED <<accounts, grant>>,
         NEW rt \in InHands(p), rt \in RefreshTokens, Good(rt),
         NEW h \in Handles, accounts[h] # NoRecord,
         rt.grant = accounts[h].rt.grant, grant[rt.grant].of = h
  PROVE  Good(accounts[h].rt)'
<1>1. CASE ~ Stored(rt)
  <2>1. rt.grant \in lost'
    BY <1>1 DEF Lose
  <2> QED
    BY <2>1 DEF Good
<1>2. CASE Stored(rt)
  <2>1. PICK k \in Handles : accounts[k] # NoRecord /\ accounts[k].rt = rt
    BY <1>2 DEF Stored
  <2>2. k = h
    BY <2>1 DEF Owned, OwnTokensOnly
  <2>3. accounts'[h].rt = rt
    BY <2>1, <2>2
  <2>4. Good(rt)'
    BY GoodStays DEF Lose
  <2> QED
    BY <2>3, <2>4
<1> QED
  BY <1>1, <1>2

ProcStep(p) ==
    \/ \E j \in Jobs : Start(p, j)
    \/ Client(p) \/ Waiting(p) \/ TokenEndpoint(p) \/ Serve(p) \/ Kill(p)

\* A command touches the record and the consent of its own account only, and those only
\* while it holds a record.
Local(p) ==
    /\ \A q \in Procs \ {p} :
          /\ pc'[q] = pc[q] /\ job'[q] = job[q]
          /\ rec'[q] = rec[q] /\ answer'[q] = answer[q]
    /\ \A h \in Handles :
          accounts'[h] = accounts[h] \/ (Holding(p) /\ h = job[p].handle)
    /\ \A g \in Grants :
          \/ grant'[g] = grant[g]
          \/ grant[g].state = "unused"
          \/ Holding(p) /\ grant[g].of = job[p].handle
    /\ \A g \in Grants :
          (g \in lost' <=> g \in lost) \/ (Holding(p) /\ grant[g].of = job[p].handle)

LEMMA LoseIsLocal ==
  ASSUME TypeOK, Owned, NEW p \in Procs, Lose(p)
  PROVE  \A g \in Grants :
            (g \in lost' <=> g \in lost) \/ (Holding(p) /\ grant[g].of = job[p].handle)
<1>1. \A rt \in InHands(p) : Holding(p) /\ grant[rt.grant].of = job[p].handle
  <2>1. pc[p] \in {"put", "store"} => rec[p] # NoRecord
    BY DEF TypeOK, CommandOK
  <2> QED
    BY <2>1 DEF InHands, Holding, Owned
<1> QED
  BY <1>1 DEF Lose

LEMMA StepIsLocal ==
  ASSUME SessionInv, Owned, NEW p \in Procs, ProcStep(p)
  PROVE  Local(p)
<1> USE DEF SessionInv, TypeOK, CommandOK, Goto, Finish, Local, Holding
<1>1. ASSUME NEW j \in Jobs, Start(p, j) PROVE Local(p)
  BY <1>1 DEF Start
<1>2. CASE GetRecord(p) \/ Refuse(p)
  BY <1>2 DEF GetRecord, Refuse, Take, Deliver, command
<1>3. CASE Consent(p)
  BY <1>3, ConsentGrants DEF Consent
<1>4. CASE BuildRecord(p) \/ KeepToken(p) \/ AskToken(p) \/ TokenAnswer(p)
  BY <1>4 DEF BuildRecord, KeepToken, AskToken, TokenAnswer, Take, Deliver, command
<1>5. CASE StoreLogin(p) \/ PutRefreshed(p) \/ DeleteRecord(p)
  <2>1. /\ Lose(p) \/ UNCHANGED lost
        /\ UNCHANGED grant
        /\ \A h \in Handles : accounts'[h] = accounts[h] \/ (Holding(p) /\ h = job[p].handle)
    BY <1>5 DEF StoreLogin, PutRefreshed, DeleteRecord
  <2>2. \A q \in Procs \ {p} :
           /\ pc'[q] = pc[q] /\ job'[q] = job[q]
           /\ rec'[q] = rec[q] /\ answer'[q] = answer[q]
    BY <1>5 DEF StoreLogin, PutRefreshed, DeleteRecord, command
  <2> QED
    BY <2>1, <2>2, LoseIsLocal
<1>6. CASE TokenEndpoint(p)
  <2>1. rec[p] # NoRecord /\ pc[p] = "token"
    BY <1>6 DEF TokenEndpoint
  <2>2. grant[rec[p].rt.grant].of = job[p].handle
    BY <2>1 DEF Owned
  <2>3. \A g \in Grants : \/ grant'[g] = grant[g] /\ (g \in lost' <=> g \in lost)
                          \/ g = rec[p].rt.grant
    BY <1>6 DEF TokenEndpoint
  <2>4. QED
    BY <1>6, <2>1, <2>2, <2>3 DEF TokenEndpoint, Deliver
<1>7. CASE Serve(p) \/ Reply(p) \/ ReplyLost(p)
  BY <1>7 DEF Serve, Reply, ReplyLost, Deliver
<1>8. CASE Revoke(p)
  <2>1. rec[p] # NoRecord /\ pc[p] = "revoke"
    BY <1>8 DEF Revoke
  <2>2. grant[rec[p].rt.grant].of = job[p].handle
    BY <2>1 DEF Owned
  <2>3. \A g \in Grants : grant'[g] = grant[g] \/ g = rec[p].rt.grant
    BY <1>8 DEF Revoke
  <2>4. QED
    BY <1>8, <2>1, <2>2, <2>3 DEF Revoke, Deliver
<1>9. CASE TokenLost(p) \/ Kill(p)
  BY <1>9, LoseIsLocal DEF TokenLost, Kill
<1>10. QED
  BY <1>1, <1>2, <1>3, <1>4, <1>5, <1>6, <1>7, <1>8, <1>9 DEF ProcStep, Client, Waiting

\* What the step of another command leaves as it was.
LEMMA OthersKeep ==
  ASSUME HandInv, HandsApart, NEW p \in Procs, Local(p)
  PROVE  /\ \A q \in Procs \ {p} : InHandOf(q)'
         /\ \A h \in Handles : ~ (Holding(p) /\ h = job[p].handle) => StoredFor(h)'
<1> USE DEF HandInv, SessionInv, TypeOK
<1>0. CommandOK
  OBVIOUS
<1>a. ASSUME NEW h \in Handles, ~ (Holding(p) /\ h = job[p].handle)
      PROVE  \A rt : rt.grant \in Grants /\ grant[rt.grant].of = h =>
                /\ grant'[rt.grant] = grant[rt.grant]
                /\ Good(rt) => Good(rt)'
  <2> SUFFICES ASSUME NEW rt, rt.grant \in Grants, grant[rt.grant].of = h
               PROVE  grant'[rt.grant] = grant[rt.grant] /\ (Good(rt) => Good(rt)')
    OBVIOUS
  <2>1. grant'[rt.grant] = grant[rt.grant] /\ (rt.grant \in lost' <=> rt.grant \in lost)
    BY <1>a, NoRecordAssumption DEF Local, Owned
  <2> QED
    BY <2>1 DEF Good, Honoured
<1>1. ASSUME NEW q \in Procs \ {p} PROVE InHandOf(q)'
  <2>1. CASE ~ Holding(q)
    BY <2>1 DEF Local, InHandOf, Holding, Working
  <2>2. CASE Holding(q)
    <3> DEFINE h == job[q].handle
    <3>1. h \in Handles
      BY <1>0, <2>2, BusyType DEF Holding
    <3>2. ~ (Holding(p) /\ h = job[p].handle)
      BY <2>2 DEF HandsApart
    <3>3. accounts'[h] = accounts[h]
      BY <3>1, <3>2 DEF Local
    <3>4. /\ rec[q] # NoRecord => rec[q].rt.grant \in Grants
                                  /\ grant[rec[q].rt.grant].of = h
          /\ answer[q].status = "token" => answer[q].rt.grant \in Grants
                                           /\ grant[answer[q].rt.grant].of = h
          /\ accounts[h] # NoRecord => accounts[h].rt.grant \in Grants
                                       /\ grant[accounts[h].rt.grant].of = h
      BY <3>1, GrantsOf DEF Owned, OwnTokensOnly
    <3>5. /\ pc'[q] = pc[q] /\ job'[q] = job[q]
          /\ rec'[q] = rec[q] /\ answer'[q] = answer[q]
      BY DEF Local
    <3>6. rec[q] # NoRecord =>
             /\ grant'[rec[q].rt.grant] = grant[rec[q].rt.grant]
             /\ Good(rec[q].rt) => Good(rec[q].rt)'
      BY <1>a, <3>1, <3>2, <3>4, <3>5
    <3>7. answer[q].status = "token" => (Good(answer[q].rt) => Good(answer[q].rt)')
      BY <1>a, <3>1, <3>2, <3>4, <3>5
    <3>8. accounts[h] # NoRecord /\ Good(accounts[h].rt)
             => Good(accounts[job[q].handle].rt)'
      <4>1. (accounts[job[q].handle])' = accounts[h]
        BY <3>3, <3>5
      <4> SUFFICES ASSUME accounts[h] # NoRecord, Good(accounts[h].rt)
                   PROVE  Good(accounts[job[q].handle].rt)'
        OBVIOUS
      <4>2. \A t : t = accounts[h].rt => Good(t)'
        BY <1>a, <3>1, <3>2, <3>4
      <4> QED
        BY <4>1, <4>2 DEF Good, Honoured
    <3>9. pc[q] \notin {"idle", "get", "consent", "exchanged"} => rec[q] # NoRecord
      BY <1>0 DEF CommandOK
    <3>10. InHandOf(q)
      BY DEF InHand
    <3>11. QED
      BY <3>3, <3>5, <3>6, <3>7, <3>8, <3>9, <3>10 DEF InHandOf, Working
  <2>3. QED
    BY <2>1, <2>2
<1>2. ASSUME NEW h \in Handles, ~ (Holding(p) /\ h = job[p].handle) PROVE StoredFor(h)'
  <2>1. accounts'[h] = accounts[h]
    BY <1>2 DEF Local
  <2>2. SUFFICES ASSUME accounts[h] # NoRecord PROVE StoredFor(h)'
    BY <2>1 DEF StoredFor
  <2>3. accounts[h].rt.grant \in Grants /\ grant[accounts[h].rt.grant].of = h
    BY <2>2, GrantsOf DEF Owned, OwnTokensOnly
  <2>5. StoredFor(h)
    BY StoredIs
  <2>6. CASE Good(accounts[h].rt)
    BY <1>a, <1>2, <2>1, <2>3, <2>6 DEF StoredFor
  <2>7. ASSUME NEW q \in Procs, pc[q] \in {"tokened", "put"}, job[q].handle = h
        PROVE  StoredFor(h)'
    <3>1. q # p
      BY <1>2, <2>7 DEF Holding
    <3>2. pc'[q] = pc[q] /\ job'[q] = job[q]
      BY <3>1 DEF Local
    <3>3. QED
      BY <2>7, <3>2 DEF StoredFor
  <2>8. QED
    BY <2>2, <2>5, <2>6, <2>7 DEF StoredFor
<1>3. QED
  BY <1>1, <1>2

\* What a command does to the token of its own account.
LEMMA OwnStep ==
  ASSUME HandsApart, HandsApart', HandInv, NEW p \in Procs, ProcStep(p)
  PROVE  /\ InHandOf(p)'
         /\ \A h \in Handles : Holding(p) /\ h = job[p].handle => StoredFor(h)'
<1> DEFINE Own(h) == Holding(p) /\ h = job[p].handle => StoredFor(h)'
           Kept == InHandOf(p)' /\ \A h \in Handles : Own(h)
<1> SUFFICES Kept
  OBVIOUS
<1> USE DEF HandInv, SessionInv, TypeOK, CommandOK, KindAt, Goto, Finish, InHandOf, StoredFor,
            Holding, Working, NoAnswer
<1>0. /\ InHandOf(p)
      /\ pc[p] # "idle" => job[p].handle \in Handles
      /\ \A rt : UNCHANGED grant /\ lost \subseteq lost' /\ Good(rt) => Good(rt)'
  BY BusyType, GoodStays DEF InHand
<1>a. ASSUME NEW h \in Handles, Holding(p), h = job[p].handle, accounts[h] # NoRecord
      PROVE  /\ Good(accounts[h].rt) \/ pc[p] \in {"tokened", "put"}
             /\ accounts[h].rt.grant \in Grants
  <2>1. StoredFor(h)
    BY StoredIs
  <2>2. \A q \in Procs : pc[q] \in {"tokened", "put"} /\ job[q].handle = h => q = p
    BY <1>a DEF HandsApart
  <2>3. QED
    BY <1>a, <2>1, <2>2, GrantsOf
<1>b. ASSUME UNCHANGED <<accounts, grant>>, lost \subseteq lost',
             pc[p] \notin {"tokened", "put"}
      PROVE  \A h \in Handles : Own(h)
  <2> SUFFICES ASSUME NEW h \in Handles, Holding(p), h = job[p].handle, accounts[h] # NoRecord
               PROVE  Good(accounts[h].rt)'
    BY <1>b
  <2>1. Good(accounts[h].rt)
    BY <1>a, <1>b
  <2> QED
    BY <1>0, <1>b, <2>1
<1>c. ASSUME UNCHANGED <<accounts, grant>>, Lose(p), pc[p] \in {"tokened", "put"}
      PROVE  \A h \in Handles : Own(h)
  <2> SUFFICES ASSUME NEW h \in Handles, h = job[p].handle, accounts[h] # NoRecord
               PROVE  Good(accounts[h].rt)'
    BY <1>c
  <2>1. lost \subseteq lost' /\ accounts' = accounts
    BY <1>c DEF Lose
  <2>2. rec[p] \in TokenRecords /\ answer[p] \in Answers
    BY <1>c
  <2>3. CASE pc[p] = "tokened" /\ answer[p].status = "token"
    <3>1. /\ answer[p].rt \in InHands(p) /\ answer[p].rt \in RefreshTokens
          /\ Good(answer[p].rt) /\ answer[p].rt.grant = accounts[h].rt.grant
          /\ grant[answer[p].rt.grant].of = h
      BY <1>0, <2>2, <2>3, AnswersType DEF InHands, Owned
    <3> QED
      BY <1>c, <3>1, LossIsKnown
  <2>4. CASE pc[p] = "tokened" /\ answer[p].status # "token"
    <3>1. Good(accounts[h].rt)
      BY <1>0, <2>4
    <3> QED
      BY <1>0, <1>c, <2>1, <3>1
  <2>5. CASE pc[p] = "put"
    <3>1. /\ rec[p].rt \in InHands(p) /\ rec[p].rt \in RefreshTokens
          /\ Good(rec[p].rt) /\ rec[p].rt.grant = accounts[h].rt.grant
          /\ grant[rec[p].rt.grant].of = h
      BY <1>0, <2>2, <2>5, RecordsType DEF InHands, Owned
    <3> QED
      BY <1>c, <3>1, LossIsKnown
  <2> QED
    BY <1>c, <2>3, <2>4, <2>5
<1>1. ASSUME NEW j \in Jobs, Start(p, j) PROVE Kept
  BY <1>1 DEF Start
<1>2. CASE GetRecord(p)
  <2>1. /\ pc[p] = "get" /\ UNCHANGED <<accounts, grant, lost>>
        /\ job[p].handle \in Handles
    BY <1>0, <1>2 DEF GetRecord
  <2>2. CASE \E label \in {"revoke", "refresh"} :
                /\ accounts[job[p].handle] # NoRecord
                /\ Take(p, label, accounts[job[p].handle])
    <3>1. /\ pc'[p] \in {"revoke", "refresh"} /\ job' = job
          /\ rec'[p] = accounts[job[p].handle]
          /\ \A q \in Procs \ {p} : pc'[q] = pc[q]
      BY <2>2 DEF Take
    <3>2. \A q \in Procs \ {p} : Holding(q) => job[q].handle # job[p].handle
      <4> SUFFICES ASSUME NEW q \in Procs \ {p}, Holding(q), job[q].handle = job[p].handle
                   PROVE  FALSE
        OBVIOUS
      <4>1. Holding(p)' /\ Holding(q)' /\ job'[q].handle = job'[p].handle
        BY <3>1
      <4> QED
        BY <4>1 DEF HandsApart
    <3>3. Good(accounts[job[p].handle].rt)
      <4>1. StoredFor(job[p].handle)
        BY <2>1, StoredIs
      <4> QED
        BY <2>1, <2>2, <3>2, <4>1
    <3>4. Good(rec[p].rt)'
      BY <1>0, <2>1, <3>1, <3>3
    <3> QED
      BY <2>1, <2>2, <3>1, <3>4
  <2>3. CASE pc'[p] \in {"idle", "consent"}
    BY <2>1, <2>3
  <2> QED
    BY <1>2, <2>2, <2>3 DEF GetRecord
<1>3. CASE Consent(p)
  <2>1. /\ pc' = [pc EXCEPT ![p] = "exchanged"]
        /\ pc[p] = "consent"
    BY <1>3 DEF Consent
  <2>2. CASE answer' = [answer EXCEPT ![p] = [status |-> "error"]] /\ grant' = grant
    BY <2>1, <2>2
  <2>3. ASSUME NEW g \in Grants,
               grant[g].state = "unused",
               answer'[p].status = "token", answer'[p].rt = [grant |-> g, gen |-> 0],
               grant'[g].gen = grant[g].gen
        PROVE  Kept
    <3>1. grant[g].gen = 0
      BY <2>3 DEF Owned
    <3>2. Good(answer[p].rt)'
      BY <2>3, <3>1 DEF Good, Honoured
    <3>3. QED
      BY <2>1, <2>3, <3>2
  <2>4. QED
    BY <1>3, <2>2, <2>3, ConsentGrants
<1>4. CASE BuildRecord(p)
  <2>1. UNCHANGED <<accounts, grant, lost>> /\ pc[p] = "exchanged"
    BY <1>4 DEF BuildRecord
  <2>2. \A h \in Handles : Own(h)
    BY <1>b, <2>1
  <2>3. CASE answer[p].status = "token" /\ \E r : r.rt = answer[p].rt /\ Take(p, "store", r)
    <3>1. Good(rec[p].rt)' /\ pc'[p] = "store"
      BY <1>0, <2>1, <2>3 DEF Take
    <3> QED
      BY <2>2, <3>1
  <2>4. CASE pc'[p] = "idle"
    BY <2>2, <2>4
  <2>5. QED
    BY <1>4, <2>3, <2>4 DEF BuildRecord
<1>5. CASE StoreLogin(p)
  <2>1. /\ UNCHANGED grant /\ pc[p] = "store" /\ pc' = [pc EXCEPT ![p] = "idle"]
        /\ lost \subseteq lost'
    BY <1>0, <1>5 DEF StoreLogin, Lose
  <2>2. CASE accounts' = [accounts EXCEPT ![job[p].handle] = rec[p]]
    BY <1>0, <2>1, <2>2
  <2>3. CASE accounts' = accounts
    BY <1>b, <2>1, <2>3
  <2> QED
    BY <1>5, <2>2, <2>3 DEF StoreLogin
<1>6. CASE KeepToken(p)
  <2>1. /\ UNCHANGED <<accounts, grant, lost>> /\ pc[p] = "refresh"
        /\ pc'[p] = "idle" \/ (pc'[p] = "put" /\ UNCHANGED <<job, rec>>)
    BY <1>6 DEF KeepToken, command
  <2>2. \A h \in Handles : Own(h)
    BY <1>b, <2>1
  <2>3. InHandOf(p)'
    BY <1>0, <2>1
  <2>4. QED
    BY <2>2, <2>3
<1>7. CASE AskToken(p)
  <2>1. /\ UNCHANGED <<accounts, grant, lost, job, rec>> /\ pc[p] = "refresh"
        /\ pc' = [pc EXCEPT ![p] = "token"]
    BY <1>7 DEF AskToken
  <2>2. \A h \in Handles : Own(h)
    BY <1>b, <2>1
  <2>3. QED
    BY <1>0, <2>1, <2>2
<1>8. CASE TokenEndpoint(p)
  <2> DEFINE rt == rec[p].rt
             g == rt.grant
             gen == grant[g].gen
  <2>1. /\ UNCHANGED <<accounts, rec, job>> /\ pc' = [pc EXCEPT ![p] = "tokened"]
        /\ pc[p] = "token" /\ rec[p] # NoRecord
        /\ accounts[job[p].handle] # NoRecord /\ accounts[job[p].handle].rt.grant = g
        /\ job[p].handle \in Handles /\ rt \in RefreshTokens /\ g \in Grants
    BY <1>0, <1>8, RecordsType DEF TokenEndpoint
  <2>2. \A h \in Handles : Own(h)
    BY <2>1
  <2>3. CASE UNCHANGED <<grant, lost>> /\ answer'[p].status # "token"
    <3>1. Good(rt) /\ Good(accounts[job[p].handle].rt)
      BY <1>0, <1>a, <2>1
    <3>2. Good(rec[p].rt)' /\ Good(accounts[job[p].handle].rt)'
      BY <1>0, <2>1, <2>3, <3>1
    <3>3. QED
      BY <2>1, <2>2, <2>3, <3>2
  <2>4. CASE /\ Honoured(rt)
             /\ grant' = [grant EXCEPT ![g].gen = gen + 1]
             /\ Deliver(p, [status |-> "token", at |-> NewAccessToken(g, gen + 1),
                            rt |-> IF grant[g].of \in Microsoft
                                   THEN [rt EXCEPT !.gen = gen + 1] ELSE rt])
    <3>1. /\ answer'[p].status = "token"
          /\ answer'[p].rt = IF grant[g].of \in Microsoft
                             THEN [rt EXCEPT !.gen = gen + 1] ELSE rt
      BY <2>4 DEF Deliver
    <3>2. /\ answer'[p].rt.grant = g
          /\ grant[g].of \in Microsoft => answer'[p].rt.gen = gen + 1
      BY <2>1, <3>1 DEF RefreshTokens
    <3>3. /\ grant'[g].of = grant[g].of /\ grant'[g].state = grant[g].state
          /\ grant'[g].gen = gen + 1
      <4>1. g \in Grants /\ grant \in [Grants -> GrantStates]
        BY <2>1
      <4>2. QED
        BY ONLY <2>4, <4>1 DEF GrantStates
    <3>4. Good(answer[p].rt)'
      BY <3>2, <3>3 DEF Good, Honoured
    <3>5. QED
      BY <2>1, <2>2, <3>1, <3>2, <3>4
  <2>5. ASSUME NEW status \in {"invalid_grant", "error"},
               UNCHANGED <<grant, lost>>, Deliver(p, [status |-> status])
        PROVE  UNCHANGED <<grant, lost>> /\ answer'[p].status # "token"
    BY <2>5 DEF Deliver
  <2>6. QED
    <3> HIDE DEF Kept
    <3>1. QED
      BY ONLY <1>8, <2>3, <2>4, <2>5 DEF TokenEndpoint
<1>9. CASE TokenAnswer(p)
  <2>1. UNCHANGED <<accounts, grant, lost>> /\ pc[p] = "tokened"
    BY <1>9 DEF TokenAnswer
  <2>2. CASE answer[p].status = "token" /\ \E r : r.rt = answer[p].rt /\ Take(p, "put", r)
    <3>1. /\ pc'[p] = "put" /\ job' = job /\ rec'[p].rt = answer[p].rt
      BY <2>1, <2>2 DEF Take
    <3>2. Good(rec[p].rt)'
      BY <1>0, <2>1, <2>2, <3>1
    <3>3. QED
      BY <1>0, <2>1, <2>2, <3>1, <3>2
  <2>3. CASE answer[p].status # "token" /\ \E code : Finish(p, code)
    <3>1. pc'[p] = "idle" /\ Good(accounts[job[p].handle].rt)
      BY <1>0, <2>1, <2>3
    <3>2. ASSUME NEW h \in Handles, h = job[p].handle
          PROVE  Good(accounts[h].rt)'
      BY <1>0, <2>1, <3>1, <3>2
    <3>3. \A h \in Handles : Own(h)
      BY <3>2
    <3>4. QED
      BY <3>1, <3>3
  <2>4. QED
    BY <1>9, <2>2, <2>3 DEF TokenAnswer
<1>10. CASE TokenLost(p) \/ Kill(p)
  <2>1. UNCHANGED <<accounts, grant>> /\ Lose(p) /\ lost \subseteq lost' /\ pc'[p] = "idle"
    BY <1>10 DEF TokenLost, Kill, Asking, Lose
  <2>2. \A h \in Handles : Own(h)
    BY <1>b, <1>c, <2>1
  <2> QED
    BY <2>1, <2>2
<1>11. CASE PutRefreshed(p)
  <2>1. /\ UNCHANGED grant /\ pc[p] = "put" /\ rec[p] # NoRecord
        /\ job[p].handle \in Handles /\ Good(rec[p].rt)
        /\ lost \subseteq lost'
        /\ pc'[p] = "idle" \/ (pc'[p] = "request" /\ UNCHANGED <<job, rec>>)
    BY <1>0, <1>11 DEF PutRefreshed, command, Lose
  <2>2. Good(rec[p].rt) => (rec' = rec => Good(rec[p].rt)')
    BY <1>0, <2>1
  <2>3. CASE accounts' = [accounts EXCEPT ![job[p].handle] = rec[p]]
    <3>1. accounts'[job[p].handle] = rec[p]
      BY <2>1, <2>3
    <3>2. \A h \in Handles : Own(h)
      <4> SUFFICES ASSUME NEW h \in Handles, h = job[p].handle PROVE Good(accounts[h].rt)'
        BY <3>1, <2>1
      <4> QED
        BY <1>0, <2>1, <3>1
    <3>3. InHandOf(p)'
      BY <1>0, <2>1, <2>2, <3>1
    <3> QED
      BY <3>2, <3>3
  <2>4. CASE accounts' = accounts /\ Lose(p)
    <3>1. \A h \in Handles : Own(h)
      BY <1>c, <2>1, <2>4
    <3>2. InHandOf(p)'
      BY <1>0, <2>1, <2>2, <2>4
    <3> QED
      BY <3>1, <3>2
  <2>5. QED
    BY <1>11, <2>3, <2>4 DEF PutRefreshed
<1>12. CASE Serve(p) \/ Reply(p) \/ ReplyLost(p)
  <2>1. /\ UNCHANGED <<accounts, grant, lost>> /\ pc[p] \in {"request", "replied"}
        /\ \/ pc'[p] = "idle"
           \/ pc'[p] \in {"replied", "refresh"} /\ UNCHANGED <<job, rec>>
    BY <1>12 DEF Serve, Reply, ReplyLost
  <2>2. \A h \in Handles : Own(h)
    BY <1>b, <2>1
  <2>3. InHandOf(p)'
    BY <1>0, <2>1
  <2>4. QED
    BY <2>2, <2>3
<1>13. CASE Revoke(p)
  <2>1. /\ UNCHANGED <<accounts, lost, job, rec>> /\ pc' = [pc EXCEPT ![p] = "delete"]
        /\ pc[p] = "revoke" /\ rec[p] \in TokenRecords
    BY <1>13 DEF Revoke
  <2>2. \A g \in Grants : Ages(g)
    BY <1>13, GrantsAge
  <2>3. \A h \in Handles : Own(h)
    <3> SUFFICES ASSUME NEW h \in Handles, h = job[p].handle, accounts[h] # NoRecord
                 PROVE  Good(accounts[h].rt)'
      BY <2>1
    <3>1. Good(accounts[h].rt) /\ accounts[h].rt.grant \in Grants
      BY <1>a, <2>1
    <3> QED
      BY <2>1, <2>2, <3>1, GoodAges
  <2>4. job[p].handle \in Google
           => grant'[rec[p].rt.grant].state = "revoked" \/ answer'[p].status = "error"
    <3>1. rec[p].rt.grant \in Grants
      BY <2>1, RecordsType
    <3>2. job[p].handle \notin Microsoft \/ job[p].handle \notin Google
      BY Constants
    <3>3. QED
      BY <1>0, <1>13, <3>1, <3>2 DEF Revoke, Deliver, GrantStates
  <2>5. InHandOf(p)'
    BY <1>0, <2>1, <2>4
  <2>6. QED
    BY <2>3, <2>5
<1>14. CASE DeleteRecord(p)
  <2>1. /\ pc[p] = "delete" /\ pc' = [pc EXCEPT ![p] = "idle"]
        /\ UNCHANGED <<grant, lost>>
        /\ \/ accounts' = [accounts EXCEPT ![job[p].handle] = NoRecord]
           \/ accounts' = accounts
    BY <1>14 DEF DeleteRecord
  <2>2. QED
    BY <1>0, <1>b, <2>1
<1>15. CASE Refuse(p)
  BY <1>15 DEF Refuse
<1>16. QED
  <2>1. ProcStep(p)
    OBVIOUS
  <2> HIDE DEF Kept
  <2>2. QED
    BY ONLY <2>1, <1>1, <1>2, <1>3, <1>4, <1>5, <1>6, <1>7, <1>8, <1>9, <1>10, <1>11,
       <1>12, <1>13, <1>14, <1>15 DEF ProcStep, Client, Waiting

\* What happens to the consents and the clock leaves everything in hand.
LEMMA HandAges ==
  ASSUME HandInv, UNCHANGED <<accounts, lost, pc, job, rec, answer>>,
         \A g \in Grants : Ages(g)
  PROVE  InHand' /\ StoredTokenHonoured'
<1> USE DEF HandInv
<1>1. \A rt : rt.grant \in Grants /\ Good(rt) => Good(rt)'
  BY GoodAges
<1>2. /\ \A h \in Handles : accounts[h] # NoRecord => accounts[h].rt.grant \in Grants
      /\ \A q \in Procs :
            /\ rec[q] # NoRecord => rec[q].rt.grant \in Grants
            /\ answer[q].status = "token" => answer[q].rt.grant \in Grants
  BY GrantsOf DEF SessionInv
<1>3. \A h \in Handles :
         accounts[h] # NoRecord /\ Good(accounts[h].rt) => Good(accounts[h].rt)'
  BY <1>1, <1>2
<1>4. ASSUME NEW h \in Handles PROVE StoredFor(h)'
  BY <1>3, StoredIs DEF StoredFor
<1>5. ASSUME NEW q \in Procs PROVE InHandOf(q)'
  <2>1. InHandOf(q)
    BY DEF InHand
  <2>2. /\ pc[q] \notin {"idle", "get", "consent", "exchanged"} => rec[q] # NoRecord
        /\ pc[q] # "idle" => job[q].handle \in Handles
    BY BusyType DEF SessionInv, TypeOK, CommandOK
  <2>3. rec[q] # NoRecord /\ Good(rec[q].rt) => Good(rec[q].rt)'
    BY <1>1, <1>2
  <2>4. answer[q].status = "token" /\ Good(answer[q].rt) => Good(answer[q].rt)'
    BY <1>1, <1>2
  <2>5. rec[q] # NoRecord /\ grant[rec[q].rt.grant].state = "revoked"
           => grant'[rec[q].rt.grant].state = "revoked"
    BY <1>2 DEF Ages
  <2>6. pc[q] # "idle" /\ accounts[job[q].handle] # NoRecord /\ Good(accounts[job[q].handle].rt)
           => Good(accounts[job[q].handle].rt)'
    BY <1>3, <2>2
  <2>7. QED
    BY <2>1, <2>2, <2>3, <2>4, <2>5, <2>6 DEF InHandOf, Working
<1>6. QED
  BY <1>4, <1>5, StoredIs DEF InHand

LEMMA HandInvStep ==
  HandInv /\ HandsApart /\ HandsApart' /\ [Next]_vars => HandInv'
<1> SUFFICES ASSUME HandInv, HandsApart, HandsApart', [Next]_vars PROVE HandInv'
  OBVIOUS
<1>1. SessionInv' /\ Owned'
  BY SessionInvStep, OwnedStep DEF HandInv, SessionInv
<1>2. ASSUME NEW p \in Procs, ProcStep(p) PROVE InHand' /\ StoredTokenHonoured'
  <2>1. Local(p)
    BY <1>2, StepIsLocal DEF HandInv
  <2>2. \A q \in Procs : InHandOf(q)'
    BY <1>2, <2>1, OthersKeep, OwnStep
  <2>3. \A h \in Handles : StoredFor(h)'
    BY <1>2, <2>1, OthersKeep, OwnStep
  <2>4. QED
    BY <2>2, <2>3, StoredIs DEF InHand
<1>3. ASSUME (Tick \/ UNCHANGED vars) \/ (\E g \in Grants : RejectTokens(g) \/ Withdraw(g))
      PROVE  InHand' /\ StoredTokenHonoured'
  <2>1. UNCHANGED <<accounts, lost, pc, job, rec, answer>>
    BY <1>3 DEF Tick, RejectTokens, Withdraw, vars, command
  <2>2. \A g \in Grants : Ages(g)
    <3>1. CASE Tick \/ UNCHANGED vars
      BY <3>1 DEF Tick, vars, Ages
    <3>2. CASE \E g \in Grants : RejectTokens(g) \/ Withdraw(g)
      BY <3>2, GrantsAge DEF HandInv, SessionInv
    <3>3. QED
      BY <1>3, <3>1, <3>2
  <2>3. QED
    BY <2>1, <2>2, HandAges
<1>4. InHand' /\ StoredTokenHonoured'
  BY <1>2, <1>3 DEF Next, ProcStep
<1>5. QED
  BY <1>1, <1>4 DEF HandInv

\* While no two commands hold a record of one account at a time, whatever is lost, fails to
\* be written or is killed: the token in the store is one its provider honours, or the
\* command that asked for its successor still has it in hand, or the successor is known to
\* have gone with an answer, a write or a process.  Commands on different accounts may
\* overlap.
THEOREM StoredTokensHonouredApart == Spec /\ []HandsApart => []StoredTokenHonoured
<1>1. Init => HandInv
  BY HandInvInit
<1>2. HandInv /\ HandsApart /\ HandsApart' /\ [Next]_vars => HandInv'
  BY HandInvStep
<1>3. HandInv => StoredTokenHonoured
  BY DEF HandInv
<1>4. QED
  BY <1>1, <1>2, <1>3, PTL DEF Spec

LEMMA OneProcessApart ==
  ASSUME OneProcess
  PROVE  Spec => [](HandsApart /\ LogoutsApart)
<1>1. HandsApart /\ LogoutsApart
  BY DEF OneProcess, HandsApart, LogoutsApart, Working
<1>2. QED
  BY <1>1, PTL

\* The same for one process at a time, whatever fails.
THEOREM StoredTokensHonoured ==
  ASSUME OneProcess
  PROVE  Spec => []StoredTokenHonoured
  BY OneProcessApart, StoredTokensHonouredApart, PTL

\* While no two commands hold a record of one account at a time, whatever fails: logout
\* deletes the record of a Google account only when its consent has been revoked, or with a
\* warning that it may not have been.
THEOREM ForgottenOrWarnedApart == Spec /\ []HandsApart => ForgottenOrWarned
<1> DEFINE Forgotten ==
      \A h \in Google :
          accounts[h] # NoRecord /\ accounts'[h] = NoRecord
             => \/ grant[accounts[h].rt.grant].state = "revoked"
                \/ \E p \in Procs : /\ pc[p] = "delete" /\ job[p].handle = h
                                    /\ answer[p].status = "error"
<1>1. HandInv /\ [Next]_vars => [Forgotten]_vars
  <2> SUFFICES ASSUME HandInv, Next, NEW h \in Google,
                      accounts[h] # NoRecord, accounts'[h] = NoRecord
               PROVE  \/ grant[accounts[h].rt.grant].state = "revoked"
                      \/ \E p \in Procs : /\ pc[p] = "delete" /\ job[p].handle = h
                                          /\ answer[p].status = "error"
    OBVIOUS
  <2> USE DEF HandInv, SessionInv, TypeOK
  <2>1. CommandOK /\ h \in Handles
    BY Constants
  <2>2. PICK p \in Procs : DeleteRecord(p)
    <3>1. ASSUME NEW p \in Procs, StoreLogin(p) \/ PutRefreshed(p) PROVE FALSE
      BY <2>1, <3>1, BusyType DEF StoreLogin, PutRefreshed, CommandOK
    <3>2. ASSUME NEW p \in Procs,
                 \/ \E j \in Jobs : Start(p, j)
                 \/ Refuse(p) \/ GetRecord(p) \/ Consent(p) \/ BuildRecord(p)
                 \/ KeepToken(p) \/ AskToken(p) \/ TokenEndpoint(p) \/ TokenAnswer(p)
                 \/ TokenLost(p) \/ Serve(p) \/ Reply(p) \/ ReplyLost(p) \/ Revoke(p)
                 \/ Kill(p)
          PROVE  FALSE
      BY <3>2 DEF Start, Refuse, GetRecord, Consent, BuildRecord, KeepToken, AskToken,
                  TokenEndpoint, TokenAnswer, TokenLost, Serve, Reply, ReplyLost,
                  Revoke, Kill
    <3>3. ~ Tick /\ \A g \in Grants : ~ RejectTokens(g) /\ ~ Withdraw(g)
      BY DEF Tick, RejectTokens, Withdraw
    <3>4. QED
      BY <3>1, <3>2, <3>3 DEF Next, Client, Waiting
  <2>3. job[p].handle = h /\ pc[p] = "delete"
    BY <2>1, <2>2, BusyType DEF DeleteRecord
  <2>4. /\ rec[p].rt.grant = accounts[h].rt.grant
        /\ grant[rec[p].rt.grant].state = "revoked" \/ answer[p].status = "error"
    BY <2>3 DEF InHand, InHandOf
  <2>5. QED
    BY <2>3, <2>4
<1> HIDE DEF Forgotten
<1>2. HandInv /\ HandsApart /\ HandsApart' /\ [Next]_vars => HandInv'
  BY HandInvStep
<1>3. Spec /\ []HandsApart => [][Forgotten]_vars
  BY <1>1, <1>2, HandInvInit, PTL DEF Spec
<1>4. QED
  BY <1>3 DEF ForgottenOrWarned, Forgotten

\* The same for one process at a time, whatever fails.
THEOREM ForgottenAreWarnedOf ==
  ASSUME OneProcess
  PROVE  Spec => ForgottenOrWarned
<1>1. Spec => []HandsApart
  BY OneProcessApart, PTL
<1>2. QED
  BY <1>1, ForgottenOrWarnedApart

-----------------------------------------------------------------------------
LEMMA AccountThereStep ==
  ASSUME LogoutsApart, SessionInv, AccountThere, [Next]_vars
  PROVE  AccountThere'
<1> USE DEF SessionInv, TypeOK, CommandOK, AccountThere, Working, Goto, Finish
<1>1. ASSUME NEW p \in Procs, NEW j \in Jobs, Start(p, j) PROVE AccountThere'
  BY <1>1 DEF Start
<1>2. ASSUME NEW p \in Procs, GetRecord(p) PROVE AccountThere'
  BY <1>2 DEF GetRecord, Take, Deliver, command
<1>3. ASSUME NEW p \in Procs, Consent(p) \/ BuildRecord(p) PROVE AccountThere'
  BY <1>3 DEF Consent, BuildRecord, Take, Deliver
<1>4. ASSUME NEW p \in Procs, StoreLogin(p) \/ DeleteRecord(p) PROVE AccountThere'
  <2>1. job[p].handle \in Handles /\ pc[p] \in {"store", "delete"}
    BY <1>4, BusyType DEF StoreLogin, DeleteRecord
  <2>2. ASSUME NEW q \in Procs, Working(q)' PROVE accounts'[job'[q].handle] # NoRecord
    <3>1. q # p /\ Working(q) /\ job'[q] = job[q] /\ job[q].handle \in Handles
      BY <1>4, <2>2, BusyType DEF StoreLogin, DeleteRecord
    <3>2. accounts[job[q].handle] # NoRecord
      BY <3>1
    <3>3. CASE StoreLogin(p)
      BY <2>1, <3>1, <3>2, <3>3 DEF StoreLogin
    <3>4. CASE DeleteRecord(p)
      <4>1. job[p].handle # job[q].handle
        BY <3>1, <3>4 DEF DeleteRecord, LogoutsApart
      <4>2. QED
        BY <2>1, <3>1, <3>2, <3>4, <4>1 DEF DeleteRecord
    <3>5. QED
      BY <1>4, <3>3, <3>4
  <2>3. QED
    BY <2>2
<1>5. ASSUME NEW p \in Procs, KeepToken(p) \/ AskToken(p) \/ TokenEndpoint(p)
      PROVE  AccountThere'
  BY <1>5 DEF KeepToken, AskToken, TokenEndpoint, Deliver, command
<1>6. ASSUME NEW p \in Procs, TokenAnswer(p) \/ TokenLost(p) PROVE AccountThere'
  BY <1>6 DEF TokenAnswer, TokenLost, Take, Deliver
<1>7. ASSUME NEW p \in Procs, PutRefreshed(p) PROVE AccountThere'
  <2>1. rec[p] # NoRecord /\ job[p].handle \in Handles
    BY <1>7, BusyType DEF PutRefreshed
  <2>2. pc'[p] \in {"idle", "request"} /\ (pc'[p] # "idle" => job' = job)
    BY <1>7 DEF PutRefreshed, command
  <2>3. accounts'[job[p].handle] # NoRecord
    BY <1>7, <2>1 DEF PutRefreshed
  <2>4. \A h \in Handles : accounts[h] # NoRecord => accounts'[h] # NoRecord
    BY <1>7, <2>1 DEF PutRefreshed
  <2>5. \A q \in Procs \ {p} : pc'[q] = pc[q] /\ job'[q] = job[q]
    BY <1>7 DEF PutRefreshed, command
  <2>6. \A q \in Procs : pc[q] # "idle" => job[q].handle \in Handles
    BY BusyType
  <2> QED
    BY <2>2, <2>3, <2>4, <2>5, <2>6
<1>8. ASSUME NEW p \in Procs, Serve(p) \/ Reply(p) \/ ReplyLost(p) PROVE AccountThere'
  BY <1>8 DEF Serve, Reply, ReplyLost, Deliver
<1>9. ASSUME NEW p \in Procs, Revoke(p) \/ Kill(p) \/ Refuse(p) PROVE AccountThere'
  BY <1>9 DEF Revoke, Kill, Refuse
<1>10. CASE Tick \/ (\E g \in Grants : RejectTokens(g) \/ Withdraw(g)) \/ UNCHANGED vars
  BY <1>10 DEF Tick, RejectTokens, Withdraw, vars, command
<1>11. QED
  BY <1>1, <1>2, <1>3, <1>4, <1>5, <1>6, <1>7, <1>8, <1>9, <1>10
     DEF Next, Client, Waiting

\* While no logout is about to delete an account that a command is at work on, whatever
\* fails and however commands overlap otherwise: an account that is not there appears by a
\* sign-in only, and none comes back because a command stores what it has read.
THEOREM AccountsAppearBySignInApart == Spec /\ []LogoutsApart => AppearsBySignIn
<1> DEFINE SignedIn ==
      \A h \in Handles :
          accounts[h] = NoRecord /\ accounts'[h] # NoRecord
             => \E p \in Procs : pc[p] = "store" /\ job[p].handle = h
<1>1. SessionInv /\ AccountThere /\ [Next]_vars => [SignedIn]_vars
  <2> SUFFICES ASSUME SessionInv, AccountThere, Next, NEW h \in Handles,
                      accounts[h] = NoRecord, accounts'[h] # NoRecord
               PROVE  \E p \in Procs : pc[p] = "store" /\ job[p].handle = h
    OBVIOUS
  <2>1. ASSUME NEW p \in Procs,
               \/ \E j \in Jobs : Start(p, j)
               \/ Refuse(p) \/ GetRecord(p) \/ Consent(p) \/ BuildRecord(p)
               \/ KeepToken(p) \/ AskToken(p) \/ TokenEndpoint(p) \/ TokenAnswer(p)
               \/ TokenLost(p) \/ Serve(p) \/ Reply(p) \/ ReplyLost(p) \/ Revoke(p)
               \/ Kill(p)
        PROVE  FALSE
    BY <2>1 DEF Start, Refuse, GetRecord, Consent, BuildRecord, KeepToken, AskToken,
                TokenEndpoint, TokenAnswer, TokenLost, Serve, Reply, ReplyLost,
                Revoke, Kill
  <2>2. ~ Tick /\ \A g \in Grants : ~ RejectTokens(g) /\ ~ Withdraw(g)
    BY DEF Tick, RejectTokens, Withdraw
  <2>3. ASSUME NEW p \in Procs, PutRefreshed(p) \/ DeleteRecord(p) PROVE FALSE
    <3>1. accounts[job[p].handle] # NoRecord
      BY <2>3 DEF PutRefreshed, DeleteRecord, AccountThere, Working
    <3> QED
      BY <2>3, <3>1 DEF PutRefreshed, DeleteRecord, SessionInv, TypeOK
  <2>4. ASSUME NEW p \in Procs, StoreLogin(p)
        PROVE  pc[p] = "store" /\ job[p].handle = h
    BY <2>4 DEF StoreLogin, SessionInv, TypeOK
  <2> QED
    BY <2>1, <2>2, <2>3, <2>4 DEF Next, Client, Waiting
<1> HIDE DEF SignedIn
<1>2. Init => AccountThere
  BY DEF Init, AccountThere, Working
<1>3. Spec /\ []LogoutsApart => [][SignedIn]_vars
  BY <1>1, <1>2, AccountThereStep, SessionInvInit, SessionInvStep, PTL DEF Spec
<1> QED
  BY <1>3 DEF AppearsBySignIn, SignedIn

\* One process at a time, whatever fails.
THEOREM AccountsAppearBySignIn ==
  ASSUME OneProcess
  PROVE  Spec => AppearsBySignIn
<1>1. Spec => []LogoutsApart
  BY OneProcessApart, PTL
<1>2. QED
  BY <1>1, AccountsAppearBySignInApart
-----------------------------------------------------------------------------
(* Every command is bounded. *)

LEMMA Ranks ==
    /\ Rank("idle") = 0
    /\ Rank("replied") = 1 /\ Rank("store") = 1 /\ Rank("delete") = 1
    /\ Rank("request") = 2 /\ Rank("exchanged") = 2 /\ Rank("revoke") = 2
    /\ Rank("put") = 3 /\ Rank("consent") = 3
    /\ Rank("tokened") = 4 /\ Rank("token") = 5 /\ Rank("refresh") = 6 /\ Rank("get") = 7
BY DEF Rank

\* A command ends, gets nearer to its end, or makes use of its one replay.
Ahead(p) ==
    \/ pc'[p] = "idle"
    \/ retried'[p] = retried[p] /\ Rank(pc'[p]) < Rank(pc[p])
    \/ ~ retried[p] /\ retried'[p] /\ pc'[p] = "refresh"

LEMMA StepIsAhead ==
    ASSUME TypeOK, [Next]_vars, NEW p \in Procs, pc[p] # "idle", pc'[p] # pc[p]
    PROVE  Ahead(p)
<1> USE Ranks DEF TypeOK, CommandOK, Goto, Ahead
<1>1. ASSUME NEW q \in Procs, NEW code, Finish(q, code)
      PROVE  Ahead(p)
  BY <1>1 DEF Finish
<1>2. ASSUME NEW q \in Procs, NEW label, NEW r, Take(q, label, r), Rank(label) < Rank(pc[q])
      PROVE  Ahead(p)
  BY <1>2 DEF Take
<1>3. ASSUME NEW q \in Procs, NEW label, Goto(q, label), UNCHANGED retried,
             Rank(label) < Rank(pc[q])
      PROVE  Ahead(p)
  BY <1>3
<1>4. ASSUME NEW q \in Procs, NEW j \in Jobs, Start(q, j)
      PROVE  Ahead(p)
  BY <1>4 DEF Start
<1>5. ASSUME NEW q \in Procs, GetRecord(q)
      PROVE  Ahead(p)
  BY <1>1, <1>2, <1>3, <1>5 DEF GetRecord, command
<1>6. ASSUME NEW q \in Procs, Consent(q) \/ AskToken(q) \/ TokenEndpoint(q) \/ Serve(q)
      PROVE  Ahead(p)
  BY <1>3, <1>6 DEF Consent, AskToken, TokenEndpoint, Serve
<1>7. ASSUME NEW q \in Procs, BuildRecord(q) \/ TokenAnswer(q)
      PROVE  Ahead(p)
  BY <1>1, <1>2, <1>7 DEF BuildRecord, TokenAnswer
<1>8. ASSUME NEW q \in Procs, KeepToken(q) \/ PutRefreshed(q) \/ Revoke(q)
      PROVE  Ahead(p)
  BY <1>1, <1>3, <1>8 DEF KeepToken, PutRefreshed, Revoke, command
<1>9. ASSUME NEW q \in Procs, StoreLogin(q) \/ TokenLost(q) \/ ReplyLost(q)
                              \/ DeleteRecord(q) \/ Kill(q) \/ Refuse(q)
      PROVE  Ahead(p)
  BY <1>1, <1>9 DEF StoreLogin, TokenLost, ReplyLost, DeleteRecord, Kill, Refuse
<1>10. ASSUME NEW q \in Procs, Reply(q)
       PROVE  Ahead(p)
  BY <1>1, <1>10 DEF Reply
<1>11. CASE Tick \/ (\E g \in Grants : RejectTokens(g) \/ Withdraw(g)) \/ UNCHANGED vars
  BY <1>11 DEF Tick, RejectTokens, Withdraw, vars, command
<1> QED
  BY <1>4, <1>5, <1>6, <1>7, <1>8, <1>9, <1>10, <1>11 DEF Next, Client, Waiting

\* No command runs on without bound, whatever is lost, refused or late: a call uses its
\* one replay, and every other step brings it nearer to its end (call.go:170, 194).
THEOREM CommandsAreBounded == Spec => CommandsGoForward
<1>1. ASSUME TypeOK, TypeOK', [Next]_vars, NEW p \in Procs, pc[p] # "idle", pc'[p] # pc[p]
      PROVE  StepsLeft(p)' < StepsLeft(p)
  <2>1. Ahead(p)
    BY <1>1, StepIsAhead
  <2>2. /\ pc[p] \in Labels /\ retried[p] \in BOOLEAN
        /\ pc'[p] \in Labels /\ retried'[p] \in BOOLEAN
    BY <1>1, <2>1 DEF TypeOK, CommandOK
  <2>3. Rank(pc[p]) \in 1 .. 7 /\ Rank(pc'[p]) \in 0 .. 7
    BY <1>1, <2>2, Ranks DEF Labels
  <2> QED
    BY <1>1, <2>1, <2>2, <2>3, Ranks DEF Ahead, StepsLeft
<1>2. ASSUME TypeOK, TypeOK', [Next]_vars
      PROVE  [\A p \in Procs :
                 pc[p] # "idle" /\ pc'[p] # pc[p] => StepsLeft(p)' < StepsLeft(p)]_vars
  BY <1>1, <1>2
<1> QED
  BY <1>2, TypeCorrect, PTL DEF Spec, CommandsGoForward
=============================================================================

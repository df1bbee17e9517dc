---------------------------- MODULE TokenSessions ----------------------------
(***************************************************************************)
(* The commands `apl login`, `apl call` and `apl logout` (internal/cli)    *)
(* with the provider operations they use (internal/provider,               *)
(* internal/oauth), run by several processes against one store, two        *)
(* identity providers and their APIs.                                      *)
(*                                                                         *)
(* Each store operation is one step, which is the best the store can offer *)
(* (CredStore says when it does).  A request to an identity provider or to *)
(* an API is two steps, the server's and the client's, and the answer may  *)
(* be lost in between.  The unit of time is the 30 seconds of the expiry   *)
(* margins in google.go and microsoft.go and of httpClient's timeout.      *)
(***************************************************************************)
EXTENDS Naturals

CONSTANTS
    Procs,
    Google, Microsoft,   \* the handles of either provider
    SingleUse,       \* Microsoft honours each refresh token once
    Scopes,          \* the scopes a user may name with --scope
    DefaultScopes,   \* those of a login without --scope
    ExpiresIn,       \* lifetime of an access token, in units of 30 seconds
    Faults,          \* the failures that may occur
    MaxNow, Grants, MaxRefreshes,   \* bounds: clock, consents, refreshes of one
    NoRecord

Handles == Google \union Microsoft

ASSUME SessionAssumption ==
    /\ Google \intersect Microsoft = {}
    /\ SingleUse \in BOOLEAN
    /\ DefaultScopes \subseteq Scopes
    /\ ExpiresIn \in Nat /\ ExpiresIn > 1
    /\ Faults \subseteq {"net", "store", "kill", "api"}
    /\ MaxNow \in Nat /\ MaxRefreshes \in Nat

VARIABLES
    accounts,  \* the store: handle -> record
    now,       \* the clock
    grant,     \* the identity providers: what they know of each consent
    lost,      \* history: the consents whose latest refresh token went with its holder
    pc,        \* per process: the next step of its command
    job,       \* per process: the command
    rec,       \* per process: the record the command works on
    since,     \* per process: when it turned to the token endpoint
    answer,    \* per process: an answer on its way to the client
    retried,   \* per process: its request was refused with 401 once
    served,    \* per process: how often the API has carried out its request
    exit       \* per process: how its last command ended

command == <<job, rec, since, answer, retried, served, exit>>
vars == <<accounts, now, grant, lost, pc, command>>

-----------------------------------------------------------------------------
Times == 0 .. MaxNow + ExpiresIn
Generations == 0 .. MaxRefreshes

\* A consent is unused, live or revoked; gen is the generation of its latest
\* tokens, and the API refuses access tokens older than accepts.
GrantStates == [state : {"unused", "live", "revoked"}, of : Handles \union {NoRecord},
                gen : Generations, accepts : Generations]

RefreshTokens == [grant : Grants, gen : Generations]
AccessTokens == [grant : Grants, gen : Generations, until : Times]

\* store.TokenRecord, as far as the commands look at it.
TokenRecords == [rt : RefreshTokens, at : AccessTokens, expires : Times,
                 scopes : SUBSET Scopes]

ASSUME NoRecordAssumption ==
    /\ NoRecord \notin TokenRecords
    /\ NoRecord \notin Handles

\* The command lines, as far as they reach the store: --scope and --force of
\* login, --scope of call.
Jobs ==
    [kind : {"login"}, handle : Handles, scopes : SUBSET Scopes, force : BOOLEAN]
      \union [kind : {"call"}, handle : Handles, scopes : SUBSET Scopes, force : {FALSE}]
      \union [kind : {"logout"}, handle : Handles, scopes : {{}}, force : {FALSE}]

NoJob == [kind |-> "none"]

Labels == {"idle", "get", "consent", "exchanged", "store", "refresh", "token",
           "tokened", "put", "request", "replied", "revoke", "delete"}

\* What comes back from the token endpoint or from the API.
Answers == [status : {"none", "invalid_grant", "error", "2xx", "401", "4xx", "429", "5xx"}]
             \union [status : {"token"}, at : AccessTokens, rt : RefreshTokens]

NoAnswer == [status |-> "none"]

\* exit.go and call.go:22; "killed" for a process that got no further.
Exits == {"none", "ok", "user", "auth", "network", "throttled", "server", "killed"}

CommandOK ==
    /\ pc \in [Procs -> Labels]
    /\ job \in [Procs -> Jobs \union {NoJob}]
    /\ rec \in [Procs -> TokenRecords \union {NoRecord}]
    /\ since \in [Procs -> 0 .. MaxNow]
    /\ answer \in [Procs -> Answers]
    /\ retried \in [Procs -> BOOLEAN]
    /\ served \in [Procs -> 0 .. 1]
    /\ exit \in [Procs -> Exits]
    /\ \A p \in Procs : pc[p] = "idle" <=> job[p] = NoJob
    /\ \A p \in Procs :
          pc[p] \notin {"idle", "get", "consent", "exchanged"} => rec[p] # NoRecord

TypeOK ==
    /\ accounts \in [Handles -> TokenRecords \union {NoRecord}]
    /\ now \in 0 .. MaxNow
    /\ grant \in [Grants -> GrantStates]
    /\ lost \subseteq Grants
    /\ CommandOK

Init ==
    /\ accounts = [h \in Handles |-> NoRecord]
    /\ now = 0
    /\ grant = [g \in Grants |->
                  [state |-> "unused", of |-> NoRecord, gen |-> 0, accepts |-> 0]]
    /\ lost = {}
    /\ pc = [p \in Procs |-> "idle"]
    /\ job = [p \in Procs |-> NoJob]
    /\ rec = [p \in Procs |-> NoRecord]
    /\ since = [p \in Procs |-> 0]
    /\ answer = [p \in Procs |-> NoAnswer]
    /\ retried = [p \in Procs |-> FALSE]
    /\ served = [p \in Procs |-> 0]
    /\ exit = [p \in Procs |-> "none"]

-----------------------------------------------------------------------------
(* The identity providers, the API and the clock. *)

\* A refresh token its provider honours.
Honoured(rt) ==
    LET g == grant[rt.grant]
    IN  /\ g.state = "live"
        /\ SingleUse /\ g.of \in Microsoft => rt.gen = g.gen

\* An access token the API accepts.
Accepted(at) ==
    /\ grant[at.grant].state = "live"
    /\ at.gen >= grant[at.grant].accepts
    /\ now < at.until

NewAccessToken(g, gen) == [grant |-> g, gen |-> gen, until |-> now + ExpiresIn]

\* A token request under way; httpClient gives it 30 seconds.
Asking(p) == pc[p] \in {"exchanged", "token", "tokened"}
InTime(p) == now - since[p] <= 1

\* Without network faults every answer of the token endpoint is in time.
Tick ==
    /\ now < MaxNow
    /\ "net" \in Faults \/ \A p \in Procs : Asking(p) => since[p] = now
    /\ now' = now + 1
    /\ UNCHANGED <<accounts, grant, lost, pc, command>>

\* The API stops accepting the access tokens issued so far, before they expire.
RejectTokens(g) ==
    /\ "api" \in Faults
    /\ grant[g].state = "live"
    /\ grant[g].accepts = 0
    /\ grant[g].gen < MaxRefreshes
    /\ grant' = [grant EXCEPT ![g].accepts = grant[g].gen + 1]
    /\ UNCHANGED <<accounts, now, lost, pc, command>>

\* The user withdraws the consent at the provider, or it lapses.
Withdraw(g) ==
    /\ "api" \in Faults
    /\ grant[g].state = "live"
    /\ grant' = [grant EXCEPT ![g].state = "revoked"]
    /\ UNCHANGED <<accounts, now, lost, pc, command>>

-----------------------------------------------------------------------------
(* The commands. *)

Goto(p, label) == pc' = [pc EXCEPT ![p] = label]

\* A process that ends keeps nothing, and leaves its exit code.
Finish(p, code) ==
    /\ Goto(p, "idle")
    /\ exit' = [exit EXCEPT ![p] = code]
    /\ job' = [job EXCEPT ![p] = NoJob]
    /\ rec' = [rec EXCEPT ![p] = NoRecord]
    /\ since' = [since EXCEPT ![p] = 0]
    /\ answer' = [answer EXCEPT ![p] = NoAnswer]
    /\ retried' = [retried EXCEPT ![p] = FALSE]
    /\ served' = [served EXCEPT ![p] = 0]

\* The refresh tokens that p is about to store, or that the answer under way to it
\* carries: unless the store has them, they go with p when it ends before that.
InHands(p) ==
    CASE pc[p] \in {"exchanged", "tokened"} /\ answer[p].status = "token" -> {answer[p].rt}
      [] pc[p] \in {"put", "store"} -> {rec[p].rt}
      [] OTHER -> {}

Stored(rt) == \E h \in Handles : accounts[h] # NoRecord /\ accounts[h].rt = rt

Lose(p) == lost' = lost \union {rt.grant : rt \in {t \in InHands(p) : ~ Stored(t)}}

\* An answer is on its way, or is taken from the wire.
Deliver(p, a) == answer' = [answer EXCEPT ![p] = a]

Take(p, label, r) ==
    /\ Goto(p, label)
    /\ rec' = [rec EXCEPT ![p] = r]
    /\ Deliver(p, NoAnswer)
    /\ UNCHANGED <<job, since, retried, served, exit>>

\* login.go:55: --force and --scope go straight to the browser.
Start(p, j) ==
    /\ pc[p] = "idle"
    /\ job' = [job EXCEPT ![p] = j]
    /\ Goto(p, IF j.kind = "login" /\ (j.force \/ j.scopes # {})
               THEN "consent" ELSE "get")
    /\ exit' = [exit EXCEPT ![p] = "none"]
    /\ UNCHANGED <<accounts, now, grant, lost, rec, since, answer, retried, served>>

\* A command line, a body or a client that is not good for the command: a user
\* error, before the provider or the API is asked for anything (call.go:78, 149;
\* login.go:32, 81, 96; logout.go:22).
Refuse(p) ==
    /\ pc[p] \in {"get", "consent"}
    /\ Finish(p, "user")
    /\ UNCHANGED <<accounts, now, grant, lost>>

\* The guard of call.go:164 compares names as they are given.
MissingScopes(granted, required) == required \ granted

GetRecord(p) ==
    LET j == job[p]
        found == accounts[j.handle]
    IN  /\ pc[p] = "get"
        /\ \/ /\ found # NoRecord
              /\ j.kind = "call" => MissingScopes(found.scopes, j.scopes) = {}
              /\ Take(p, IF j.kind = "logout" THEN "revoke" ELSE "refresh", found)
           \/ /\ found # NoRecord
              /\ j.kind = "call" /\ MissingScopes(found.scopes, j.scopes) # {}
              /\ Finish(p, "auth")
           \/ /\ found = NoRecord
              /\ j.kind = "login"
              /\ Goto(p, "consent")
              /\ UNCHANGED command
           \/ found = NoRecord /\ j.kind # "login" /\ Finish(p, "auth")
           \/ "store" \in Faults /\ Finish(p, "network")
        /\ UNCHANGED <<accounts, now, grant, lost>>

\* The browser flow: the user consents to a new grant and the code is
\* exchanged for its tokens, or denies.
Consent(p) ==
    /\ pc[p] = "consent"
    /\ \/ \E g \in Grants :
             /\ grant[g].state = "unused"
             /\ grant' = [grant EXCEPT ![g].state = "live", ![g].of = job[p].handle]
             /\ Deliver(p, [status |-> "token", at |-> NewAccessToken(g, 0),
                            rt |-> [grant |-> g, gen |-> 0]])
       \/ Deliver(p, [status |-> "error"]) /\ UNCHANGED grant
    /\ Goto(p, "exchanged")
    /\ since' = [since EXCEPT ![p] = now]
    /\ UNCHANGED <<accounts, now, lost, job, rec, retried, served, exit>>

\* Provider.Login builds the record; ExpiresAt counts from the answer's arrival,
\* less 30 seconds (google.go:237).  Every failure of Login exits 3.
BuildRecord(p) ==
    /\ pc[p] = "exchanged"
    /\ \/ /\ answer[p].status = "token" /\ InTime(p)
          /\ Take(p, "store", [rt |-> answer[p].rt, at |-> answer[p].at,
                               expires |-> now + ExpiresIn - 1,
                               scopes |-> IF job[p].scopes = {} THEN DefaultScopes
                                          ELSE job[p].scopes])
       \/ answer[p].status = "error" /\ Finish(p, "network")
    /\ UNCHANGED <<accounts, now, grant, lost>>

\* login.go:103: a record that cannot be stored fails the login.
StoreLogin(p) ==
    /\ pc[p] = "store"
    /\ \/ /\ accounts' = [accounts EXCEPT ![job[p].handle] = rec[p]]
          /\ Finish(p, "ok")
          /\ UNCHANGED lost
       \/ "store" \in Faults /\ Finish(p, "network") /\ Lose(p) /\ UNCHANGED accounts
    /\ UNCHANGED <<now, grant>>

\* Mutant: no headroom is demanded.
BugFreshNoMargin(r) == r.expires > now

\* Provider.Refresh keeps a token with more than 30 seconds before ExpiresAt.
Fresh(r) == r.expires > now + 1

\* `apl login` prints a kept token; `apl call` stores the record as it is.
KeepToken(p) ==
    /\ pc[p] = "refresh"
    /\ Fresh(rec[p])
    /\ \/ job[p].kind = "login" /\ Finish(p, "ok")
       \/ job[p].kind = "call" /\ Goto(p, "put") /\ UNCHANGED command
    /\ UNCHANGED <<accounts, now, grant, lost>>

AskToken(p) ==
    /\ pc[p] = "refresh"
    /\ ~ Fresh(rec[p])
    /\ Goto(p, "token")
    /\ since' = [since EXCEPT ![p] = now]
    /\ UNCHANGED <<accounts, now, grant, lost, job, rec, answer, retried, served, exit>>

\* The token endpoint answers the refresh_token grant.  Google's answer has no
\* refresh token, and oauth.Refresh fills in the old one.  An endpoint that has
\* refreshed MaxRefreshes times is overloaded.
TokenEndpoint(p) ==
    LET rt == rec[p].rt
        gen == grant[rt.grant].gen
    IN  /\ pc[p] = "token"
        /\ \/ /\ Honoured(rt)
              /\ gen < MaxRefreshes
              /\ grant' = [grant EXCEPT ![rt.grant].gen = gen + 1]
              /\ lost' = lost \ {rt.grant}
              /\ Deliver(p, [status |-> "token",
                             at |-> NewAccessToken(rt.grant, gen + 1),
                             rt |-> IF grant[rt.grant].of \in Microsoft
                                    THEN [rt EXCEPT !.gen = gen + 1] ELSE rt])
           \/ /\ ~ Honoured(rt)
              /\ Deliver(p, [status |-> "invalid_grant"])
              /\ UNCHANGED <<grant, lost>>
           \/ /\ "net" \in Faults \/ gen = MaxRefreshes
              /\ Deliver(p, [status |-> "error"])
              /\ UNCHANGED <<grant, lost>>
        /\ Goto(p, "tokened")
        /\ UNCHANGED <<accounts, now, job, rec, since, retried, served, exit>>

\* What an error of Refresh exits with: login tells an expired refresh token
\* from the rest; call takes any error for a network error before its first
\* request (call.go:178), and after a 401 for an authentication error unless
\* the timeout has run out (call.go:203).
RefreshErrorExits(p, status) ==
    IF job[p].kind = "login"
    THEN {IF status = "invalid_grant" THEN "auth" ELSE "network"}
    ELSE IF ~ retried[p] THEN {"network"} ELSE {"auth", "network"}

\* Mutant: the refresh token of the answer is dropped.
BugTokenAnswerKeepsOld(p) ==
    /\ pc[p] = "tokened"
    /\ \/ /\ answer[p].status = "token" /\ InTime(p)
          /\ Take(p, "put", [rec[p] EXCEPT !.at = answer[p].at,
                                           !.expires = since[p] + ExpiresIn - 1])
       \/ /\ answer[p].status # "token"
          /\ \E code \in RefreshErrorExits(p, answer[p].status) : Finish(p, code)
    /\ UNCHANGED <<accounts, now, grant, lost>>

\* Mutant: an error of Refresh is not returned, and the nil record is used.
BugTokenAnswerNoReturn(p) ==
    /\ pc[p] = "tokened"
    /\ \/ /\ answer[p].status = "token" /\ InTime(p)
          /\ Take(p, "put", [rt |-> answer[p].rt, at |-> answer[p].at,
                             expires |-> since[p] + ExpiresIn - 1,
                             scopes |-> rec[p].scopes])
       \/ answer[p].status # "token" /\ Take(p, "put", NoRecord)
    /\ UNCHANGED <<accounts, now, grant, lost>>

\* ExpiresAt counts from the moment Refresh was entered (google.go:277, 296).
TokenAnswer(p) ==
    /\ pc[p] = "tokened"
    /\ \/ /\ answer[p].status = "token" /\ InTime(p)
          /\ Take(p, "put", [rt |-> answer[p].rt, at |-> answer[p].at,
                             expires |-> since[p] + ExpiresIn - 1,
                             scopes |-> rec[p].scopes])
       \/ /\ answer[p].status # "token"
          /\ \E code \in RefreshErrorExits(p, answer[p].status) : Finish(p, code)
    /\ UNCHANGED <<accounts, now, grant, lost>>

\* The request or its answer is lost, or a timeout runs out first: the 30
\* seconds of httpClient, or --timeout of call.
TokenLost(p) ==
    /\ "net" \in Faults
    /\ Asking(p)
    /\ \E code \in RefreshErrorExits(p, "lost") : Finish(p, code)
    /\ Lose(p)
    /\ UNCHANGED <<accounts, now, grant>>

\* Mutant: the record names another account than the one it was read from.
BugPutRefreshedMislabelled(p) ==
    /\ pc[p] = "put"
    /\ \E h \in Handles : accounts' = [accounts EXCEPT ![h] = rec[p]]
    /\ \/ job[p].kind = "login" /\ Finish(p, "ok")
       \/ job[p].kind = "call" /\ Goto(p, "request") /\ UNCHANGED command
    /\ UNCHANGED <<now, grant, lost>>

\* Put of a refreshed (login) or of any (call) record; its error is a warning
\* in login.go:66 and dropped in call.go:185 and 209.
PutRefreshed(p) ==
    /\ pc[p] = "put"
    /\ \/ accounts' = [accounts EXCEPT ![job[p].handle] = rec[p]] /\ UNCHANGED lost
       \/ "store" \in Faults /\ Lose(p) /\ UNCHANGED accounts
    /\ \/ job[p].kind = "login" /\ Finish(p, "ok")
       \/ job[p].kind = "call" /\ Goto(p, "request") /\ UNCHANGED command
    /\ UNCHANGED <<now, grant>>

\* doRequest, at the API: it carries the request out and answers with some
\* status, or refuses the token.
Serve(p) ==
    /\ pc[p] = "request"
    /\ \/ /\ Accepted(rec[p].at)
          /\ served' = [served EXCEPT ![p] = @ + 1]
          /\ \E status \in {"2xx", "4xx", "429", "5xx"} :
                Deliver(p, [status |-> status])
       \/ /\ ~ Accepted(rec[p].at)
          /\ Deliver(p, [status |-> "401"])
          /\ UNCHANGED served
    /\ Goto(p, "replied")
    /\ UNCHANGED <<accounts, now, grant, lost, job, rec, since, retried, exit>>

StatusToExit(status) ==
    CASE status = "2xx" -> "ok"
      [] status = "429" -> "throttled"
      [] status = "5xx" -> "server"
      [] OTHER -> "user"

\* Mutant: server errors are replayed like a 401.
BugReplyRetriesServerErrors(p) ==
    /\ pc[p] = "replied"
    /\ \/ answer[p].status \notin {"401", "5xx"} /\ Finish(p, StatusToExit(answer[p].status))
       \/ /\ answer[p].status \in {"401", "5xx"} /\ ~ retried[p]
          /\ Goto(p, "refresh")
          /\ retried' = [retried EXCEPT ![p] = TRUE]
          /\ Deliver(p, NoAnswer)
          /\ UNCHANGED <<job, rec, since, served, exit>>
       \/ /\ answer[p].status \in {"401", "5xx"} /\ retried[p]
          /\ Finish(p, IF answer[p].status = "401" THEN "auth" ELSE "server")
    /\ UNCHANGED <<accounts, now, grant, lost>>

\* Mutant: every 401 is followed by a replay.
BugReplyRetriesForever(p) ==
    /\ pc[p] = "replied"
    /\ \/ answer[p].status # "401" /\ Finish(p, StatusToExit(answer[p].status))
       \/ /\ answer[p].status = "401"
          /\ Goto(p, "refresh")
          /\ retried' = [retried EXCEPT ![p] = TRUE]
          /\ Deliver(p, NoAnswer)
          /\ UNCHANGED <<job, rec, since, served, exit>>
    /\ UNCHANGED <<accounts, now, grant, lost>>

\* The first 401 is followed by Refresh, which may well keep the token, and by
\* one replay.
Reply(p) ==
    /\ pc[p] = "replied"
    /\ \/ answer[p].status # "401" /\ Finish(p, StatusToExit(answer[p].status))
       \/ /\ answer[p].status = "401" /\ ~ retried[p]
          /\ Goto(p, "refresh")
          /\ retried' = [retried EXCEPT ![p] = TRUE]
          /\ Deliver(p, NoAnswer)
          /\ UNCHANGED <<job, rec, since, served, exit>>
       \/ answer[p].status = "401" /\ retried[p] /\ Finish(p, "auth")
    /\ UNCHANGED <<accounts, now, grant, lost>>

\* client.Do fails, or --timeout runs out: mapNetErr, whether or not the API
\* has carried the request out.
ReplyLost(p) ==
    /\ "net" \in Faults
    /\ pc[p] \in {"request", "replied"}
    /\ Finish(p, "network")
    /\ UNCHANGED <<accounts, now, grant, lost>>

\* Mutant: logout forgets the account without telling the provider.
BugRevokeNot(p) ==
    /\ pc[p] = "revoke"
    /\ Goto(p, "delete")
    /\ UNCHANGED <<accounts, now, grant, lost, command>>

\* Provider.Logout: best effort, and nothing at all for Microsoft.  What fails is
\* a warning, whether or not the provider has acted.
Revoke(p) ==
    LET g == rec[p].rt.grant
        Revoked == grant' = [grant EXCEPT ![g].state = "revoked"]
        Warned == Deliver(p, [status |-> "error"])
    IN  /\ pc[p] = "revoke"
        /\ \/ job[p].handle \in Microsoft /\ UNCHANGED <<grant, answer>>
           \/ job[p].handle \in Google /\ Revoked /\ UNCHANGED answer
           \/ /\ job[p].handle \in Google
              /\ "net" \in Faults \/ grant[g].state # "live"
              /\ Revoked \/ UNCHANGED grant
              /\ Warned
        /\ Goto(p, "delete")
        /\ UNCHANGED <<accounts, now, lost, job, rec, since, retried, served, exit>>

DeleteRecord(p) ==
    LET h == job[p].handle
    IN  /\ pc[p] = "delete"
        /\ \/ /\ accounts[h] # NoRecord
              /\ accounts' = [accounts EXCEPT ![h] = NoRecord]
              /\ Finish(p, "ok")
           \/ /\ accounts[h] = NoRecord \/ "store" \in Faults
              /\ Finish(p, "network")
              /\ UNCHANGED accounts
        /\ UNCHANGED <<now, grant, lost>>

Kill(p) ==
    /\ "kill" \in Faults
    /\ pc[p] # "idle"
    /\ Finish(p, "killed")
    /\ Lose(p)
    /\ UNCHANGED <<accounts, now, grant>>

-----------------------------------------------------------------------------
\* The steps of a process that nothing but its own progress can delay: the
\* code gives up on the token endpoint and on the API after a timeout.
Client(p) ==
    \/ Refuse(p) \/ GetRecord(p) \/ BuildRecord(p) \/ StoreLogin(p) \/ KeepToken(p)
    \/ AskToken(p) \/ TokenAnswer(p) \/ TokenLost(p) \/ PutRefreshed(p)
    \/ Reply(p) \/ ReplyLost(p) \/ DeleteRecord(p)

\* The steps that wait for someone else, with no time limit in the code: the
\* user at the browser, and the revocation endpoint.
Waiting(p) == Consent(p) \/ Revoke(p)

Next ==
    \/ \E p \in Procs :
          \/ \E j \in Jobs : Start(p, j)
          \/ Client(p) \/ Waiting(p) \/ TokenEndpoint(p) \/ Serve(p) \/ Kill(p)
    \/ Tick
    \/ \E g \in Grants : RejectTokens(g) \/ Withdraw(g)

Spec == Init /\ [][Next]_vars

FairSpec == Spec /\ \A p \in Procs : WF_vars(Client(p))

Running(p, kind) == pc[p] # "idle" /\ job[p].kind = kind

-----------------------------------------------------------------------------
\* The refresh token in the store is one the provider honours, unless the
\* consent has ended, a command holds its successor and is about to store it, or
\* the successor went with a lost answer, a failed write or a killed process:
\* nothing else loses the token that the provider has just issued, whatever failed
\* before (google.go:292, microsoft.go:240, login.go:66, call.go:185, 209).
StoredTokenHonoured ==
    \A h \in Handles :
       accounts[h] # NoRecord /\ grant[accounts[h].rt.grant].state = "live"
          => \/ Honoured(accounts[h].rt)
             \/ \E p \in Procs : pc[p] \in {"tokened", "put"} /\ job[p].handle = h
             \/ accounts[h].rt.grant \in lost

\* The tokens stored for an account come from a sign-in to that account, whichever
\* commands hold whose records at the time (login.go:66, call.go:185).
OwnTokensOnly ==
    \A h \in Handles :
       accounts[h] # NoRecord => grant[accounts[h].rt.grant].of = h

\* A Google record is removed only when its consent has been revoked, so that a
\* user whose logout failed can try again: docs/specs/spec-token-storage.md:134,
\* of what logout.go:42 does.
ForgottenIsRevoked ==
    [][\A h \in Google :
          accounts[h] # NoRecord /\ accounts'[h] = NoRecord
             => grant[accounts[h].rt.grant].state = "revoked"]_vars

\* A Google record is removed only when its consent has been revoked or the user of
\* this very logout is told that it may live on: no consent is left behind in
\* silence (logout.go:41, google.go:300).
ForgottenOrWarned ==
    [][\A h \in Google :
          accounts[h] # NoRecord /\ accounts'[h] = NoRecord
             => \/ grant[accounts[h].rt.grant].state = "revoked"
                \/ \E p \in Procs : /\ pc[p] = "delete" /\ job[p].handle = h
                                    /\ answer[p].status = "error"]_vars

\* An account that is not there appears by a sign-in in the browser, and in no
\* other way: a logged-out account stays logged out, although `apl call` and
\* `apl login` store records they have read some time ago (call.go:185).
AppearsBySignIn ==
    [][\A h \in Handles :
          accounts[h] = NoRecord /\ accounts'[h] # NoRecord
             => \E p \in Procs : pc[p] = "store" /\ job[p].handle = h]_vars

\* The exit code of `apl call` tells a caller who may retry whether the API has
\* carried the request out: once with 0, 4 and 5, not at all with 2, and 3 leaves
\* it open.  With 1 the API has answered, once, or nothing was asked of anyone.  No
\* request is carried out twice, whatever is replayed, lost or late (call.go:78,
\* 194, 318).
ExitTellsServed ==
    [][\A p \in Procs :
          /\ served'[p] <= 1
          /\ Running(p, "call") /\ pc'[p] = "idle" =>
                /\ exit'[p] = "auth" => served[p] = 0
                /\ exit'[p] \in {"ok", "throttled", "server"} => served[p] = 1
                /\ exit'[p] = "user" => served[p] = 1 \/ pc[p] = "get"]_vars

\* A token that Refresh keeps lives for more than 30 seconds, although ExpiresAt
\* is reckoned from the arrival of an answer that was up to 30 seconds under way
\* (google.go:237, 278; login.go:19: "still valid (>30s headroom)").
KeptTokenLives ==
    [][\A p \in Procs :
          pc[p] = "refresh" /\ pc'[p] \in {"idle", "put"} /\ exit'[p] # "killed"
             => rec[p].at.until - now > 1]_vars

\* Every `apl call` ends: it replays once, and its timeout covers the refreshes
\* and the requests (call.go:170, 194).
CallsEnd == \A p \in Procs : Running(p, "call") ~> pc[p] = "idle"

-----------------------------------------------------------------------------
(* Progress. *)

\* How many steps a command has before it at most.  A call that has not been refused
\* with 401 yet may have to refresh and to send its request a second time.
Rank(label) ==
    CASE label = "idle" -> 0
      [] label \in {"replied", "store", "delete"} -> 1
      [] label \in {"request", "exchanged", "revoke"} -> 2
      [] label \in {"put", "consent"} -> 3
      [] label = "tokened" -> 4
      [] label = "token" -> 5
      [] label = "refresh" -> 6
      [] label = "get" -> 7

StepsLeft(p) ==
    IF pc[p] = "idle" THEN 0 ELSE Rank(pc[p]) + (IF retried[p] THEN 0 ELSE 7)

\* Every step of a command brings it nearer to its end, and nothing that happens
\* meanwhile takes it back.
CommandsGoForward ==
    [][\A p \in Procs :
          pc[p] # "idle" /\ pc'[p] # pc[p] => StepsLeft(p)' < StepsLeft(p)]_vars

-----------------------------------------------------------------------------
(* Inductive strengthenings. *)

\* Which commands get where.
KindAt ==
    \A p \in Procs :
       /\ pc[p] \in {"consent", "exchanged", "store"} => job[p].kind = "login"
       /\ pc[p] \in {"refresh", "token", "tokened", "put"} => job[p].kind # "logout"
       /\ pc[p] \in {"request", "replied"} => job[p].kind = "call"
       /\ pc[p] \in {"revoke", "delete"} => job[p].kind = "logout"

\* A request has been carried out exactly when another answer than 401 is under
\* way.
ServedOnce ==
    \A p \in Procs :
       served[p] = IF pc[p] = "replied" /\ answer[p].status # "401" THEN 1 ELSE 0

\* ExpiresAt never promises more than the access token lives.
Sound(r) == r # NoRecord => r.expires <= r.at.until

Margins ==
    /\ \A h \in Handles : Sound(accounts[h])
    /\ \A p \in Procs :
          /\ Sound(rec[p])
          /\ since[p] <= now
          /\ pc[p] \in {"exchanged", "tokened"} /\ answer[p].status = "token"
                => since[p] + ExpiresIn <= answer[p].at.until

\* A consent belongs to the account whose sign-in it comes from.
Owned ==
    /\ \A g \in Grants :
          grant[g].state = "unused" => grant[g].of = NoRecord /\ grant[g].gen = 0
    /\ OwnTokensOnly
    /\ \A p \in Procs :
          /\ rec[p] # NoRecord => grant[rec[p].rt.grant].of = job[p].handle
          /\ answer[p].status = "token" => grant[answer[p].rt.grant].of = job[p].handle
          /\ pc[p] = "idle" => rec[p] = NoRecord /\ answer[p].status # "token"

\* A token its provider would honour, if the consent lives and its latest token has
\* not gone.
Good(rt) ==
    \/ grant[rt.grant].state # "live"
    \/ Honoured(rt)
    \/ rt.grant \in lost

\* A command that is to store a record it has read.
Working(p) == pc[p] \in {"refresh", "token", "tokened", "put", "request", "replied"}

\* Where the good token of an account is, step by step of the command that holds it.
InHandOf(p) ==
    /\ Working(p) \/ pc[p] \in {"revoke", "delete"}
          => /\ accounts[job[p].handle] # NoRecord
             /\ rec[p].rt.grant = accounts[job[p].handle].rt.grant
    /\ pc[p] \in {"store", "refresh", "token", "put", "request", "replied"}
          => Good(rec[p].rt)
    /\ pc[p] \in {"exchanged", "tokened"} /\ answer[p].status = "token"
          => Good(answer[p].rt)
    /\ pc[p] = "tokened" /\ answer[p].status = "token"
          => answer[p].rt.grant = rec[p].rt.grant
    /\ pc[p] = "tokened" /\ answer[p].status # "token"
          => Good(rec[p].rt) /\ Good(accounts[job[p].handle].rt)
    /\ pc[p] = "delete" /\ job[p].handle \in Google
          => grant[rec[p].rt.grant].state = "revoked" \/ answer[p].status = "error"

InHand == \A p \in Procs : InHandOf(p)

\* It finds the account there still.
AccountThere ==
    \A p \in Procs : Working(p) => accounts[job[p].handle] # NoRecord

\* Conditions under which the properties above hold for several processes.  No two
\* commands hold a record of one account at a time; commands on different accounts
\* overlap as they like.
Holding(p) == pc[p] \notin {"idle", "get", "consent"}

HandsApart ==
    \A p, q \in Procs :
       Holding(p) /\ Holding(q) /\ job[p].handle = job[q].handle => p = q

\* No logout is about to delete an account while such a command is under way.
LogoutsApart ==
    \A p, q \in Procs :
       pc[p] = "delete" /\ Working(q) => job[p].handle # job[q].handle

\* One command at a time.
OneProcess == \A p, q \in Procs : p = q
=============================================================================

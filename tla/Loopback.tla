------------------------------- MODULE Loopback -------------------------------
(***************************************************************************)
(* internal/oauth/flow.go and loopback.go: a sign-in in the browser.       *)
(*                                                                         *)
(* RunFlow starts an HTTP server on a free port of 127.0.0.1, opens the    *)
(* provider's consent page and waits for the page to send the browser back *)
(* to that port with a code.  Besides RunFlow a flow has a goroutine that  *)
(* serves, one that watches the context, and one for each request.  The    *)
(* tab stays in the browser: it can call back again, and it can call back  *)
(* when its port belongs to another flow.                                  *)
(*                                                                         *)
(* The state and the verifier of a flow are random and its own, and are    *)
(* named by the flow; a code is named by the flow it was issued for.       *)
(***************************************************************************)
EXTENDS Naturals, Sequences

CONSTANTS
    Flows,        \* the runs of RunFlow
    Ports,        \* ports of 127.0.0.1
    Requests,     \* HTTP requests to them
    Cancellable,  \* those whose caller may end the context
    Faults,       \* the failures that may occur
    NoPort, NoFlow

ASSUME LoopbackAssumption ==
    /\ NoPort \notin Ports
    /\ NoFlow \notin Flows
    /\ Cancellable \subseteq Flows
    /\ Faults \subseteq {"kill", "url", "open", "net"}

VARIABLES
    flow,      \* per flow: where RunFlow stands
    outcome,   \* per flow: what it returns
    port,      \* per flow: the port of its redirect URI
    serving,   \* per flow: the goroutine that serves
    watcher,   \* per flow: the goroutine that watches the context
    ctx,       \* per flow: the context is done
    closing,   \* per flow: how far Close has come
    sent,      \* per flow: all that was sent on resultCh
    waited,    \* per flow: Wait has received from it
    tab,       \* per flow: its page in the browser
    request,   \* the requests
    presented  \* the token endpoint: the flows that presented a flow's code

server == <<port, serving, watcher, ctx, closing>>
channel == <<sent, waited>>
world == <<tab, presented>>
vars == <<flow, outcome, server, channel, world, request>>

-----------------------------------------------------------------------------
FlowSteps == {"new", "listening", "waiting", "exchanging", "closing",
              "blocked", "returned", "killed"}

Outcomes == {"none", "tokens", "denied", "mismatch", "cancelled", "closed", "failed"}

\* What a callback carries: the state and the code of the flow the page was
\* opened for, or an error; a probe (favicon.ico) carries neither.
Queries == [kind : {"code", "error", "probe"}, state : Flows \union {NoFlow}]

\* callbackResult.
Results == [kind : {"code", "error"}, state : Flows \union {NoFlow}]

\* What the page shows, and sends the browser back with.
Tabs == {"nothing", "consent", "code", "error"}

NoQuery == [kind |-> "probe", state |-> NoFlow]

\* A request is finished when its handler has returned with the page in the buffer of
\* the response, and ended when the browser has the page, or never will have.
RequestSteps == {"unsent", "queued", "handled", "finished", "ended"}

HTTPRequests == [step : RequestSteps,
                 to : Flows \union {NoFlow}, query : Queries]

\* Nothing is kept of a request that is over.
NoRequest(step) == [step |-> step, to |-> NoFlow, query |-> NoQuery]

\* A request at work has a flow.
RequestOK(r) == request[r].to = NoFlow <=> request[r].step \in {"unsent", "ended"}

TypeOK ==
    /\ flow \in [Flows -> FlowSteps]
    /\ outcome \in [Flows -> Outcomes]
    /\ port \in [Flows -> Ports \union {NoPort}]
    /\ serving \in [Flows -> {"no", "starting", "yes", "ended"}]
    /\ watcher \in [Flows -> {"no", "watching", "blocked", "ended"}]
    /\ ctx \in [Flows -> BOOLEAN]
    /\ closing \in [Flows -> {"no", "begun", "draining", "closed"}]
    /\ sent \in [Flows -> Seq(Results)]
    /\ waited \in [Flows -> BOOLEAN]
    /\ tab \in [Flows -> Tabs]
    /\ request \in [Requests -> HTTPRequests]
    /\ presented \in [Flows -> SUBSET Flows]
    /\ \A r \in Requests : RequestOK(r)

Init ==
    /\ flow = [f \in Flows |-> "new"]
    /\ outcome = [f \in Flows |-> "none"]
    /\ port = [f \in Flows |-> NoPort]
    /\ serving = [f \in Flows |-> "no"]
    /\ watcher = [f \in Flows |-> "no"]
    /\ ctx = [f \in Flows |-> FALSE]
    /\ closing = [f \in Flows |-> "no"]
    /\ sent = [f \in Flows |-> << >>]
    /\ waited = [f \in Flows |-> FALSE]
    /\ tab = [f \in Flows |-> "nothing"]
    /\ request = [r \in Requests |-> NoRequest("unsent")]
    /\ presented = [f \in Flows |-> {}]

-----------------------------------------------------------------------------
(* RunFlow. *)

Goto(f, step) == flow' = [flow EXCEPT ![f] = step]

\* The way out by which Close has still to run.
Leave(f, result) ==
    /\ Goto(f, "closing")
    /\ outcome' = [outcome EXCEPT ![f] = result]

Listens(f, p) == port[f] = p /\ serving[f] \in {"starting", "yes"}

\* NewLoopbackServer: bind a free port, start both goroutines.
Listen(f) ==
    /\ flow[f] = "new"
    /\ \/ /\ \E p \in {q \in Ports : \A g \in Flows : ~ Listens(g, q)} :
                port' = [port EXCEPT ![f] = p]
          /\ serving' = [serving EXCEPT ![f] = "starting"]
          /\ watcher' = [watcher EXCEPT ![f] = "watching"]
          /\ Goto(f, "listening")
          /\ UNCHANGED outcome
       \/ /\ "net" \in Faults
          /\ Goto(f, "returned")
          /\ outcome' = [outcome EXCEPT ![f] = "failed"]
          /\ UNCHANGED <<port, serving, watcher>>
    /\ UNCHANGED <<ctx, closing, channel, world, request>>

\* AuthURLBuilder, and Open, whose error is ignored.
OpenBrowser(f) ==
    /\ flow[f] = "listening"
    /\ \/ /\ tab' = [tab EXCEPT ![f] = "consent"]
          /\ Goto(f, "waiting")
          /\ UNCHANGED outcome
       \/ "open" \in Faults /\ Goto(f, "waiting") /\ UNCHANGED <<tab, outcome>>
       \/ "url" \in Faults /\ Leave(f, "failed") /\ UNCHANGED tab
    /\ UNCHANGED <<server, channel, presented, request>>

\* A result that nobody has received yet; resultCh holds one.
Pending(f) == Len(sent[f]) > (IF waited[f] THEN 1 ELSE 0)

\* Mutant: the state is not compared.
BugCheckNoState(f, result) ==
    IF result.kind = "error" THEN Leave(f, "denied")
    ELSE Goto(f, "exchanging") /\ UNCHANGED outcome

\* Mutant: the state is compared first, and an error has none.
BugCheckStateFirst(f, result) ==
    IF result.state # f THEN Leave(f, "mismatch")
    ELSE Goto(f, "exchanging") /\ UNCHANGED outcome

\* The end of Wait: an error first, then the state.
Check(f, result) ==
    \/ result.kind = "error" /\ Leave(f, "denied")
    \/ result.kind = "code" /\ result.state # f /\ Leave(f, "mismatch")
    \/ result.kind = "code" /\ result.state = f /\ Goto(f, "exchanging") /\ UNCHANGED outcome

\* The select of Wait: whichever is ready, and any of them if several are.
Wait(f) ==
    /\ flow[f] = "waiting"
    /\ \/ /\ Pending(f)
          /\ waited' = [waited EXCEPT ![f] = TRUE]
          /\ Check(f, Head(sent[f]))
       \/ ctx[f] /\ Leave(f, "cancelled") /\ UNCHANGED waited
       \/ closing[f] # "no" /\ Leave(f, "closed") /\ UNCHANGED waited
    /\ UNCHANGED <<server, sent, world, request>>

\* ExchangeCode.  The token endpoint takes a code once, from the flow whose
\* verifier made its challenge.  The request may not arrive, or its answer may
\* not, and no answer is awaited when the context is done.
Exchange(f) ==
    LET g == Head(sent[f]).state
    IN  /\ flow[f] = "exchanging"
        /\ \/ /\ presented' = [presented EXCEPT ![g] = @ \union {f}]
              /\ \/ Leave(f, IF g = f /\ presented[g] = {} THEN "tokens" ELSE "failed")
                 \/ ("net" \in Faults \/ ctx[f]) /\ Leave(f, "failed")
           \/ /\ "net" \in Faults \/ ctx[f]
              /\ Leave(f, "failed")
              /\ UNCHANGED presented
        /\ UNCHANGED <<server, channel, tab, request>>

-----------------------------------------------------------------------------
(* Close, by RunFlow's defer or by the goroutine that watches the context.  *)
(* sync.Once lets the first in and makes the other one wait for its return. *)

BeginClose(f) == closing' = [closing EXCEPT ![f] = "begun"]

DeferredClose(f) ==
    /\ \/ flow[f] = "closing" /\ closing[f] = "no" /\ BeginClose(f) /\ Goto(f, "blocked")
       \/ /\ flow[f] = "closing" /\ closing[f] # "no" /\ Goto(f, "blocked")
          /\ UNCHANGED closing
       \/ /\ flow[f] = "blocked" /\ closing[f] = "closed" /\ Goto(f, "returned")
          /\ UNCHANGED closing
    /\ UNCHANGED <<outcome, port, serving, watcher, ctx, channel, world, request>>

\* Mutant: the select has no case for closed.
BugWatchContextOnly(f) ==
    /\ \/ /\ watcher[f] = "watching" /\ ctx[f]
          /\ watcher' = [watcher EXCEPT ![f] = "blocked"]
          /\ IF closing[f] = "no" THEN BeginClose(f) ELSE UNCHANGED closing
       \/ /\ watcher[f] = "blocked" /\ closing[f] = "closed"
          /\ watcher' = [watcher EXCEPT ![f] = "ended"]
          /\ UNCHANGED closing
    /\ UNCHANGED <<flow, outcome, port, serving, ctx, channel, world, request>>

WatchContext(f) ==
    /\ \/ /\ watcher[f] = "watching" /\ ctx[f]
          /\ watcher' = [watcher EXCEPT ![f] = "blocked"]
          /\ IF closing[f] = "no" THEN BeginClose(f) ELSE UNCHANGED closing
       \/ /\ watcher[f] = "watching" /\ closing[f] # "no"
          /\ watcher' = [watcher EXCEPT ![f] = "ended"]
          /\ UNCHANGED closing
       \/ /\ watcher[f] = "blocked" /\ closing[f] = "closed"
          /\ watcher' = [watcher EXCEPT ![f] = "ended"]
          /\ UNCHANGED closing
    /\ UNCHANGED <<flow, outcome, port, serving, ctx, channel, world, request>>

\* The requests of a flow that are at one of the given steps.
RequestsOf(f, steps) == {r \in Requests : request[r].to = f /\ request[r].step \in steps}

Drop(f, steps) ==
    request' = [r \in Requests |->
                  IF r \in RequestsOf(f, steps) THEN NoRequest("ended") ELSE request[r]]

\* A listener that is closed resets the connections nobody has accepted.
CloseListener(f) ==
    /\ serving' = [serving EXCEPT ![f] = "ended"]
    /\ Drop(f, {"queued"})

\* Shutdown closes the listeners that Serve has registered ...
Shutdown(f) ==
    /\ closing[f] = "begun"
    /\ closing' = [closing EXCEPT ![f] = "draining"]
    /\ \/ serving[f] = "yes" /\ CloseListener(f)
       \/ serving[f] # "yes" /\ UNCHANGED <<serving, request>>
    /\ UNCHANGED <<flow, outcome, port, watcher, ctx, channel, world>>

\* Mutant: Server.Close, which waits for nobody.
BugDrainNot(f) ==
    /\ closing[f] = "draining"
    /\ closing' = [closing EXCEPT ![f] = "closed"]
    /\ UNCHANGED <<flow, outcome, port, serving, watcher, ctx, channel, world, request>>

\* Requests whose connection is not idle: their handlers are at work, or their answers
\* wait to be sent.
Served(f) == RequestsOf(f, {"handled", "finished"})

\* ... and returns when all connections are idle.
Drain(f) ==
    /\ closing[f] = "draining"
    /\ Served(f) = {}
    /\ closing' = [closing EXCEPT ![f] = "closed"]
    /\ UNCHANGED <<flow, outcome, port, serving, watcher, ctx, channel, world, request>>

-----------------------------------------------------------------------------
(* The server. *)

\* Serve: it registers the listener, or closes it if Shutdown came first.
Serve(f) ==
    /\ serving[f] = "starting"
    /\ \/ /\ closing[f] \in {"no", "begun"}
          /\ serving' = [serving EXCEPT ![f] = "yes"]
          /\ UNCHANGED request
       \/ closing[f] \in {"draining", "closed"} /\ CloseListener(f)
    /\ UNCHANGED <<flow, outcome, port, watcher, ctx, closing, channel, world>>

End(r) == request' = [request EXCEPT ![r] = NoRequest("ended")]

Accept(r) ==
    /\ request[r].step = "queued"
    /\ serving[request[r].to] = "yes"
    /\ request' = [request EXCEPT ![r].step = "handled"]
    /\ UNCHANGED <<flow, outcome, server, channel, world>>

\* handleCallback returns; what it has written is in the buffer of the response still.
Return(r) == request' = [request EXCEPT ![r].step = "finished", ![r].query = NoQuery]

\* What a callback brings: an error has no state.
ResultOf(query) ==
    [kind |-> query.kind, state |-> IF query.kind = "error" THEN NoFlow ELSE query.state]

Deliver(r) == sent' = [sent EXCEPT ![request[r].to] = Append(@, ResultOf(request[r].query))]

\* Mutant: requests with neither code nor error are not told apart.
BugHandleCallbackProbe(r) ==
    /\ request[r].step = "handled"
    /\ IF Pending(request[r].to) THEN UNCHANGED sent ELSE Deliver(r)
    /\ Return(r)
    /\ UNCHANGED <<flow, outcome, server, waited, world>>

\* Mutant: a plain send on resultCh.
BugHandleCallbackBlocks(r) ==
    /\ request[r].step = "handled"
    /\ \/ request[r].query.kind = "probe" /\ UNCHANGED sent
       \/ request[r].query.kind # "probe" /\ ~ Pending(request[r].to) /\ Deliver(r)
    /\ Return(r)
    /\ UNCHANGED <<flow, outcome, server, waited, world>>

\* Mutant: the latest result replaces the one that waits in resultCh.
BugHandleCallbackReplaces(r) ==
    LET f == request[r].to
    IN  /\ request[r].step = "handled"
        /\ \/ request[r].query.kind = "probe" /\ UNCHANGED sent
           \/ request[r].query.kind # "probe" /\ ~ Pending(f) /\ Deliver(r)
           \/ /\ request[r].query.kind # "probe" /\ Pending(f)
              /\ sent' = [sent EXCEPT ![f][Len(sent[f])] = ResultOf(request[r].query)]
        /\ Return(r)
        /\ UNCHANGED <<flow, outcome, server, waited, world>>

\* Mutant: a single-shot server that closes itself after the first callback.
BugHandleCallbackCloses(r) ==
    LET f == request[r].to
    IN  /\ request[r].step = "handled"
        /\ IF request[r].query.kind = "probe" \/ Pending(f) THEN UNCHANGED sent ELSE Deliver(r)
        /\ IF request[r].query.kind # "probe" /\ closing[f] = "no"
           THEN BeginClose(f) ELSE UNCHANGED closing
        /\ Return(r)
        /\ UNCHANGED <<flow, outcome, port, serving, watcher, ctx, waited, world>>

\* handleCallback: a probe gets 404 and nothing else happens; the others get the
\* page "Signed in", whatever they carry, and what they carry is sent on resultCh,
\* or dropped if that is full.  Nobody sees the page before the handler returns.
HandleCallback(r) ==
    LET callback == request[r].query.kind # "probe"
        full == Pending(request[r].to)
    IN  /\ request[r].step = "handled"
        /\ \/ callback /\ ~ full /\ Deliver(r)
           \/ (callback => full) /\ UNCHANGED sent
        /\ Return(r)
        /\ UNCHANGED <<flow, outcome, server, waited, world>>

\* net/http sends the page and takes the connection for idle.
Flush(r) ==
    /\ request[r].step = "finished"
    /\ End(r)
    /\ UNCHANGED <<flow, outcome, server, channel, world>>

-----------------------------------------------------------------------------
(* The world around: the user, the browser, the caller of RunFlow. *)

\* A request for a port goes to the flow that listens on it, if there is one.
SendTo(r, p, query) ==
    /\ request[r].step = "unsent"
    /\ \/ \E f \in Flows :
             /\ Listens(f, p)
             /\ request' = [request EXCEPT ![r] =
                              [step |-> "queued", to |-> f, query |-> query]]
       \/ (\A f \in Flows : ~ Listens(f, p)) /\ End(r)

\* The user consents or denies, and the page sends the browser back.
Decide(f, r) ==
    /\ tab[f] = "consent"
    /\ \E answer \in {"code", "error"} :
          /\ tab' = [tab EXCEPT ![f] = answer]
          /\ SendTo(r, port[f], [kind |-> answer, state |-> f])
    /\ UNCHANGED <<flow, outcome, server, channel, presented>>

\* The browser sends the callback again (a reload, a restored tab).
Reload(f, r) ==
    /\ tab[f] \in {"code", "error"}
    /\ SendTo(r, port[f], [kind |-> tab[f], state |-> f])
    /\ UNCHANGED <<flow, outcome, server, channel, world>>

Probe(r) ==
    /\ \E p \in Ports : SendTo(r, p, NoQuery)
    /\ UNCHANGED <<flow, outcome, server, channel, world>>

\* RunFlow's caller gives up.
Cancel(f) ==
    /\ f \in Cancellable
    /\ ~ ctx[f]
    /\ flow[f] \notin {"new", "returned", "killed"}
    /\ ctx' = [ctx EXCEPT ![f] = TRUE]
    /\ UNCHANGED <<flow, outcome, port, serving, watcher, closing, channel, world, request>>

\* The process ends, and with it all its goroutines and its socket.
Kill(f) ==
    /\ "kill" \in Faults
    /\ flow[f] \notin {"new", "killed"}
    /\ Goto(f, "killed")
    /\ serving' = [serving EXCEPT ![f] = "ended"]
    /\ watcher' = [watcher EXCEPT ![f] = "ended"]
    /\ closing' = [closing EXCEPT ![f] = "closed"]
    /\ Drop(f, {"queued", "handled", "finished"})
    /\ UNCHANGED <<outcome, port, ctx, channel, world>>

-----------------------------------------------------------------------------
RunFlow(f) == Listen(f) \/ OpenBrowser(f) \/ Wait(f) \/ Exchange(f) \/ DeferredClose(f)

Close(f) == Shutdown(f) \/ Drain(f)

Handler(r) == Accept(r) \/ HandleCallback(r) \/ Flush(r)

Next ==
    \/ \E f \in Flows :
          \/ RunFlow(f) \/ Close(f) \/ Serve(f) \/ WatchContext(f)
          \/ Cancel(f) \/ Kill(f)
          \/ \E r \in Requests : Decide(f, r) \/ Reload(f, r)
    \/ \E r \in Requests : Handler(r) \/ Probe(r)

Spec == Init /\ [][Next]_vars

\* The goroutines of a process run; users, browsers and callers may not.
Fairness ==
    /\ \A f \in Flows : /\ WF_vars(RunFlow(f)) /\ WF_vars(Close(f))
                        /\ WF_vars(Serve(f)) /\ WF_vars(WatchContext(f))
    /\ \A r \in Requests : WF_vars(Handler(r))

FairSpec == Spec /\ Fairness

-----------------------------------------------------------------------------
\* A code is shown to the token endpoint by the flow it was issued for and by no
\* other, whichever tab calls back at which port and when; and RunFlow returns
\* tokens only if the user consented on the page it opened (loopback.go:127,
\* flow.go:54).
OwnConsentOnly ==
    \A f \in Flows :
       /\ presented[f] \subseteq {f}
       /\ outcome[f] = "tokens" => tab[f] = "code"

\* What RunFlow may return once Wait has received the result.
Told(f, result) ==
    IF result.kind = "error" THEN {"denied"}
    ELSE IF result.state # f THEN {"mismatch"} ELSE {"none", "tokens", "failed"}

\* The first callback decides the flow, and no later one changes that
\* (loopback.go:101 "drop subsequent callbacks").
FirstCallbackDecides ==
    /\ [](\A f \in Flows : waited[f] => outcome[f] \in Told(f, Head(sent[f])))
    /\ [][\A f \in Flows : sent[f] # << >> => Head(sent'[f]) = Head(sent[f])]_sent

\* Whoever was told the sign-in is cancelled has asked for it: Close, which
\* RunFlow defers and the watching goroutine may call, never takes the answer
\* from a flow whose context is alive (loopback.go:70, 118).
OnlyCallerCancels ==
    \A f \in Flows :
       /\ outcome[f] \in {"cancelled", "closed"} => ctx[f]
       /\ closing[f] # "no" /\ ~ ctx[f] => flow[f] \in {"blocked", "returned", "killed"}

\* RunFlow returns, and its process may end, only when every browser whose
\* request was accepted has its answer: the page of the callback that decides is
\* not on the wire yet when its result is received, and only Close waits for it
\* (loopback.go:91, 102, 139).
PagesServed ==
    \A f \in Flows :
       flow[f] = "returned" => Served(f) = {}

\* A callback ends the flow, whatever else the browser sends and whoever else
\* closes: no handler waits for a receiver that has gone, and neither of the two
\* that close waits for the other in vain (loopback.go:101, 134).
CallbackEndsFlow ==
    \A f \in Flows :
       (\E r \in RequestsOf(f, {"handled"}) : request[r].query.kind # "probe")
          ~> flow[f] \in {"returned", "killed"}

\* A flow that has returned leaves nothing behind: its port is free and both
\* goroutines end, even if it returned before Serve was under way.
ReturnReleases ==
    \A f \in Flows :
       flow[f] = "returned" ~> /\ serving[f] \in {"no", "ended"}
                               /\ watcher[f] \in {"no", "ended"}

\* What a flow hears is the first result sent to it.
Heard(f) == IF sent[f] = << >> THEN [kind |-> "none", state |-> NoFlow] ELSE Head(sent[f])

\* All of this together is a sign-in that hears one answer, ends once, as that answer
\* or its caller would have it, and redeems no code but its own and that once, as
\* RunFlow's callers take it to be (flow.go:18, 47).
Promised == INSTANCE SignIn WITH
    consented <- {f \in Flows : tab[f] = "code"},
    asked <- ctx,
    heard <- [f \in Flows |-> Heard(f)],
    told <- outcome

ImplementsSignIn == Promised!Spec

-----------------------------------------------------------------------------
(* Progress. *)

\* Whoever waits, waits for somebody who can go on: for a Close that has begun, for
\* a server that has still to accept the connection; and what RunFlow leaves behind
\* when it returns has its end in sight, which is a closed server.
NobodyWaitsInVain ==
    \A f \in Flows :
       /\ flow[f] = "blocked" \/ watcher[f] = "blocked" => closing[f] # "no"
       /\ RequestsOf(f, {"queued"}) # {} => serving[f] \in {"starting", "yes"}
       /\ flow[f] = "returned" =>
             /\ serving[f] # "yes"
             /\ serving[f] = "starting" \/ watcher[f] \in {"watching", "blocked"}
                  => closing[f] = "closed"

FlowRank(step) ==
    CASE step = "new" -> 7
      [] step = "listening" -> 6
      [] step = "waiting" -> 5
      [] step = "exchanging" -> 4
      [] step = "closing" -> 3
      [] step = "blocked" -> 2
      [] step = "returned" -> 1
      [] step = "killed" -> 0

\* ... of the server, of the watching goroutine, and of Close.
Rank(step) ==
    CASE step = "no" -> 3
      [] step \in {"starting", "watching", "begun"} -> 2
      [] step \in {"yes", "blocked", "draining"} -> 1
      [] step \in {"ended", "closed"} -> 0

RequestRank(step) ==
    CASE step = "unsent" -> 4
      [] step = "queued" -> 3
      [] step = "handled" -> 2
      [] step = "finished" -> 1
      [] step = "ended" -> 0

\* How many steps the goroutines of a flow have before them at most.
StepsLeft(f) == FlowRank(flow[f]) + Rank(serving[f]) + Rank(watcher[f]) + Rank(closing[f])

\* Nobody goes back: every step of a goroutine and of a handler brings it nearer to
\* its end, and nothing else does anything to them.
FlowsGoForward ==
    [][/\ \A f \in Flows :
             <<flow[f], serving[f], watcher[f], closing[f]>>'
                 # <<flow[f], serving[f], watcher[f], closing[f]>>
               => StepsLeft(f)' < StepsLeft(f)
       /\ \A r \in Requests :
             request'[r] # request[r]
               => RequestRank(request'[r].step) < RequestRank(request[r].step)]_vars

-----------------------------------------------------------------------------
(* Inductive strengthenings. *)

\* A code is about only when the user of its flow has consented.
CodesFollowConsent ==
    /\ \A f \in Flows : flow[f] \in {"new", "listening"} => tab[f] = "nothing"
    /\ \A r \in Requests :
          request[r].query.kind = "code" =>
             \E g \in Flows : request[r].query.state = g /\ tab[g] = "code"
    /\ \A f \in Flows : \A i \in DOMAIN sent[f] :
          sent[f][i].kind = "code" =>
             \E g \in Flows : sent[f][i].state = g /\ tab[g] = "code"

\* Wait receives once, and what it received decides.
WaitsOnce ==
    \A f \in Flows :
       /\ waited[f] => /\ sent[f] # << >>
                       /\ flow[f] \notin {"new", "listening", "waiting"}
                       /\ outcome[f] \in Told(f, Head(sent[f]))
       /\ flow[f] = "exchanging" => /\ waited[f]
                                    /\ Head(sent[f]).kind = "code"
                                    /\ Head(sent[f]).state = f
       /\ flow[f] \in {"new", "listening", "waiting", "exchanging"} => outcome[f] = "none"

\* A server that shuts down accepts nothing more, and is closed when it has
\* answered everything.
ServesToTheEnd ==
    \A f \in Flows :
       /\ closing[f] \in {"draining", "closed"} => serving[f] # "yes"
       /\ closing[f] = "closed" \/ serving[f] = "no"
             => Served(f) = {}
       /\ flow[f] = "returned" => closing[f] = "closed" \/ serving[f] = "no"
       /\ flow[f] = "new" => serving[f] = "no"

\* Whoever waits for Close waits for one that has begun.  The two goroutines of a flow
\* are started together.
ClosesBegun ==
    \A f \in Flows :
       /\ flow[f] = "blocked" \/ watcher[f] = "blocked" => closing[f] # "no"
       /\ watcher[f] = "no" <=> serving[f] = "no"

\* A connection waits in the queue of a listener that is open.
QueuesOpen ==
    \A r \in Requests :
       request[r].step = "queued" => serving[request[r].to] \in {"starting", "yes"}
=============================================================================

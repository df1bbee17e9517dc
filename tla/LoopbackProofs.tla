---------------------------- MODULE LoopbackProofs ----------------------------
(***************************************************************************)
(* Theorems about Loopback, for any number of sign-ins, ports and requests *)
(* and whichever failures occur: its type correctness and its safety       *)
(* properties.                                                             *)
(***************************************************************************)
EXTENDS Loopback, TLAPS

\* Requests that are dropped are still requests.
LEMMA DropTyped ==
    ASSUME TypeOK, NEW f \in Flows, NEW steps, Drop(f, steps)
    PROVE  /\ request' \in [Requests -> HTTPRequests]
           /\ \A r \in Requests : RequestOK(r)'
BY LoopbackAssumption DEF TypeOK, RequestOK, Drop, NoRequest, NoQuery, HTTPRequests, RequestSteps, Queries

\* So are those that end, are handled, or are sent.
LEMMA EndTyped ==
    ASSUME TypeOK, NEW r \in Requests, End(r)
    PROVE  /\ request' \in [Requests -> HTTPRequests]
           /\ \A q \in Requests : RequestOK(q)'
BY LoopbackAssumption DEF TypeOK, RequestOK, End, NoRequest, NoQuery, HTTPRequests, RequestSteps, Queries

LEMMA ReturnTyped ==
    ASSUME TypeOK, NEW r \in Requests, request[r].step = "handled", Return(r)
    PROVE  /\ request' \in [Requests -> HTTPRequests]
           /\ \A q \in Requests : RequestOK(q)'
<1>1. request[r] \in HTTPRequests /\ NoQuery \in Queries /\ "finished" \in RequestSteps
  BY DEF TypeOK, NoQuery, Queries, RequestSteps
<1>2. /\ request'[r] = [[request[r] EXCEPT !.step = "finished"] EXCEPT !.query = NoQuery]
      /\ DOMAIN request' = Requests
      /\ \A q \in Requests \ {r} : request'[q] = request[q]
      /\ request' = [request EXCEPT ![r] = request'[r]]
  BY DEF Return, TypeOK
<1>3. /\ request'[r] \in HTTPRequests
      /\ request'[r].to = request[r].to /\ request'[r].step = "finished"
  BY <1>1, <1>2 DEF HTTPRequests
<1>4. \A q \in Requests : request'[q] \in HTTPRequests
  BY <1>2, <1>3 DEF TypeOK
<1>5. request' \in [Requests -> HTTPRequests]
  BY <1>2, <1>4 DEF Return
<1>6. request'[r].to # NoFlow
  BY <1>3 DEF TypeOK, RequestOK
<1> QED
  BY <1>2, <1>3, <1>5, <1>6 DEF TypeOK, RequestOK

LEMMA SendTyped ==
    ASSUME TypeOK, NEW r \in Requests, NEW p, NEW query \in Queries, SendTo(r, p, query)
    PROVE  /\ request' \in [Requests -> HTTPRequests]
           /\ \A q \in Requests : RequestOK(q)'
<1>1. CASE End(r)
  BY <1>1, EndTyped
<1>2. CASE \E f \in Flows : request' = [request EXCEPT ![r] =
                              [step |-> "queued", to |-> f, query |-> query]]
  BY <1>2, LoopbackAssumption DEF TypeOK, RequestOK, HTTPRequests, RequestSteps
<1> QED
  BY <1>1, <1>2 DEF SendTo

LEMMA ListenerTyped ==
    ASSUME TypeOK, NEW f \in Flows, CloseListener(f)
    PROVE  /\ serving' \in [Flows -> {"no", "starting", "yes", "ended"}]
           /\ request' \in [Requests -> HTTPRequests]
           /\ \A r \in Requests : RequestOK(r)'
BY DropTyped DEF CloseListener, TypeOK

\* What a request carries arrives as a result.
LEMMA ResultTyped ==
    ASSUME NEW query \in Queries, query.kind # "probe"
    PROVE  ResultOf(query) \in Results
BY DEF ResultOf, Queries, Results

-----------------------------------------------------------------------------
\* RunFlow goes one step on, and may fix what it returns.
LEMMA GotoTyped ==
    ASSUME TypeOK, NEW f \in Flows, NEW step \in FlowSteps, Goto(f, step)
    PROVE  flow' \in [Flows -> FlowSteps]
BY DEF TypeOK, Goto

LEMMA LeaveTyped ==
    ASSUME TypeOK, NEW f \in Flows, NEW result \in Outcomes, Leave(f, result)
    PROVE  flow' \in [Flows -> FlowSteps] /\ outcome' \in [Flows -> Outcomes]
BY DEF TypeOK, Leave, Goto, FlowSteps

LEMMA TypeStep ==
    ASSUME TypeOK, [Next]_vars
    PROVE  TypeOK'
<1>1. ASSUME NEW f \in Flows, Listen(f)
      PROVE  TypeOK'
  <2>1. flow' \in [Flows -> FlowSteps]
    BY <1>1, GotoTyped DEF Listen, FlowSteps
  <2>2. outcome' \in [Flows -> Outcomes]
    BY <1>1 DEF Listen, TypeOK, Outcomes
  <2>3. port' \in [Flows -> Ports \union {NoPort}]
    BY <1>1 DEF Listen, TypeOK
  <2>4. /\ serving' \in [Flows -> {"no", "starting", "yes", "ended"}]
        /\ watcher' \in [Flows -> {"no", "watching", "blocked", "ended"}]
    <3>1. CASE UNCHANGED <<serving, watcher>>
      BY <3>1 DEF TypeOK
    <3>2. CASE /\ serving' = [serving EXCEPT ![f] = "starting"]
               /\ watcher' = [watcher EXCEPT ![f] = "watching"]
      BY <3>2 DEF TypeOK
    <3> QED
      BY <1>1, <3>1, <3>2 DEF Listen
  <2> QED
    BY <1>1, <2>1, <2>2, <2>3, <2>4 DEF Listen, TypeOK, RequestOK, channel, world
<1>2. ASSUME NEW f \in Flows, OpenBrowser(f)
      PROVE  TypeOK'
  <2>1. flow' \in [Flows -> FlowSteps] /\ outcome' \in [Flows -> Outcomes]
    <3>1. CASE Leave(f, "failed")
      BY <3>1, LeaveTyped DEF Outcomes
    <3>2. CASE Goto(f, "waiting") /\ UNCHANGED outcome
      BY <3>2, GotoTyped DEF FlowSteps, TypeOK
    <3> QED
      BY <1>2, <3>1, <3>2 DEF OpenBrowser
  <2>2. tab' \in [Flows -> Tabs]
    BY <1>2 DEF OpenBrowser, TypeOK, Tabs
  <2> QED
    BY <1>2, <2>1, <2>2 DEF OpenBrowser, TypeOK, RequestOK, server, channel
<1>3. ASSUME NEW f \in Flows, Wait(f)
      PROVE  TypeOK'
  <2>1. flow' \in [Flows -> FlowSteps] /\ outcome' \in [Flows -> Outcomes]
    <3>1. ASSUME NEW result \in {"denied", "mismatch", "cancelled", "closed"}, Leave(f, result)
          PROVE  flow' \in [Flows -> FlowSteps] /\ outcome' \in [Flows -> Outcomes]
      BY <3>1, LeaveTyped DEF Outcomes
    <3>2. CASE Goto(f, "exchanging") /\ UNCHANGED outcome
      BY <3>2, GotoTyped DEF FlowSteps, TypeOK
    <3> QED
      BY <1>3, <3>1, <3>2 DEF Wait, Check
  <2>2. waited' \in [Flows -> BOOLEAN]
    BY <1>3 DEF Wait, TypeOK
  <2> QED
    BY <1>3, <2>1, <2>2 DEF Wait, TypeOK, RequestOK, server, world
<1>4. ASSUME NEW f \in Flows, Exchange(f)
      PROVE  TypeOK'
  <2>1. presented' \in [Flows -> SUBSET Flows]
    <3> DEFINE g == Head(sent[f]).state
    <3>1. \/ UNCHANGED presented
          \/ presented' = [presented EXCEPT ![g] = @ \union {f}]
      BY <1>4 DEF Exchange
    <3> HIDE DEF g
    <3> DEFINE both == presented[g] \union {f}
    <3>2. UNCHANGED presented \/ presented' = [presented EXCEPT ![g] = both]
      BY <3>1
    <3>3. g \in Flows => both \in SUBSET Flows
      BY DEF TypeOK
    <3> HIDE DEF both
    <3> QED
      BY <3>2, <3>3 DEF TypeOK
  <2>2. \E result \in {"tokens", "failed"} : Leave(f, result)
    BY <1>4 DEF Exchange
  <2>3. flow' \in [Flows -> FlowSteps] /\ outcome' \in [Flows -> Outcomes]
    BY <2>2, LeaveTyped DEF Outcomes
  <2> QED
    BY <1>4, <2>1, <2>3 DEF Exchange, TypeOK, RequestOK, server, channel
<1>5. ASSUME NEW f \in Flows, DeferredClose(f)
      PROVE  TypeOK'
  <2>1. flow' \in [Flows -> FlowSteps]
    BY <1>5, GotoTyped DEF DeferredClose, FlowSteps
  <2>2. closing' \in [Flows -> {"no", "begun", "draining", "closed"}]
    BY <1>5 DEF DeferredClose, BeginClose, TypeOK
  <2> QED
    BY <1>5, <2>1, <2>2 DEF DeferredClose, TypeOK, RequestOK, channel, world
<1>6. ASSUME NEW f \in Flows, WatchContext(f)
      PROVE  TypeOK'
  BY <1>6 DEF WatchContext, BeginClose, TypeOK, RequestOK, channel, world
<1>7. ASSUME NEW f \in Flows, Shutdown(f)
      PROVE  TypeOK'
  BY <1>7, ListenerTyped DEF Shutdown, TypeOK, RequestOK, channel, world
<1>8. ASSUME NEW f \in Flows, Drain(f)
      PROVE  TypeOK'
  BY <1>8 DEF Drain, TypeOK, RequestOK, channel, world
<1>9. ASSUME NEW f \in Flows, Serve(f)
      PROVE  TypeOK'
  BY <1>9, ListenerTyped DEF Serve, TypeOK, RequestOK, channel, world
<1>10. ASSUME NEW r \in Requests, Accept(r)
       PROVE  TypeOK'
  BY <1>10 DEF Accept, TypeOK, RequestOK, HTTPRequests, RequestSteps, server, channel, world
<1>11. ASSUME NEW r \in Requests, Flush(r)
       PROVE  TypeOK'
  BY <1>11, EndTyped DEF Flush, TypeOK, RequestOK, server, channel, world
<1>12. ASSUME NEW r \in Requests, HandleCallback(r)
       PROVE  TypeOK'
  <2>1. request[r].query \in Queries /\ request[r].to \in Flows
    BY <1>12 DEF HandleCallback, TypeOK, RequestOK, HTTPRequests
  <2>2. sent' \in [Flows -> Seq(Results)]
    <3>1. CASE UNCHANGED sent
      BY <3>1 DEF TypeOK
    <3>2. CASE request[r].query.kind # "probe" /\ Deliver(r)
      <4> DEFINE to == request[r].to
                 result == ResultOf(request[r].query)
      <4>1. result \in Results
        BY <2>1, <3>2, ResultTyped
      <4>2. sent' = [sent EXCEPT ![to] = Append(@, result)]
        BY <3>2 DEF Deliver
      <4>3. Append(sent[to], result) \in Seq(Results)
        BY <2>1, <4>1 DEF TypeOK
      <4> HIDE DEF to, result
      <4> QED
        BY <2>1, <4>2, <4>3 DEF TypeOK
    <3> QED
      BY <1>12, <3>1, <3>2 DEF HandleCallback
  <2> QED
    BY <1>12, <2>2, ReturnTyped DEF HandleCallback, TypeOK, RequestOK, server, world
<1>13. ASSUME NEW f \in Flows, NEW r \in Requests, Decide(f, r)
       PROVE  TypeOK'
  <2>1. PICK answer \in {"code", "error"} :
           /\ tab' = [tab EXCEPT ![f] = answer]
           /\ SendTo(r, port[f], [kind |-> answer, state |-> f])
    BY <1>13 DEF Decide
  <2>2. [kind |-> answer, state |-> f] \in Queries
    BY DEF Queries
  <2>3. tab' \in [Flows -> Tabs]
    BY <2>1 DEF TypeOK, Tabs
  <2> QED
    BY <1>13, <2>1, <2>2, <2>3, SendTyped DEF Decide, TypeOK, RequestOK, server, channel
<1>14. ASSUME NEW f \in Flows, NEW r \in Requests, Reload(f, r)
       PROVE  TypeOK'
  <2>1. [kind |-> tab[f], state |-> f] \in Queries
    BY <1>14 DEF Reload, Queries
  <2> QED
    BY <1>14, <2>1, SendTyped DEF Reload, TypeOK, RequestOK, server, channel, world
<1>15. ASSUME NEW r \in Requests, Probe(r)
       PROVE  TypeOK'
  <2>1. NoQuery \in Queries
    BY DEF NoQuery, Queries
  <2> QED
    BY <1>15, <2>1, SendTyped DEF Probe, TypeOK, RequestOK, server, channel, world
<1>16. ASSUME NEW f \in Flows, Cancel(f)
       PROVE  TypeOK'
  BY <1>16 DEF Cancel, TypeOK, RequestOK, channel, world
<1>17. ASSUME NEW f \in Flows, Kill(f)
       PROVE  TypeOK'
  <2>1. flow' \in [Flows -> FlowSteps]
    BY <1>17, GotoTyped DEF Kill, FlowSteps
  <2> QED
    BY <1>17, <2>1, DropTyped DEF Kill, TypeOK, RequestOK, channel, world
<1>18. CASE UNCHANGED vars
  BY <1>18 DEF TypeOK, RequestOK, vars, server, channel, world
<1> QED
  BY <1>1, <1>2, <1>3, <1>4, <1>5, <1>6, <1>7, <1>8, <1>9, <1>10, <1>11, <1>12,
     <1>13, <1>14, <1>15, <1>16, <1>17, <1>18
     DEF Next, RunFlow, Close, Handler

\* Type correctness: in particular, a request at work belongs to a flow.
THEOREM TypeCorrect == Spec => []TypeOK
<1>1. Init => TypeOK
  BY LoopbackAssumption DEF Init, TypeOK, RequestOK, FlowSteps, Outcomes, Tabs, HTTPRequests, RequestSteps,
     NoRequest, NoQuery, Queries
<1> QED
  BY <1>1, TypeStep, PTL DEF Spec

-----------------------------------------------------------------------------
\* Nobody closes under a flow whose context is alive.
LEMMA CloseStep ==
    ASSUME TypeOK, OnlyCallerCancels, [Next]_vars
    PROVE  OnlyCallerCancels'
<1>1. ASSUME NEW f \in Flows, Listen(f)
      PROVE  OnlyCallerCancels'
  BY <1>1 DEF Listen, Goto, TypeOK, OnlyCallerCancels
<1>2. ASSUME NEW f \in Flows, OpenBrowser(f)
      PROVE  OnlyCallerCancels'
  BY <1>2 DEF OpenBrowser, Goto, Leave, TypeOK, OnlyCallerCancels, server
<1>3. ASSUME NEW f \in Flows, Wait(f)
      PROVE  OnlyCallerCancels'
  <2>1. flow[f] = "waiting" /\ UNCHANGED server
    BY <1>3 DEF Wait
  <2>2. CASE \E result \in {"denied", "mismatch"} : Leave(f, result)
    BY <2>1, <2>2 DEF Goto, Leave, TypeOK, OnlyCallerCancels, server
  <2>3. CASE Goto(f, "exchanging") /\ UNCHANGED outcome
    BY <2>1, <2>3 DEF Goto, TypeOK, OnlyCallerCancels, server
  <2>4. CASE ctx[f] /\ \E result \in {"cancelled", "closed"} : Leave(f, result)
    BY <2>1, <2>4 DEF Goto, Leave, TypeOK, OnlyCallerCancels, server
  <2>5. closing[f] # "no" => ctx[f]
    BY <2>1 DEF OnlyCallerCancels
  <2> QED
    BY <1>3, <2>2, <2>3, <2>4, <2>5 DEF Wait, Check
<1>4. ASSUME NEW f \in Flows, Exchange(f)
      PROVE  OnlyCallerCancels'
  <2>1. flow[f] = "exchanging" /\ UNCHANGED server
        /\ \E result \in {"tokens", "failed"} : Leave(f, result)
    BY <1>4 DEF Exchange
  <2> QED
    BY <2>1 DEF Goto, Leave, TypeOK, OnlyCallerCancels, server
<1>5. ASSUME NEW f \in Flows, DeferredClose(f)
      PROVE  OnlyCallerCancels'
  BY <1>5 DEF DeferredClose, BeginClose, Goto, TypeOK, OnlyCallerCancels
<1>6. ASSUME NEW f \in Flows, WatchContext(f)
      PROVE  OnlyCallerCancels'
  BY <1>6 DEF WatchContext, BeginClose, TypeOK, OnlyCallerCancels
<1>7. ASSUME NEW f \in Flows, Shutdown(f) \/ Drain(f)
      PROVE  OnlyCallerCancels'
  BY <1>7 DEF Shutdown, Drain, TypeOK, OnlyCallerCancels
<1>8. ASSUME NEW f \in Flows, Cancel(f)
      PROVE  OnlyCallerCancels'
  BY <1>8 DEF Cancel, TypeOK, OnlyCallerCancels
<1>9. ASSUME NEW f \in Flows, Kill(f)
      PROVE  OnlyCallerCancels'
  BY <1>9 DEF Kill, Goto, TypeOK, OnlyCallerCancels
<1>10. CASE UNCHANGED <<flow, outcome, ctx, closing>>
  BY <1>10 DEF OnlyCallerCancels
<1>11. ASSUME NEW f \in Flows, Serve(f)
       PROVE  UNCHANGED <<flow, outcome, ctx, closing>>
  BY <1>11 DEF Serve
<1>12. ASSUME NEW r \in Requests, Handler(r) \/ Probe(r)
       PROVE  UNCHANGED <<flow, outcome, ctx, closing>>
  BY <1>12 DEF Handler, Accept, HandleCallback, Flush, Probe, server
<1>13. ASSUME NEW f \in Flows, NEW r \in Requests, Decide(f, r) \/ Reload(f, r)
       PROVE  UNCHANGED <<flow, outcome, ctx, closing>>
  BY <1>13 DEF Decide, Reload, server
<1>14. UNCHANGED vars => UNCHANGED <<flow, outcome, ctx, closing>>
  BY DEF vars, server
<1> QED
  BY <1>1, <1>2, <1>3, <1>4, <1>5, <1>6, <1>7, <1>8, <1>9, <1>10, <1>11, <1>12,
     <1>13, <1>14 DEF Next, RunFlow, Close

\* Only a callback's handler sends on the channel.
LEMMA SendsOnly ==
    ASSUME [Next]_vars, ~ UNCHANGED sent
    PROVE  \E r \in Requests : HandleCallback(r)
<1>1. ASSUME NEW f \in Flows, RunFlow(f) \/ Close(f) \/ Serve(f) \/ WatchContext(f)
                              \/ Cancel(f) \/ Kill(f)
      PROVE  UNCHANGED sent
  BY <1>1 DEF RunFlow, Listen, OpenBrowser, Wait, Exchange, DeferredClose, Close, Shutdown,
              Drain, Serve, WatchContext, Cancel, Kill, channel
<1>2. ASSUME NEW f \in Flows, NEW r \in Requests, Decide(f, r) \/ Reload(f, r)
      PROVE  UNCHANGED sent
  BY <1>2 DEF Decide, Reload, channel
<1>3. ASSUME NEW r \in Requests, Accept(r) \/ Flush(r) \/ Probe(r)
      PROVE  UNCHANGED sent
  BY <1>3 DEF Accept, Flush, Probe, channel
<1>4. UNCHANGED vars => UNCHANGED sent
  BY DEF vars, channel
<1> QED
  BY <1>1, <1>2, <1>3, <1>4 DEF Next, Handler

\* The channel only grows, and at its end.
LEMMA FirstStays ==
    ASSUME TypeOK, [Next]_vars, NEW f \in Flows, sent[f] # << >>
    PROVE  sent'[f] # << >> /\ Head(sent'[f]) = Head(sent[f])
<1>1. CASE UNCHANGED sent
  BY <1>1
<1>2. ASSUME NEW r \in Requests, HandleCallback(r), ~ UNCHANGED sent
      PROVE  sent'[f] # << >> /\ Head(sent'[f]) = Head(sent[f])
  <2> DEFINE to == request[r].to
             result == ResultOf(request[r].query)
  <2>1. sent' = [sent EXCEPT ![to] = Append(@, result)]
    BY <1>2 DEF HandleCallback, Deliver
  <2>2. sent[f] \in Seq(Results) /\ result \in Results
    BY <1>2, ResultTyped DEF HandleCallback, TypeOK, RequestOK, HTTPRequests
  <2> HIDE DEF to, result
  <2>3. sent'[f] \in {sent[f], Append(sent[f], result)}
    BY <2>1 DEF TypeOK
  <2> QED
    BY <2>2, <2>3
<1> QED
  BY <1>1, <1>2, SendsOnly

\* What Wait has received decides the flow.
LEMMA WaitStep ==
    ASSUME TypeOK, WaitsOnce, [Next]_vars
    PROVE  WaitsOnce'
<1>1. ASSUME NEW f \in Flows, Listen(f)
      PROVE  WaitsOnce'
  BY <1>1 DEF Listen, Goto, TypeOK, WaitsOnce, Told, channel
<1>2. ASSUME NEW f \in Flows, OpenBrowser(f)
      PROVE  WaitsOnce'
  BY <1>2 DEF OpenBrowser, Goto, Leave, TypeOK, WaitsOnce, Told, channel
<1>3. ASSUME NEW f \in Flows, Wait(f)
      PROVE  WaitsOnce'
  <2>1. flow[f] = "waiting" /\ ~ waited[f] /\ outcome[f] = "none" /\ UNCHANGED sent
    BY <1>3 DEF Wait, WaitsOnce, TypeOK
  <2>2. CASE Pending(f) /\ waited' = [waited EXCEPT ![f] = TRUE] /\ Check(f, Head(sent[f]))
    <3>1. sent[f] # << >>
      BY <2>1, <2>2 DEF Pending, TypeOK
    <3>2. Head(sent[f]).kind \in {"code", "error"}
      BY <2>2 DEF Check
    <3>3. /\ flow' = [flow EXCEPT ![f] = flow'[f]]
          /\ outcome' = [outcome EXCEPT ![f] = outcome'[f]]
          /\ flow'[f] \in {"closing", "exchanging"}
          /\ outcome'[f] \in Told(f, Head(sent[f]))
          /\ flow'[f] = "exchanging" => /\ Head(sent[f]).kind = "code"
                                        /\ Head(sent[f]).state = f
                                        /\ outcome'[f] = "none"
      BY <2>1, <2>2 DEF Check, Leave, Goto, Told, TypeOK
    <3> QED
      BY <2>1, <2>2, <3>1, <3>3 DEF TypeOK, WaitsOnce, Told
  <2>3. CASE UNCHANGED waited /\ \E result \in {"cancelled", "closed"} : Leave(f, result)
    BY <2>1, <2>3 DEF Leave, Goto, TypeOK, WaitsOnce, Told
  <2> QED
    BY <1>3, <2>2, <2>3 DEF Wait
<1>4. ASSUME NEW f \in Flows, Exchange(f)
      PROVE  WaitsOnce'
  <2>1. flow[f] = "exchanging" /\ UNCHANGED channel
        /\ \E result \in {"tokens", "failed"} : Leave(f, result)
    BY <1>4 DEF Exchange
  <2> QED
    BY <2>1 DEF Leave, Goto, TypeOK, WaitsOnce, Told, channel
<1>5. ASSUME NEW f \in Flows, DeferredClose(f) \/ Kill(f)
      PROVE  WaitsOnce'
  BY <1>5 DEF DeferredClose, Kill, Goto, TypeOK, WaitsOnce, Told, channel
<1>6. ASSUME NEW r \in Requests, HandleCallback(r)
      PROVE  WaitsOnce'
  BY <1>6, FirstStays DEF HandleCallback, WaitsOnce, Told, Next, Handler
<1>7. CASE UNCHANGED <<flow, outcome, channel>>
  BY <1>7 DEF WaitsOnce, Told, channel
<1>8. ASSUME NEW f \in Flows, Close(f) \/ Serve(f) \/ WatchContext(f) \/ Cancel(f)
      PROVE  UNCHANGED <<flow, outcome, channel>>
  BY <1>8 DEF Close, Shutdown, Drain, Serve, WatchContext, Cancel
<1>9. ASSUME NEW f \in Flows, NEW r \in Requests, Decide(f, r) \/ Reload(f, r)
      PROVE  UNCHANGED <<flow, outcome, channel>>
  BY <1>9 DEF Decide, Reload
<1>10. ASSUME NEW r \in Requests, Accept(r) \/ Flush(r) \/ Probe(r)
       PROVE  UNCHANGED <<flow, outcome, channel>>
  BY <1>10 DEF Accept, Flush, Probe
<1>11. UNCHANGED vars => UNCHANGED <<flow, outcome, channel>>
  BY DEF vars
<1> QED
  BY <1>1, <1>2, <1>3, <1>4, <1>5, <1>6, <1>7, <1>8, <1>9, <1>10, <1>11
     DEF Next, RunFlow, Handler

-----------------------------------------------------------------------------
\* A code in a request was issued to a flow whose page shows it.
Backed(query) == query.kind = "code" => \E g \in Flows : query.state = g /\ tab[g] = "code"

\* What a page that shows the code has shown, it goes on showing.
LEMMA CodeStays ==
    ASSUME TypeOK, CodesFollowConsent, [Next]_vars, NEW g \in Flows, tab[g] = "code"
    PROVE  tab'[g] = "code"
<1>1. CASE UNCHANGED tab
  BY <1>1
<1>2. ASSUME NEW f \in Flows, OpenBrowser(f)
      PROVE  tab'[g] = "code"
  BY <1>2 DEF OpenBrowser, TypeOK, CodesFollowConsent
<1>3. ASSUME NEW f \in Flows, NEW r \in Requests, Decide(f, r)
      PROVE  tab'[g] = "code"
  BY <1>3 DEF Decide, TypeOK, Tabs
<1>4. ASSUME NEW f \in Flows, \/ Listen(f) \/ Wait(f) \/ Exchange(f) \/ DeferredClose(f)
                              \/ Close(f) \/ Serve(f) \/ WatchContext(f)
                              \/ Cancel(f) \/ Kill(f)
      PROVE  UNCHANGED tab
  BY <1>4 DEF Listen, Wait, Exchange, DeferredClose, Close, Shutdown, Drain, Serve,
              WatchContext, Cancel, Kill, world
<1>5. ASSUME NEW r \in Requests, \/ Handler(r) \/ Probe(r) \/ (\E f \in Flows : Reload(f, r))
      PROVE  UNCHANGED tab
  BY <1>5 DEF Handler, Accept, HandleCallback, Flush, Probe, Reload, world
<1>6. UNCHANGED vars => UNCHANGED tab
  BY DEF vars, world
<1> QED
  BY <1>1, <1>2, <1>3, <1>4, <1>5, <1>6 DEF Next, RunFlow

\* A request that goes on or ends carries what it carried or nothing.
LEMMA QueriesStay ==
    ASSUME TypeOK, NEW q \in Requests
    PROVE  /\ \A r \in Requests : End(r) => request'[q].query \in {request[q].query, NoQuery}
           /\ \A r \in Requests : Return(r) => request'[q].query \in {request[q].query, NoQuery}
           /\ \A f, steps : Drop(f, steps) => request'[q].query \in {request[q].query, NoQuery}
<1>1. request \in [Requests -> HTTPRequests]
  BY DEF TypeOK
<1>2. ASSUME NEW r \in Requests, End(r)
      PROVE  request'[q].query \in {request[q].query, NoQuery}
  BY <1>1, <1>2 DEF End, NoRequest
<1>3. ASSUME NEW r \in Requests, Return(r)
      PROVE  request'[q].query \in {request[q].query, NoQuery}
  BY <1>1, <1>3 DEF Return, HTTPRequests
<1>4. ASSUME NEW f, NEW steps, Drop(f, steps)
      PROVE  request'[q].query \in {request[q].query, NoQuery}
  BY <1>1, <1>4 DEF Drop, NoRequest
<1> QED
  BY <1>2, <1>3, <1>4

\* A request that is sent carries what is sent.
LEMMA SendBacked ==
    ASSUME TypeOK, NEW r \in Requests, NEW p, NEW query, SendTo(r, p, query),
           NEW q \in Requests
    PROVE  request'[q].query \in {request[q].query, query, NoQuery}
<1>1. CASE End(r)
  BY <1>1, QueriesStay
<1>2. CASE \E f \in Flows : request' = [request EXCEPT ![r] =
                              [step |-> "queued", to |-> f, query |-> query]]
  BY <1>2 DEF TypeOK
<1> QED
  BY <1>1, <1>2 DEF SendTo

\* Until RunFlow opens the browser, its page shows nothing.
LEMMA FreshPages ==
    ASSUME TypeOK, CodesFollowConsent, [Next]_vars
    PROVE  \A f \in Flows : flow'[f] \in {"new", "listening"} => tab'[f] = "nothing"
<1> DEFINE Fresh == \A f \in Flows : flow[f] \in {"new", "listening"} => tab[f] = "nothing"
<1> SUFFICES Fresh'
  OBVIOUS
<1>1. Fresh
  BY DEF CodesFollowConsent
<1>2. CASE UNCHANGED <<flow, tab>>
  BY <1>1, <1>2
<1>3. ASSUME NEW f \in Flows, Listen(f)
      PROVE  Fresh'
  BY <1>1, <1>3 DEF Listen, Goto, TypeOK, world
<1>4. ASSUME NEW f \in Flows, OpenBrowser(f)
      PROVE  Fresh'
  BY <1>1, <1>4 DEF OpenBrowser, Goto, Leave, TypeOK
<1>5. ASSUME NEW f \in Flows, Wait(f)
      PROVE  Fresh'
  BY <1>1, <1>5 DEF Wait, Check, Goto, Leave, TypeOK, world
<1>6. ASSUME NEW f \in Flows, Exchange(f)
      PROVE  Fresh'
  <2>1. UNCHANGED tab /\ \E result \in {"tokens", "failed"} : Leave(f, result)
    BY <1>6 DEF Exchange
  <2> QED
    BY <1>1, <2>1 DEF Goto, Leave, TypeOK
<1>7. ASSUME NEW f \in Flows, DeferredClose(f) \/ Kill(f)
      PROVE  Fresh'
  BY <1>1, <1>7 DEF DeferredClose, Kill, Goto, TypeOK, world
<1>8. ASSUME NEW f \in Flows, NEW r \in Requests, Decide(f, r)
      PROVE  Fresh'
  BY <1>1, <1>8 DEF Decide, TypeOK, Tabs
<1>9. ASSUME NEW f \in Flows, Close(f) \/ Serve(f) \/ WatchContext(f) \/ Cancel(f)
      PROVE  UNCHANGED <<flow, tab>>
  BY <1>9 DEF Close, Shutdown, Drain, Serve, WatchContext, Cancel, world
<1>10. ASSUME NEW r \in Requests, \/ Handler(r) \/ Probe(r) \/ (\E f \in Flows : Reload(f, r))
       PROVE  UNCHANGED <<flow, tab>>
  BY <1>10 DEF Handler, Accept, HandleCallback, Flush, Probe, Reload, world
<1>11. UNCHANGED vars => UNCHANGED <<flow, tab>>
  BY DEF vars, world
<1> QED
  BY <1>2, <1>3, <1>4, <1>5, <1>6, <1>7, <1>8, <1>9, <1>10, <1>11 DEF Next, RunFlow

\* A request comes to carry a code only from a page that shows it.
LEMMA RequestsBacked ==
    ASSUME TypeOK, CodesFollowConsent, [Next]_vars, NEW q \in Requests
    PROVE  \/ request'[q].query \in {request[q].query, NoQuery}
           \/ \E f \in Flows : request'[q].query = [kind |-> tab'[f], state |-> f]
<1> DEFINE Kept == request'[q].query \in {request[q].query, NoQuery}
           Sent == \E f \in Flows : request'[q].query = [kind |-> tab'[f], state |-> f]
<1>1. UNCHANGED request => Kept
  OBVIOUS
<1>2. ASSUME NEW f \in Flows, NEW r \in Requests, Decide(f, r)
      PROVE  Kept \/ Sent
  <2>1. PICK answer \in {"code", "error"} :
           /\ tab' = [tab EXCEPT ![f] = answer]
           /\ SendTo(r, port[f], [kind |-> answer, state |-> f])
    BY <1>2 DEF Decide
  <2>2. tab'[f] = answer
    BY <2>1 DEF TypeOK, Tabs
  <2> QED
    BY <2>1, <2>2, SendBacked
<1>3. ASSUME NEW f \in Flows, NEW r \in Requests, Reload(f, r)
      PROVE  Kept \/ Sent
  BY <1>3, SendBacked DEF Reload, world
<1>4. ASSUME NEW r \in Requests, Probe(r)
      PROVE  Kept
  BY <1>4, SendBacked DEF Probe
<1>5. ASSUME NEW r \in Requests, Handler(r)
      PROVE  Kept
  <2>1. CASE Accept(r)
    BY <2>1 DEF Accept, TypeOK, HTTPRequests
  <2> QED
    BY <1>5, <2>1, QueriesStay DEF Handler, HandleCallback, Flush
<1>6. ASSUME NEW f \in Flows, Close(f) \/ Serve(f) \/ Kill(f)
      PROVE  Kept
  BY <1>6, <1>1, QueriesStay DEF Close, Shutdown, Drain, Serve, Kill, CloseListener
<1>7. ASSUME NEW f \in Flows, RunFlow(f) \/ WatchContext(f) \/ Cancel(f)
      PROVE  Kept
  BY <1>7, <1>1 DEF RunFlow, Listen, OpenBrowser, Wait, Exchange, DeferredClose,
                    WatchContext, Cancel
<1>8. UNCHANGED vars => Kept
  BY <1>1 DEF vars
<1> QED
  BY <1>2, <1>3, <1>4, <1>5, <1>6, <1>7, <1>8 DEF Next

LEMMA ConsentStep ==
    ASSUME TypeOK, CodesFollowConsent, [Next]_vars
    PROVE  CodesFollowConsent'
<1>1. ASSUME NEW query, Backed(query)
      PROVE  Backed(query)'
  BY <1>1, CodeStays DEF Backed
<1>2. ASSUME NEW r \in Requests
      PROVE  Backed(request[r].query)'
  <2>1. CASE request'[r].query \in {request[r].query, NoQuery}
    <3>1. Backed(request[r].query) /\ Backed(NoQuery)
      BY DEF CodesFollowConsent, Backed, NoQuery
    <3> QED
      BY <2>1, <3>1, CodeStays DEF Backed
  <2>2. CASE \E f \in Flows : request'[r].query = [kind |-> tab'[f], state |-> f]
    BY <2>2 DEF Backed
  <2> QED
    BY <2>1, <2>2, RequestsBacked
<1>3. ASSUME NEW f \in Flows, NEW i \in DOMAIN sent'[f]
      PROVE  Backed(sent[f][i])'
  <2>1. CASE sent'[f] = sent[f]
    <3>1. Backed(sent[f][i])
      BY <2>1 DEF CodesFollowConsent, Backed
    <3> QED
      BY <2>1, <3>1, CodeStays DEF Backed
  <2>2. ASSUME NEW r \in Requests, HandleCallback(r), sent'[f] # sent[f]
        PROVE  Backed(sent[f][i])'
    <3> DEFINE result == ResultOf(request[r].query)
    <3>1. sent'[f] = Append(sent[f], result)
      BY <2>2 DEF HandleCallback, Deliver, TypeOK
    <3>2. sent'[f][i] = result \/ (i \in DOMAIN sent[f] /\ sent'[f][i] = sent[f][i])
      BY <3>1 DEF TypeOK
    <3>3. Backed(result)
      BY DEF CodesFollowConsent, Backed, ResultOf
    <3>4. i \in DOMAIN sent[f] => Backed(sent[f][i])
      BY DEF CodesFollowConsent, Backed
    <3> HIDE DEF result
    <3> QED
      BY <3>2, <3>3, <3>4, CodeStays DEF Backed
  <2>3. (\E r \in Requests : HandleCallback(r)) \/ UNCHANGED sent
    BY SendsOnly
  <2> QED
    BY <2>1, <2>2, <2>3
<1> QED
  BY <1>2, <1>3, FreshPages DEF CodesFollowConsent, Backed

\* A flow presents no code but its own, and what it returned stays backed by the
\* page it opened.
LEMMA OwnStep ==
    ASSUME TypeOK, CodesFollowConsent, WaitsOnce, OwnConsentOnly, [Next]_vars
    PROVE  OwnConsentOnly'
<1>1. ASSUME NEW f \in Flows, Exchange(f)
      PROVE  OwnConsentOnly'
  <2>1. Head(sent[f]).kind = "code" /\ Head(sent[f]).state = f /\ sent[f] # << >>
    BY <1>1 DEF Exchange, WaitsOnce
  <2>2. tab[f] = "code"
    <3>1. 1 \in DOMAIN sent[f] /\ Head(sent[f]) = sent[f][1]
      BY <2>1 DEF TypeOK
    <3> QED
      BY <2>1, <3>1 DEF CodesFollowConsent
  <2>3. /\ UNCHANGED tab
        /\ presented' = [presented EXCEPT ![f] = @ \union {f}] \/ UNCHANGED presented
        /\ \E result \in {"tokens", "failed"} : Leave(f, result)
    BY <1>1, <2>1 DEF Exchange
  <2> QED
    BY <2>2, <2>3 DEF Leave, TypeOK, OwnConsentOnly
<1>2. CASE /\ UNCHANGED presented
           /\ \A f \in Flows : outcome'[f] = "tokens" => outcome[f] = "tokens"
  BY <1>2, CodeStays DEF OwnConsentOnly
<1>3. ASSUME NEW f \in Flows, Listen(f) \/ OpenBrowser(f) \/ Wait(f)
      PROVE  /\ UNCHANGED presented
             /\ \A g \in Flows : outcome'[g] = "tokens" => outcome[g] = "tokens"
  BY <1>3 DEF Listen, OpenBrowser, Wait, Check, Leave, TypeOK, world
<1>4. ASSUME NEW f \in Flows, DeferredClose(f) \/ Close(f) \/ Serve(f) \/ WatchContext(f)
                              \/ Cancel(f) \/ Kill(f)
      PROVE  UNCHANGED <<presented, outcome>>
  BY <1>4 DEF DeferredClose, Close, Shutdown, Drain, Serve, WatchContext, Cancel, Kill, world
<1>5. ASSUME NEW r \in Requests,
             Handler(r) \/ Probe(r) \/ (\E f \in Flows : Decide(f, r) \/ Reload(f, r))
      PROVE  UNCHANGED <<presented, outcome>>
  BY <1>5 DEF Handler, Accept, HandleCallback, Flush, Probe, Decide, Reload, world
<1>6. UNCHANGED vars => UNCHANGED <<presented, outcome>>
  BY DEF vars, world
<1> QED
  BY <1>1, <1>2, <1>3, <1>4, <1>5, <1>6 DEF Next, RunFlow

-----------------------------------------------------------------------------
\* What is at work of a flow, and what a step makes of it.
AtWork(f) == Served(f)

\* Only a server that serves puts a request to work.
LEMMA WorkGrows ==
    ASSUME TypeOK, [Next]_vars, NEW f \in Flows, AtWork(f) = {}, AtWork(f)' # {}
    PROVE  serving[f] = "yes" /\ UNCHANGED <<flow, server>>
<1> DEFINE Idle == \A r \in Requests :
                      request[r].to = f => request[r].step \notin {"handled", "finished"}
<1>1. Idle /\ ~ Idle'
  BY DEF AtWork, Served, RequestsOf
<1>2. request \in [Requests -> HTTPRequests] /\ f # NoFlow
  BY LoopbackAssumption DEF TypeOK
<1>3. ASSUME NEW r \in Requests, Accept(r)
      PROVE  serving[f] = "yes" /\ UNCHANGED <<flow, server>>
  <2>1. request[r].to = f
    BY <1>1, <1>2, <1>3 DEF Accept, HTTPRequests
  <2> QED
    BY <1>3, <2>1 DEF Accept
<1>4. ASSUME NEW r \in Requests, HandleCallback(r) \/ Flush(r)
      PROVE  FALSE
  BY <1>1, <1>2, <1>4 DEF HandleCallback, Flush, Return, End, NoRequest, HTTPRequests
<1>5. ASSUME NEW r \in Requests, NEW p, NEW query, SendTo(r, p, query)
      PROVE  FALSE
  <2>1. CASE End(r)
    BY <1>1, <1>2, <2>1 DEF End, NoRequest
  <2>2. CASE \E g \in Flows : request' = [request EXCEPT ![r] =
                                [step |-> "queued", to |-> g, query |-> query]]
    BY <1>1, <1>2, <2>2
  <2> QED
    BY <1>5, <2>1, <2>2 DEF SendTo
<1>6. ASSUME NEW g, NEW steps, Drop(g, steps)
      PROVE  FALSE
  BY <1>1, <1>2, <1>6 DEF Drop, NoRequest
<1>7. UNCHANGED request => FALSE
  BY <1>1
<1>8. ASSUME NEW g \in Flows, RunFlow(g) \/ WatchContext(g) \/ Cancel(g)
      PROVE  UNCHANGED request
  BY <1>8 DEF RunFlow, Listen, OpenBrowser, Wait, Exchange, DeferredClose, WatchContext, Cancel
<1>9. ASSUME NEW g \in Flows, Close(g) \/ Serve(g) \/ Kill(g)
      PROVE  FALSE
  BY <1>6, <1>7, <1>9 DEF Close, Shutdown, Drain, Serve, Kill, CloseListener
<1>10. ASSUME NEW g \in Flows, NEW r \in Requests, Decide(g, r) \/ Reload(g, r)
       PROVE  FALSE
  BY <1>5, <1>10 DEF Decide, Reload
<1>11. ASSUME NEW r \in Requests, Probe(r)
       PROVE  FALSE
  BY <1>5, <1>11 DEF Probe
<1>12. UNCHANGED vars => UNCHANGED request
  BY DEF vars
<1> QED
  BY <1>3, <1>4, <1>7, <1>8, <1>9, <1>10, <1>11, <1>12 DEF Next, Handler

\* A server becomes closed when it is idle, or by the end of its process.
LEMMA ClosesIdle ==
    ASSUME TypeOK, [Next]_vars, NEW f \in Flows,
           closing'[f] = "closed" \/ serving'[f] = "no",
           ~ (closing[f] = "closed" \/ serving[f] = "no")
    PROVE  AtWork(f) = {} \/ AtWork(f)' = {}
<1>1. ASSUME NEW g \in Flows, Drain(g)
      PROVE  AtWork(f) = {}
  BY <1>1 DEF Drain, AtWork, TypeOK
<1>2. ASSUME NEW g \in Flows, Kill(g)
      PROVE  AtWork(f)' = {}
  <2>1. f = g
    BY <1>2 DEF Kill, TypeOK
  <2>2. Drop(f, {"queued", "handled", "finished"})
    BY <1>2, <2>1 DEF Kill
  <2> QED
    BY <2>2 DEF Drop, AtWork, Served, RequestsOf, NoRequest
<1>3. UNCHANGED <<closing, serving>> => FALSE
  OBVIOUS
<1>4. ASSUME NEW g \in Flows, Listen(g) \/ Shutdown(g) \/ Serve(g)
      PROVE  FALSE
  BY <1>4 DEF Listen, Shutdown, Serve, CloseListener, TypeOK
<1>5. ASSUME NEW g \in Flows, DeferredClose(g) \/ WatchContext(g)
      PROVE  FALSE
  BY <1>5 DEF DeferredClose, WatchContext, BeginClose, TypeOK
<1>6. ASSUME NEW g \in Flows, OpenBrowser(g) \/ Wait(g) \/ Exchange(g) \/ Cancel(g)
      PROVE  UNCHANGED <<closing, serving>>
  BY <1>6 DEF OpenBrowser, Wait, Exchange, Cancel, server
<1>7. ASSUME NEW r \in Requests,
             Handler(r) \/ Probe(r) \/ (\E g \in Flows : Decide(g, r) \/ Reload(g, r))
      PROVE  UNCHANGED <<closing, serving>>
  BY <1>7 DEF Handler, Accept, HandleCallback, Flush, Probe, Decide, Reload, server
<1>8. UNCHANGED vars => UNCHANGED <<closing, serving>>
  BY DEF vars, server
<1> QED
  BY <1>1, <1>2, <1>3, <1>4, <1>5, <1>6, <1>7, <1>8 DEF Next, RunFlow, Close

\* The rest of ServesToTheEnd, which says nothing of requests.
ServerOrder ==
    \A f \in Flows :
       /\ closing[f] \in {"draining", "closed"} => serving[f] # "yes"
       /\ flow[f] = "returned" => closing[f] = "closed" \/ serving[f] = "no"
       /\ flow[f] = "new" => serving[f] = "no"

LEMMA OrderStep ==
    ASSUME TypeOK, ServerOrder, [Next]_vars
    PROVE  ServerOrder'
<1>1. ASSUME NEW f \in Flows, Listen(f)
      PROVE  ServerOrder'
  BY <1>1 DEF Listen, Goto, TypeOK, ServerOrder
<1>2. ASSUME NEW f \in Flows, NEW step \in {"waiting", "closing", "exchanging"},
             Goto(f, step), flow[f] # "new", UNCHANGED server
      PROVE  ServerOrder'
  BY <1>2 DEF Goto, TypeOK, ServerOrder, server
<1>3. ASSUME NEW f \in Flows, OpenBrowser(f) \/ Wait(f) \/ Exchange(f)
      PROVE  ServerOrder'
  <2>1. /\ flow[f] # "new"
        /\ UNCHANGED server
        /\ \E step \in {"waiting", "closing", "exchanging"} : Goto(f, step)
    BY <1>3 DEF OpenBrowser, Wait, Check, Exchange, Leave
  <2> QED
    BY <2>1, <1>2
<1>4. ASSUME NEW f \in Flows, DeferredClose(f)
      PROVE  ServerOrder'
  BY <1>4 DEF DeferredClose, BeginClose, Goto, TypeOK, ServerOrder
<1>5. ASSUME NEW f \in Flows, WatchContext(f)
      PROVE  ServerOrder'
  BY <1>5 DEF WatchContext, BeginClose, TypeOK, ServerOrder
<1>6. ASSUME NEW f \in Flows, Shutdown(f)
      PROVE  ServerOrder'
  BY <1>6 DEF Shutdown, CloseListener, TypeOK, ServerOrder
<1>7. ASSUME NEW f \in Flows, Drain(f)
      PROVE  ServerOrder'
  BY <1>7 DEF Drain, TypeOK, ServerOrder
<1>8. ASSUME NEW f \in Flows, Serve(f)
      PROVE  ServerOrder'
  BY <1>8 DEF Serve, CloseListener, TypeOK, ServerOrder
<1>9. ASSUME NEW f \in Flows, Kill(f)
      PROVE  ServerOrder'
  BY <1>9 DEF Kill, Goto, TypeOK, ServerOrder
<1>10. CASE UNCHANGED <<flow, closing, serving>>
  BY <1>10 DEF ServerOrder
<1>11. ASSUME NEW f \in Flows, Cancel(f)
       PROVE  UNCHANGED <<flow, closing, serving>>
  BY <1>11 DEF Cancel
<1>12. ASSUME NEW r \in Requests,
              Handler(r) \/ Probe(r) \/ (\E f \in Flows : Decide(f, r) \/ Reload(f, r))
       PROVE  UNCHANGED <<flow, closing, serving>>
  BY <1>12 DEF Handler, Accept, HandleCallback, Flush, Probe, Decide, Reload, server
<1>13. UNCHANGED vars => UNCHANGED <<flow, closing, serving>>
  BY DEF vars, server
<1> QED
  BY <1>1, <1>3, <1>4, <1>5, <1>6, <1>7, <1>8, <1>9, <1>10, <1>11, <1>12, <1>13
     DEF Next, RunFlow, Close

LEMMA ServeStep ==
    ASSUME TypeOK, ServesToTheEnd, [Next]_vars
    PROVE  ServesToTheEnd'
<1>1. ServerOrder'
  BY OrderStep DEF ServesToTheEnd, ServerOrder
<1>2. ASSUME NEW f \in Flows, closing'[f] = "closed" \/ serving'[f] = "no"
      PROVE  AtWork(f)' = {}
  <2>1. CASE closing[f] = "closed" \/ serving[f] = "no"
    <3>1. AtWork(f) = {} /\ serving[f] # "yes"
      BY <2>1 DEF ServesToTheEnd, AtWork
    <3> QED
      BY <3>1, WorkGrows
  <2>2. CASE ~ (closing[f] = "closed" \/ serving[f] = "no")
    <3>1. AtWork(f) = {} \/ AtWork(f)' = {}
      BY <1>2, <2>2, ClosesIdle
    <3>2. UNCHANGED server => FALSE
      BY <1>2, <2>2 DEF server
    <3> QED
      BY <3>1, <3>2, WorkGrows
  <2> QED
    BY <2>1, <2>2
<1> QED
  BY <1>1, <1>2 DEF ServesToTheEnd, ServerOrder, AtWork

-----------------------------------------------------------------------------
\* All of it, for every number of flows, ports and requests.
LEMMA Invariants ==
    Spec => [](TypeOK /\ OnlyCallerCancels /\ WaitsOnce /\ CodesFollowConsent
                      /\ OwnConsentOnly /\ ServesToTheEnd)
<1>1. Init => /\ OnlyCallerCancels /\ WaitsOnce /\ CodesFollowConsent
              /\ OwnConsentOnly /\ ServesToTheEnd
  BY LoopbackAssumption DEF Init, OnlyCallerCancels, WaitsOnce, CodesFollowConsent,
     OwnConsentOnly, ServesToTheEnd, Served, RequestsOf, NoRequest, NoQuery
<1> QED
  BY <1>1, TypeCorrect, CloseStep, WaitStep, ConsentStep, OwnStep, ServeStep, PTL DEF Spec

\* A code goes to the token endpoint only from the flow it was issued for, and
\* tokens come only from a consent given on the page that flow opened
\* (loopback.go:127, flow.go:54).
THEOREM CodesStayHome == Spec => []OwnConsentOnly
BY Invariants, PTL

\* Only a flow whose context has ended is told that it is cancelled, however the
\* three goroutines of it interleave (loopback.go:70, 118).
THEOREM CancelledByCaller == Spec => []OnlyCallerCancels
BY Invariants, PTL

\* RunFlow returns when every accepted request has its answer, the one whose result it
\* has received included, whose page net/http sends later (loopback.go:91, 102, 139).
THEOREM ReturnsWhenServed == Spec => []PagesServed
<1>1. ServesToTheEnd => PagesServed
  BY DEF ServesToTheEnd, PagesServed
<1> QED
  BY <1>1, Invariants, PTL

\* The first callback decides, whatever comes later (loopback.go:101).
THEOREM FirstDecides == Spec => FirstCallbackDecides
<1> DEFINE Decided == \A f \in Flows : waited[f] => outcome[f] \in Told(f, Head(sent[f]))
           Kept == \A f \in Flows : sent[f] # << >> => Head(sent'[f]) = Head(sent[f])
<1>1. WaitsOnce => Decided
  BY DEF WaitsOnce
<1>2. TypeOK /\ [Next]_vars => [Kept]_sent
  BY FirstStays
<1> HIDE DEF Decided, Kept
<1>3. Spec => []Decided /\ [][Kept]_sent
  BY <1>1, <1>2, Invariants, PTL DEF Spec
<1> QED
  BY <1>3 DEF FirstCallbackDecides, Decided, Kept

-----------------------------------------------------------------------------
(* The flow implements SignIn. *)

\* The sign-ins whose user has consented, as SignIn sees them.
Consented == {f \in Flows : tab[f] = "code"}
Answers == [f \in Flows |-> Heard(f)]

\* Who does not touch the page, the channel, the context, the token endpoint or the
\* outcome does not touch the sign-in.
LEMMA SignInStutters ==
    ASSUME UNCHANGED <<tab, sent, ctx, presented, outcome>>
    PROVE  UNCHANGED Promised!vars
BY DEF Promised!vars, Heard

\* Opening a page is no consent, nor does it undo one.
LEMMA OpenKeeps ==
    ASSUME TypeOK, CodesFollowConsent, NEW f \in Flows, OpenBrowser(f)
    PROVE  Consented' = Consented
<1>1. flow[f] = "listening" /\ tab[f] = "nothing"
  BY DEF OpenBrowser, CodesFollowConsent
<1>2. /\ tab'[f] \in {"nothing", "consent"}
      /\ \A g \in Flows \ {f} : tab'[g] = tab[g]
  BY <1>1 DEF OpenBrowser, TypeOK
<1> QED
  BY <1>1, <1>2 DEF Consented

\* Consents are those of before and those just given.
LEMMA ConsentedStep ==
    ASSUME TypeOK, CodesFollowConsent, [Next]_vars
    PROVE  \/ Consented' = Consented
           \/ \E f \in Flows, r \in Requests : Decide(f, r) /\ Consented' = Consented \union {f}
<1>1. CASE UNCHANGED tab
  BY <1>1 DEF Consented
<1>2. ASSUME NEW f \in Flows, OpenBrowser(f)
      PROVE  Consented' = Consented
  BY <1>2, OpenKeeps
<1>3. ASSUME NEW f \in Flows, NEW r \in Requests, Decide(f, r)
      PROVE  Consented' \in {Consented, Consented \union {f}}
  <2>1. PICK answer \in {"code", "error"} : tab' = [tab EXCEPT ![f] = answer]
    BY <1>3 DEF Decide
  <2>2. /\ tab'[f] = answer /\ tab[f] = "consent"
        /\ \A g \in Flows \ {f} : tab'[g] = tab[g]
    BY <1>3, <2>1 DEF Decide, TypeOK, Tabs
  <2> QED
    BY <2>2 DEF Consented
<1>4. ASSUME NEW f \in Flows, \/ Listen(f) \/ Wait(f) \/ Exchange(f) \/ DeferredClose(f)
                              \/ Close(f) \/ Serve(f) \/ WatchContext(f)
                              \/ Cancel(f) \/ Kill(f)
      PROVE  UNCHANGED tab
  BY <1>4 DEF Listen, Wait, Exchange, DeferredClose, Close, Shutdown, Drain, Serve,
              WatchContext, Cancel, Kill, world
<1>5. ASSUME NEW r \in Requests, \/ Handler(r) \/ Probe(r) \/ (\E f \in Flows : Reload(f, r))
      PROVE  UNCHANGED tab
  BY <1>5 DEF Handler, Accept, HandleCallback, Flush, Probe, Reload, world
<1>6. UNCHANGED vars => UNCHANGED tab
  BY DEF vars, world
<1> QED
  BY <1>1, <1>2, <1>3, <1>4, <1>5, <1>6 DEF Next, RunFlow

\* A result that is sent is what the flow hears, or goes unheard.
LEMMA HearsFirst ==
    ASSUME TypeOK, CodesFollowConsent, [Next]_vars, NEW r \in Requests, HandleCallback(r)
    PROVE  \/ Answers' = Answers
           \/ \E f \in Flows :
                 /\ Heard(f) = Promised!Silence
                 /\ \E answer \in {Promised!Refusal} \union {Promised!Code(g) : g \in Consented} :
                       Answers' = [Answers EXCEPT ![f] = answer]
<1>1. CASE UNCHANGED sent
  BY <1>1 DEF Answers, Heard
<1>2. ASSUME request[r].query.kind # "probe", Deliver(r)
      PROVE  \/ Answers' = Answers
             \/ \E f \in Flows :
                   /\ Heard(f) = Promised!Silence
                   /\ \E answer \in {Promised!Refusal} \union {Promised!Code(g) : g \in Consented} :
                         Answers' = [Answers EXCEPT ![f] = answer]
  <2>0. /\ request[r].to \in Flows /\ request[r].query \in Queries
        /\ ResultOf(request[r].query) \in Results
    BY <1>2, ResultTyped DEF HandleCallback, TypeOK, RequestOK, HTTPRequests
  <2>1. PICK f \in Flows, result \in Results :
           f = request[r].to /\ result = ResultOf(request[r].query)
    BY <2>0
  <2>2. sent' = [sent EXCEPT ![f] = Append(@, result)]
    BY <1>2, <2>1 DEF Deliver
  <2>3. CASE sent[f] # << >>
    <3>1. \A g \in Flows : sent'[g] = sent[g] \/ (g = f /\ sent[g] # << >>)
      BY <2>2, <2>3 DEF TypeOK
    <3>2. \A g \in Flows : Heard(g)' = Heard(g)
      BY <3>1, FirstStays DEF Heard
    <3> QED
      BY <3>2 DEF Answers
  <2>4. CASE sent[f] = << >>
    <3>1. /\ sent'[f] = <<result>>
          /\ \A g \in Flows \ {f} : sent'[g] = sent[g]
      BY <2>1, <2>2, <2>4 DEF TypeOK
    <3>2. /\ Heard(f) = Promised!Silence
          /\ Heard(f)' = result
          /\ \A g \in Flows \ {f} : Heard(g)' = Heard(g)
      BY <2>1, <2>4, <3>1 DEF Heard, Promised!Silence
    <3>3. Answers' = [Answers EXCEPT ![f] = result]
      BY <2>1, <3>2 DEF Answers
    <3>4. result \in {Promised!Refusal} \union {Promised!Code(g) : g \in Consented}
      <4>1. CASE request[r].query.kind = "error"
        BY <2>0, <2>1, <4>1 DEF ResultOf, Promised!Refusal
      <4>2. CASE request[r].query.kind = "code"
        <5>1. PICK g \in Flows : request[r].query.state = g /\ tab[g] = "code"
          BY <4>2 DEF CodesFollowConsent
        <5>2. result = Promised!Code(g)
          BY <2>1, <4>2, <5>1 DEF ResultOf, Promised!Code
        <5> QED
          BY <5>1, <5>2 DEF Consented
      <4>3. request[r].query.kind \in {"code", "error"}
        BY <1>2, <2>0 DEF Queries
      <4> QED
        BY <4>1, <4>2, <4>3
    <3> QED
      BY <2>1, <3>2, <3>3, <3>4
  <2> QED
    BY <2>3, <2>4
<1> QED
  BY <1>1, <1>2 DEF HandleCallback

\* An end that is open to the sign-in, without a code presented.
LEMMA GivesUp ==
    ASSUME NEW f \in Flows, NEW result \in Promised!Ends(f),
           outcome[f] = "none", outcome' = [outcome EXCEPT ![f] = result],
           UNCHANGED <<tab, sent, ctx, presented>>
    PROVE  Promised!Next
<1>1. Consented' = Consented /\ Answers' = Answers
  BY DEF Consented, Answers, Heard
<1>2. Promised!GiveUp(f)
  BY <1>1 DEF Promised!GiveUp, Promised!End, Consented, Answers
<1> QED
  BY <1>2 DEF Promised!Next

\* Every step of the flow is one of the sign-in, or none.
LEMMA SignInStep ==
    ASSUME TypeOK, OnlyCallerCancels, WaitsOnce, CodesFollowConsent, OwnConsentOnly, [Next]_vars
    PROVE  [Promised!Next]_(Promised!vars)
<1> DEFINE Step == [Promised!Next]_(Promised!vars)
<1> SUFFICES Step
  OBVIOUS
<1>1. UNCHANGED <<tab, sent, ctx, presented, outcome>> => Step
  BY SignInStutters
<1>2. ASSUME NEW f \in Flows, Listen(f)
      PROVE  Step
  <2>1. UNCHANGED <<tab, sent, ctx, presented>> /\ outcome[f] = "none"
    BY <1>2 DEF Listen, world, channel, WaitsOnce
  <2>2. UNCHANGED outcome \/ outcome' = [outcome EXCEPT ![f] = "failed"]
    BY <1>2 DEF Listen
  <2>3. "failed" \in Promised!Ends(f)
    BY DEF Promised!Ends
  <2> QED
    BY <1>1, <2>1, <2>2, <2>3, GivesUp
<1>3. ASSUME NEW f \in Flows, OpenBrowser(f)
      PROVE  Step
  <2>1. UNCHANGED <<sent, ctx, presented>> /\ outcome[f] = "none"
    BY <1>3 DEF OpenBrowser, server, channel, WaitsOnce
  <2>2. CASE UNCHANGED tab /\ outcome' = [outcome EXCEPT ![f] = "failed"]
    <3>1. "failed" \in Promised!Ends(f)
      BY DEF Promised!Ends
    <3> QED
      BY <2>1, <2>2, <3>1, GivesUp
  <2>3. CASE UNCHANGED outcome
    <3>1. Consented' = Consented
      BY <1>3, OpenKeeps
    <3> QED
      BY <2>1, <2>3, <3>1 DEF Promised!vars, Consented, Heard
  <2> QED
    BY <1>3, <2>2, <2>3 DEF OpenBrowser, Leave
<1>4. ASSUME NEW f \in Flows, Wait(f)
      PROVE  Step
  <2>1. /\ UNCHANGED <<tab, sent, ctx, presented>>
        /\ flow[f] = "waiting" /\ outcome[f] = "none"
    BY <1>4 DEF Wait, server, world, WaitsOnce
  <2>2. ASSUME Pending(f), Check(f, Head(sent[f]))
        PROVE  Step
    <3>1. sent[f] # << >> /\ Heard(f) = Head(sent[f])
      BY <2>1, <2>2 DEF Pending, TypeOK, Heard
    <3>2. CASE Head(sent[f]).kind = "error" /\ Leave(f, "denied")
      <4>1. "denied" \in Promised!Ends(f)
        BY <3>1, <3>2 DEF Promised!Ends
      <4> QED
        BY <2>1, <3>2, <4>1, GivesUp DEF Leave
    <3>3. CASE Head(sent[f]).kind = "code" /\ Head(sent[f]).state # f /\ Leave(f, "mismatch")
      <4>1. "mismatch" \in Promised!Ends(f)
        BY <3>1, <3>3 DEF Promised!Ends
      <4> QED
        BY <2>1, <3>3, <4>1, GivesUp DEF Leave
    <3>4. CASE UNCHANGED outcome
      BY <1>1, <2>1, <3>4
    <3> QED
      BY <2>2, <3>2, <3>3, <3>4 DEF Check
  <2>3. ASSUME ctx[f], NEW result \in {"cancelled", "closed"}, Leave(f, result)
        PROVE  Step
    <3>1. result \in Promised!Ends(f)
      BY <2>3 DEF Promised!Ends
    <3> QED
      BY <2>1, <2>3, <3>1, GivesUp DEF Leave
  <2>4. closing[f] # "no" => ctx[f]
    BY <2>1 DEF OnlyCallerCancels
  <2> QED
    BY <1>4, <2>2, <2>3, <2>4 DEF Wait
<1>5. ASSUME NEW f \in Flows, Exchange(f)
      PROVE  Step
  <2>1. /\ UNCHANGED <<tab, sent, ctx>>
        /\ outcome[f] = "none" /\ sent[f] # << >>
        /\ Head(sent[f]).kind = "code" /\ Head(sent[f]).state = f
    BY <1>5 DEF Exchange, server, channel, WaitsOnce
  <2>2. CASE UNCHANGED presented /\ Leave(f, "failed")
    <3>1. "failed" \in Promised!Ends(f)
      BY DEF Promised!Ends
    <3> QED
      BY <2>1, <2>2, <3>1, GivesUp DEF Leave
  <2>3. ASSUME presented' = [presented EXCEPT ![f] = @ \union {f}],
               NEW result \in {"tokens", "failed"}, Leave(f, result)
        PROVE  Step
    <3>1. presented' = [presented EXCEPT ![f] = {f}]
      BY <2>3 DEF OwnConsentOnly
    <3>2. Answers[f] = Promised!Code(f)
      <4>1. Head(sent[f]) \in Results
        BY <2>1 DEF TypeOK
      <4> QED
        BY <2>1, <4>1 DEF Answers, Heard, Promised!Code, Results
    <3>3. Consented' = Consented /\ Answers' = Answers
      BY <2>1 DEF Consented, Answers, Heard
    <3>4. Promised!Redeem(f)
      BY <2>1, <2>3, <3>1, <3>2, <3>3 DEF Promised!Redeem, Promised!End, Leave, Consented, Answers
    <3> QED
      BY <3>4 DEF Promised!Next
  <2> QED
    BY <1>5, <2>1, <2>2, <2>3 DEF Exchange
<1>6. ASSUME NEW f \in Flows, Cancel(f)
      PROVE  Step
  <2>1. /\ UNCHANGED <<tab, sent, presented, outcome>>
        /\ ctx' = [ctx EXCEPT ![f] = TRUE]
    BY <1>6 DEF Cancel, channel, world
  <2>2. Consented' = Consented /\ Answers' = Answers
    BY <2>1 DEF Consented, Answers, Heard
  <2>3. Promised!Ask(f)
    BY <2>1, <2>2 DEF Promised!Ask, Consented, Answers
  <2> QED
    BY <2>3 DEF Promised!Next
<1>7. ASSUME NEW r \in Requests, HandleCallback(r)
      PROVE  Step
  <2>1. UNCHANGED <<tab, ctx, presented, outcome>> /\ Consented' = Consented
    BY <1>7 DEF HandleCallback, server, world, Consented
  <2>2. CASE Answers' = Answers
    BY <2>1, <2>2 DEF Promised!vars, Consented, Answers
  <2>3. ASSUME NEW f \in Flows, Heard(f) = Promised!Silence,
               NEW answer \in {Promised!Refusal} \union {Promised!Code(g) : g \in Consented},
               Answers' = [Answers EXCEPT ![f] = answer]
        PROVE  Step
    <3>1. Promised!Hear(f)
      BY <2>1, <2>3 DEF Promised!Hear, Consented, Answers
    <3> QED
      BY <3>1 DEF Promised!Next
  <2> QED
    BY <1>7, <2>2, <2>3, HearsFirst
<1>8. ASSUME NEW f \in Flows, NEW r \in Requests, Decide(f, r)
      PROVE  Step
  <2>1. UNCHANGED <<sent, ctx, presented, outcome>> /\ Answers' = Answers
    BY <1>8 DEF Decide, server, channel, Answers, Heard
  <2>2. CASE Consented' = Consented
    BY <2>1, <2>2 DEF Promised!vars, Consented, Answers
  <2>3. ASSUME NEW g \in Flows, Consented' = Consented \union {g}
        PROVE  Step
    <3>1. Promised!Consent(g)
      BY <2>1, <2>3 DEF Promised!Consent, Consented, Answers
    <3> QED
      BY <3>1 DEF Promised!Next
  <2> QED
    BY <2>2, <2>3, ConsentedStep
<1>9. ASSUME NEW f \in Flows, \/ DeferredClose(f) \/ Close(f) \/ Serve(f) \/ WatchContext(f)
                              \/ Kill(f)
      PROVE  Step
  BY <1>1, <1>9 DEF DeferredClose, Close, Shutdown, Drain, Serve, WatchContext, Kill, channel,
                    world
<1>10. ASSUME NEW r \in Requests, \/ Accept(r) \/ Flush(r) \/ Probe(r)
                                  \/ \E f \in Flows : Reload(f, r)
       PROVE  Step
  BY <1>1, <1>10 DEF Accept, Flush, Probe, Reload, server, channel, world
<1>11. CASE UNCHANGED vars
  BY <1>1, <1>11 DEF vars, server, channel, world
<1> QED
  BY <1>2, <1>3, <1>4, <1>5, <1>6, <1>7, <1>8, <1>9, <1>10, <1>11
     DEF Next, RunFlow, Handler

\* To its callers a flow is a sign-in that hears one answer, ends once, as that answer or
\* its caller would have it, and redeems only its own code, once: for any number of flows,
\* ports and requests, tabs left open, goroutines and failures (flow.go:18, 47).
THEOREM IsASignIn == Spec => ImplementsSignIn
<1>1. Init => Promised!Init
  <2> SUFFICES ASSUME Init PROVE Promised!Init
    OBVIOUS
  <2>1. Consented = {}
    BY DEF Init, Consented
  <2>2. Answers = [f \in Flows |-> Promised!Silence]
    BY DEF Init, Answers, Heard, Promised!Silence
  <2> QED
    BY <2>1, <2>2 DEF Init, Promised!Init, Consented, Answers
<1> QED
  BY <1>1, SignInStep, Invariants, PTL DEF Spec, ImplementsSignIn, Promised!Spec
-----------------------------------------------------------------------------
(* Nobody waits in vain, and nobody goes back. *)

LEMMA BegunStep ==
    ASSUME TypeOK, ServerOrder, ClosesBegun, [Next]_vars
    PROVE  ClosesBegun'
<1>1. ASSUME NEW f \in Flows, Listen(f)
      PROVE  ClosesBegun'
  BY <1>1 DEF Listen, Goto, TypeOK, ServerOrder, ClosesBegun
<1>2. ASSUME NEW f \in Flows, NEW step \in {"waiting", "closing", "exchanging"},
             Goto(f, step), UNCHANGED server
      PROVE  ClosesBegun'
  BY <1>2 DEF Goto, TypeOK, ClosesBegun, server
<1>3. ASSUME NEW f \in Flows, OpenBrowser(f) \/ Wait(f) \/ Exchange(f)
      PROVE  ClosesBegun'
  <2>1. /\ UNCHANGED server
        /\ \E step \in {"waiting", "closing", "exchanging"} : Goto(f, step)
    BY <1>3 DEF OpenBrowser, Wait, Check, Exchange, Leave
  <2> QED
    BY <2>1, <1>2
<1>4. ASSUME NEW f \in Flows, DeferredClose(f)
      PROVE  ClosesBegun'
  BY <1>4 DEF DeferredClose, BeginClose, Goto, TypeOK, ClosesBegun
<1>5. ASSUME NEW f \in Flows, WatchContext(f)
      PROVE  ClosesBegun'
  BY <1>5 DEF WatchContext, BeginClose, TypeOK, ClosesBegun
<1>6. ASSUME NEW f \in Flows, Shutdown(f) \/ Drain(f)
      PROVE  ClosesBegun'
  BY <1>6 DEF Shutdown, Drain, CloseListener, TypeOK, ClosesBegun
<1>7. ASSUME NEW f \in Flows, Serve(f)
      PROVE  ClosesBegun'
  BY <1>7 DEF Serve, CloseListener, TypeOK, ClosesBegun
<1>8. ASSUME NEW f \in Flows, Kill(f)
      PROVE  ClosesBegun'
  BY <1>8 DEF Kill, Goto, TypeOK, ClosesBegun
<1>9. CASE UNCHANGED <<flow, closing, serving, watcher>>
  BY <1>9 DEF ClosesBegun
<1>10. ASSUME NEW f \in Flows, Cancel(f)
       PROVE  UNCHANGED <<flow, closing, serving, watcher>>
  BY <1>10 DEF Cancel
<1>11. ASSUME NEW r \in Requests,
              Handler(r) \/ Probe(r) \/ (\E f \in Flows : Decide(f, r) \/ Reload(f, r))
       PROVE  UNCHANGED <<flow, closing, serving, watcher>>
  BY <1>11 DEF Handler, Accept, HandleCallback, Flush, Probe, Decide, Reload, server
<1>12. UNCHANGED vars => UNCHANGED <<flow, closing, serving, watcher>>
  BY DEF vars, server
<1> QED
  BY <1>1, <1>3, <1>4, <1>5, <1>6, <1>7, <1>8, <1>9, <1>10, <1>11, <1>12
     DEF Next, RunFlow, Close

LEMMA QueueStep ==
    ASSUME TypeOK, QueuesOpen, [Next]_vars
    PROVE  QueuesOpen'
<1>0. \A r \in Requests :
         request[r].step = "queued" => request[r].to \in Flows
  BY DEF TypeOK, RequestOK, HTTPRequests
<1>1. ASSUME NEW f \in Flows, NEW steps, "queued" \in steps, Drop(f, steps),
             serving' = [serving EXCEPT ![f] = "ended"]
      PROVE  QueuesOpen'
  <2>1. SUFFICES ASSUME NEW r \in Requests, request'[r].step = "queued"
                 PROVE  serving'[request'[r].to] \in {"starting", "yes"}
    BY DEF QueuesOpen
  <2>2. request'[r] = request[r] /\ r \notin RequestsOf(f, steps)
    BY <1>1, <2>1 DEF Drop, NoRequest
  <2>3. request[r].to \in Flows \ {f}
    BY <1>0, <1>1, <2>1, <2>2 DEF RequestsOf
  <2> QED
    BY <1>1, <2>1, <2>2, <2>3 DEF TypeOK, QueuesOpen
<1>2. ASSUME UNCHANGED serving,
             \A r \in Requests :
                request'[r].step = "queued" => request'[r] = request[r]
      PROVE  QueuesOpen'
  BY <1>2 DEF QueuesOpen
<1>3. ASSUME NEW r \in Requests, End(r) \/ Return(r), UNCHANGED serving
      PROVE  QueuesOpen'
  <2>1. CASE End(r)
    BY <1>2, <1>3, <2>1 DEF End, NoRequest, TypeOK
  <2>2. CASE Return(r)
    <3>1. request[r] \in HTTPRequests
      BY DEF TypeOK
    <3>2. request'[r].step = "finished" /\ \A q \in Requests \ {r} : request'[q] = request[q]
      BY <2>2, <3>1 DEF Return, TypeOK, HTTPRequests
    <3> QED
      BY <1>2, <1>3, <3>2
  <2> QED
    BY <1>3, <2>1, <2>2
<1>4. ASSUME NEW r \in Requests, NEW p, NEW query, SendTo(r, p, query), UNCHANGED serving
      PROVE  QueuesOpen'
  <2>1. CASE End(r)
    BY <1>3, <1>4, <2>1
  <2>2. ASSUME NEW f \in Flows, Listens(f, p),
               request' = [request EXCEPT ![r] = [step |-> "queued", to |-> f, query |-> query]]
        PROVE  QueuesOpen'
    <3>1. \A q \in Requests \ {r} : request'[q] = request[q]
      BY <2>2 DEF TypeOK
    <3>2. request'[r].to = f
      BY <2>2 DEF TypeOK
    <3>3. serving'[f] \in {"starting", "yes"}
      BY <1>4, <2>2 DEF Listens
    <3> QED
      BY <1>4, <3>1, <3>2, <3>3 DEF QueuesOpen
  <2> QED
    BY <1>4, <2>1, <2>2 DEF SendTo
<1>5. ASSUME NEW f \in Flows, Shutdown(f) \/ Serve(f)
      PROVE  QueuesOpen'
  BY <1>0, <1>1, <1>2, <1>5 DEF Shutdown, Serve, CloseListener, TypeOK, QueuesOpen
<1>6. ASSUME NEW f \in Flows, Kill(f)
      PROVE  QueuesOpen'
  BY <1>1, <1>6 DEF Kill
<1>7. ASSUME NEW f \in Flows, Listen(f)
      PROVE  QueuesOpen'
  BY <1>0, <1>7 DEF Listen, TypeOK, QueuesOpen
<1>8. ASSUME NEW f \in Flows,
             OpenBrowser(f) \/ Wait(f) \/ Exchange(f) \/ DeferredClose(f) \/ WatchContext(f)
               \/ Drain(f) \/ Cancel(f)
      PROVE  QueuesOpen'
  BY <1>2, <1>8 DEF OpenBrowser, Wait, Exchange, DeferredClose, WatchContext, Drain, Cancel,
     server
<1>9. ASSUME NEW r \in Requests, Handler(r)
      PROVE  QueuesOpen'
  <2>1. CASE Accept(r)
    <3>1. request'[r].step = "handled" /\ \A q \in Requests \ {r} : request'[q] = request[q]
      BY <2>1 DEF Accept, TypeOK, HTTPRequests
    <3> QED
      BY <1>2, <2>1, <3>1 DEF Accept, server
  <2> QED
    BY <1>3, <1>9, <2>1 DEF Handler, HandleCallback, Flush, server
<1>10. ASSUME NEW r \in Requests, Probe(r) \/ (\E f \in Flows : Decide(f, r) \/ Reload(f, r))
       PROVE  QueuesOpen'
  BY <1>4, <1>10 DEF Probe, Decide, Reload, server
<1>11. UNCHANGED vars => QueuesOpen'
  BY DEF vars, server, QueuesOpen
<1> QED
  BY <1>5, <1>6, <1>7, <1>8, <1>9, <1>10, <1>11 DEF Next, RunFlow, Close

\* No goroutine waits for one that has gone: Close has begun for whoever waits for it, a
\* connection in the queue has a server, and what is left of a flow that has returned
\* finds its server closed, which ends it (loopback.go:63, 70, 134).
THEOREM NobodyWaits == Spec => []NobodyWaitsInVain
<1>1. Init => ClosesBegun /\ QueuesOpen
  BY DEF Init, ClosesBegun, QueuesOpen, NoRequest
<1>2. ServesToTheEnd => ServerOrder
  BY DEF ServesToTheEnd, ServerOrder
<1>3. TypeOK /\ ServesToTheEnd /\ ClosesBegun /\ QueuesOpen => NobodyWaitsInVain
  BY DEF ServesToTheEnd, ClosesBegun, QueuesOpen, NobodyWaitsInVain, RequestsOf
<1> QED
  BY <1>1, <1>2, <1>3, BegunStep, QueueStep, Invariants, PTL DEF Spec
LEMMA Ranks ==
    /\ FlowRank("new") = 7 /\ FlowRank("listening") = 6 /\ FlowRank("waiting") = 5
    /\ FlowRank("exchanging") = 4 /\ FlowRank("closing") = 3 /\ FlowRank("blocked") = 2
    /\ FlowRank("returned") = 1 /\ FlowRank("killed") = 0
    /\ Rank("no") = 3
    /\ Rank("starting") = 2 /\ Rank("watching") = 2 /\ Rank("begun") = 2
    /\ Rank("yes") = 1 /\ Rank("blocked") = 1 /\ Rank("draining") = 1
    /\ Rank("ended") = 0 /\ Rank("closed") = 0
    /\ RequestRank("unsent") = 4 /\ RequestRank("queued") = 3 /\ RequestRank("handled") = 2
    /\ RequestRank("finished") = 1 /\ RequestRank("ended") = 0
BY DEF FlowRank, Rank, RequestRank

\* Each of the four parts of a flow stays where it is or goes on.
FlowOnward(f) == flow'[f] = flow[f] \/ FlowRank(flow'[f]) < FlowRank(flow[f])
ServerOnward(f) == serving'[f] = serving[f] \/ Rank(serving'[f]) < Rank(serving[f])
WatcherOnward(f) == watcher'[f] = watcher[f] \/ Rank(watcher'[f]) < Rank(watcher[f])
CloseOnward(f) == closing'[f] = closing[f] \/ Rank(closing'[f]) < Rank(closing[f])

Onward(f) == FlowOnward(f) /\ ServerOnward(f) /\ WatcherOnward(f) /\ CloseOnward(f)

LEMMA OnwardStep ==
    ASSUME TypeOK, ServerOrder, ClosesBegun, [Next]_vars, NEW g \in Flows
    PROVE  Onward(g)
<1> USE Ranks DEF TypeOK, Goto, Onward, FlowOnward, ServerOnward, WatcherOnward, CloseOnward
<1>1. ASSUME NEW f \in Flows, Listen(f)
      PROVE  Onward(g)
  BY <1>1 DEF Listen, ServerOrder, ClosesBegun
<1>2. ASSUME NEW f \in Flows, OpenBrowser(f) \/ Wait(f) \/ Exchange(f)
      PROVE  Onward(g)
  BY <1>2 DEF OpenBrowser, Wait, Check, Exchange, Leave, server
<1>3. ASSUME NEW f \in Flows, DeferredClose(f) \/ WatchContext(f)
      PROVE  Onward(g)
  BY <1>3 DEF DeferredClose, WatchContext, BeginClose
<1>4. ASSUME NEW f \in Flows, Shutdown(f) \/ Drain(f) \/ Serve(f)
      PROVE  Onward(g)
  BY <1>4 DEF Shutdown, Drain, Serve, CloseListener
<1>5. ASSUME NEW f \in Flows, Kill(f)
      PROVE  Onward(g)
  <2>1. CASE g # f
    BY <1>5, <2>1 DEF Kill
  <2>2. CASE g = f
    <3>1. flow[g] \in FlowSteps \ {"killed"} /\ flow'[g] = "killed"
      BY <1>5, <2>2 DEF Kill
    <3>2. /\ serving[g] \in {"no", "starting", "yes", "ended"} /\ serving'[g] = "ended"
          /\ watcher[g] \in {"no", "watching", "blocked", "ended"} /\ watcher'[g] = "ended"
          /\ closing[g] \in {"no", "begun", "draining", "closed"} /\ closing'[g] = "closed"
      BY <1>5, <2>2 DEF Kill
    <3>3. FlowOnward(g)
      BY <3>1 DEF FlowSteps
    <3>4. ServerOnward(g) /\ WatcherOnward(g) /\ CloseOnward(g)
      BY <3>2
    <3> QED
      BY <3>3, <3>4
  <2> QED
    BY <2>1, <2>2
<1>6. ASSUME NEW f \in Flows, Cancel(f)
      PROVE  Onward(g)
  BY <1>6 DEF Cancel
<1>7. ASSUME NEW r \in Requests,
             Handler(r) \/ Probe(r) \/ (\E f \in Flows : Decide(f, r) \/ Reload(f, r))
      PROVE  Onward(g)
  BY <1>7 DEF Handler, Accept, HandleCallback, Flush, Probe, Decide, Reload, server
<1>8. UNCHANGED vars => Onward(g)
  BY DEF vars, server
<1> QED
  BY <1>1, <1>2, <1>3, <1>4, <1>5, <1>6, <1>7, <1>8 DEF Next, RunFlow, Close

RequestOnward(q) ==
    request'[q] = request[q] \/ RequestRank(request'[q].step) < RequestRank(request[q].step)

LEMMA RequestStep ==
    ASSUME TypeOK, [Next]_vars, NEW q \in Requests
    PROVE  RequestOnward(q)
<1> USE Ranks
<1>0. request \in [Requests -> HTTPRequests]
  BY DEF TypeOK
<1>1. ASSUME NEW f, NEW steps \in SUBSET {"queued", "handled", "finished"}, Drop(f, steps)
      PROVE  RequestOnward(q)
  <2>1. CASE q \in RequestsOf(f, steps)
    <3>1. request[q].step \in {"queued", "handled", "finished"} /\ request'[q].step = "ended"
      BY <1>1, <2>1 DEF Drop, RequestsOf, NoRequest
    <3> QED
      BY <3>1 DEF RequestOnward
  <2>2. CASE q \notin RequestsOf(f, steps)
    BY <1>1, <2>2 DEF Drop, RequestOnward
  <2> QED
    BY <2>1, <2>2
<1>2. ASSUME NEW r \in Requests, End(r),
             request[r].step \in {"unsent", "queued", "handled", "finished"}
      PROVE  RequestOnward(q)
  BY <1>0, <1>2 DEF End, NoRequest, RequestOnward
<1>3. ASSUME NEW r \in Requests, NEW p, NEW query, SendTo(r, p, query)
      PROVE  RequestOnward(q)
  BY <1>0, <1>2, <1>3 DEF SendTo, RequestOnward
<1>4. ASSUME NEW r \in Requests, Handler(r)
      PROVE  RequestOnward(q)
  <2>1. CASE Accept(r)
    BY <1>0, <2>1 DEF Accept, HTTPRequests, RequestOnward
  <2>2. CASE HandleCallback(r)
    BY <1>0, <2>2 DEF HandleCallback, Return, HTTPRequests, RequestOnward
  <2>3. CASE Flush(r)
    BY <1>2, <2>3 DEF Flush
  <2> QED
    BY <1>4, <2>1, <2>2, <2>3 DEF Handler
<1>5. ASSUME NEW r \in Requests, Probe(r) \/ (\E f \in Flows : Decide(f, r) \/ Reload(f, r))
      PROVE  RequestOnward(q)
  BY <1>3, <1>5 DEF Probe, Decide, Reload
<1>6. ASSUME NEW f \in Flows, Shutdown(f) \/ Serve(f) \/ Kill(f)
      PROVE  RequestOnward(q)
  BY <1>1, <1>6 DEF Shutdown, Serve, Kill, CloseListener, RequestOnward
<1>7. ASSUME NEW f \in Flows,
             RunFlow(f) \/ Drain(f) \/ WatchContext(f) \/ Cancel(f)
      PROVE  RequestOnward(q)
  BY <1>7 DEF RunFlow, Listen, OpenBrowser, Wait, Exchange, DeferredClose, Drain,
     WatchContext, Cancel, RequestOnward
<1>8. UNCHANGED vars => RequestOnward(q)
  BY DEF vars, RequestOnward
<1> QED
  BY <1>4, <1>5, <1>6, <1>7, <1>8 DEF Next, Close

\* No goroutine and no handler runs on or comes back: every step brings it nearer to its
\* end, a second Close and a kill included (loopback.go:101, 134; flow.go:35).
THEOREM FlowsAreBounded == Spec => FlowsGoForward
<1>1. Init => ClosesBegun
  BY DEF Init, ClosesBegun
<1>2. ServesToTheEnd => ServerOrder
  BY DEF ServesToTheEnd, ServerOrder
<1>3. ASSUME TypeOK, TypeOK', ServerOrder, ClosesBegun, [Next]_vars, NEW f \in Flows,
             <<flow[f], serving[f], watcher[f], closing[f]>>'
                # <<flow[f], serving[f], watcher[f], closing[f]>>
      PROVE  StepsLeft(f)' < StepsLeft(f)
  <2>1. Onward(f)
    BY <1>3, OnwardStep
  <2>2. /\ \A step \in FlowSteps : FlowRank(step) \in Nat
        /\ \A step \in {"no", "starting", "yes", "ended"} : Rank(step) \in Nat
        /\ \A step \in {"no", "watching", "blocked", "ended"} : Rank(step) \in Nat
        /\ \A step \in {"no", "begun", "draining", "closed"} : Rank(step) \in Nat
    BY Ranks DEF FlowSteps
  <2>3. /\ FlowRank(flow[f]) \in Nat /\ FlowRank(flow'[f]) \in Nat
        /\ Rank(serving[f]) \in Nat /\ Rank(serving'[f]) \in Nat
        /\ Rank(watcher[f]) \in Nat /\ Rank(watcher'[f]) \in Nat
        /\ Rank(closing[f]) \in Nat /\ Rank(closing'[f]) \in Nat
    BY <1>3, <2>2 DEF TypeOK
  <2>4. /\ StepsLeft(f) = FlowRank(flow[f]) + Rank(serving[f]) + Rank(watcher[f])
                             + Rank(closing[f])
        /\ StepsLeft(f)' = FlowRank(flow'[f]) + Rank(serving'[f]) + Rank(watcher'[f])
                              + Rank(closing'[f])
    BY DEF StepsLeft
  <2> QED
    BY <1>3, <2>1, <2>3, <2>4
       DEF Onward, FlowOnward, ServerOnward, WatcherOnward, CloseOnward
<1>4. ASSUME TypeOK, TypeOK', ServerOrder, ClosesBegun, [Next]_vars
      PROVE  [/\ \A f \in Flows :
                    <<flow[f], serving[f], watcher[f], closing[f]>>'
                        # <<flow[f], serving[f], watcher[f], closing[f]>>
                      => StepsLeft(f)' < StepsLeft(f)
              /\ \A r \in Requests :
                    request'[r] # request[r]
                      => RequestRank(request'[r].step) < RequestRank(request[r].step)]_vars
  BY <1>3, <1>4, RequestStep DEF RequestOnward
<1> QED
  BY <1>1, <1>2, <1>4, BegunStep, Invariants, PTL DEF Spec, FlowsGoForward
=============================================================================

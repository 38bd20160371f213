----------------------------- MODULE GuardProofs -----------------------------
(* The guards of the request path that outlive a request.                      *)
(* MCPFilter, for every policy, body and answer, and whatever is reloaded      *)
(* while the exchange is under way: only allowed tools are called and listed.  *)
(* PipelineHolder, for any number of pipelines, writers, sends and addresses:  *)
(* the holder is type correct, its private sockets are fenced, replaced        *)
(* pipelines are closed once and authorised sockets are retained (IInv is      *)
(* inductive). Judge, for any number of concurrent requests, any threshold and *)
(* any capacity of the semaphore: the breaker is never wedged half-open and a  *)
(* judge that falls back to deny fails closed.                                 *)
EXTENDS MCPFilter, PipelineHolder, Judge, TLAPS

Message == [id : STRING, tools : SUBSET STRING]
Item == [batch : BOOLEAN, messages : Seq(Message)]

\* The request was judged by the snapshot, and the trace remembers its lists.
Judged ==
    phase \in {"route", "upstream", "relay", "done"} /\ snapshot # NoServer
        /\ request.method = "POST" =>
            /\ ~Unreadable(request) /\ ~DeniedAny(Server(snapshot), request)
            /\ recorded = recordToolsListIDs(request)

\* The answer as the client is to see it.
wrapped == [i \in DOMAIN response.items |-> WrapResponseBody(response.items[i])]

\* What was delivered is what was read, item by item, through the filter.
Filtered ==
    /\ response.items \in Seq(Item) /\ relayed \in 0..Len(response.items)
    /\ delivered \in Seq(Item) /\ Len(delivered) = relayed
    /\ \A i \in 1..relayed : delivered[i] = wrapped[i]
    /\ phase \notin {"relay", "done"} => relayed = 0

FilterInv == Judged /\ Filtered

\* Filtering a message keeps its identifier.
LEMMA FilterMessageType ==
  ASSUME NEW m \in Message, NEW allowed
  PROVE  /\ filterMessage(m, allowed) \in Message
         /\ filterMessage(m, allowed).id = m.id
         /\ isToolsListResponse(m.id) =>
                filterMessage(m, allowed).tools \subseteq allowed \union {""}
         /\ ~isToolsListResponse(m.id) => filterMessage(m, allowed) = m
<1> DEFINE kept == filterToolsListResult(m.tools, allowed)
<1>1. kept \in SUBSET STRING /\ kept \subseteq allowed \union {""}
  BY DEF Message, filterToolsListResult
<1> HIDE DEF kept
<1>2. [m EXCEPT !.tools = kept] \in Message
  BY <1>1 DEF Message
<1>3. [m EXCEPT !.tools = kept].id = m.id /\ [m EXCEPT !.tools = kept].tools = kept
  BY DEF Message
<1>4. filterMessage(m, allowed) = IF isToolsListResponse(m.id)
                                  THEN [m EXCEPT !.tools = kept] ELSE m
  BY DEF filterMessage, kept
<1> QED
  BY <1>1, <1>2, <1>3, <1>4

\* Filtering an item filters each message of it.
LEMMA FilterItemType ==
  ASSUME NEW item \in Item, NEW allowed
  PROVE  /\ filterItem(item, allowed) \in Item
         /\ filterItem(item, allowed).messages
                = [i \in DOMAIN item.messages |-> filterMessage(item.messages[i], allowed)]
<1> DEFINE ms == [i \in DOMAIN item.messages |-> filterMessage(item.messages[i], allowed)]
<1>1. item.messages \in Seq(Message)
  BY DEF Item
<1>2. \A i \in DOMAIN item.messages : filterMessage(item.messages[i], allowed) \in Message
  <2> TAKE i \in DOMAIN item.messages
  <2>1. item.messages[i] \in Message
    BY <1>1
  <2> QED
    BY <2>1, FilterMessageType
<1>3. ms \in Seq(Message)
  BY <1>1, <1>2
<1>4. filterItem(item, allowed) = [item EXCEPT !.messages = ms]
  BY DEF filterItem
<1> HIDE DEF ms
<1>5. [item EXCEPT !.messages = ms] \in Item /\ [item EXCEPT !.messages = ms].messages = ms
  BY <1>3 DEF Item
<1> QED
  BY <1>4, <1>5 DEF ms

\* The filter maps items to items.
LEMMA WrapType ==
  ASSUME NEW item \in Item
  PROVE  WrapResponseBody(item) \in Item
  BY FilterItemType DEF WrapResponseBody, rewriteEvent

\* What the filter makes of an item depends on the snapshot, the recorded identifiers
\* and the kind of response, and on nothing a reload changes.
LEMMA WrapStable ==
  ASSUME UNCHANGED <<snapshot, recorded, response>>
  PROVE  wrapped' = wrapped
  BY DEF wrapped, WrapResponseBody, rewriteEvent, filterItem, filterMessage,
         isToolsListResponse

\* An exchange that has not been judged satisfies the invariant.
LEMMA InitFilter == MCPInit => FilterInv
  BY DEF MCPInit, FilterInv, Judged, Filtered, NoResponse

\* A reload and every step of the exchange keep it.
LEMMA StepFilter == FilterInv /\ [MCPNext]_mcpVars => FilterInv'
<1> SUFFICES ASSUME FilterInv, [MCPNext]_mcpVars PROVE FilterInv'
  OBVIOUS
<1> USE DEF FilterInv
<1>1. ASSUME UNCHANGED <<snapshot, request, recorded, response, relayed, delivered>>,
             \/ phase' = phase
             \/ phase = "route" /\ phase' \in {"upstream", "failed"}
             \/ phase = "relay" /\ phase' = "done"
      PROVE FilterInv'
  <2>1. Judged'
    BY <1>1 DEF Judged
  <2>2. phase' \notin {"relay", "done"} => relayed' = 0
    BY <1>1 DEF Filtered
  <2> QED
    BY <1>1, <2>1, <2>2, WrapStable DEF Filtered
<1>2. CASE UNCHANGED mcpVars
  BY <1>1, <1>2 DEF mcpVars
<1>3. CASE Reload
  BY <1>1, <1>3 DEF Reload
<1>4. CASE EvaluateRequest
  <2>1. Judged'
    BY <1>4 DEF EvaluateRequest, Judged
  <2>2. relayed' = 0 /\ UNCHANGED <<response, relayed, delivered>>
    BY <1>4 DEF EvaluateRequest, Filtered
  <2> QED
    BY <2>1, <2>2 DEF Filtered
<1>5. CASE Apply
  BY <1>1, <1>5 DEF Apply
<1>6. CASE UpstreamAnswers
  <2>1. Judged'
    BY <1>6 DEF UpstreamAnswers, Judged
  <2>2. response'.items \in Seq(Item) /\ relayed' = 0 /\ UNCHANGED <<relayed, delivered>>
    BY <1>6, ResponsesAreItems DEF UpstreamAnswers, Filtered, Item, Message
  <2> QED
    BY <1>6, <2>1, <2>2 DEF Filtered, UpstreamAnswers
<1>7. CASE Relay
  <2>1. Judged'
    BY <1>7 DEF Relay, Judged
  <2> DEFINE next == WrapResponseBody(response.items[relayed + 1])
  <2>2. next \in Item
    <3>1. response.items[relayed + 1] \in Item
      BY <1>7 DEF Relay, Filtered
    <3> QED
      BY <3>1, WrapType
  <2>3. delivered' = Append(delivered, next) /\ relayed' = relayed + 1
    BY <1>7 DEF Relay
  <2>4. \A i \in 1..relayed' : delivered'[i] = wrapped[i]
    <3> HIDE DEF next
    <3>1. \A i \in 1..relayed : delivered'[i] = delivered[i]
      BY <2>3 DEF Filtered
    <3>2. delivered'[relayed + 1] = next
      BY <2>3 DEF Filtered
    <3>3. wrapped[relayed + 1] = next
      BY <1>7 DEF Relay, Filtered, wrapped, next
    <3> QED
      BY <2>3, <3>1, <3>2, <3>3 DEF Filtered
  <2>5. wrapped' = wrapped
    BY <1>7, WrapStable DEF Relay
  <2>6. delivered' \in Seq(Item) /\ Len(delivered') = relayed'
    BY <2>2, <2>3 DEF Filtered
  <2> QED
    BY <1>7, <2>1, <2>3, <2>4, <2>5, <2>6 DEF Relay, Filtered
<1>8. CASE Finish
  BY <1>1, <1>8 DEF Finish
<1> QED
  BY <1>2, <1>3, <1>4, <1>5, <1>6, <1>7, <1>8 DEF MCPNext

\* EvaluateRequest lets nothing through that the server it matched does not allow,
\* whatever is reloaded before the request reaches the upstream.
THEOREM OnlyAllowedCalls == MCPSpec => []CallsAllowed
<1>1. FilterInv => CallsAllowed
  BY DEF FilterInv, Judged, CallsAllowed, Reached, Unreadable, DeniedAny, DeniedCall,
         EvaluateTool, evaluate
<1> QED
  BY <1>1, InitFilter, StepFilter, PTL DEF MCPSpec

\* Every answer to tools/list that the wrapped body delivers names only tools of the
\* server that admitted the request, and every other message is as it was sent.
THEOREM OnlyAllowedListed == MCPSpec => []ListsFiltered
<1>1. FilterInv => ListsFiltered
  <2> SUFFICES ASSUME FilterInv, snapshot # NoServer, request.method = "POST",
                      response.kind \in {"json", "sse"},
                      NEW i \in DOMAIN delivered, NEW j \in DOMAIN delivered[i].messages
               PROVE  LET got == delivered[i].messages[j]
                          sent == response.items[i].messages[j]
                      IN IF got.id \in ListIds
                         THEN \/ got.tools \subseteq DOMAIN Server(snapshot) \union {""}
                              \/ response.kind = "sse" /\ response.items[i].batch
                         ELSE got = sent
    BY DEF ListsFiltered
  <2> DEFINE item == response.items[i]
             allowed == DOMAIN Server(snapshot)
  <2>1. i \in 1..relayed /\ item \in Item /\ delivered[i] = WrapResponseBody(item)
    <3>1. i \in 1..relayed /\ i \in DOMAIN response.items /\ item \in Item
      BY DEF FilterInv, Filtered
    <3>2. delivered[i] = wrapped[i]
      BY <3>1 DEF FilterInv, Filtered
    <3> QED
      BY <3>1, <3>2 DEF wrapped
  <2>2. recorded = ListIds
    BY <2>1 DEF FilterInv, Judged, Filtered, recordToolsListIDs, ListIds
  <2> HIDE DEF item, allowed
  <2>3. \/ delivered[i] = filterItem(item, allowed)
        \/ response.kind = "sse" /\ item.batch /\ delivered[i] = item
    BY <2>1 DEF WrapResponseBody, rewriteEvent, allowed, Item
  <2>4. CASE response.kind = "sse" /\ item.batch /\ delivered[i] = item
    BY <2>4 DEF item
  <2>5. CASE delivered[i] = filterItem(item, allowed)
    <3>1. delivered[i].messages
            = [k \in DOMAIN item.messages |-> filterMessage(item.messages[k], allowed)]
      BY <2>1, <2>5, FilterItemType
    <3>2. /\ j \in DOMAIN item.messages
          /\ delivered[i].messages[j] = filterMessage(item.messages[j], allowed)
      BY <3>1
    <3>4. item.messages[j] \in Message
      BY <2>1, <3>2 DEF Item
    <3>3. NullId \notin ListIds
      BY DEF ListIds
    <3> QED
      <4> DEFINE m == item.messages[j]
                 got == delivered[i].messages[j]
      <4>1. /\ got.id = m.id
            /\ isToolsListResponse(m.id) => got.tools \subseteq allowed \union {""}
            /\ ~isToolsListResponse(m.id) => got = m
        BY <3>2, <3>4, FilterMessageType
      <4>2. isToolsListResponse(m.id) <=> got.id \in ListIds
        BY <2>2, <3>3, <4>1 DEF isToolsListResponse
      <4> QED
        BY <4>1, <4>2 DEF item, allowed
  <2> QED
    BY <2>3, <2>4, <2>5
<1> QED
  BY <1>1, InitFilter, StepFilter, PTL DEF MCPSpec

-----------------------------------------------------------------------------
\* The initial state, before any Store or dial, satisfies IInv.
LEMMA InitHolder == Init => IInv
  BY HolderConstants
  DEF Init, IInv, TypeOK, LockInv, TodoInv, ConnInv, FenceInv,
      CloseInv, Retired, ConnPC

\* Every step of Store and of a send keeps the variables in their types.
LEMMA TypeStep == TypeOK /\ [Next]_vars => TypeOK'
<1> SUFFICES ASSUME TypeOK, [Next]_vars PROVE TypeOK'
  OBVIOUS
<1> USE HolderConstants DEF TypeOK, ConnPC
<1>1. ASSUME NEW w \in Writers, NEW next \in Pipelines, StoreSwap(w, next)
      PROVE TypeOK'
  BY <1>1 DEF StoreSwap, connVars
<1>2. ASSUME NEW w \in Writers, NEW c \in Conns, StoreFence(w, c) PROVE TypeOK'
  BY <1>2 DEF StoreFence
<1>3. ASSUME NEW w \in Writers, StoreUnlock(w) PROVE TypeOK'
  BY <1>3 DEF StoreUnlock, connVars
<1>4. ASSUME NEW w \in Writers, StoreCloseOld(w) PROVE TypeOK'
  BY <1>4 DEF StoreCloseOld, connVars
<1>5. ASSUME NEW c \in Conns, Send(c) PROVE TypeOK'
  <2> USE DEF holderVars, writerVars
  <2>1. CASE RoundTrip(c)
    BY <2>1 DEF RoundTrip
  <2>2. CASE PassthroughDial(c)
    BY <2>2 DEF PassthroughDial
  <2>3. CASE SharedDial(c)
    BY <2>3 DEF SharedDial
  <2>4. CASE DialControl(c)
    BY <2>4 DEF DialControl
  <2>5. CASE Connect(c)
    <3>1. cpc' \in [Conns -> ConnPC] /\ sock' \in [Conns -> {"none", "open", "closed"}]
      <4>1. CASE /\ cpc' = [cpc EXCEPT ![c] = "dialed"]
                 /\ sock' = [sock EXCEPT ![c] = "open"]
        BY <4>1
      <4>2. CASE cpc' = [cpc EXCEPT ![c] = "done"] /\ UNCHANGED sock
        BY <4>2
      <4> QED BY <2>5, <4>1, <4>2 DEF Connect
    <3>2. UNCHANGED <<holderVars, writerVars, req, addr>>
      BY <2>5 DEF Connect
    <3> QED BY <3>1, <3>2
  <2>6. CASE Track(c)
    BY <2>6 DEF Track
  <2>7. CASE CloseRefused(c)
    BY <2>7 DEF CloseRefused
  <2>8. CASE CloseForget(c)
    BY <2>8 DEF CloseForget
  <2>9. CASE CloseSocket(c)
    BY <2>9 DEF CloseSocket
  <2>10. QED
    BY <1>5, <2>1, <2>2, <2>3, <2>4, <2>5, <2>6, <2>7, <2>8, <2>9 DEF Send
<1>6. CASE UNCHANGED vars
  BY <1>6 DEF vars
<1>7. QED
  BY <1>1, <1>2, <1>3, <1>4, <1>5, <1>6 DEF Next, Store

\* Lock and Unlock bracket the fencing loop of one Store at a time.
LEMMA LockStep == TypeOK /\ LockInv /\ [Next]_vars => LockInv'
<1> SUFFICES ASSUME TypeOK, LockInv, [Next]_vars PROVE LockInv'
  OBVIOUS
<1> USE HolderConstants DEF TypeOK, ConnPC, LockInv
<1>1. ASSUME NEW w \in Writers, NEW next \in Pipelines, StoreSwap(w, next)
      PROVE LockInv'
  BY <1>1 DEF StoreSwap, connVars
<1>2. ASSUME NEW w \in Writers, NEW c \in Conns, StoreFence(w, c) PROVE LockInv'
  BY <1>2 DEF StoreFence
<1>3. ASSUME NEW w \in Writers, StoreUnlock(w) PROVE LockInv'
  BY <1>3 DEF StoreUnlock, connVars
<1>4. ASSUME NEW w \in Writers, StoreCloseOld(w) PROVE LockInv'
  BY <1>4 DEF StoreCloseOld, connVars
<1>5. ASSUME NEW c \in Conns, Send(c) PROVE LockInv'
  <2> USE DEF holderVars, writerVars
  <2>1. CASE RoundTrip(c)
    BY <2>1 DEF RoundTrip
  <2>2. CASE PassthroughDial(c)
    BY <2>2 DEF PassthroughDial
  <2>3. CASE SharedDial(c)
    BY <2>3 DEF SharedDial
  <2>4. CASE DialControl(c)
    BY <2>4 DEF DialControl
  <2>5. CASE Connect(c)
    BY <2>5 DEF Connect
  <2>6. CASE Track(c)
    BY <2>6 DEF Track
  <2>7. CASE CloseRefused(c)
    BY <2>7 DEF CloseRefused
  <2>8. CASE CloseForget(c)
    BY <2>8 DEF CloseForget
  <2>9. CASE CloseSocket(c)
    BY <2>9 DEF CloseSocket
  <2>10. QED
    BY <1>5, <2>1, <2>2, <2>3, <2>4, <2>5, <2>6, <2>7, <2>8, <2>9 DEF Send
<1>6. CASE UNCHANGED vars
  BY <1>6 DEF vars
<1>7. QED
  BY <1>1, <1>2, <1>3, <1>4, <1>5, <1>6 DEF Next, Store

\* Only the Store that holds the mutex changes the tracked set meanwhile.
LEMMA TodoStep == TypeOK /\ LockInv /\ TodoInv /\ [Next]_vars => TodoInv'
<1> SUFFICES ASSUME TypeOK, LockInv, TodoInv, [Next]_vars PROVE TodoInv'
  OBVIOUS
<1> USE HolderConstants DEF TypeOK, ConnPC, LockInv, TodoInv
<1>1. ASSUME NEW w \in Writers, NEW next \in Pipelines, StoreSwap(w, next)
      PROVE TodoInv'
  BY <1>1 DEF StoreSwap, connVars
<1>2. ASSUME NEW w \in Writers, NEW c \in Conns, StoreFence(w, c) PROVE TodoInv'
  BY <1>2 DEF StoreFence
<1>3. ASSUME NEW w \in Writers, StoreUnlock(w) PROVE TodoInv'
  BY <1>3 DEF StoreUnlock, connVars
<1>4. ASSUME NEW w \in Writers, StoreCloseOld(w) PROVE TodoInv'
  BY <1>4 DEF StoreCloseOld, connVars
<1>5. ASSUME NEW c \in Conns, Send(c) PROVE TodoInv'
  <2> USE DEF holderVars, writerVars
  <2>1. CASE RoundTrip(c)
    BY <2>1 DEF RoundTrip
  <2>2. CASE PassthroughDial(c)
    BY <2>2 DEF PassthroughDial
  <2>3. CASE SharedDial(c)
    BY <2>3 DEF SharedDial
  <2>4. CASE DialControl(c)
    BY <2>4 DEF DialControl
  <2>5. CASE Connect(c)
    BY <2>5 DEF Connect
  <2>6. CASE Track(c)
    BY <2>6 DEF Track
  <2>7. CASE CloseRefused(c)
    BY <2>7 DEF CloseRefused
  <2>8. CASE CloseForget(c)
    BY <2>8 DEF CloseForget
  <2>9. CASE CloseSocket(c)
    BY <2>9 DEF CloseSocket
  <2>10. QED
    BY <1>5, <2>1, <2>2, <2>3, <2>4, <2>5, <2>6, <2>7, <2>8, <2>9 DEF Send
<1>6. CASE UNCHANGED vars
  BY <1>6 DEF vars
<1>7. QED
  BY <1>1, <1>2, <1>3, <1>4, <1>5, <1>6 DEF Next, Store

\* Track, the fence and Close keep the tracked set equal to the live admitted
\* sockets, and SharedDial keeps shared sockets off denied addresses.
LEMMA ConnStep == TypeOK /\ TodoInv /\ ConnInv /\ [Next]_vars => ConnInv'
<1> SUFFICES ASSUME TypeOK, TodoInv, ConnInv, [Next]_vars PROVE ConnInv'
  OBVIOUS
<1> USE HolderConstants DEF TypeOK, ConnPC, TodoInv, ConnInv
<1>1. ASSUME NEW w \in Writers, NEW next \in Pipelines, StoreSwap(w, next)
      PROVE ConnInv'
  BY <1>1 DEF StoreSwap, connVars
<1>2. ASSUME NEW w \in Writers, NEW c \in Conns, StoreFence(w, c) PROVE ConnInv'
  BY <1>2 DEF StoreFence
<1>3. ASSUME NEW w \in Writers, StoreUnlock(w) PROVE ConnInv'
  BY <1>3 DEF StoreUnlock, connVars
<1>4. ASSUME NEW w \in Writers, StoreCloseOld(w) PROVE ConnInv'
  BY <1>4 DEF StoreCloseOld, connVars
<1>5. ASSUME NEW c \in Conns, Send(c) PROVE ConnInv'
  <2> USE DEF holderVars, writerVars
  <2>1. CASE RoundTrip(c)
    BY <2>1 DEF RoundTrip
  <2>2. CASE PassthroughDial(c)
    BY <2>2 DEF PassthroughDial
  <2>3. CASE SharedDial(c)
    BY <2>3 DEF SharedDial
  <2>4. CASE DialControl(c)
    BY <2>4 DEF DialControl
  <2>5. CASE Connect(c)
    BY <2>5 DEF Connect
  <2>6. CASE Track(c)
    BY <2>6 DEF Track
  <2>7. CASE CloseRefused(c)
    BY <2>7 DEF CloseRefused
  <2>8. CASE CloseForget(c)
    BY <2>8 DEF CloseForget
  <2>9. CASE CloseSocket(c)
    BY <2>9 DEF CloseSocket
  <2>10. QED
    BY <1>5, <2>1, <2>2, <2>3, <2>4, <2>5, <2>6, <2>7, <2>8, <2>9 DEF Send
<1>6. CASE UNCHANGED vars
  BY <1>6 DEF vars
<1>7. QED
  BY <1>1, <1>2, <1>3, <1>4, <1>5, <1>6 DEF Next, Store

\* The heart of the argument: StoreSwap puts every connection in todo, the loop
\* takes one out only when it is authorised or closed, and Track admits under
\* the mutex and the pipeline in force.
LEMMA FenceStep == TypeOK /\ LockInv /\ ConnInv /\ FenceInv /\ [Next]_vars => FenceInv'
<1> SUFFICES ASSUME TypeOK, LockInv, ConnInv, FenceInv, [Next]_vars PROVE FenceInv'
  OBVIOUS
<1> USE HolderConstants DEF TypeOK, ConnPC, LockInv, ConnInv, FenceInv, AllowedConn
<1>1. ASSUME NEW w \in Writers, NEW next \in Pipelines, StoreSwap(w, next)
      PROVE FenceInv'
  BY <1>1 DEF StoreSwap, connVars
<1>2. ASSUME NEW w \in Writers, NEW c \in Conns, StoreFence(w, c) PROVE FenceInv'
  BY <1>2 DEF StoreFence
<1>3. ASSUME NEW w \in Writers, StoreUnlock(w) PROVE FenceInv'
  BY <1>3 DEF StoreUnlock, connVars
<1>4. ASSUME NEW w \in Writers, StoreCloseOld(w) PROVE FenceInv'
  BY <1>4 DEF StoreCloseOld, connVars
<1>5. ASSUME NEW c \in Conns, Send(c) PROVE FenceInv'
  <2> USE DEF holderVars, writerVars
  <2>1. CASE RoundTrip(c)
    BY <2>1 DEF RoundTrip
  <2>2. CASE PassthroughDial(c)
    BY <2>2 DEF PassthroughDial
  <2>3. CASE SharedDial(c)
    BY <2>3 DEF SharedDial
  <2>4. CASE DialControl(c)
    BY <2>4 DEF DialControl
  <2>5. CASE Connect(c)
    BY <2>5 DEF Connect
  <2>6. CASE Track(c)
    BY <2>6 DEF Track
  <2>7. CASE CloseRefused(c)
    BY <2>7 DEF CloseRefused
  <2>8. CASE CloseForget(c)
    BY <2>8 DEF CloseForget
  <2>9. CASE CloseSocket(c)
    BY <2>9 DEF CloseSocket
  <2>10. QED
    BY <1>5, <2>1, <2>2, <2>3, <2>4, <2>5, <2>6, <2>7, <2>8, <2>9 DEF Send
<1>6. CASE UNCHANGED vars
  BY <1>6 DEF vars
<1>7. QED
  BY <1>1, <1>2, <1>3, <1>4, <1>5, <1>6 DEF Next, Store

\* The Store that swaps retires the pipeline that was in force, which no other has.
LEMMA CloseSwap ==
  ASSUME TypeOK, CloseInv, NEW w \in Writers, NEW next \in Pipelines, StoreSwap(w, next)
  PROVE  CloseInv'
<1>1. /\ wpc[w] = "idle" /\ next \notin built /\ current' = next
      /\ built' = built \cup {next} /\ closedPl' = closedPl
  BY HolderConstants DEF StoreSwap, TypeOK, Retired
<1>2. \A v \in Writers : /\ Retired(v)' <=> Retired(v) \/ v = w
                         /\ old'[v] = IF v = w THEN current ELSE old[v]
  BY HolderConstants DEF StoreSwap, TypeOK, Retired
<1>3. ~Retired(w)
  BY <1>1 DEF Retired
<1>4. current' \in built' /\ closedPl' \subseteq built' \ {current'}
  BY <1>1 DEF CloseInv
<1>5. \A v \in Writers :
         Retired(v)' => old'[v] \in built' /\ old'[v] # current' /\ old'[v] \notin closedPl'
  BY <1>1, <1>2 DEF CloseInv
<1>6. \A u, v \in Writers : Retired(u)' /\ Retired(v)' /\ u # v => old'[u] # old'[v]
  BY <1>2, <1>3 DEF CloseInv
<1>7. \A p \in built' : p = current' \/ p \in closedPl'
                           \/ \E v \in Writers : Retired(v)' /\ old'[v] = p
  BY <1>1, <1>2, <1>3 DEF CloseInv
<1> QED BY <1>4, <1>5, <1>6, <1>7 DEF CloseInv

\* A step of a send, or of the fencing loop, retires and closes no pipeline.
LEMMA CloseKept ==
  ASSUME CloseInv, UNCHANGED <<current, built, closedPl, wpc, old>>
  PROVE  CloseInv'
BY DEF CloseInv, Retired

\* A Store that has fenced still has its pipeline to close.
LEMMA CloseUnlock ==
  ASSUME TypeOK, CloseInv, NEW w \in Writers, StoreUnlock(w)
  PROVE  CloseInv'
<1>1. UNCHANGED <<current, built, closedPl, old>>
  BY DEF StoreUnlock
<1>2. \A v \in Writers : Retired(v)' <=> Retired(v)
  BY DEF StoreUnlock, TypeOK, Retired
<1> QED BY <1>1, <1>2 DEF CloseInv

\* The pipeline a Store retired is closed by it, and by no other.
LEMMA CloseOld ==
  ASSUME TypeOK, CloseInv, NEW w \in Writers, StoreCloseOld(w)
  PROVE  CloseInv'
<1>1. Retired(w) /\ closedPl' = closedPl \cup {old[w]} /\ UNCHANGED <<current, built, old>>
  BY DEF StoreCloseOld, Retired
<1>2. \A v \in Writers : Retired(v)' <=> Retired(v) /\ v # w
  BY DEF StoreCloseOld, TypeOK, Retired
<1>3. current' \in built' /\ closedPl' \subseteq built' \ {current'}
  BY <1>1 DEF CloseInv
<1>4. \A v \in Writers :
         Retired(v)' => old'[v] \in built' /\ old'[v] # current' /\ old'[v] \notin closedPl'
  BY <1>1, <1>2 DEF CloseInv
<1>5. \A u, v \in Writers : Retired(u)' /\ Retired(v)' /\ u # v => old'[u] # old'[v]
  BY <1>1, <1>2 DEF CloseInv
<1>6. \A p \in built' : p = current' \/ p \in closedPl'
                           \/ \E v \in Writers : Retired(v)' /\ old'[v] = p
  BY <1>1, <1>2 DEF CloseInv
<1> QED BY <1>3, <1>4, <1>5, <1>6 DEF CloseInv

\* Swap hands each pipeline to exactly one Store to close.
LEMMA CloseStep == TypeOK /\ LockInv /\ CloseInv /\ [Next]_vars => CloseInv'
<1> SUFFICES ASSUME TypeOK, CloseInv, [Next]_vars PROVE CloseInv'
  OBVIOUS
<1>1. ASSUME NEW w \in Writers, NEW next \in Pipelines, StoreSwap(w, next)
      PROVE CloseInv'
  BY <1>1, CloseSwap
<1>2. ASSUME NEW w \in Writers, NEW c \in Conns, StoreFence(w, c) PROVE CloseInv'
  BY <1>2, CloseKept DEF StoreFence
<1>3. ASSUME NEW w \in Writers, StoreUnlock(w) PROVE CloseInv'
  BY <1>3, CloseUnlock
<1>4. ASSUME NEW w \in Writers, StoreCloseOld(w) PROVE CloseInv'
  BY <1>4, CloseOld
<1>5. ASSUME NEW c \in Conns, Send(c) PROVE CloseInv'
  <2>1. CASE RoundTrip(c) \/ PassthroughDial(c) \/ SharedDial(c)
    BY <2>1, CloseKept DEF RoundTrip, PassthroughDial, SharedDial, holderVars, writerVars
  <2>2. CASE DialControl(c) \/ Connect(c) \/ Track(c)
    BY <2>2, CloseKept DEF DialControl, Connect, Track, holderVars, writerVars
  <2>3. CASE CloseRefused(c) \/ CloseForget(c) \/ CloseSocket(c)
    BY <2>3, CloseKept DEF CloseRefused, CloseForget, CloseSocket, holderVars, writerVars
  <2>4. QED
    BY <1>5, <2>1, <2>2, <2>3 DEF Send
<1>6. CASE UNCHANGED vars
  BY <1>6, CloseKept DEF vars
<1>7. QED
  BY <1>1, <1>2, <1>3, <1>4, <1>5, <1>6 DEF Next, Store

\* IInv is an invariant of the holder.
THEOREM HolderInvariance == Spec => []IInv
<1>1. IInv /\ [Next]_vars => IInv'
  BY TypeStep, LockStep, TodoStep, ConnStep, FenceStep, CloseStep DEF IInv
<1>2. QED
  BY InitHolder, <1>1, PTL DEF Spec

\* Type correctness of the holder's state, Store's locals and the sends.
THEOREM HolderTypes == Spec => []TypeOK
<1>1. IInv => TypeOK
  BY DEF IInv
<1>2. QED
  BY HolderInvariance, <1>1, PTL

\* Reload fences revoked sockets before it is acknowledged: with the mutex free
\* every usable socket to a denied address is authorised by the pipeline in
\* force, for any number of reloads and sends (Store, TrackPrivateConnection).
THEOREM Fencing == Spec => []PrivateSocketsFenced
<1>1. IInv => PrivateSocketsFenced
  BY HolderConstants
  DEF IInv, PrivateSocketsFenced, TypeOK, ConnInv, FenceInv, Usable, AllowedConn, Allowed
<1>2. QED
  BY HolderInvariance, <1>1, PTL

\* Overlapping Stores close every replaced pipeline and never the one in force.
THEOREM ReplacedClosed == Spec => []ReplacedPipelinesClosed
<1>1. IInv => ReplacedPipelinesClosed
  BY DEF IInv, ReplacedPipelinesClosed, CloseInv, Retired
<1>2. QED
  BY HolderInvariance, <1>1, PTL

\* Unchanged authorization retains a connection: no step of Store, of a dial or
\* of another connection closes the socket under it.
THEOREM Retention == Spec => RetainsAuthorized
<1> DEFINE Retained ==
      \A c \in Conns :
         Usable(c) /\ cpc'[c] = cpc[c] /\ AllowedConn(current, c) => sock'[c] = "open"
<1>1. ASSUME IInv, [Next]_vars PROVE Retained
  <2> USE <1>1 DEF IInv, TypeOK, ConnPC, Usable
  <2>1. ASSUME NEW w \in Writers, Store(w) PROVE Retained
    BY <2>1 DEF Store, StoreSwap, StoreFence, StoreUnlock, StoreCloseOld, connVars
  <2>2. ASSUME NEW c \in Conns, Send(c) PROVE Retained
    BY <2>2
    DEF Send, RoundTrip, PassthroughDial, SharedDial, DialControl, Connect, Track,
        CloseRefused, CloseForget, CloseSocket
  <2>3. CASE UNCHANGED vars
    BY <2>3 DEF vars
  <2>4. QED
    BY <1>1, <2>1, <2>2, <2>3 DEF Next
<1>2. IInv /\ [Next]_vars => [Retained]_vars
  BY <1>1
<1>3. QED
  BY HolderInvariance, <1>2, PTL DEF Spec, RetainsAuthorized

-----------------------------------------------------------------------------
(* Judge.                                                                     *)

\* JudgeTypeOK and NeverWedged together are inductive.
JudgeIInv == JudgeTypeOK /\ NeverWedged

\* A new breaker is closed with no failures.
LEMMA InitJudge == JudgeInit => JudgeIInv
<1> SUFFICES ASSUME JudgeInit PROVE JudgeIInv
  OBVIOUS
<1>1. cooled \in BOOLEAN /\ halfOpenInUse \in BOOLEAN
  BY Zenon DEF JudgeInit
<1>2. QED
  BY <1>1, JudgeConstants
  DEF JudgeInit, JudgeIInv, JudgeTypeOK, NeverWedged, States, PCs, Verdicts, Actions

\* Settling a permit keeps the breaker well formed.
LEMMA PermitTypes ==
  ASSUME JudgeTypeOK, NEW c \in Calls, NEW s \in BOOLEAN, permit(c, s)
  PROVE  /\ state' \in States /\ failures' \in Nat
         /\ cooled' \in BOOLEAN /\ halfOpenInUse' \in BOOLEAN
<1>1. halfOpenInUse' \in BOOLEAN
  BY DEF permit
<1>2. cooled' = cooled \/ cooled' = FALSE
  BY DEF permit
<1>3. cooled' \in BOOLEAN
  BY <1>2, Zenon DEF JudgeTypeOK
<1>4. state' \in States /\ failures' \in Nat
  BY JudgeConstants DEF permit, JudgeTypeOK, States
<1>5. QED
  BY <1>1, <1>3, <1>4

\* Settling call c's permit: a probe always leaves the half-open state, another
\* call leaves the claim alone, and a closed breaker stays short of Threshold.
LEMMA PermitEffect ==
  ASSUME JudgeIInv, NEW c \in Calls, NEW s \in BOOLEAN, permit(c, s)
  PROVE  /\ state' = "halfOpen" =>
               state = "halfOpen" /\ ~probe[c] /\ halfOpenInUse'
         /\ state' = "closed" => failures' < Threshold
<1>1. state' = "halfOpen" => state = "halfOpen" /\ ~probe[c]
  BY DEF permit, JudgeIInv, JudgeTypeOK, States
<1>2. state' = "halfOpen" => halfOpenInUse'
  BY <1>1 DEF permit, JudgeIInv, NeverWedged
<1>3. state' = "closed" => failures' < Threshold
  BY JudgeConstants DEF permit, JudgeIInv, NeverWedged, JudgeTypeOK, States
<1>4. QED
  BY <1>1, <1>2, <1>3

\* Every step of a call and of the clock preserves types and NeverWedged.
LEMMA StepJudge == JudgeIInv /\ [JudgeNext]_judgeVars => JudgeIInv'
<1> SUFFICES ASSUME JudgeIInv, [JudgeNext]_judgeVars PROVE JudgeIInv'
  OBVIOUS
<1> USE JudgeConstants
<1>1. ASSUME NEW c \in Calls, allow(c) PROVE JudgeIInv'
  <2>1. JudgeTypeOK'
    BY <1>1 DEF allow, Admit, Return, Goto, applyFallback, breaker, JudgeIInv, JudgeTypeOK,
                States, PCs, Verdicts, Actions
  <2>2. CASE state' = "halfOpen" /\ pc' = [pc EXCEPT ![c] = "permitted"]
    <3>1. halfOpenInUse' /\ probe' = [probe EXCEPT ![c] = TRUE]
      BY <1>1, <2>2 DEF allow, Admit, Return, breaker, JudgeIInv, JudgeTypeOK, NeverWedged, States
    <3>2. Outstanding(c)' /\ probe'[c]
      BY <2>2, <3>1 DEF Outstanding, JudgeIInv, JudgeTypeOK
    <3>3. QED
      BY <2>1, <2>2, <3>1, <3>2 DEF JudgeIInv, NeverWedged
  <2>3. CASE state' # "halfOpen" /\ pc' = [pc EXCEPT ![c] = "permitted"]
    BY <1>1, <2>1, <2>3 DEF allow, Admit, breaker, JudgeIInv, NeverWedged
  <2>4. CASE UNCHANGED <<breaker, pc, probe>>
    BY <2>1, <2>4 DEF breaker, JudgeIInv, NeverWedged, Outstanding
  <2>5. QED
    BY <1>1, <2>2, <2>3, <2>4 DEF allow, Admit, Goto
<1>2. ASSUME NEW c \in Calls, acquire(c) PROVE JudgeIInv'
  <2>1. JudgeTypeOK'
    BY <1>2 DEF acquire, Goto, breaker, JudgeIInv, JudgeTypeOK, PCs
  <2>2. NeverWedged'
    BY <1>2 DEF acquire, Goto, breaker, JudgeIInv, JudgeTypeOK, NeverWedged, Outstanding
  <2>3. QED
    BY <2>1, <2>2 DEF JudgeIInv
<1>3. ASSUME NEW c \in Calls, cancel(c) \/ fail(c) \/ decide(c) PROVE JudgeIInv'
  <2>1. PICK s \in BOOLEAN : permit(c, s)
    BY <1>3 DEF cancel, fail, decide
  <2>2. PICK w \in {"idle", "settled"} : pc' = [pc EXCEPT ![c] = w]
    BY <1>3 DEF cancel, fail, decide, Goto
  <2>3. probe' = probe /\ verdict' \in [Calls -> Verdicts] /\ action' \in [Calls -> Actions]
    BY <1>3 DEF cancel, fail, decide, Return, applyFallback, Verdicts, Actions, JudgeIInv, JudgeTypeOK
  <2>4. JudgeTypeOK'
    BY <2>1, <2>2, <2>3, PermitTypes DEF JudgeIInv, JudgeTypeOK, PCs
  <2>5. ASSUME state' = "halfOpen"
        PROVE  halfOpenInUse' /\ \E d \in Calls : Outstanding(d)' /\ probe'[d]
    <3>1. state = "halfOpen" /\ ~probe[c] /\ halfOpenInUse'
      BY <2>1, <2>5, PermitEffect
    <3>2. PICK d \in Calls : Outstanding(d) /\ probe[d]
      BY <3>1 DEF JudgeIInv, NeverWedged
    <3>3. Outstanding(d)' /\ probe'[d]
      BY <2>2, <2>3, <3>1, <3>2 DEF Outstanding, JudgeIInv, JudgeTypeOK
    <3>4. QED
      BY <3>1, <3>3
  <2>6. state' = "closed" => failures' < Threshold
    BY <2>1, PermitEffect
  <2>7. QED
    BY <2>4, <2>5, <2>6 DEF JudgeIInv, NeverWedged
<1>4. ASSUME NEW c \in Calls, release(c) PROVE JudgeIInv'
  <2>1. JudgeTypeOK'
    BY <1>4 DEF release, Goto, breaker, JudgeIInv, JudgeTypeOK, PCs
  <2>2. NeverWedged'
    BY <1>4 DEF release, Goto, breaker, JudgeIInv, JudgeTypeOK, NeverWedged, Outstanding
  <2>3. QED
    BY <2>1, <2>2 DEF JudgeIInv
<1>5. CASE Elapse
  BY <1>5 DEF Elapse, JudgeIInv, JudgeTypeOK, NeverWedged, Outstanding
<1>6. CASE UNCHANGED judgeVars
  BY <1>6 DEF judgeVars, JudgeIInv, JudgeTypeOK, NeverWedged, Outstanding
<1>7. QED
  BY <1>1, <1>2, <1>3, <1>4, <1>5, <1>6 DEF JudgeNext, Step

\* The breaker's and the calls' variables keep their types.
THEOREM JudgeTypes == JudgeSpec => []JudgeTypeOK
<1>1. JudgeIInv => JudgeTypeOK
  BY DEF JudgeIInv
<1>2. QED
  BY InitJudge, StepJudge, <1>1, PTL DEF JudgeSpec

\* circuitBreaker is never half-open with no probe in flight and never closed
\* at or past its threshold, for any interleaving of late settlements.
THEOREM BreakerNeverWedged == JudgeSpec => []NeverWedged
<1>1. JudgeIInv => NeverWedged
  BY DEF JudgeIInv
<1>2. QED
  BY InitJudge, StepJudge, <1>1, PTL DEF JudgeSpec

\* A judge with fallback "deny" lets a request on only when the model said so.
THEOREM JudgeFailsClosed == JudgeSpec => []FailClosed
<1>1. JudgeInit => FailClosed
  BY DEF JudgeInit, FailClosed
<1>2. ASSUME JudgeTypeOK, FailClosed, [JudgeNext]_judgeVars PROVE FailClosed'
  <2> USE <1>2, JudgeConstants DEF FailClosed, JudgeTypeOK, Return, applyFallback
  <2>1. ASSUME NEW c \in Calls, allow(c) PROVE FailClosed'
    BY <2>1 DEF allow, Admit
  <2>2. ASSUME NEW c \in Calls, acquire(c) \/ release(c) PROVE FailClosed'
    BY <2>2 DEF acquire, release
  <2>3. ASSUME NEW c \in Calls, cancel(c) \/ fail(c) PROVE FailClosed'
    BY <2>3 DEF cancel, fail
  <2>4. ASSUME NEW c \in Calls, decide(c) PROVE FailClosed'
    BY <2>4 DEF decide
  <2>5. CASE Elapse
    BY <2>5 DEF Elapse
  <2>6. CASE UNCHANGED judgeVars
    BY <2>6 DEF judgeVars
  <2>7. QED
    BY <2>1, <2>2, <2>3, <2>4, <2>5, <2>6 DEF JudgeNext, Step
<1>3. QED
  BY <1>1, <1>2, JudgeTypes, PTL DEF JudgeSpec
=============================================================================

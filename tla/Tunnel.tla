------------------------------- MODULE Tunnel -------------------------------
(* One client connection of the explicit-proxy (tunnel) listener, or of the   *)
(* HTTPS listener in sni-only mode: SOCKS5 and CONNECT admission, the nested  *)
(* http.Server loops of serveOneHTTPConn, TLS passthrough, the WebSocket      *)
(* relay, and the listeners' Bind and Shutdown.                               *)
(*                                                                            *)
(* A CONNECT connection is served by two loops (frames): frame 1 on the raw   *)
(* connection, whose CONNECT handler hijacks it, and frame 2 inside the       *)
(* tunnel, whose handlers are HTTP exchanges (module Exchange) or a WebSocket *)
(* relay that hijacks it again. Each frame, each handler, both relay          *)
(* directions, Shutdown, the client and upstream step independently.          *)
EXTENDS Naturals, Sequences

CONSTANT MaxHandlers   \* handlers an HTTP/2 connection runs at once

ASSUME TunnelConstants == MaxHandlers \in Nat \ {0}

VARIABLES
    mode,      \* tls.mode: "mitm" or "sni-only"
    ready,     \* isReady()
    listener,  \* "unbound", "bound" or "closed"
    sd,        \* Shutdown: "up", "cancelled" (shutdownCtx is done) or "down"
    main,      \* the goroutine of handleTunnel (or handleSNIPassthrough)
    tunnel,    \* the tunnel: handleSOCKS5 or handleTunnelCONNECT, and what they call
    owner,     \* who runs the tunnel: "none", "socks", "connect" or "https"
    frame,     \* the serveOneHTTPConn calls
    request,       \* the request handler of a frame: its frame and where it is
    h2,        \* frame 2 negotiated HTTP/2
    relay,     \* the directions of the relay, and whether its finish/cancel ran
    open,      \* the proxy has not closed the client connection
    upstream,  \* the upstream connection: "none", "open", "closed"
    clientGone, upstreamGone,  \* the peer closed or reset its end
    told,      \* the verdict the client was given on the tunnel
    code,      \* result.StatusCode of the run in progress
    records    \* the audit records: kind and status

net == <<mode, ready, listener, sd>>
peers == <<clientGone, upstreamGone>>
tunnelVars == <<net, main, tunnel, owner, frame, request, h2, relay, open, upstream, peers,
          told, code, records>>

\* st: "off", "serving", "served" (Serve returned) or "left". done: ln.done.
FrameOff == [st |-> "off", done |-> FALSE, hijacked |-> FALSE, handlers |-> 0]
Serving == [FrameOff EXCEPT !.st = "serving"]
NoReq == [frame |-> 1, at |-> "none"]
Directions == {"up", "down"}
NoRelay == [up |-> "off", down |-> "off", fin |-> FALSE]
Copying == [up |-> "copy", down |-> "copy", fin |-> FALSE]

TunnelInit ==
    /\ mode \in {"mitm", "sni-only"} /\ ready \in BOOLEAN
    /\ listener = "unbound" /\ sd = "up"
    /\ main = "none" /\ tunnel = "off" /\ owner = "none"
    /\ frame = [f \in 1..2 |-> FrameOff]
    /\ request = NoReq /\ h2 = FALSE /\ relay = NoRelay
    /\ open = TRUE /\ upstream = "none"
    /\ clientGone = FALSE /\ upstreamGone = FALSE
    /\ told = "none" /\ code = 0 /\ records = <<>>

ShutdownCtxDone == sd # "up"
Emit(kind, s) == records' = Append(records, [kind |-> kind, status |-> s])

(***************************** listeners, environment ***********************)

\* The goroutine ListenAndServe starts may bind after Shutdown has run: Shutdown
\* closes only a listener it can see.
Bind ==
    /\ listener = "unbound"
    /\ listener' = "bound"
    /\ UNCHANGED <<mode, ready, sd, main, tunnel, owner, frame, request, h2, relay, open,
                   upstream, peers, told, code, records>>

Shutdown ==
    /\ \/ sd = "up" /\ sd' = "cancelled" /\ UNCHANGED listener
       \/ /\ sd = "cancelled" /\ sd' = "down"
          /\ listener' = IF listener = "bound" THEN "closed" ELSE listener
    /\ UNCHANGED <<mode, ready, main, tunnel, owner, frame, request, h2, relay, open,
                   upstream, peers, told, code, records>>

\* The first sync opens the readiness gate (module ManagedSync).
BecomeReady ==
    /\ ~ready /\ ready' = TRUE
    /\ UNCHANGED <<mode, listener, sd, main, tunnel, owner, frame, request, h2, relay, open,
                   upstream, peers, told, code, records>>

PeerLeaves ==
    /\ \/ main # "none" /\ ~clientGone /\ clientGone' = TRUE /\ UNCHANGED upstreamGone
       \/ upstream = "open" /\ ~upstreamGone /\ upstreamGone' = TRUE /\ UNCHANGED clientGone
    /\ UNCHANGED <<net, main, tunnel, owner, frame, request, h2, relay, open, upstream, told,
                   code, records>>

Accept ==
    /\ listener = "bound" /\ main = "none"
    /\ \/ main' = "peek" /\ UNCHANGED <<tunnel, owner>>
       \/ /\ mode = "sni-only"
          /\ main' = "tunnel" /\ tunnel' = "sni" /\ owner' = "https"
    /\ UNCHANGED <<net, frame, request, h2, relay, open, upstream, peers, told, code, records>>

\* The first byte tells SOCKS5 from an HTTP proxy client.
handleTunnel ==
    /\ main = "peek"
    /\ \/ /\ clientGone
          /\ open' = FALSE /\ main' = "returned"
          /\ UNCHANGED <<tunnel, owner, frame>>
       \/ /\ main' = "tunnel" /\ tunnel' = "socks" /\ owner' = "socks"
          /\ UNCHANGED <<open, frame>>
       \/ /\ main' = "frame" /\ frame' = [frame EXCEPT ![1] = Serving]
          /\ UNCHANGED <<open, tunnel, owner>>
    /\ UNCHANGED <<net, request, h2, relay, upstream, peers, told, code, records>>

handleTunnelReturns ==
    /\ main = "frame" /\ frame[1].st = "left"
    /\ main' = "returned"
    /\ UNCHANGED <<net, tunnel, owner, frame, request, h2, relay, open, upstream, peers, told,
                   code, records>>

(***************************** admission ***********************************)

\* Version, methods, command and address: a malformed or unsupported request,
\* or a client that leaves, ends the connection.
handleSOCKS5 ==
    /\ tunnel = "socks"
    /\ tunnel' \in {"leave", "check"}
    /\ UNCHANGED <<net, main, owner, frame, request, h2, relay, open, upstream, peers, told,
                   code, records>>

\* The pipeline runs a synthetic CONNECT; the run is audited on every path.
TunnelVerdicts ==
    IF ready THEN {[ok |-> TRUE, status |-> 200], [ok |-> FALSE, status |-> 403],
                   [ok |-> FALSE, status |-> 502]}
             ELSE {[ok |-> FALSE, status |-> 503]}

tunnelTransformCheckOpen ==
    /\ tunnel = "check"
    /\ \E v \in TunnelVerdicts :
          /\ tunnel' = IF v.ok \/ v.status = 502 THEN "admitted" ELSE "refused"
          /\ Emit("connect", v.status)
    /\ UNCHANGED <<net, main, owner, frame, request, h2, relay, open, upstream, peers, told,
                   code>>

tunnelTransformCheck ==
    /\ tunnel = "check"
    /\ \E v \in TunnelVerdicts :
          /\ tunnel' = IF v.ok THEN "admitted" ELSE "refused"
          /\ Emit("connect", v.status)
    /\ UNCHANGED <<net, main, owner, frame, request, h2, relay, open, upstream, peers, told,
                   code>>

\* SOCKS5 answers 0x02; CONNECT answers the rejection, or 403 when there is none,
\* with Connection: close, and frame 1 closes the connection.
TunnelRefused ==
    /\ tunnel = "refused"
    /\ told' = "refused"
    /\ tunnel' = IF owner = "connect" THEN "returned" ELSE "leave"
    /\ frame' = IF owner = "connect" THEN [frame EXCEPT ![1].handlers = @ - 1] ELSE frame
    /\ UNCHANGED <<net, main, owner, request, h2, relay, open, upstream, peers, code, records>>

\* A SOCKS5 tunnel owns the connection already; CONNECT hijacks it first.
TunnelAdmitted ==
    /\ tunnel = "admitted"
    /\ tunnel' = IF owner = "connect" THEN "hijack" ELSE "reply"
    /\ UNCHANGED <<net, main, owner, frame, request, h2, relay, open, upstream, peers, told,
                   code, records>>

\* 200 Connection Established, or the SOCKS5 success reply.
TunnelReply ==
    /\ tunnel = "reply"
    /\ \/ clientGone /\ tunnel' = "leave" /\ UNCHANGED told
       \/ tunnel' = "proto" /\ told' = "established"
    /\ UNCHANGED <<net, main, owner, frame, request, h2, relay, open, upstream, peers, code,
                   records>>

\* The first byte inside the tunnel: TLS, an HTTP method, anything else. A SOCKS5
\* tunnel peeks through a new reader, so what the client sent early is not seen;
\* the first byte is arbitrary either way.
serveTunnelWithReader ==
    /\ tunnel = "proto"
    /\ \/ tunnel' = "leave" /\ UNCHANGED frame
       \/ /\ tunnel' = IF mode = "sni-only" THEN "sni" ELSE "handshake"
          /\ UNCHANGED frame
       \/ tunnel' = "frame" /\ frame' = [frame EXCEPT ![2] = Serving]
    /\ UNCHANGED <<net, main, owner, request, h2, relay, open, upstream, peers, told, code,
                   records>>

\* tlsConn.HandshakeContext and, when it succeeds, the loop over the TLS connection.
serveTunnelTLS ==
    /\ tunnel = "handshake"
    /\ \/ tunnel' = "leave" /\ open' = FALSE /\ UNCHANGED <<frame, h2>>
       \/ /\ tunnel' = "frame" /\ frame' = [frame EXCEPT ![2] = Serving]
          /\ h2' \in BOOLEAN /\ UNCHANGED open
    /\ UNCHANGED <<net, main, owner, request, relay, upstream, peers, told, code, records>>

\* serveTunnelTLS and serveTunnelHTTP defer Close: it runs when their loop returns.
TunnelFrameReturns ==
    /\ tunnel = "frame" /\ frame[2].st = "left"
    /\ open' = FALSE /\ tunnel' = "leave"
    /\ UNCHANGED <<net, main, owner, frame, request, h2, relay, upstream, peers, told, code,
                   records>>

TunnelLeavesOpen ==
    /\ tunnel = "leave"
    /\ tunnel' = "returned"
    /\ IF owner = "connect"
       THEN frame' = [frame EXCEPT ![1].handlers = @ - 1] /\ UNCHANGED <<main, open>>
       ELSE main' = "returned" /\ open' = FALSE /\ UNCHANGED frame
    /\ UNCHANGED <<net, owner, request, h2, relay, upstream, peers, told, code, records>>

\* The deferred conn.Close of handleSOCKS5, handleTunnelCONNECT or
\* serveSNIPassthrough; a CONNECT handler then returns to frame 1.
TunnelLeaves ==
    /\ tunnel = "leave"
    /\ open' = FALSE /\ tunnel' = "returned"
    /\ IF owner = "connect"
       THEN frame' = [frame EXCEPT ![1].handlers = @ - 1] /\ UNCHANGED main
       ELSE main' = "returned" /\ UNCHANGED frame
    /\ UNCHANGED <<net, owner, request, h2, relay, upstream, peers, told, code, records>>

(***************************** serveOneHTTPConn *****************************)

\* A request on an idle HTTP/1 connection starts a handler. On frame 1 it is
\* CONNECT, an absolute-form request (an exchange), or has an unsupported scheme.
HandlerStarts(f) ==
    /\ frame[f].st = "serving" /\ frame[f].handlers = 0 /\ ~frame[f].done
    /\ ~clientGone /\ open
    /\ f = 2 => ~h2
    /\ f = 1 => tunnel = "off"
    /\ frame' = [frame EXCEPT ![f].handlers = 1]
    /\ \/ f = 1 /\ owner' = "connect" /\ tunnel' = "check" /\ UNCHANGED request
       \/ request' = [frame |-> f, at |-> "exchange"] /\ UNCHANGED <<owner, tunnel>>
    /\ UNCHANGED <<net, main, h2, relay, open, upstream, peers, told, code, records>>

\* An exchange ends (a 400 for the scheme included), or turns out to be an
\* allowed WebSocket upgrade.
ExchangeEnds ==
    /\ request.at = "exchange"
    /\ \/ /\ request' = NoReq
          /\ frame' = [frame EXCEPT ![request.frame].handlers = @ - 1]
       \/ request' = [request EXCEPT !.at = "dial"] /\ UNCHANGED frame
    /\ UNCHANGED <<net, main, tunnel, owner, h2, relay, open, upstream, peers, told, code,
                   records>>

\* HTTP/2 streams: several exchanges at once, none of them a hijacker.
Streams ==
    /\ h2 /\ UNCHANGED request
    /\ \/ /\ frame[2].st = "serving" /\ ~frame[2].done /\ ~clientGone
          /\ frame[2].handlers < MaxHandlers
          /\ frame' = [frame EXCEPT ![2].handlers = @ + 1]
       \/ /\ frame[2].handlers > 0
          /\ frame' = [frame EXCEPT ![2].handlers = @ - 1]
    /\ UNCHANGED <<net, main, tunnel, owner, h2, relay, open, upstream, peers, told, code,
                   records>>

\* net/http closes an idle connection (timeout, Connection: close, the client
\* left), and an HTTP/2 one whatever its streams do; StateClosed closes ln.done.
ConnStateClosed(f) ==
    /\ frame[f].st = "serving" /\ ~frame[f].done /\ ~frame[f].hijacked
    /\ frame[f].handlers = 0 \/ (f = 2 /\ h2 /\ clientGone)
    /\ open' = FALSE
    /\ frame' = [frame EXCEPT ![f].done = TRUE]
    /\ UNCHANGED <<net, main, tunnel, owner, request, h2, relay, upstream, peers, told, code,
                   records>>

\* The ConnState callback of a hijack: the flag is stored before ln.done closes.
ConnStateHijacked(f) ==
    /\ \/ tunnel = "hijack" /\ f = 1
       \/ request.at = "hijack" /\ f = request.frame
    /\ \/ /\ ~frame[f].hijacked
          /\ frame' = [frame EXCEPT ![f].hijacked = TRUE]
          /\ UNCHANGED <<tunnel, request, relay>>
       \/ /\ frame[f].hijacked
          /\ frame' = [frame EXCEPT ![f].done = TRUE]
          /\ IF tunnel = "hijack"
             THEN tunnel' = "reply" /\ UNCHANGED <<request, relay>>
             ELSE request' = [request EXCEPT !.at = "relay"] /\ relay' = Copying /\ UNCHANGED tunnel
    /\ UNCHANGED <<net, main, owner, h2, open, upstream, peers, told, code, records>>

\* Accept sees ln.done and Serve returns net.ErrClosed.
ServeReturns(f) ==
    /\ frame[f].st = "serving" /\ frame[f].done
    /\ frame' = [frame EXCEPT ![f].st = "served"]
    /\ UNCHANGED <<net, main, tunnel, owner, request, h2, relay, open, upstream, peers, told,
                   code, records>>

serveOneHTTPConnNoWait(f) ==
    /\ frame[f].st = "served"
    /\ frame' = [frame EXCEPT ![f].st = "left"]
    /\ UNCHANGED <<net, main, tunnel, owner, request, h2, relay, open, upstream, peers, told,
                   code, records>>

\* A hijacked connection belongs to its handler: wait for it before returning.
serveOneHTTPConn(f) ==
    /\ frame[f].st = "served"
    /\ frame[f].hijacked => frame[f].handlers = 0
    /\ frame' = [frame EXCEPT ![f].st = "left"]
    /\ UNCHANGED <<net, main, tunnel, owner, request, h2, relay, open, upstream, peers, told,
                   code, records>>

(***************************** WebSocket ************************************)

\* The handler returns and its deferred CloseNow closes what is left open. (Its
\* audit record, like every exchange's, is handleHTTP's: see module Exchange.)
HandlerReturns ==
    /\ request' = NoReq
    /\ frame' = [frame EXCEPT ![request.frame].handlers = @ - 1]
    /\ upstream' = IF upstream = "open" THEN "closed" ELSE upstream

\* websocket.Dial: refused destination, no response, a 101 that is not a valid
\* handshake, another code, or an open upstream connection.
wsDial ==
    /\ request.at = "dial"
    /\ \/ HandlerReturns /\ UNCHANGED code
       \/ /\ \/ code' = 401 /\ UNCHANGED upstream
             \/ code' = 101 /\ upstream' = "open"
          /\ request' = [request EXCEPT !.at = "respond"]
          /\ UNCHANGED frame
    /\ UNCHANGED <<net, main, tunnel, owner, h2, relay, open, peers, told, records>>

\* The response pipeline: an error answers the client 502, a rejection or a code
\* other than 101 is written to it, and the client's own handshake may fail; the
\* audited code stays upstream's. Otherwise websocket.Accept hijacks.
wsRespond ==
    /\ request.at = "respond"
    /\ \/ HandlerReturns
       \/ /\ code = 101
          /\ request' = [request EXCEPT !.at = "hijack"] /\ UNCHANGED <<frame, upstream>>
    /\ UNCHANGED <<net, main, tunnel, owner, h2, relay, open, peers, told, code, records>>

\* A direction must end once its source has left or a connection is closed; it
\* may end, on a write, once the other peer has left.
SourceEnded(d) ==
    \/ ~open \/ upstream = "closed"
    \/ IF d = "up" THEN clientGone ELSE upstreamGone
CanEnd(d) == SourceEnded(d) \/ clientGone \/ upstreamGone

\* A direction of the WebSocket relay ends: its finish closes both connections.
wsRelayEnds(d) ==
    /\ request.at = "relay" /\ relay[d] = "copy" /\ CanEnd(d)
    /\ relay' = [relay EXCEPT ![d] = "over", !.fin = TRUE]
    /\ open' = FALSE /\ upstream' = "closed"
    /\ UNCHANGED <<net, main, tunnel, owner, frame, request, h2, peers, told, code, records>>

\* context.AfterFunc(p.shutdownCtx, finish).
wsShutdown ==
    /\ request.at = "relay" /\ ShutdownCtxDone /\ ~relay.fin
    /\ relay' = [relay EXCEPT !.fin = TRUE]
    /\ open' = FALSE /\ upstream' = "closed"
    /\ UNCHANGED <<net, main, tunnel, owner, frame, request, h2, peers, told, code, records>>

RelayOver == \A d \in Directions : relay[d] = "over"

handleWebSocketReturns ==
    /\ request.at = "relay" /\ RelayOver
    /\ HandlerReturns
    /\ UNCHANGED <<net, main, tunnel, owner, h2, relay, open, peers, told, code, records>>

(***************************** TLS passthrough ******************************)

\* peekSNI: no ClientHello within the deadline or the size bound ends the
\* connection before a run begins.
peekSNI ==
    /\ tunnel = "sni"
    /\ tunnel' \in {"leave", "sniRun"}
    /\ UNCHANGED <<net, main, owner, frame, request, h2, relay, open, upstream, peers, told,
                   code, records>>

\* The run of a passthrough: not ready, no SNI, a pipeline error, a rejection, a
\* failed dial or ClientHello replay end it; otherwise both directions start.
serveSNIPassthrough ==
    /\ tunnel = "sniRun"
    /\ \/ \E s \in (IF ready THEN {400, 403, 502} ELSE {503}) :
             /\ tunnel' = "leave" /\ code' = s /\ Emit("sni", s)
             /\ UNCHANGED <<relay, upstream>>
       \/ /\ ready
          /\ code' = 200 /\ upstream' = "open" /\ relay' = Copying
          /\ tunnel' = "relay" /\ UNCHANGED records
    /\ UNCHANGED <<net, main, owner, frame, request, h2, open, peers, told>>

\* A copy ends on EOF, error or a closed connection, and cancels the relay.
bidiEnds(d) ==
    /\ tunnel = "relay" /\ relay[d] = "copy" /\ CanEnd(d)
    /\ relay' = [relay EXCEPT ![d] = "over", !.fin = TRUE]
    /\ UNCHANGED <<net, main, tunnel, owner, frame, request, h2, open, upstream, peers, told,
                   code, records>>

\* The goroutine that waits for the relay's context, a child of shutdownCtx.
bidiCloses ==
    /\ tunnel = "relay"
    /\ relay.fin \/ ShutdownCtxDone
    /\ open \/ upstream = "open"
    /\ open' = FALSE /\ upstream' = "closed"
    /\ UNCHANGED <<net, main, tunnel, owner, frame, request, h2, relay, peers, told, code,
                   records>>

\* wg.Wait returned: the deferred upstream Close and finish run.
bidiReturns ==
    /\ tunnel = "relay" /\ RelayOver
    /\ upstream' = "closed" /\ tunnel' = "leave" /\ Emit("sni", code)
    /\ UNCHANGED <<net, main, owner, frame, request, h2, relay, open, peers, told, code>>

-----------------------------------------------------------------------------
Frame(f) ==
    \/ HandlerStarts(f) \/ ConnStateClosed(f) \/ ConnStateHijacked(f)
    \/ ServeReturns(f) \/ serveOneHTTPConn(f)

TunnelNext ==
    \/ Bind \/ Shutdown \/ BecomeReady \/ PeerLeaves \/ Accept
    \/ handleTunnel \/ handleTunnelReturns \/ handleSOCKS5 \/ tunnelTransformCheck
    \/ TunnelRefused \/ TunnelAdmitted \/ TunnelReply \/ serveTunnelWithReader
    \/ serveTunnelTLS \/ TunnelFrameReturns \/ TunnelLeaves
    \/ \E f \in 1..2 : Frame(f)
    \/ ExchangeEnds \/ Streams \/ wsDial \/ wsRespond
    \/ \E d \in Directions : wsRelayEnds(d) \/ bidiEnds(d)
    \/ wsShutdown \/ handleWebSocketReturns
    \/ peekSNI \/ serveSNIPassthrough \/ bidiCloses \/ bidiReturns

\* Every goroutine that can go on does. Steps that read from the client are only
\* sure to be taken once it has left, which ends the read; so are exchanges,
\* streams and dials, which end with their request's context. A ClientHello is
\* awaited for sniPeekTimeout, and transforms have timeouts of their own.
TunnelFairness ==
    /\ WF_tunnelVars(handleTunnel /\ clientGone) /\ WF_tunnelVars(handleTunnelReturns)
    /\ WF_tunnelVars(handleSOCKS5 /\ clientGone) /\ WF_tunnelVars(tunnelTransformCheck)
    /\ WF_tunnelVars(TunnelRefused) /\ WF_tunnelVars(TunnelAdmitted) /\ WF_tunnelVars(TunnelReply)
    /\ WF_tunnelVars(serveTunnelWithReader /\ clientGone) /\ WF_tunnelVars(serveTunnelTLS /\ clientGone)
    /\ WF_tunnelVars(TunnelFrameReturns) /\ WF_tunnelVars(TunnelLeaves)
    /\ \A f \in 1..2 :
          /\ WF_tunnelVars(ConnStateClosed(f) /\ clientGone) /\ WF_tunnelVars(ConnStateHijacked(f))
          /\ WF_tunnelVars(ServeReturns(f)) /\ WF_tunnelVars(serveOneHTTPConn(f))
    /\ WF_tunnelVars(ExchangeEnds /\ clientGone) /\ WF_tunnelVars(Streams /\ clientGone)
    /\ WF_tunnelVars(wsDial /\ clientGone) /\ WF_tunnelVars(wsRespond)
    /\ \A d \in Directions :
          /\ WF_tunnelVars(wsRelayEnds(d) /\ SourceEnded(d)) /\ WF_tunnelVars(bidiEnds(d) /\ SourceEnded(d))
    /\ WF_tunnelVars(wsShutdown) /\ WF_tunnelVars(handleWebSocketReturns)
    /\ WF_tunnelVars(peekSNI) /\ WF_tunnelVars(serveSNIPassthrough)
    /\ WF_tunnelVars(bidiCloses) /\ WF_tunnelVars(bidiReturns)

TunnelSpec == TunnelInit /\ [][TunnelNext]_tunnelVars /\ TunnelFairness

-----------------------------------------------------------------------------
Relaying == request.at = "relay" \/ tunnel = "relay"

\* A running relay keeps its client connection: whatever serving loops return
\* around it, the connection is closed only once a peer has left, a direction has
\* finished the relay or Shutdown has begun (serveOneHTTPConn waits for the
\* hijacking handler before the callers' deferred Close runs).
RelayKeepsConnection ==
    Relaying /\ ~relay.fin /\ ~clientGone /\ ~upstreamGone /\ ~ShutdownCtxDone
        => open /\ upstream = "open"

\* When the goroutine of a connection has returned, nothing of it is left: both
\* connections are closed, and no tunnel, request handler or relay still runs.
\* handleTunnel itself closes neither.
NothingLeftBehind ==
    main = "returned" =>
        /\ ~open /\ upstream # "open"
        /\ tunnel \in {"off", "returned"} /\ request.at = "none"

\* The client is told that its tunnel is established, and bytes are relayed for
\* it, only after a run that was audited as admitted; it is told a refusal only
\* after a run that was audited as refused; and no run is audited twice.
AdmissionAudited ==
    LET connects == {i \in DOMAIN records : records[i].kind = "connect"} IN
    /\ \A i, j \in connects : i = j
    /\ told = "established" \/ tunnel \in {"proto", "handshake", "frame"}
          => \E i \in connects : records[i].status = 200
    /\ told = "refused" => \E i \in connects : records[i].status # 200
    /\ tunnel = "relay" /\ owner # "https" => told = "established"

\* A client that leaves, or Shutdown while bytes are relayed, ends the whole
\* stack of handlers: no goroutine waits for another for ever.
Unwinds ==
    /\ clientGone ~> main = "returned"
    /\ Relaying /\ ShutdownCtxDone ~> ~Relaying
=============================================================================

----------------------------- MODULE MCTraffic ------------------------------
(* What a client sends through the proxy: an HTTP exchange, and the life of   *)
(* the connection under it, a tunnel, an SSH session or one bridge of such a  *)
(* session. They share no state, so each behaviour is one of them, the others *)
(* at rest.                                                                   *)
(*                                                                            *)
(* Exchange: a body has up to three tokens and the limit is two. Tunnel: one  *)
(* connection in both TLS modes, two HTTP/2 streams at once. SSH: two keys    *)
(* are tried, leases of up to two ticks are renewed, up to two bridges; a     *)
(* bridged command writes a chunk to each output and a status.                *)
EXTENDS Exchange, Connections, SSHBridge, TLC

MCTokens == {"p1", "p2", "r1", "r2", "x", "n"}
MCRealValue == "p1" :> "r1" @@ "p2" :> "r2"

Canonical == [canonical |-> TRUE, placeholder |-> "x", require |-> FALSE]
Entry(p, require) == [canonical |-> FALSE, placeholder |-> p, require |-> require]
Plain(kind, reads) == [kind |-> kind, reads |-> reads, entries |-> <<>>]
Secrets(entries) == [kind |-> "secrets", reads |-> FALSE, entries |-> entries]

\* Every kind of transform; bodies read and swapped twice; and none at all.
MCPipelines ==
    {<<Plain("oauth", FALSE), Secrets(<<Canonical, Entry("p1", FALSE)>>),
       Plain("grpc", TRUE), Plain("capture", FALSE), Secrets(<<Entry("p2", TRUE)>>)>>,
     <<Plain("capture", FALSE), Secrets(<<Canonical>>)>>,
     <<Secrets(<<Canonical>>), Plain("grpc", FALSE)>>,
     <<>>}

\* Two match_body entries in one secrets transform.
TwoEntries == {<<Secrets(<<Entry("p1", FALSE), Entry("p2", FALSE)>>)>>}

Request(b) ==
    [wellFormed |-> TRUE, body |-> b, arrives |-> Len(b), lengthKnown |-> TRUE,
     grpcType |-> FALSE, mcp |-> FALSE, routed |-> FALSE, carries |-> FALSE]

MCRequests ==
    {[Request(<<>>) EXCEPT !.wellFormed = FALSE],
     Request(<<"p1", "p2">>),
     [Request(<<"p2", "x">>) EXCEPT !.arrives = 1],
     Request(<<"x", "p1", "x">>),
     [Request(<<"p2", "p1", "x">>) EXCEPT !.lengthKnown = FALSE],
     [Request(<<"p2">>) EXCEPT !.carries = TRUE],
     [Request(<<"p2">>) EXCEPT !.carries = TRUE, !.mcp = TRUE, !.routed = TRUE],
     [Request(<<"p2", "x", "x">>) EXCEPT !.mcp = TRUE],
     [Request(<<"p2">>) EXCEPT !.grpcType = TRUE]}

MCStatuses == {200, 402}
MCRetryStatuses == {402}
MCRewrites == {<<"n", "p2">>}

-----------------------------------------------------------------------------
VARIABLE part

MCvars == <<vars, tunnelVars, sessionVars, bridgeVars, part>>

MCInit ==
    /\ part \in {"exchange", "tunnel", "session", "bridge"}
    /\ Init /\ TunnelInit /\ SessionInit /\ BridgeInit
    /\ part # "exchange" => ~req.wellFormed /\ pl = <<>>
    /\ part # "tunnel" => mode = "mitm" /\ ready

MCNext ==
    /\ UNCHANGED part
    /\ \/ part = "exchange" /\ Next /\ UNCHANGED <<tunnelVars, sessionVars, bridgeVars>>
       \/ part = "tunnel" /\ TunnelNext /\ UNCHANGED <<vars, sessionVars, bridgeVars>>
       \/ part = "session" /\ SessionNext /\ UNCHANGED <<vars, tunnelVars, bridgeVars>>
       \/ part = "bridge" /\ BridgeNext /\ UNCHANGED <<vars, tunnelVars, sessionVars>>

\* Each behaviour has the fairness of the component it is about.
MCFairness ==
    \/ part = "exchange" /\ Fairness
    \/ part = "tunnel" /\ TunnelFairness
    \/ part = "session" /\ SessionFairness
    \/ part = "bridge" /\ BridgeFairness

MCSpec == MCInit /\ [][MCNext]_MCvars /\ MCFairness

\* Whatever a connection was for, it comes down: a tunnel, its relays and its
\* handlers (Unwinds), every teardown of an SSH session's handle (SessionEnds) and
\* every bridge (BridgeEnds).
ConnectionsEnd ==
    /\ part = "tunnel" => Unwinds
    /\ part = "session" => SessionEnds
    /\ part = "bridge" => BridgeEnds
=============================================================================

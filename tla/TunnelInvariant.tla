--------------------------- MODULE TunnelInvariant ---------------------------
(* The inductive invariant of Tunnel, and what keeps it. No action is named    *)
(* here: a lemma assumes what a step does to the loops, the request, the relay *)
(* and the connections, and shows that the invariant holds after it.           *)
(* ConnectionProofs instantiates the module with the variables of Tunnel and   *)
(* shows which lemma each action meets.                                        *)
EXTENDS Integers, Sequences, TLAPS

VARIABLES main, tunnel, owner, frame, request, h2, relay, open, upstream, clientGone,
          upstreamGone, told, code, records, sd

\* What the records say of a loop, of the request and of the relay.
St(f) == frame[f].st
Done(f) == frame[f].done
Hijacked(f) == frame[f].hijacked
Handlers(f) == frame[f].handlers
ReqAt == request.at
ReqFrame == request.frame
Fin == relay.fin
Over == relay.up = "over" \/ relay.down = "over"

-----------------------------------------------------------------------------
Stages == {"off", "socks", "check", "admitted", "refused", "hijack", "reply", "proto",
           "handshake", "frame", "sni", "sniRun", "relay", "leave", "returned"}

TunnelTypes ==
    /\ main \in {"none", "peek", "tunnel", "frame", "returned"}
    /\ tunnel \in Stages /\ owner \in {"none", "socks", "connect", "https"}
    /\ ReqFrame \in 1..2
    /\ ReqAt \in {"none", "exchange", "dial", "respond", "hijack", "relay"}
    /\ Handlers(1) \in Int /\ Handlers(2) \in Int

\* Who runs what. A CONNECT handler, or a request, is a handler of its frame.
Ownership ==
    /\ main \in {"none", "peek"} => owner = "none" /\ St(1) = "off"
    /\ owner = "none" <=> tunnel = "off"
    /\ tunnel = "socks" => owner = "socks"
    /\ tunnel = "hijack" => owner = "connect"
    /\ owner \in {"socks", "https"} => St(1) = "off"
    /\ owner \in {"none", "connect"} => main # "tunnel"
    /\ main = "tunnel" => tunnel # "returned"
    /\ main = "frame" => St(1) # "off"
    /\ main = "returned" => St(1) \in {"off", "left"} /\ (owner # "none" => tunnel = "returned")
    /\ owner = "connect" /\ tunnel # "returned" =>
          Handlers(1) = 1 /\ St(1) \in {"serving", "served"}
    /\ owner = "connect" /\ tunnel = "returned" => Handlers(1) = 0
    /\ St(2) # "off" => tunnel \in {"frame", "leave", "returned"}
    /\ tunnel = "frame" => St(2) # "off"
    /\ tunnel \in {"leave", "returned"} => St(2) \in {"off", "left"}
    /\ ReqAt # "none" =>
          /\ Handlers(ReqFrame) = 1
          /\ St(ReqFrame) \in {"serving", "served"}
          /\ ReqFrame = 1 => tunnel = "off"
          /\ ReqFrame = 2 => tunnel = "frame" /\ ~h2
    /\ tunnel = "off" /\ ReqAt = "none" => Handlers(1) = 0
    /\ ReqAt = "none" /\ ~h2 => Handlers(2) = 0

\* The serving loops: each ends with its connection, unless a handler took it over,
\* and a loop that was left has no handler (streams of HTTP/2 apart).
Loop(f) ==
    /\ St(f) \in {"served", "left"} => Done(f)
    /\ St(f) = "off" => ~Done(f) /\ ~Hijacked(f) /\ Handlers(f) = 0
    /\ Done(f) /\ ~Hijacked(f) => ~open
    /\ Done(f) /\ ~Hijacked(f) /\ ~(f = 2 /\ h2) => Handlers(f) = 0
    /\ St(f) = "left" /\ ~(f = 2 /\ h2) => Handlers(f) = 0

\* A loop's connection is hijacked by the handler that runs on it and by no other.
Hijacks ==
    /\ Hijacked(1) =>
          \/ owner = "connect" /\ tunnel \notin {"check", "admitted", "refused"}
          \/ owner = "none"
    /\ Hijacked(1) /\ tunnel = "off" /\ ReqAt = "none" => ~open
    /\ owner = "connect" /\ tunnel \in {"reply", "proto", "handshake", "frame", "sni", "sniRun",
                                        "relay", "leave"} => Hijacked(1)
    /\ tunnel = "returned" => ~open \/ told = "refused"
    /\ told = "refused" => tunnel \in {"leave", "returned"} /\ ~Hijacked(1)
    /\ Hijacked(2) => ~h2
    /\ Hijacked(2) /\ ReqAt = "none" => ~open
    /\ ReqAt \in {"exchange", "dial", "respond"} => ~Hijacked(ReqFrame)
    /\ ReqAt = "relay" => Hijacked(ReqFrame)

\* The connections are open while a handler or a tunnel needs them.
OpenConns ==
    /\ ReqAt \in {"exchange", "dial", "respond", "hijack"} => open
    /\ ReqAt = "respond" /\ code = 101 => upstream = "open"
    /\ ReqAt = "hijack" => upstream = "open"
    /\ upstream = "open" => ReqAt \in {"respond", "hijack", "relay"} \/ tunnel = "relay"
    /\ tunnel \in Stages \ {"off", "frame", "relay", "leave", "returned"} => open
    /\ main \in {"none", "peek"} => open
    /\ main = "returned" => ~open
    /\ Over => Fin
    /\ ReqAt = "relay" /\ Fin => ~open

\* A relay keeps both its connections while nobody has ended it.
Ends == clientGone \/ upstreamGone \/ sd # "up"
Kept ==
    (ReqAt = "relay" \/ tunnel = "relay") /\ ~Fin /\ ~Ends => open /\ upstream = "open"

TunnelState ==
    TunnelTypes /\ Ownership /\ Loop(1) /\ Loop(2) /\ Hijacks /\ OpenConns /\ Kept

-----------------------------------------------------------------------------
\* What a step leaves as it was.
Same(f) ==
    /\ St(f)' = St(f) /\ Handlers(f)' = Handlers(f)
    /\ Done(f)' <=> Done(f)
    /\ Hijacked(f)' <=> Hijacked(f)
SameLoops == Same(1) /\ Same(2)
OtherLoop(f) == (f = 1 => Same(2)) /\ (f = 2 => Same(1))
SameRequest == ReqAt' = ReqAt /\ ReqFrame' = ReqFrame
SameRelay == (Fin' <=> Fin) /\ (Over' <=> Over)
Quiet == SameLoops /\ SameRequest /\ SameRelay

\* What a step does to loop f: it starts, counts its handlers, moves on, or its
\* connection is closed or hijacked.
LoopStarts(f) ==
    OtherLoop(f) /\ St(f)' = "serving" /\ ~Done(f)' /\ ~Hijacked(f)' /\ Handlers(f)' = 0
LoopCounts(f, n) ==
    /\ OtherLoop(f) /\ Handlers(f)' = n /\ St(f)' = St(f)
    /\ (Done(f)' <=> Done(f)) /\ (Hijacked(f)' <=> Hijacked(f))
LoopReaches(f, s) ==
    /\ OtherLoop(f) /\ Handlers(f)' = Handlers(f) /\ St(f)' = s
    /\ (Done(f)' <=> Done(f)) /\ (Hijacked(f)' <=> Hijacked(f))
LoopDone(f) ==
    /\ OtherLoop(f) /\ Handlers(f)' = Handlers(f) /\ St(f)' = St(f)
    /\ Done(f)' /\ (Hijacked(f)' <=> Hijacked(f))
LoopHijacked(f) ==
    /\ OtherLoop(f) /\ Handlers(f)' = Handlers(f) /\ St(f)' = St(f)
    /\ (Done(f)' <=> Done(f)) /\ Hijacked(f)'

\* The stages of a tunnel before its relay or its loop.
EarlyStages == {"socks", "check", "admitted", "refused", "hijack", "reply", "proto", "handshake",
          "sni", "sniRun"}
Established == {"reply", "proto", "handshake", "sni", "sniRun"}

-----------------------------------------------------------------------------

\* The listeners, readiness, a peer that leaves and a step of something else.
LEMMA NothingMoves ==
    ASSUME TunnelState, Quiet,
           UNCHANGED <<main, tunnel, owner, h2, open, upstream, told, code>>, Ends => Ends'
    PROVE  TunnelState'
<1>1. TunnelTypes'
    BY DEF TunnelState, TunnelTypes, Stages, Quiet, SameLoops, Same, SameRequest
<1>2. Ownership'
    BY DEF TunnelState, Ownership, Quiet, SameLoops, Same, SameRequest, TunnelTypes
<1>3. (Loop(1) /\ Loop(2))'
    BY DEF TunnelState, Loop, Quiet, SameLoops, Same
<1>4. Hijacks'
    BY DEF TunnelState, Hijacks, Quiet, SameLoops, Same, SameRequest, TunnelTypes
<1>5. OpenConns'
    BY DEF TunnelState, OpenConns, Quiet, SameRequest, SameRelay
<1>6. Kept'
    BY DEF TunnelState, Kept, Quiet, SameRequest, SameRelay
<1> QED BY <1>1, <1>2, <1>3, <1>4, <1>5, <1>6 DEF TunnelState

\* A connection is accepted: its goroutine peeks, or serves a passthrough.
LEMMA Accepted ==
    ASSUME TunnelState, Quiet, main = "none", UNCHANGED <<h2, open, upstream, told, code>>,
           Ends => Ends',
           \/ main' = "peek" /\ UNCHANGED <<tunnel, owner>>
           \/ main' = "tunnel" /\ tunnel' = "sni" /\ owner' = "https"
    PROVE  TunnelState'
<1>1. TunnelTypes'
    BY DEF TunnelState, TunnelTypes, Stages, Quiet, SameLoops, Same, SameRequest
<1>2. Ownership'
    BY DEF TunnelState, Ownership, Quiet, SameLoops, Same, SameRequest, TunnelTypes
<1>3. (Loop(1) /\ Loop(2))'
    BY DEF TunnelState, Loop, Quiet, SameLoops, Same
<1>4. Hijacks'
    BY DEF TunnelState, Hijacks, Quiet, SameLoops, Same, SameRequest, Ownership, Loop,
       TunnelTypes
<1>5. OpenConns'
    BY DEF TunnelState, OpenConns, Quiet, SameRequest, SameRelay, Ownership
<1>6. Kept'
    BY DEF TunnelState, Kept, Quiet, SameRequest, SameRelay, Ownership
<1> QED BY <1>1, <1>2, <1>3, <1>4, <1>5, <1>6 DEF TunnelState

\* The client left before its first byte, or speaks SOCKS5.
LEMMA Peeked ==
    ASSUME TunnelState, Quiet, main = "peek", UNCHANGED <<h2, upstream, told, code>>,
           Ends => Ends',
           \/ ~open' /\ main' = "returned" /\ UNCHANGED <<tunnel, owner>>
           \/ main' = "tunnel" /\ tunnel' = "socks" /\ owner' = "socks" /\ UNCHANGED open
    PROVE  TunnelState'
<1>1. tunnel = "off" /\ ReqAt = "none"
    BY DEF TunnelState, TunnelTypes, Ownership
<1>2. TunnelTypes'
    BY DEF TunnelState, TunnelTypes, Stages, Quiet, SameLoops, Same, SameRequest
<1>3. Ownership'
    BY <1>1 DEF TunnelState, Ownership, Quiet, SameLoops, Same, SameRequest, TunnelTypes
<1>4. (Loop(1) /\ Loop(2))'
    BY DEF TunnelState, Loop, Quiet, SameLoops, Same
<1>5. Hijacks'
    BY <1>1 DEF TunnelState, Hijacks, Quiet, SameLoops, Same, SameRequest, Ownership, Loop
<1>6. OpenConns'
    BY <1>1, Zenon DEF TunnelState, OpenConns, Quiet, SameRequest, SameRelay, Stages
<1>7. Kept'
    BY <1>1 DEF TunnelState, Kept, Quiet, SameRequest, SameRelay
<1> QED BY <1>2, <1>3, <1>4, <1>5, <1>6, <1>7 DEF TunnelState

\* The client speaks HTTP: the loop over its connection starts.
LEMMA OuterLoopStarts ==
    ASSUME TunnelState, LoopStarts(1), SameRequest, SameRelay, main = "peek", main' = "frame",
           UNCHANGED <<tunnel, owner, h2, open, upstream, told, code>>, Ends => Ends'
    PROVE  TunnelState'
<1>1. TunnelTypes'
    BY DEF TunnelState, TunnelTypes, Stages, LoopStarts, OtherLoop, Same, SameRequest
<1>2. Ownership'
    BY DEF TunnelState, Ownership, LoopStarts, OtherLoop, Same, SameRequest, TunnelTypes
<1>3. (Loop(1) /\ Loop(2))'
    BY DEF TunnelState, Loop, LoopStarts, OtherLoop, Same
<1>4. Hijacks'
    BY DEF TunnelState, Hijacks, LoopStarts, OtherLoop, Same, SameRequest, Ownership,
       TunnelTypes
<1>5. OpenConns'
    BY DEF TunnelState, OpenConns, SameRequest, SameRelay
<1>6. Kept'
    BY DEF TunnelState, Kept, SameRequest, SameRelay
<1> QED BY <1>1, <1>2, <1>3, <1>4, <1>5, <1>6 DEF TunnelState

\* That loop has been left, and its caller returns.
LEMMA OuterLoopReturned ==
    ASSUME TunnelState, Quiet, main = "frame", St(1) = "left", main' = "returned",
           UNCHANGED <<tunnel, owner, h2, open, upstream, told, code>>, Ends => Ends'
    PROVE  TunnelState'
<1>1. TunnelTypes'
    BY DEF TunnelState, TunnelTypes, Stages, Quiet, SameLoops, Same, SameRequest
<1>2. Ownership'
    BY DEF TunnelState, Ownership, Quiet, SameLoops, Same, SameRequest, Loop, TunnelTypes,
       Stages
<1>3. (Loop(1) /\ Loop(2))'
    BY DEF TunnelState, Loop, Quiet, SameLoops, Same
<1>4. Hijacks'
    BY DEF TunnelState, Hijacks, Quiet, SameLoops, Same, SameRequest, TunnelTypes
<1>5. OpenConns'
    BY DEF TunnelState, OpenConns, Quiet, SameRequest, SameRelay, Ownership, Loop, Hijacks,
       TunnelTypes, Stages
<1>6. Kept'
    BY DEF TunnelState, Kept, Quiet, SameRequest, SameRelay
<1> QED BY <1>1, <1>2, <1>3, <1>4, <1>5, <1>6 DEF TunnelState

\* A tunnel goes from one early stage to the next, or to its end: only the stage and what
\* the client is told change.
LEMMA StageMoves ==
    ASSUME TunnelState, Quiet, Ends => Ends', UNCHANGED <<main, owner, h2, open, upstream>>,
           tunnel \in EarlyStages, tunnel' \in (EarlyStages \ {"socks"}) \cup {"leave"},
           tunnel' = "hijack" => owner = "connect",
           tunnel' \in {"check", "admitted", "refused"} => tunnel \in {"socks", "check"},
           owner = "connect" /\ tunnel' \in Established \cup {"leave"} => tunnel \in Established,
           told' = "refused" => tunnel' = "leave" /\ tunnel = "refused"
    PROVE  TunnelState'
<1>1. ReqAt = "none" /\ ReqAt' = "none" /\ upstream' # "open"
    BY DEF TunnelState, TunnelTypes, Ownership, OpenConns, EarlyStages, Quiet, SameRequest
<1>2. owner \in {"socks", "https"} => ~Hijacked(1)
    BY DEF TunnelState, Ownership, Loop
<1>3. TunnelTypes'
    BY DEF TunnelState, TunnelTypes, Stages, Quiet, SameLoops, Same, SameRequest,
       EarlyStages
<1>4. Ownership'
    BY <1>1 DEF TunnelState, Ownership, Quiet, SameLoops, Same, SameRequest, EarlyStages
<1>5. (Loop(1) /\ Loop(2))'
    BY DEF TunnelState, Loop, Quiet, SameLoops, Same
<1>6. Hijacks'
    BY <1>1, <1>2 DEF TunnelState, Hijacks, Quiet, SameLoops, Same, SameRequest, Ownership,
       EarlyStages, Established
<1>7. OpenConns'
    BY <1>1 DEF TunnelState, OpenConns, Quiet, SameRequest, SameRelay, Stages, EarlyStages
<1>8. Kept'
    BY <1>1 DEF TunnelState, Kept, Quiet, SameRequest, SameRelay, EarlyStages
<1> QED BY <1>3, <1>4, <1>5, <1>6, <1>7, <1>8 DEF TunnelState

\* A CONNECT is refused: its handler returns to the loop.
LEMMA ConnectRefused ==
    ASSUME TunnelState, LoopCounts(1, 0), SameRequest, SameRelay, owner = "connect",
           tunnel = "refused", tunnel' = "returned", told' = "refused",
           UNCHANGED <<main, owner, h2, open, upstream, code>>, Ends => Ends'
    PROVE  TunnelState'
<1>1. TunnelTypes'
    BY DEF TunnelState, TunnelTypes, Stages, LoopCounts, OtherLoop, Same, SameRequest
<1>2. Ownership'
    BY DEF TunnelState, Ownership, LoopCounts, OtherLoop, Same, SameRequest, TunnelTypes
<1>3. (Loop(1) /\ Loop(2))'
    BY DEF TunnelState, Loop, LoopCounts, OtherLoop, Same
<1>4. Hijacks'
    BY DEF TunnelState, Hijacks, LoopCounts, OtherLoop, Same, SameRequest, TunnelTypes
<1>5. OpenConns'
    BY DEF TunnelState, OpenConns, SameRequest, SameRelay
<1>6. Kept'
    BY DEF TunnelState, Kept, SameRequest, SameRelay
<1> QED BY <1>1, <1>2, <1>3, <1>4, <1>5, <1>6 DEF TunnelState

\* The loop inside the tunnel starts.
LEMMA InnerLoopStarts ==
    ASSUME TunnelState, LoopStarts(2), SameRequest, SameRelay,
           tunnel \in {"proto", "handshake"}, tunnel' = "frame",
           UNCHANGED <<main, owner, open, upstream, told, code>>
    PROVE  TunnelState'
<1>1. ReqAt = "none" /\ ReqAt' = "none"
    BY DEF TunnelState, TunnelTypes, Ownership, SameRequest
<1>2. TunnelTypes'
    BY DEF TunnelState, TunnelTypes, Stages, LoopStarts, OtherLoop, Same, SameRequest
<1>3. Ownership'
    BY <1>1 DEF TunnelState, Ownership, LoopStarts, OtherLoop, Same, SameRequest
<1>4. (Loop(1) /\ Loop(2))'
    BY DEF TunnelState, Loop, LoopStarts, OtherLoop, Same
<1>5. Hijacks'
    BY <1>1 DEF TunnelState, Hijacks, LoopStarts, OtherLoop, Same, SameRequest, Ownership
<1>6. OpenConns'
    BY <1>1 DEF TunnelState, OpenConns, SameRequest, SameRelay
<1>7. Kept'
    BY <1>1 DEF TunnelState, Kept, SameRequest, SameRelay
<1> QED BY <1>2, <1>3, <1>4, <1>5, <1>6, <1>7 DEF TunnelState

\* The TLS handshake inside the tunnel fails.
LEMMA TunnelHandshakeFails ==
    ASSUME TunnelState, Quiet, tunnel = "handshake", tunnel' = "leave", ~open',
           UNCHANGED <<main, owner, h2, upstream, told, code>>
    PROVE  TunnelState'
<1>1. TunnelTypes'
    BY DEF TunnelState, TunnelTypes, Stages, Quiet, SameLoops, Same, SameRequest
<1>2. Ownership'
    BY DEF TunnelState, Ownership, Quiet, SameLoops, Same, SameRequest, TunnelTypes
<1>3. (Loop(1) /\ Loop(2))'
    BY DEF TunnelState, Loop, Quiet, SameLoops, Same
<1>4. Hijacks'
    BY DEF TunnelState, Hijacks, Quiet, SameLoops, Same, SameRequest, TunnelTypes
<1>5. OpenConns'
    BY DEF TunnelState, OpenConns, Quiet, SameRequest, SameRelay, Ownership, TunnelTypes
<1>6. Kept'
    BY DEF TunnelState, Kept, Quiet, SameRequest, SameRelay, Ownership, TunnelTypes
<1> QED BY <1>1, <1>2, <1>3, <1>4, <1>5, <1>6 DEF TunnelState

\* The loop inside the tunnel has been left, and the connection is closed.
LEMMA InnerLoopReturned ==
    ASSUME TunnelState, Quiet, tunnel = "frame", St(2) = "left", tunnel' = "leave", ~open',
           UNCHANGED <<main, owner, h2, upstream, told, code>>
    PROVE  TunnelState'
<1>1. TunnelTypes'
    BY DEF TunnelState, TunnelTypes, Stages, Quiet, SameLoops, Same, SameRequest
<1>2. Ownership'
    BY DEF TunnelState, Ownership, Quiet, SameLoops, Same, SameRequest, TunnelTypes
<1>3. (Loop(1) /\ Loop(2))'
    BY DEF TunnelState, Loop, Quiet, SameLoops, Same
<1>4. Hijacks'
    BY DEF TunnelState, Hijacks, Quiet, SameLoops, Same, SameRequest, TunnelTypes
<1>5. OpenConns'
    BY DEF TunnelState, OpenConns, Quiet, SameRequest, SameRelay, Ownership, TunnelTypes
<1>6. Kept'
    BY DEF TunnelState, Kept, Quiet, SameRequest, SameRelay, Ownership, TunnelTypes
<1> QED BY <1>1, <1>2, <1>3, <1>4, <1>5, <1>6 DEF TunnelState

\* A CONNECT handler closes the connection and returns to its loop.
LEMMA ConnectLeaves ==
    ASSUME TunnelState, LoopCounts(1, 0), SameRequest, SameRelay, owner = "connect",
           tunnel = "leave", tunnel' = "returned", ~open',
           UNCHANGED <<main, owner, h2, upstream, told, code>>
    PROVE  TunnelState'
<1>1. TunnelTypes'
    BY DEF TunnelState, TunnelTypes, Stages, LoopCounts, OtherLoop, Same, SameRequest
<1>2. Ownership'
    BY DEF TunnelState, Ownership, LoopCounts, OtherLoop, Same, SameRequest, TunnelTypes
<1>3. (Loop(1) /\ Loop(2))'
    BY DEF TunnelState, Loop, LoopCounts, OtherLoop, Same
<1>4. Hijacks'
    BY DEF TunnelState, Hijacks, LoopCounts, OtherLoop, Same, SameRequest, TunnelTypes
<1>5. OpenConns'
    BY DEF TunnelState, OpenConns, SameRequest, SameRelay, Ownership, TunnelTypes
<1>6. Kept'
    BY DEF TunnelState, Kept, SameRequest, SameRelay, Ownership, TunnelTypes
<1> QED BY <1>1, <1>2, <1>3, <1>4, <1>5, <1>6 DEF TunnelState

\* The goroutine of a SOCKS5 tunnel or of a passthrough closes the connection and
\* returns.
LEMMA TunnelGoroutineLeaves ==
    ASSUME TunnelState, Quiet, owner # "connect", tunnel = "leave", tunnel' = "returned",
           main' = "returned", ~open', UNCHANGED <<owner, h2, upstream, told, code>>
    PROVE  TunnelState'
<1>1. TunnelTypes'
    BY DEF TunnelState, TunnelTypes, Stages, Quiet, SameLoops, Same, SameRequest
<1>2. Ownership'
    BY DEF TunnelState, Ownership, Quiet, SameLoops, Same, SameRequest, Loop, TunnelTypes,
       Stages
<1>3. (Loop(1) /\ Loop(2))'
    BY DEF TunnelState, Loop, Quiet, SameLoops, Same
<1>4. Hijacks'
    BY DEF TunnelState, Hijacks, Quiet, SameLoops, Same, SameRequest, TunnelTypes
<1>5. OpenConns'
    BY DEF TunnelState, OpenConns, Quiet, SameRequest, SameRelay, Ownership, TunnelTypes
<1>6. Kept'
    BY DEF TunnelState, Kept, Quiet, SameRequest, SameRelay, Ownership, TunnelTypes
<1> QED BY <1>1, <1>2, <1>3, <1>4, <1>5, <1>6 DEF TunnelState

\* The loop over the raw connection starts a CONNECT handler.
LEMMA ConnectStarts ==
    ASSUME TunnelState, LoopCounts(1, 1), SameRequest, SameRelay, St(1) = "serving",
           Handlers(1) = 0, ~Done(1), open, tunnel = "off", owner' = "connect",
           tunnel' = "check", UNCHANGED <<main, h2, open, upstream, told, code>>,
           Ends => Ends'
    PROVE  TunnelState'
<1>1. ReqAt = "none"
    BY DEF TunnelState, TunnelTypes, Ownership, Loop
<1>2. TunnelTypes'
    BY <1>1 DEF TunnelState, TunnelTypes, Stages, LoopCounts, OtherLoop, Same, SameRequest
<1>3. Ownership'
    BY <1>1 DEF TunnelState, Ownership, LoopCounts, OtherLoop, Same, SameRequest
<1>4. (Loop(1) /\ Loop(2))'
    BY <1>1 DEF TunnelState, Loop, LoopCounts, OtherLoop, Same
<1>5. Hijacks'
    BY <1>1 DEF TunnelState, Hijacks, LoopCounts, OtherLoop, Same, SameRequest
<1>6. OpenConns'
    BY <1>1 DEF TunnelState, OpenConns, SameRequest, SameRelay
<1>7. Kept'
    BY <1>1 DEF TunnelState, Kept, SameRequest, SameRelay
<1> QED BY <1>2, <1>3, <1>4, <1>5, <1>6, <1>7 DEF TunnelState

\* A loop starts the handler of a request.
LEMMA RequestStarts ==
    ASSUME TunnelState, NEW f \in 1..2, LoopCounts(f, 1), ReqAt' = "exchange", ReqFrame' = f,
           SameRelay, St(f) = "serving", Handlers(f) = 0, ~Done(f), open, f = 2 => ~h2,
           f = 1 => tunnel = "off",
           UNCHANGED <<main, tunnel, owner, h2, open, upstream, told, code>>, Ends => Ends'
    PROVE  TunnelState'
<1>1. ReqAt = "none"
    BY DEF TunnelState, TunnelTypes, Ownership, Loop
<1>2. TunnelTypes'
    BY <1>1 DEF TunnelState, TunnelTypes, Stages, LoopCounts, OtherLoop, Same
<1>3. Ownership'
    BY <1>1 DEF TunnelState, Ownership, LoopCounts, OtherLoop, Same
<1>4. (Loop(1) /\ Loop(2))'
    BY <1>1 DEF TunnelState, Loop, LoopCounts, OtherLoop, Same
<1>5. Hijacks'
    BY <1>1 DEF TunnelState, Hijacks, LoopCounts, OtherLoop, Same
<1>6. OpenConns'
    BY <1>1 DEF TunnelState, OpenConns, SameRelay
<1>7. Kept'
    BY <1>1 DEF TunnelState, Kept, SameRelay
<1> QED BY <1>2, <1>3, <1>4, <1>5, <1>6, <1>7 DEF TunnelState

\* The connection of a loop is closed.
LEMMA ConnectionCloses ==
    ASSUME TunnelState, NEW f \in 1..2, LoopDone(f), SameRequest, SameRelay, St(f) = "serving",
           ~Done(f), ~Hijacked(f), Handlers(f) = 0 \/ (f = 2 /\ h2), ~open',
           UNCHANGED <<main, tunnel, owner, h2, upstream, told, code>>, Ends => Ends'
    PROVE  TunnelState'
<1>1. TunnelTypes'
    BY DEF TunnelState, TunnelTypes, Stages, LoopDone, OtherLoop, Same, SameRequest
<1>2. Ownership'
    BY DEF TunnelState, Ownership, LoopDone, OtherLoop, Same, SameRequest, TunnelTypes
<1>3. (Loop(1) /\ Loop(2))'
    BY DEF TunnelState, Loop, LoopDone, OtherLoop, Same
<1>4. Hijacks'
    BY DEF TunnelState, Hijacks, LoopDone, OtherLoop, Same, SameRequest, TunnelTypes
<1>5. OpenConns'
    BY DEF TunnelState, OpenConns, SameRequest, SameRelay, Ownership, Loop, Hijacks,
       TunnelTypes, Stages
<1>6. Kept'
    BY DEF TunnelState, Kept, SameRequest, SameRelay, Ownership, OpenConns, TunnelTypes,
       Stages
<1> QED BY <1>1, <1>2, <1>3, <1>4, <1>5, <1>6 DEF TunnelState

\* The connection of a loop is hijacked: the flag comes first.
LEMMA HijackBegins ==
    ASSUME TunnelState, NEW f \in 1..2, LoopHijacked(f), SameRequest, SameRelay, ~Hijacked(f),
           \/ tunnel = "hijack" /\ f = 1
           \/ ReqAt = "hijack" /\ f = ReqFrame,
           UNCHANGED <<main, tunnel, owner, h2, open, upstream, told, code>>, Ends => Ends'
    PROVE  TunnelState'
<1>1. TunnelTypes'
    BY DEF TunnelState, TunnelTypes, Stages, LoopHijacked, OtherLoop, Same, SameRequest
<1>2. Ownership'
    BY DEF TunnelState, Ownership, LoopHijacked, OtherLoop, Same, SameRequest, TunnelTypes
<1>3. (Loop(1) /\ Loop(2))'
    BY DEF TunnelState, Loop, LoopHijacked, OtherLoop, Same, Ownership
<1>4. Hijacks'
    BY DEF TunnelState, Hijacks, LoopHijacked, OtherLoop, Same, SameRequest, Ownership,
       TunnelTypes
<1>5. OpenConns'
    BY DEF TunnelState, OpenConns, SameRequest, SameRelay
<1>6. Kept'
    BY DEF TunnelState, Kept, SameRequest, SameRelay
<1> QED BY <1>1, <1>2, <1>3, <1>4, <1>5, <1>6 DEF TunnelState

\* Then the loop sees its connection gone, and the CONNECT handler goes on.
LEMMA TunnelHijacks ==
    ASSUME TunnelState, LoopDone(1), SameRequest, SameRelay, Hijacked(1), tunnel = "hijack",
           tunnel' = "reply", UNCHANGED <<main, owner, h2, open, upstream, told, code>>,
           Ends => Ends'
    PROVE  TunnelState'
<1>1. TunnelTypes'
    BY DEF TunnelState, TunnelTypes, Stages, LoopDone, OtherLoop, Same, SameRequest
<1>2. Ownership'
    BY DEF TunnelState, Ownership, LoopDone, OtherLoop, Same, SameRequest, TunnelTypes
<1>3. (Loop(1) /\ Loop(2))'
    BY DEF TunnelState, Loop, LoopDone, OtherLoop, Same
<1>4. Hijacks'
    BY DEF TunnelState, Hijacks, LoopDone, OtherLoop, Same, SameRequest, Ownership,
       TunnelTypes
<1>5. OpenConns'
    BY DEF TunnelState, OpenConns, SameRequest, SameRelay, Stages
<1>6. Kept'
    BY DEF TunnelState, Kept, SameRequest, SameRelay
<1> QED BY <1>1, <1>2, <1>3, <1>4, <1>5, <1>6 DEF TunnelState

\* In the same way a WebSocket handler goes on to relay.
LEMMA RequestHijacks ==
    ASSUME TunnelState, NEW f \in 1..2, LoopDone(f), ReqAt' = "relay", ReqFrame' = ReqFrame,
           ~Fin', ~Over', Hijacked(f), ReqAt = "hijack", f = ReqFrame,
           UNCHANGED <<main, tunnel, owner, h2, open, upstream, told, code>>
    PROVE  TunnelState'
<1>1. TunnelTypes'
    BY DEF TunnelState, TunnelTypes, Stages, LoopDone, OtherLoop, Same
<1>2. Ownership'
    BY DEF TunnelState, Ownership, LoopDone, OtherLoop, Same
<1>3. (Loop(1) /\ Loop(2))'
    BY DEF TunnelState, Loop, LoopDone, OtherLoop, Same
<1>4. Hijacks'
    BY DEF TunnelState, Hijacks, LoopDone, OtherLoop, Same
<1>5. OpenConns'
    BY DEF TunnelState, OpenConns
<1>6. Kept'
    BY DEF TunnelState, Kept, OpenConns
<1> QED BY <1>1, <1>2, <1>3, <1>4, <1>5, <1>6 DEF TunnelState

\* Serve returns.
LEMMA LoopServed ==
    ASSUME TunnelState, NEW f \in 1..2, LoopReaches(f, "served"), SameRequest, SameRelay,
           St(f) = "serving", Done(f),
           UNCHANGED <<main, tunnel, owner, h2, open, upstream, told, code>>, Ends => Ends'
    PROVE  TunnelState'
<1>1. TunnelTypes'
    BY DEF TunnelState, TunnelTypes, Stages, LoopReaches, OtherLoop, Same, SameRequest
<1>2. Ownership'
    BY DEF TunnelState, Ownership, LoopReaches, OtherLoop, Same, SameRequest, TunnelTypes
<1>3. (Loop(1) /\ Loop(2))'
    BY DEF TunnelState, Loop, LoopReaches, OtherLoop, Same
<1>4. Hijacks'
    BY DEF TunnelState, Hijacks, LoopReaches, OtherLoop, Same, SameRequest, TunnelTypes
<1>5. OpenConns'
    BY DEF TunnelState, OpenConns, SameRequest, SameRelay
<1>6. Kept'
    BY DEF TunnelState, Kept, SameRequest, SameRelay
<1> QED BY <1>1, <1>2, <1>3, <1>4, <1>5, <1>6 DEF TunnelState

\* The caller of Serve returns, after the handler that hijacked its connection.
LEMMA LoopLeft ==
    ASSUME TunnelState, NEW f \in 1..2, LoopReaches(f, "left"), SameRequest, SameRelay,
           St(f) = "served", Hijacked(f) => Handlers(f) = 0,
           UNCHANGED <<main, tunnel, owner, h2, open, upstream, told, code>>, Ends => Ends'
    PROVE  TunnelState'
<1>1. TunnelTypes'
    BY DEF TunnelState, TunnelTypes, Stages, LoopReaches, OtherLoop, Same, SameRequest
<1>2. Ownership'
    BY DEF TunnelState, Ownership, LoopReaches, OtherLoop, Same, SameRequest, TunnelTypes,
       Loop
<1>3. (Loop(1) /\ Loop(2))'
    BY DEF TunnelState, Loop, LoopReaches, OtherLoop, Same
<1>4. Hijacks'
    BY DEF TunnelState, Hijacks, LoopReaches, OtherLoop, Same, SameRequest, TunnelTypes
<1>5. OpenConns'
    BY DEF TunnelState, OpenConns, SameRequest, SameRelay
<1>6. Kept'
    BY DEF TunnelState, Kept, SameRequest, SameRelay
<1> QED BY <1>1, <1>2, <1>3, <1>4, <1>5, <1>6 DEF TunnelState

\* HTTP/2 streams come and go.
LEMMA StreamsCounted ==
    ASSUME TunnelState, NEW n \in Int, LoopCounts(2, n), SameRequest, SameRelay, h2,
           St(2) # "off", UNCHANGED <<main, tunnel, owner, h2, open, upstream, told, code>>,
           Ends => Ends'
    PROVE  TunnelState'
<1>1. TunnelTypes'
    BY DEF TunnelState, TunnelTypes, Stages, LoopCounts, OtherLoop, Same, SameRequest
<1>2. Ownership'
    BY DEF TunnelState, Ownership, LoopCounts, OtherLoop, Same, SameRequest, TunnelTypes
<1>3. (Loop(1) /\ Loop(2))'
    BY DEF TunnelState, Loop, LoopCounts, OtherLoop, Same
<1>4. Hijacks'
    BY DEF TunnelState, Hijacks, LoopCounts, OtherLoop, Same, SameRequest, TunnelTypes
<1>5. OpenConns'
    BY DEF TunnelState, OpenConns, SameRequest, SameRelay
<1>6. Kept'
    BY DEF TunnelState, Kept, SameRequest, SameRelay
<1> QED BY <1>1, <1>2, <1>3, <1>4, <1>5, <1>6 DEF TunnelState

\* The handler of a request returns to its loop.
LEMMA RequestReturns ==
    ASSUME TunnelState, NEW f \in 1..2, f = ReqFrame, LoopCounts(f, 0), ReqAt' = "none",
           ReqFrame' \in 1..2, SameRelay, ReqAt \notin {"none", "hijack"},
           ReqAt = "relay" => ~open, upstream' # "open",
           UNCHANGED <<main, tunnel, owner, h2, open, told>>
    PROVE  TunnelState'
<1>1. TunnelTypes'
    BY DEF TunnelState, TunnelTypes, Stages, LoopCounts, OtherLoop, Same
<1>2. Ownership'
    BY DEF TunnelState, Ownership, LoopCounts, OtherLoop, Same, Loop, TunnelTypes
<1>3. (Loop(1) /\ Loop(2))'
    BY DEF TunnelState, Loop, LoopCounts, OtherLoop, Same, Ownership
<1>4. Hijacks'
    BY DEF TunnelState, Hijacks, LoopCounts, OtherLoop, Same, Ownership, Loop, TunnelTypes
<1>5. OpenConns'
    BY DEF TunnelState, OpenConns, SameRelay
<1>6. Kept'
    BY DEF TunnelState, Kept, SameRelay, Ownership
<1> QED BY <1>1, <1>2, <1>3, <1>4, <1>5, <1>6 DEF TunnelState

\* A WebSocket request goes on from one stage to the next.
LEMMA RequestGoesOn ==
    ASSUME TunnelState, NEW x \in {"dial", "respond", "hijack"}, SameLoops, ReqAt' = x,
           ReqFrame' = ReqFrame, SameRelay, ReqAt \in {"exchange", "dial", "respond"},
           UNCHANGED <<main, tunnel, owner, h2, open, told>>,
           x = "respond" /\ code' = 101 => upstream' = "open",
           x = "hijack" => upstream' = "open", x = "dial" => upstream' # "open"
    PROVE  TunnelState'
<1>1. tunnel \in {"off", "frame"}
    BY DEF TunnelState, TunnelTypes, Ownership
<1>2. TunnelTypes'
    BY DEF TunnelState, TunnelTypes, Stages, SameLoops, Same
<1>3. Ownership'
    BY DEF TunnelState, Ownership, SameLoops, Same, TunnelTypes
<1>4. (Loop(1) /\ Loop(2))'
    BY DEF TunnelState, Loop, SameLoops, Same
<1>5. Hijacks'
    BY DEF TunnelState, Hijacks, SameLoops, Same, TunnelTypes
<1>6. OpenConns'
    BY <1>1 DEF TunnelState, OpenConns, SameRelay
<1>7. Kept'
    BY <1>1 DEF TunnelState, Kept, SameRelay
<1> QED BY <1>2, <1>3, <1>4, <1>5, <1>6, <1>7 DEF TunnelState

\* A WebSocket relay is finished: both connections are closed.
LEMMA RelayFinishes ==
    ASSUME TunnelState, SameLoops, SameRequest, Fin', ReqAt = "relay", ~open',
           upstream' = "closed", UNCHANGED <<main, tunnel, owner, h2, told, code>>
    PROVE  TunnelState'
<1>1. tunnel \in {"off", "frame"}
    BY DEF TunnelState, TunnelTypes, Ownership
<1>2. main \notin {"none", "peek"}
    BY <1>1 DEF TunnelState, TunnelTypes, Ownership
<1>3. TunnelTypes'
    BY DEF TunnelState, TunnelTypes, Stages, SameLoops, Same, SameRequest
<1>4. Ownership'
    BY DEF TunnelState, Ownership, SameLoops, Same, SameRequest, TunnelTypes
<1>5. (Loop(1) /\ Loop(2))'
    BY DEF TunnelState, Loop, SameLoops, Same
<1>6. Hijacks'
    BY DEF TunnelState, Hijacks, SameLoops, Same, SameRequest, TunnelTypes
<1>7. OpenConns'
    BY <1>1, <1>2 DEF TunnelState, OpenConns, SameRequest
<1>8. Kept'
    BY DEF TunnelState, Kept, SameRequest
<1> QED BY <1>3, <1>4, <1>5, <1>6, <1>7, <1>8 DEF TunnelState

\* A passthrough has dialled: both directions start.
LEMMA PassthroughStarts ==
    ASSUME TunnelState, SameLoops, SameRequest, ~Fin', ~Over', tunnel = "sniRun",
           tunnel' = "relay", upstream' = "open", UNCHANGED <<main, owner, h2, open, told>>
    PROVE  TunnelState'
<1>1. ReqAt = "none" /\ open
    BY DEF TunnelState, TunnelTypes, Ownership, OpenConns, Stages
<1>2. TunnelTypes'
    BY DEF TunnelState, TunnelTypes, Stages, SameLoops, Same, SameRequest
<1>3. Ownership'
    BY <1>1 DEF TunnelState, Ownership, SameLoops, Same, SameRequest
<1>4. (Loop(1) /\ Loop(2))'
    BY DEF TunnelState, Loop, SameLoops, Same
<1>5. Hijacks'
    BY <1>1 DEF TunnelState, Hijacks, SameLoops, Same, SameRequest
<1>6. OpenConns'
    BY <1>1 DEF TunnelState, OpenConns, SameRequest
<1>7. Kept'
    BY <1>1 DEF TunnelState, Kept, SameRequest
<1> QED BY <1>2, <1>3, <1>4, <1>5, <1>6, <1>7 DEF TunnelState

\* A direction of a passthrough ends, which finishes the relay.
LEMMA DirectionEnds ==
    ASSUME TunnelState, SameLoops, SameRequest, Fin', tunnel = "relay",
           UNCHANGED <<main, tunnel, owner, h2, open, upstream, told, code>>
    PROVE  TunnelState'
<1>1. TunnelTypes'
    BY DEF TunnelState, TunnelTypes, Stages, SameLoops, Same, SameRequest
<1>2. Ownership'
    BY DEF TunnelState, Ownership, SameLoops, Same, SameRequest, TunnelTypes
<1>3. (Loop(1) /\ Loop(2))'
    BY DEF TunnelState, Loop, SameLoops, Same
<1>4. Hijacks'
    BY DEF TunnelState, Hijacks, SameLoops, Same, SameRequest, TunnelTypes
<1>5. OpenConns'
    BY DEF TunnelState, OpenConns, SameRequest, Ownership, TunnelTypes
<1>6. Kept'
    BY DEF TunnelState, Kept, SameRequest
<1> QED BY <1>1, <1>2, <1>3, <1>4, <1>5, <1>6 DEF TunnelState

\* The connections of a passthrough are closed once it is finished or Shutdown has begun.
LEMMA PassthroughCloses ==
    ASSUME TunnelState, Quiet, tunnel = "relay", Fin \/ Ends, ~open', upstream' = "closed",
           Ends => Ends', UNCHANGED <<main, tunnel, owner, h2, told, code>>
    PROVE  TunnelState'
<1>1. TunnelTypes'
    BY DEF TunnelState, TunnelTypes, Stages, Quiet, SameLoops, Same, SameRequest
<1>2. Ownership'
    BY DEF TunnelState, Ownership, Quiet, SameLoops, Same, SameRequest, TunnelTypes
<1>3. (Loop(1) /\ Loop(2))'
    BY DEF TunnelState, Loop, Quiet, SameLoops, Same
<1>4. Hijacks'
    BY DEF TunnelState, Hijacks, Quiet, SameLoops, Same, SameRequest, TunnelTypes
<1>5. OpenConns'
    BY DEF TunnelState, OpenConns, Quiet, SameRequest, SameRelay, Ownership, TunnelTypes
<1>6. Kept'
    BY DEF TunnelState, Kept, Quiet, SameRequest, SameRelay
<1> QED BY <1>1, <1>2, <1>3, <1>4, <1>5, <1>6 DEF TunnelState

\* A passthrough is over.
LEMMA PassthroughReturns ==
    ASSUME TunnelState, Quiet, tunnel = "relay", tunnel' = "leave", upstream' = "closed",
           UNCHANGED <<main, owner, h2, open, told, code>>
    PROVE  TunnelState'
<1>1. TunnelTypes'
    BY DEF TunnelState, TunnelTypes, Stages, Quiet, SameLoops, Same, SameRequest
<1>2. Ownership'
    BY DEF TunnelState, Ownership, Quiet, SameLoops, Same, SameRequest, TunnelTypes
<1>3. (Loop(1) /\ Loop(2))'
    BY DEF TunnelState, Loop, Quiet, SameLoops, Same
<1>4. Hijacks'
    BY DEF TunnelState, Hijacks, Quiet, SameLoops, Same, SameRequest, TunnelTypes
<1>5. OpenConns'
    BY DEF TunnelState, OpenConns, Quiet, SameRequest, SameRelay, Ownership, TunnelTypes
<1>6. Kept'
    BY DEF TunnelState, Kept, Quiet, SameRequest, SameRelay, Ownership, TunnelTypes
<1> QED BY <1>1, <1>2, <1>3, <1>4, <1>5, <1>6 DEF TunnelState

-----------------------------------------------------------------------------
\* What the invariant says where a step needs it: of the handler a request or a CONNECT
\* is, of the upstream connection before the dial, and of a connection that is handled.
LEMMA HandlerCounted ==
    ASSUME TunnelState
    PROVE  /\ owner = "connect" /\ tunnel # "returned" => Handlers(1) = 1
           /\ ReqFrame \in 1..2 /\ (ReqAt # "none" => Handlers(ReqFrame) = 1)
BY DEF TunnelState, TunnelTypes, Ownership

LEMMA HijackedOnce ==
    ASSUME TunnelState, tunnel = "hijack", NEW f \in 1..2,
           f = 1 \/ (ReqAt = "hijack" /\ f = ReqFrame)
    PROVE  f = 1
<1>1. ReqAt = "hijack" => ReqFrame # 2
    BY DEF TunnelState, Ownership
<1> QED BY <1>1

LEMMA NotDialled ==
    ASSUME TunnelState, ReqAt = "exchange"
    PROVE  upstream # "open"
<1>1. tunnel \notin {"sniRun", "relay"}
    BY DEF TunnelState, TunnelTypes, Ownership
<1> QED BY <1>1 DEF TunnelState, OpenConns

LEMMA AllReturned ==
    ASSUME TunnelState, main = "returned"
    PROVE  ~open /\ upstream # "open" /\ tunnel \in {"off", "returned"} /\ ReqAt = "none"
<1>1. tunnel \in {"off", "returned"}
    BY DEF TunnelState, Ownership
<1>2. ReqAt = "none"
    BY <1>1 DEF TunnelState, TunnelTypes, Ownership
<1>3. ~open /\ upstream # "open"
    BY <1>1, <1>2 DEF TunnelState, OpenConns
<1> QED BY <1>1, <1>2, <1>3


-----------------------------------------------------------------------------
\* The audit of a tunnel's admission: the run is audited as the tunnel leaves "check",
\* the one place where it is, with the verdict that decides where the tunnel goes.
RecordType == [kind : {"connect", "sni"}, status : Nat]
Audited(ok) == \E i \in DOMAIN records :
                   records[i].kind = "connect" /\ (ok <=> records[i].status = 200)
AuditInv ==
    /\ records \in Seq(RecordType) /\ code \in Nat
    /\ tunnel \in {"off", "socks", "check"} =>
          told = "none" /\ \A i \in DOMAIN records : records[i].kind # "connect"
    /\ \A i, j \in DOMAIN records :
          records[i].kind = "connect" /\ records[j].kind = "connect" => i = j
    /\ tunnel \in {"admitted", "hijack", "reply", "proto", "handshake", "frame"} => Audited(TRUE)
    /\ tunnel = "refused" => Audited(FALSE)
    /\ told = "established" => Audited(TRUE)
    /\ told = "refused" => Audited(FALSE)
    /\ tunnel \in {"proto", "handshake", "frame", "sni", "sniRun", "relay"} /\ owner # "https" =>
          told = "established"

\* What Emit writes.
Recorded(kind, s) == records' = Append(records, [kind |-> kind, status |-> s])

\* A record of the passthrough audits no admission; one of the check audits the first.
LEMMA SniAppended ==
    ASSUME AuditInv, NEW s \in Nat, Recorded("sni", s)
    PROVE  /\ records' \in Seq(RecordType)
           /\ \A i \in DOMAIN records' :
                 records'[i].kind = "connect" => i \in DOMAIN records /\ records'[i] = records[i]
           /\ \A i \in DOMAIN records : i \in DOMAIN records' /\ records'[i] = records[i]
<1>1. [kind |-> "sni", status |-> s] \in RecordType
    BY DEF RecordType
<1> QED BY <1>1 DEF AuditInv, Recorded

\* The record of a passthrough, written as the tunnel leaves, keeps AuditInv.
LEMMA SniRecord ==
    ASSUME AuditInv, NEW s \in Nat, Recorded("sni", s), tunnel \in {"sniRun", "relay"},
           tunnel' = "leave", code' = s, UNCHANGED told
    PROVE  AuditInv'
<1>1. /\ records' \in Seq(RecordType)
      /\ \A i \in DOMAIN records' :
            records'[i].kind = "connect" => i \in DOMAIN records /\ records'[i] = records[i]
      /\ \A i \in DOMAIN records : i \in DOMAIN records' /\ records'[i] = records[i]
    BY SniAppended
<1>2. \A i, j \in DOMAIN records' :
         records'[i].kind = "connect" /\ records'[j].kind = "connect" => i = j
    BY <1>1 DEF AuditInv
<1>3. (Audited(TRUE) => Audited(TRUE)') /\ (Audited(FALSE) => Audited(FALSE)')
    BY <1>1 DEF Audited
<1>4. (told = "established" => Audited(TRUE)) /\ (told = "refused" => Audited(FALSE))
    BY Zenon DEF AuditInv
<1> QED BY <1>1, <1>2, <1>3, <1>4, Zenon DEF AuditInv

\* A tunnel that was audited has been; one that carries bytes was admitted.
Unaudited == {"off", "socks", "check"}
Checked == {"admitted", "hijack", "reply", "proto", "handshake", "frame"}
Carrying == {"proto", "handshake", "frame", "sni", "sniRun", "relay"}

\* A step that writes no record keeps AuditInv when the tunnel goes on from a stage
\* that was audited alike, and the client is told what was audited.
LEMMA NoRecord ==
    ASSUME AuditInv, records' = records, code' \in Nat,
           tunnel' \in Unaudited => tunnel \in Unaudited /\ told' = told,
           tunnel' \in Checked => tunnel \in Checked,
           tunnel' = "refused" => tunnel = "refused",
           told' = "established" => told = "established" \/ tunnel = "reply",
           told' = "refused" => told = "refused" \/ tunnel = "refused",
           tunnel' \in Carrying /\ owner' # "https" => told' = "established"
    PROVE  AuditInv'
<1>1. (Audited(TRUE) => Audited(TRUE)') /\ (Audited(FALSE) => Audited(FALSE)')
    BY DEF Audited
<1>2. /\ tunnel' \in Checked => Audited(TRUE)'
      /\ tunnel' = "refused" => Audited(FALSE)'
      /\ told' = "established" => Audited(TRUE)'
      /\ told' = "refused" => Audited(FALSE)'
    BY <1>1, Zenon DEF AuditInv, Checked
<1>3. tunnel' \in Unaudited => told' = "none" /\ \A i \in DOMAIN records' : records'[i].kind # "connect"
    BY DEF AuditInv, Unaudited
<1>4. /\ records' \in Seq(RecordType)
      /\ \A i, j \in DOMAIN records' :
            records'[i].kind = "connect" /\ records'[j].kind = "connect" => i = j
    BY DEF AuditInv
<1> QED BY <1>2, <1>3, <1>4, Zenon DEF AuditInv, Unaudited, Checked, Carrying

\* What AuditInv says of the stages, for the steps that write no record.
LEMMA AuditFacts ==
    ASSUME AuditInv
    PROVE  /\ code \in Nat /\ (tunnel \in Unaudited => told = "none")
           /\ tunnel \in Carrying /\ owner # "https" => told = "established"
BY DEF AuditInv, Unaudited, Carrying

\* The run of the check, audited as the tunnel leaves it with the verdict.
LEMMA CheckRecord ==
    ASSUME AuditInv, NEW s \in Nat, Recorded("connect", s), tunnel = "check", UNCHANGED <<told, code>>,
           tunnel' = IF s = 200 THEN "admitted" ELSE "refused"
    PROVE  AuditInv'
<1>1. /\ records \in Seq(RecordType) /\ told = "none" /\ code \in Nat
      /\ \A i \in DOMAIN records : records[i].kind # "connect"
    BY DEF AuditInv
<1>2. PICK r : r = [kind |-> "connect", status |-> s]
    BY Zenon
<1>3. r \in RecordType /\ r.kind = "connect" /\ r.status = s
    BY <1>2 DEF RecordType
<1>4. records' = Append(records, r)
    BY <1>2 DEF Recorded
<1>5. /\ records' \in Seq(RecordType) /\ DOMAIN records' = 1..(Len(records) + 1)
      /\ Len(records) + 1 \in DOMAIN records' /\ records'[Len(records) + 1] = r
      /\ \A i \in DOMAIN records' : i # Len(records) + 1 =>
            i \in DOMAIN records /\ records'[i] = records[i]
    BY <1>1, <1>3, <1>4
<1>6. \A i \in DOMAIN records' : records'[i].kind = "connect" => i = Len(records) + 1
    BY <1>1, <1>5
<1>7. (s = 200 => Audited(TRUE)') /\ (s # 200 => Audited(FALSE)')
    BY <1>3, <1>5 DEF Audited
<1>8. tunnel' \in {"admitted", "refused"} /\ (tunnel' = "admitted" <=> s = 200)
    OBVIOUS
<1> QED BY <1>1, <1>5, <1>6, <1>7, <1>8, Zenon DEF AuditInv

\* What AuditInv says to the client and to the reader of the records.
LEMMA AuditSays ==
    ASSUME AuditInv
    PROVE  LET connects == {i \in DOMAIN records : records[i].kind = "connect"} IN
           /\ \A i, j \in connects : i = j
           /\ told = "established" \/ tunnel \in {"proto", "handshake", "frame"}
                 => \E i \in connects : records[i].status = 200
           /\ told = "refused" => \E i \in connects : records[i].status # 200
           /\ tunnel = "relay" /\ owner # "https" => told = "established"
<1> DEFINE connects == {i \in DOMAIN records : records[i].kind = "connect"}
<1>1. \A i, j \in connects : i = j
    BY DEF AuditInv
<1>2. /\ Audited(TRUE) => \E i \in connects : records[i].status = 200
      /\ Audited(FALSE) => \E i \in connects : records[i].status # 200
    BY DEF Audited
<1>3. /\ told = "established" \/ tunnel \in {"proto", "handshake", "frame"} => Audited(TRUE)
      /\ told = "refused" => Audited(FALSE)
      /\ tunnel = "relay" /\ owner # "https" => told = "established"
    BY Zenon DEF AuditInv
<1> QED BY <1>1, <1>2, <1>3, Zenon


=============================================================================

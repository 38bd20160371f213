--------------------------- MODULE ConnectionProofs ---------------------------
(* What holds of every connection: a tunnel (Tunnel), an SSH session          *)
(* (SSHSession) and a bridged channel of one (SSHBridge), for any bounds.     *)
EXTENDS Connections, SSHBridge, Integers, TLAPS

-----------------------------------------------------------------------------
(* SSHBridge.                                                                 *)

PerOutput(S) == [Outputs -> S]
BridgeType ==
    [at : {"opening", "accepting", "run", "closing", "over"},
     exec : {"none", "sent", "audited"},
     pend : PerOutput({0, 1}), sent : PerOutput({0, 1}), got : PerOutput({0, 1}),
     status : {"none", "pending", "delivered", "lost"}, eof : BOOLEAN, ended : BOOLEAN,
     copy : PerOutput(BOOLEAN), relay : BOOLEAN, closer : {"off", "wait", "eof", "over"},
     clientClosed : BOOLEAN, downClosed : BOOLEAN, cut : BOOLEAN]

\* The client can no longer be written to, for a reason other than the proxy's own
\* closing of the channel.
ClientLost == ch.clientClosed \/ down = "dead"

\* The closer waits for the copies, then for the relay, and closes last. A copy that
\* has ended left nothing behind, or lost its client; the relay ends with upstream.
CloserInv ==
    /\ ch.closer = "off" => ~ch.downClosed /\ ch.at \in {"opening", "accepting", "over"}
    /\ ch.at \in {"opening", "accepting"} => ch.closer = "off"
    /\ ch.closer \in {"eof", "over"} => \A s \in Outputs : ~ch.copy[s]
    /\ ch.closer = "over" => ~ch.relay
    /\ ch.downClosed => ch.closer = "over"
    /\ ch.closer # "off" /\ ~ch.relay => UpEnded /\ ch.status # "pending"
    /\ ch.status = "lost" => ClientLost
CopyInv ==
    \A s \in Outputs :
        /\ ch.sent[s] = ch.got[s] + ch.pend[s]
        /\ ch.closer # "off" /\ ~ch.copy[s] =>
              ClientLost \/ (ch.pend[s] = 0 /\ (ch.eof \/ UpEnded))

BridgeInv == ch \in BridgeType /\ CloserInv /\ CopyInv /\ OutputBeforeClose

\* A channel starts with nothing written and nothing running.
LEMMA InitBridge == BridgeInit => BridgeInv
BY DEF BridgeInit, BridgeInv, NewBridge, BridgeType, PerOutput, CloserInv, CopyInv,
       OutputBeforeClose

\* What a step leaves as it was: the streams, how far the channel has come, and its end.
SameStreams == ch'.sent = ch.sent /\ ch'.got = ch.got /\ ch'.pend = ch.pend
SameRuns == ch'.closer = ch.closer /\ ch'.relay = ch.relay /\ ch'.copy = ch.copy
SameUpstream == ch'.eof = ch.eof /\ ch'.ended = ch.ended
SameEnd == ch'.clientClosed = ch.clientClosed /\ ch'.downClosed = ch.downClosed /\ ch'.cut = ch.cut
SameBut_at == SameStreams /\ SameRuns /\ SameUpstream /\ SameEnd /\ ch'.status = ch.status

\* A connection that is gone stays so.
LinksKept == (down = "dead" => down' = "dead") /\ (remote = "dead" => remote' = "dead")

\* What the copies have moved stays true when no stream changes and upstream does not
\* come back.
LEMMA CopyKept ==
    ASSUME CopyInv, SameStreams, ch'.copy = ch.copy, ch.closer = "off" => ch'.closer = "off",
           ClientLost => ClientLost', (ch.eof \/ UpEnded) => (ch.eof \/ UpEnded)'
    PROVE  CopyInv'
<1> HIDE DEF ClientLost, UpEnded
<1> QED BY DEF CopyInv, SameStreams

\* The same holds of a channel the proxy has closed.
LEMMA CloseKept ==
    ASSUME OutputBeforeClose, SameStreams, SameEnd, ch'.status = ch.status
    PROVE  OutputBeforeClose'
BY DEF OutputBeforeClose, SameStreams, SameEnd

\* A step that only moves the loop over the client's requests keeps the invariant.
LEMMA LoopMoves ==
    ASSUME BridgeInv, ch' \in BridgeType, SameBut_at, LinksKept,
           ch'.at \in {"opening", "accepting"} => ch.at \in {"opening", "accepting"},
           ch.closer = "off" => ch'.at \in {"opening", "accepting", "over"}
    PROVE  BridgeInv'
<1>1. CloserInv /\ CopyInv /\ OutputBeforeClose
    BY DEF BridgeInv
<1>2. (ClientLost => ClientLost') /\ (UpEnded => UpEnded')
    BY DEF ClientLost, UpEnded, SameBut_at, SameUpstream, SameEnd, LinksKept
<1>3. CloserInv'
    BY <1>1, <1>2 DEF CloserInv, SameBut_at, SameRuns, SameEnd
<1>4. CopyInv'
    BY <1>1, <1>2, CopyKept DEF SameBut_at, SameRuns, SameUpstream
<1>5. OutputBeforeClose'
    BY <1>1, CloseKept DEF SameBut_at
<1> QED BY <1>3, <1>4, <1>5 DEF BridgeInv

\* The records the steps write, field by field.
LEMMA MovesAt ==
    ASSUME ch \in BridgeType, NEW a \in {"accepting", "closing", "over"},
           ch' = [ch EXCEPT !.at = a]
    PROVE  ch' \in BridgeType /\ ch'.at = a /\ SameBut_at
<1>1. ch' \in BridgeType /\ ch'.at = a
    BY DEF BridgeType
<1>2. SameStreams /\ SameRuns
    BY DEF BridgeType, SameStreams, SameRuns
<1>3. SameUpstream /\ SameEnd /\ ch'.status = ch.status
    BY DEF BridgeType, SameUpstream, SameEnd
<1> QED BY <1>1, <1>2, <1>3 DEF SameBut_at

\* An update of the fields named keeps the others.
LEMMA SetStatus ==
    ASSUME ch \in BridgeType, NEW x \in {"pending", "delivered", "lost"},
           ch' = [ch EXCEPT !.status = x]
    PROVE  /\ ch' \in BridgeType /\ ch'.status = x /\ ch'.at = ch.at
           /\ SameStreams /\ SameRuns /\ SameUpstream /\ SameEnd
<1>1. ch' \in BridgeType /\ ch'.status = x /\ ch'.at = ch.at
    BY DEF BridgeType
<1>2. SameStreams /\ SameRuns
    BY DEF BridgeType, SameStreams, SameRuns
<1>3. SameUpstream /\ SameEnd
    BY DEF BridgeType, SameUpstream, SameEnd
<1> QED BY <1>1, <1>2, <1>3

\* Upstream's end of the channel.
LEMMA SetEnded ==
    ASSUME ch \in BridgeType,
           \/ ch' = [ch EXCEPT !.eof = TRUE]
           \/ ch' = [ch EXCEPT !.eof = TRUE, !.ended = TRUE]
    PROVE  /\ ch' \in BridgeType /\ ch'.at = ch.at /\ ch'.status = ch.status
           /\ SameStreams /\ SameRuns /\ SameEnd /\ ch'.eof /\ (ch.ended => ch'.ended)
<1> DEFINE t == TRUE
<1>0. t \in BOOLEAN
    OBVIOUS
<1>1. CASE ch' = [ch EXCEPT !.eof = TRUE]
    <2>1. ch' \in BridgeType /\ ch'.at = ch.at /\ ch'.status = ch.status
        <3>1. ch' = [ch EXCEPT !.eof = t]
            BY <1>1
        <3> HIDE DEF t
        <3> QED BY <1>0, <3>1, Zenon DEF BridgeType
    <2>2. SameStreams /\ SameRuns
        BY <1>1 DEF BridgeType, SameStreams, SameRuns
    <2>3. SameEnd
        BY <1>1 DEF BridgeType, SameEnd
    <2>4. ch'.eof /\ ch'.ended = ch.ended
        BY <1>1 DEF BridgeType
    <2> QED BY <2>1, <2>2, <2>3, <2>4
<1>2. CASE ch' = [ch EXCEPT !.eof = TRUE, !.ended = TRUE]
    <2>1. ch' \in BridgeType /\ ch'.at = ch.at /\ ch'.status = ch.status
        <3>1. ch' = [ch EXCEPT !.eof = t, !.ended = t]
            BY <1>2
        <3> HIDE DEF t
        <3> QED BY <1>0, <3>1, Zenon DEF BridgeType
    <2>2. SameStreams /\ SameRuns
        BY <1>2 DEF BridgeType, SameStreams, SameRuns
    <2>3. SameEnd
        BY <1>2 DEF BridgeType, SameEnd
    <2>4. ch'.eof /\ ch'.ended
        BY <1>2 DEF BridgeType
    <2> QED BY <2>1, <2>2, <2>3, <2>4
<1> QED BY <1>1, <1>2

\* A stream that is read or written, or whose copy ends.
LEMMA SetStream ==
    ASSUME ch \in BridgeType, NEW s \in Outputs,
           \/ ch' = [ch EXCEPT !.sent[s] = 1, !.pend[s] = 1]
           \/ ch' = [ch EXCEPT !.pend[s] = 0, !.got[s] = 1]
           \/ ch' = [ch EXCEPT !.copy[s] = FALSE]
    PROVE  /\ ch' \in BridgeType /\ ch'.at = ch.at /\ ch'.status = ch.status
           /\ ch'.closer = ch.closer /\ ch'.relay = ch.relay /\ SameUpstream /\ SameEnd
<1> DEFINE off == FALSE
           a == [ch.sent EXCEPT ![s] = 1]
           b == [ch.pend EXCEPT ![s] = 1]
           c == [ch.pend EXCEPT ![s] = 0]
           d == [ch.got EXCEPT ![s] = 1]
           e == [ch.copy EXCEPT ![s] = off]
<1>0. off \in BOOLEAN /\ a \in PerOutput({0, 1}) /\ b \in PerOutput({0, 1})
      /\ c \in PerOutput({0, 1}) /\ d \in PerOutput({0, 1}) /\ e \in PerOutput(BOOLEAN)
    <2>1. /\ ch.sent \in PerOutput({0, 1}) /\ ch.pend \in PerOutput({0, 1})
          /\ ch.got \in PerOutput({0, 1}) /\ ch.copy \in PerOutput(BOOLEAN)
        BY DEF BridgeType
    <2>2. off \in BOOLEAN
        OBVIOUS
    <2> HIDE DEF off
    <2> QED BY <2>1, <2>2 DEF PerOutput
<1>1. CASE ch' = [ch EXCEPT !.sent[s] = 1, !.pend[s] = 1]
    <2>1. ch' \in BridgeType
        <3>1. ch' = [ch EXCEPT !.sent = a, !.pend = b]
            BY <1>1
        <3> HIDE DEF a, b
        <3> QED BY <1>0, <3>1, Zenon DEF BridgeType
    <2>2. /\ ch'.at = ch.at /\ ch'.status = ch.status /\ ch'.closer = ch.closer
          /\ ch'.relay = ch.relay
        BY <1>1 DEF BridgeType
    <2>3. SameUpstream /\ SameEnd
        BY <1>1 DEF BridgeType, SameUpstream, SameEnd
    <2> QED BY <2>1, <2>2, <2>3
<1>2. CASE ch' = [ch EXCEPT !.pend[s] = 0, !.got[s] = 1]
    <2>1. ch' \in BridgeType
        <3>1. ch' = [ch EXCEPT !.pend = c, !.got = d]
            BY <1>2
        <3> HIDE DEF c, d
        <3> QED BY <1>0, <3>1, Zenon DEF BridgeType
    <2>2. /\ ch'.at = ch.at /\ ch'.status = ch.status /\ ch'.closer = ch.closer
          /\ ch'.relay = ch.relay
        BY <1>2 DEF BridgeType
    <2>3. SameUpstream /\ SameEnd
        BY <1>2 DEF BridgeType, SameUpstream, SameEnd
    <2> QED BY <2>1, <2>2, <2>3
<1>3. CASE ch' = [ch EXCEPT !.copy[s] = FALSE]
    <2>1. ch' \in BridgeType
        <3>1. ch' = [ch EXCEPT !.copy = e]
            BY <1>3
        <3> HIDE DEF e
        <3> QED BY <1>0, <3>1, Zenon DEF BridgeType
    <2>2. /\ ch'.at = ch.at /\ ch'.status = ch.status /\ ch'.closer = ch.closer
          /\ ch'.relay = ch.relay
        BY <1>3 DEF BridgeType
    <2>3. SameUpstream /\ SameEnd
        BY <1>3 DEF BridgeType, SameUpstream, SameEnd
    <2> QED BY <2>1, <2>2, <2>3
<1> QED BY <1>1, <1>2, <1>3

\* The end of upstream's output, or of its end of the channel, keeps the invariant.
LEMMA UpstreamOver ==
    ASSUME BridgeInv, UNCHANGED links,
           \/ ch' = [ch EXCEPT !.eof = TRUE]
           \/ ch' = [ch EXCEPT !.eof = TRUE, !.ended = TRUE]
    PROVE  BridgeInv'
<1>1. ch \in BridgeType /\ CloserInv /\ CopyInv /\ OutputBeforeClose
    BY DEF BridgeInv
<1>2. /\ ch' \in BridgeType /\ ch'.at = ch.at /\ ch'.status = ch.status
      /\ SameStreams /\ SameRuns /\ SameEnd /\ ch'.eof /\ (ch.ended => ch'.ended)
    BY <1>1, SetEnded
<1>3. (ClientLost' <=> ClientLost) /\ (UpEnded => UpEnded')
    BY <1>2 DEF ClientLost, UpEnded, SameEnd, links
<1>4. CloserInv'
    BY <1>1, <1>2, <1>3 DEF CloserInv, SameRuns, SameEnd
<1>5. CopyInv'
    BY <1>1, <1>2, <1>3, CopyKept DEF SameRuns
<1>6. OutputBeforeClose'
    BY <1>1, <1>2, CloseKept
<1> QED BY <1>2, <1>4, <1>5, <1>6 DEF BridgeInv

\* What the streams of the record are after such a step.
LEMMA StreamWritten ==
    ASSUME ch \in BridgeType, NEW s \in Outputs, ch' = [ch EXCEPT !.sent[s] = 1, !.pend[s] = 1]
    PROVE  /\ ch'.got = ch.got /\ ch'.copy = ch.copy /\ ch'.sent[s] = 1 /\ ch'.pend[s] = 1
           /\ \A r \in Outputs \ {s} : ch'.sent[r] = ch.sent[r] /\ ch'.pend[r] = ch.pend[r]
<1>1. ch.sent \in PerOutput({0, 1}) /\ ch.pend \in PerOutput({0, 1})
    BY DEF BridgeType
<1>2. /\ ch'.got = ch.got /\ ch'.copy = ch.copy
      /\ ch'.sent = [ch.sent EXCEPT ![s] = 1] /\ ch'.pend = [ch.pend EXCEPT ![s] = 1]
    BY DEF BridgeType
<1> QED BY <1>1, <1>2 DEF PerOutput

\* A chunk is delivered.
LEMMA StreamRead ==
    ASSUME ch \in BridgeType, NEW s \in Outputs, ch' = [ch EXCEPT !.pend[s] = 0, !.got[s] = 1]
    PROVE  /\ ch'.sent = ch.sent /\ ch'.copy = ch.copy /\ ch'.got[s] = 1 /\ ch'.pend[s] = 0
           /\ \A r \in Outputs \ {s} : ch'.got[r] = ch.got[r] /\ ch'.pend[r] = ch.pend[r]
<1>1. ch.got \in PerOutput({0, 1}) /\ ch.pend \in PerOutput({0, 1})
    BY DEF BridgeType
<1>2. /\ ch'.sent = ch.sent /\ ch'.copy = ch.copy
      /\ ch'.got = [ch.got EXCEPT ![s] = 1] /\ ch'.pend = [ch.pend EXCEPT ![s] = 0]
    BY DEF BridgeType
<1> QED BY <1>1, <1>2 DEF PerOutput

\* A copy ends.
LEMMA CopyStops ==
    ASSUME ch \in BridgeType, NEW s \in Outputs, ch' = [ch EXCEPT !.copy[s] = FALSE]
    PROVE  /\ SameStreams /\ ~ch'.copy[s]
           /\ \A r \in Outputs \ {s} : ch'.copy[r] = ch.copy[r]
<1>1. ch.copy \in PerOutput(BOOLEAN)
    BY DEF BridgeType
<1>2. SameStreams
    BY DEF BridgeType, SameStreams
<1>3. ch'.copy = [ch.copy EXCEPT ![s] = FALSE]
    BY DEF BridgeType
<1> QED BY <1>1, <1>2, <1>3 DEF PerOutput

\* A copy that ends, with nothing left to move or no client to move it to, keeps the
\* invariant.
LEMMA CopyOver ==
    ASSUME BridgeInv, NEW s \in Outputs, ch' = [ch EXCEPT !.copy[s] = FALSE], UNCHANGED links,
           ClientLost \/ (ch.pend[s] = 0 /\ (ch.eof \/ UpEnded))
    PROVE  BridgeInv'
<1>1. ch \in BridgeType /\ CloserInv /\ CopyInv /\ OutputBeforeClose
    BY DEF BridgeInv
<1>2. /\ ch' \in BridgeType /\ ch'.at = ch.at /\ ch'.status = ch.status
      /\ ch'.closer = ch.closer /\ ch'.relay = ch.relay /\ SameUpstream /\ SameEnd
    BY <1>1, SetStream, Zenon
<1>3. /\ SameStreams /\ ~ch'.copy[s] /\ \A r \in Outputs \ {s} : ch'.copy[r] = ch.copy[r]
    BY <1>1, CopyStops, Zenon
<1>4. (ClientLost' <=> ClientLost) /\ (UpEnded' <=> UpEnded) /\ (ch'.eof <=> ch.eof)
    BY <1>2 DEF ClientLost, UpEnded, SameUpstream, SameEnd, links
<1>5. \A r \in Outputs : ~ch.copy[r] => ~ch'.copy[r]
    BY <1>3
<1>6. CloserInv'
    BY <1>1, <1>2, <1>4, <1>5 DEF CloserInv, SameEnd
<1>7. CopyInv'
    <2> SUFFICES ASSUME NEW r \in Outputs
                 PROVE  /\ ch'.sent[r] = ch'.got[r] + ch'.pend[r]
                        /\ ch'.closer # "off" /\ ~ch'.copy[r] =>
                              ClientLost' \/ (ch'.pend[r] = 0 /\ (ch'.eof \/ UpEnded'))
        BY DEF CopyInv
    <2>1. /\ ch.sent[r] = ch.got[r] + ch.pend[r]
          /\ ch.closer # "off" /\ ~ch.copy[r] => ClientLost \/ (ch.pend[r] = 0 /\ (ch.eof \/ UpEnded))
        BY <1>1 DEF CopyInv
    <2> QED BY <1>2, <1>3, <1>4, <2>1 DEF SameStreams
<1>8. OutputBeforeClose'
    BY <1>1, <1>2, <1>3, CloseKept
<1> QED BY <1>2, <1>6, <1>7, <1>8 DEF BridgeInv

\* Every step of a bridge, of its goroutines and of either peer keeps BridgeInv.
LEMMA StepBridge == BridgeInv /\ [BridgeNext]_bridgeVars => BridgeInv'
<1> SUFFICES ASSUME BridgeInv, [BridgeNext]_bridgeVars PROVE BridgeInv'
    OBVIOUS
<1>1. ch \in BridgeType
    BY DEF BridgeInv
<1>2. CloserInv
    BY DEF BridgeInv
<1>3. CopyInv
    BY DEF BridgeInv
<1>4. OutputBeforeClose
    BY DEF BridgeInv
<1>5. CASE LinkFails \/ UNCHANGED bridgeVars
    <2>1. ch' = ch /\ LinksKept
        BY <1>5 DEF LinkFails, bridgeVars, links, LinksKept
    <2>2. ch' \in BridgeType /\ SameBut_at /\ ch'.at = ch.at
        BY <1>1, <2>1 DEF SameBut_at, SameStreams, SameRuns, SameUpstream, SameEnd
    <2> QED BY <1>2, <2>1, <2>2, LoopMoves DEF CloserInv
<1>6. CASE bridgeOpen
    <2>1. PICK a \in {"accepting", "closing", "over"} :
              a # "closing" /\ ch' = [ch EXCEPT !.at = a]
        BY <1>6 DEF bridgeOpen
    <2>2. ch' \in BridgeType /\ ch'.at = a /\ SameBut_at
        BY <1>1, <2>1, MovesAt
    <2>3. ch.at = "opening" /\ LinksKept
        BY <1>6 DEF bridgeOpen, LinksKept, links
    <2> QED BY <2>1, <2>2, <2>3, LoopMoves
<1>7. CASE bridgeAccept
    <2>1. ch.at = "accepting" /\ LinksKept /\ UNCHANGED links
        BY <1>7 DEF bridgeAccept, LinksKept, links
    <2>2. CASE down = "dead"
        <3>1. PICK a \in {"accepting", "closing", "over"} :
                  a = "over" /\ ch' = [ch EXCEPT !.at = a]
            BY <1>7, <2>2 DEF bridgeAccept
        <3>2. ch' \in BridgeType /\ ch'.at = a /\ SameBut_at
            BY <1>1, <3>1, MovesAt
        <3> QED BY <2>1, <3>1, <3>2, LoopMoves
    <2>3. CASE down # "dead"
        <3> DEFINE t == TRUE
                   all == [s \in Outputs |-> TRUE]
        <3>1. t \in BOOLEAN /\ t /\ all \in PerOutput(BOOLEAN) /\ \A s \in Outputs : all[s]
            BY DEF PerOutput
        <3>2. ch' = [ch EXCEPT !.at = "run", !.copy = all, !.relay = t, !.closer = "wait"]
            BY <1>7, <2>3 DEF bridgeAccept
        <3> HIDE DEF t, all
        <3>3. ch' \in BridgeType
            BY <1>1, <3>1, <3>2, Zenon DEF BridgeType
        <3>4. ch'.at = "run" /\ ch'.copy = all /\ ch'.relay = t /\ ch'.closer = "wait"
            BY <1>1, <3>2 DEF BridgeType
        <3>5. /\ ch'.relay
              /\ \A s \in Outputs : ch'.copy[s]
            BY <3>1, <3>4, Zenon
        <3>6. SameStreams
            BY <1>1, <3>2 DEF BridgeType, SameStreams
        <3>7. SameUpstream /\ SameEnd /\ ch'.status = ch.status
            BY <1>1, <3>2 DEF BridgeType, SameUpstream, SameEnd
        <3>8. (ClientLost' <=> ClientLost) /\ (UpEnded' <=> UpEnded)
            BY <2>1, <3>7 DEF ClientLost, UpEnded, SameUpstream, SameEnd, links
        <3>9. ch.closer = "off" /\ ~ch.downClosed /\ (ch.status = "lost" => ClientLost)
            BY <1>2, <2>1 DEF CloserInv
        <3>10. CloserInv'
            BY <3>4, <3>5, <3>7, <3>8, <3>9 DEF CloserInv, SameEnd
        <3>11. CopyInv'
            BY <1>3, <3>5, <3>6 DEF CopyInv, SameStreams
        <3>12. OutputBeforeClose'
            BY <1>4, <3>6, <3>7, CloseKept
        <3> QED BY <3>3, <3>10, <3>11, <3>12 DEF BridgeInv
    <2> QED BY <2>2, <2>3
<1>8. CASE UpstreamWrites
    <2>1. remote = "live" /\ ~ch.ended /\ UNCHANGED links
        BY <1>8, Zenon DEF UpstreamWrites, UpLives
    <2>2. ~UpEnded
        BY <2>1 DEF UpEnded
    <2>3. ch.closer = "off" \/ ch.relay
        BY <1>2, <2>2 DEF CloserInv
    <2>4. ASSUME NEW s \in Outputs, ~ch.eof, ch.sent[s] = 0,
                 ch' = [ch EXCEPT !.sent[s] = 1, !.pend[s] = 1]
          PROVE  BridgeInv'
        <3>1. /\ ch' \in BridgeType /\ ch'.at = ch.at /\ ch'.status = ch.status
              /\ ch'.closer = ch.closer /\ ch'.relay = ch.relay /\ SameUpstream /\ SameEnd
            BY <1>1, <2>4, SetStream, Zenon
        <3>2. /\ ch'.got = ch.got /\ ch'.copy = ch.copy /\ ch'.sent[s] = 1 /\ ch'.pend[s] = 1
              /\ \A r \in Outputs \ {s} : ch'.sent[r] = ch.sent[r] /\ ch'.pend[r] = ch.pend[r]
            BY <1>1, <2>4, StreamWritten, Zenon
        <3>3. (ClientLost' <=> ClientLost) /\ (UpEnded' <=> UpEnded) /\ (ch'.eof <=> ch.eof)
            BY <2>1, <3>1 DEF ClientLost, UpEnded, SameUpstream, SameEnd, links
        <3>4. CloserInv'
            BY <1>2, <3>1, <3>2, <3>3 DEF CloserInv, SameEnd
        <3>5. ch.got[s] = 0 /\ ch.pend[s] = 0
            <4>1. ch.got[s] \in {0, 1} /\ ch.pend[s] \in {0, 1}
                BY <1>1 DEF BridgeType, PerOutput
            <4> QED BY <1>3, <2>4, <4>1 DEF CopyInv
        <3>6. CopyInv'
            <4> SUFFICES ASSUME NEW r \in Outputs
                         PROVE  /\ ch'.sent[r] = ch'.got[r] + ch'.pend[r]
                                /\ ch'.closer # "off" /\ ~ch'.copy[r] =>
                                      ClientLost' \/ (ch'.pend[r] = 0 /\ (ch'.eof \/ UpEnded'))
                BY DEF CopyInv
            <4>1. /\ ch.sent[r] = ch.got[r] + ch.pend[r]
                  /\ ch.closer # "off" /\ ~ch.copy[r] =>
                        ClientLost \/ (ch.pend[r] = 0 /\ (ch.eof \/ UpEnded))
                BY <1>3 DEF CopyInv
            <4>2. CASE r = s
                BY <2>2, <2>4, <3>1, <3>2, <3>3, <3>5, <4>1, <4>2
            <4>3. CASE r # s
                BY <3>1, <3>2, <3>3, <4>1, <4>3
            <4> QED BY <4>2, <4>3
        <3>7. OutputBeforeClose'
            <4>1. ~ch.downClosed
                BY <1>2, <2>3 DEF CloserInv
            <4> QED BY <3>1, <4>1 DEF OutputBeforeClose, SameEnd
        <3> QED BY <3>1, <3>4, <3>6, <3>7 DEF BridgeInv
    <2>5. CASE ch.status = "none" /\ ch' = [ch EXCEPT !.status = "pending"]
        <3>1. /\ ch' \in BridgeType /\ ch'.status = "pending" /\ ch'.at = ch.at
              /\ SameStreams /\ SameRuns /\ SameUpstream /\ SameEnd
            BY <1>1, <2>5, SetStatus
        <3>2. (ClientLost' <=> ClientLost) /\ (UpEnded' <=> UpEnded) /\ (ch'.eof <=> ch.eof)
            BY <2>1, <3>1 DEF ClientLost, UpEnded, SameUpstream, SameEnd, links
        <3>3. CloserInv'
            BY <1>2, <2>3, <3>1, <3>2 DEF CloserInv, SameRuns, SameEnd
        <3>4. CopyInv'
            BY <1>3, <3>1, <3>2, CopyKept DEF SameRuns
        <3>5. OutputBeforeClose'
            <4>1. ~ch.downClosed
                BY <1>2, <2>3 DEF CloserInv
            <4> QED BY <3>1, <4>1 DEF OutputBeforeClose, SameEnd
        <3> QED BY <3>1, <3>3, <3>4, <3>5 DEF BridgeInv
    <2>6. CASE ch' = [ch EXCEPT !.eof = TRUE]
        BY <2>1, <2>6, UpstreamOver
    <2> QED BY <1>8, <2>4, <2>5, <2>6, Zenon DEF UpstreamWrites
<1>9. CASE UpstreamEnds
    BY <1>9, UpstreamOver DEF UpstreamEnds
<1>10. CASE ClientClosesChannel
    <2> DEFINE t == TRUE
    <2>1. t \in BOOLEAN /\ t
        OBVIOUS
    <2>2. ch' = [ch EXCEPT !.clientClosed = t] /\ UNCHANGED links
        BY <1>10 DEF ClientClosesChannel
    <2> HIDE DEF t
    <2>3. ch' \in BridgeType
        BY <1>1, <2>1, <2>2, Zenon DEF BridgeType
    <2>4. SameStreams /\ SameRuns
        BY <1>1, <2>2 DEF BridgeType, SameStreams, SameRuns
    <2>5. /\ SameUpstream /\ ch'.status = ch.status /\ ch'.at = ch.at /\ ch'.clientClosed = t
          /\ ch'.downClosed = ch.downClosed /\ ch'.cut = ch.cut
        BY <1>1, <2>2 DEF BridgeType, SameUpstream
    <2>6. ClientLost'
        <3>1. ch'.clientClosed
            BY <2>1, <2>5, Zenon
        <3> QED BY <3>1 DEF ClientLost
    <2>7. UpEnded' <=> UpEnded
        BY <2>2, <2>5 DEF UpEnded, SameUpstream, links
    <2>8. CloserInv'
        BY <1>2, <2>4, <2>5, <2>6, <2>7 DEF CloserInv, SameRuns
    <2>9. CopyInv'
        BY <1>3, <2>4, <2>6 DEF CopyInv, SameStreams
    <2>10. OutputBeforeClose'
        BY <1>4, <2>4, <2>5 DEF OutputBeforeClose, SameStreams
    <2> QED BY <2>3, <2>8, <2>9, <2>10 DEF BridgeInv
<1>11. ASSUME NEW s \in Outputs, copyChunk(s) PROVE BridgeInv'
    <2>1. ch.copy[s] /\ UNCHANGED links
        BY <1>11 DEF copyChunk
    <2>2. ~ch.downClosed
        BY <1>2, <2>1 DEF CloserInv
    <2>3. CASE DownEnded
        <3>1. ClientLost
            BY <2>2, <2>3 DEF ClientLost, DownEnded
        <3>2. ch' = [ch EXCEPT !.copy[s] = FALSE]
            BY <1>11, <2>3 DEF copyChunk
        <3> QED BY <2>1, <3>1, <3>2, CopyOver
    <2>4. CASE ~DownEnded
        <3>1. ch' = [ch EXCEPT !.pend[s] = 0, !.got[s] = 1] /\ ch.pend[s] > 0
            BY <1>11, <2>4 DEF copyChunk
        <3>2. /\ ch' \in BridgeType /\ ch'.at = ch.at /\ ch'.status = ch.status
              /\ ch'.closer = ch.closer /\ ch'.relay = ch.relay /\ SameUpstream /\ SameEnd
            BY <1>1, <3>1, SetStream, Zenon
        <3>3. /\ ch'.sent = ch.sent /\ ch'.copy = ch.copy /\ ch'.got[s] = 1 /\ ch'.pend[s] = 0
              /\ \A r \in Outputs \ {s} : ch'.got[r] = ch.got[r] /\ ch'.pend[r] = ch.pend[r]
            BY <1>1, <3>1, StreamRead, Zenon
        <3>4. (ClientLost' <=> ClientLost) /\ (UpEnded' <=> UpEnded) /\ (ch'.eof <=> ch.eof)
            BY <2>1, <3>2 DEF ClientLost, UpEnded, SameUpstream, SameEnd, links
        <3>5. CloserInv'
            BY <1>2, <3>2, <3>3, <3>4 DEF CloserInv, SameEnd
        <3>6. ch.sent[s] = 1
            <4>1. /\ ch.got[s] \in {0, 1} /\ ch.pend[s] \in {0, 1} /\ ch.sent[s] \in {0, 1}
                BY <1>1 DEF BridgeType, PerOutput
            <4> QED BY <1>3, <3>1, <4>1 DEF CopyInv
        <3>7. CopyInv'
            <4> SUFFICES ASSUME NEW r \in Outputs
                         PROVE  /\ ch'.sent[r] = ch'.got[r] + ch'.pend[r]
                                /\ ch'.closer # "off" /\ ~ch'.copy[r] =>
                                      ClientLost' \/ (ch'.pend[r] = 0 /\ (ch'.eof \/ UpEnded'))
                BY DEF CopyInv
            <4>1. /\ ch.sent[r] = ch.got[r] + ch.pend[r]
                  /\ ch.closer # "off" /\ ~ch.copy[r] =>
                        ClientLost \/ (ch.pend[r] = 0 /\ (ch.eof \/ UpEnded))
                BY <1>3 DEF CopyInv
            <4>2. CASE r = s
                BY <2>1, <3>3, <3>6, <4>2
            <4>3. CASE r # s
                BY <3>2, <3>3, <3>4, <4>1, <4>3
            <4> QED BY <4>2, <4>3
        <3>8. OutputBeforeClose'
            BY <2>2, <3>2 DEF OutputBeforeClose, SameEnd
        <3> QED BY <3>2, <3>5, <3>7, <3>8 DEF BridgeInv
    <2> QED BY <2>3, <2>4
<1>12. ASSUME NEW s \in Outputs, copyEnds(s) PROVE BridgeInv'
    BY <1>12, CopyOver DEF copyEnds
<1>13. CASE relayRequest
    <2>1. ch.relay /\ UNCHANGED links
        BY <1>13 DEF relayRequest
    <2>2. ~ch.downClosed
        BY <1>2, <2>1 DEF CloserInv
    <2>3. ASSUME NEW x \in {"pending", "delivered", "lost"}, x # "pending",
                 x = "lost" => DownEnded, ch' = [ch EXCEPT !.status = x]
          PROVE  BridgeInv'
        <3>1. /\ ch' \in BridgeType /\ ch'.status = x /\ ch'.at = ch.at
              /\ SameStreams /\ SameRuns /\ SameUpstream /\ SameEnd
            BY <1>1, <2>3, SetStatus
        <3>2. (ClientLost' <=> ClientLost) /\ (UpEnded' <=> UpEnded) /\ (ch'.eof <=> ch.eof)
            BY <2>1, <3>1 DEF ClientLost, UpEnded, SameUpstream, SameEnd, links
        <3>3. x = "lost" => ClientLost
            BY <2>2, <2>3 DEF DownEnded, ClientLost
        <3>4. CloserInv'
            BY <1>2, <2>3, <3>1, <3>2, <3>3 DEF CloserInv, SameRuns, SameEnd
        <3>5. CopyInv'
            BY <1>3, <3>1, <3>2, CopyKept DEF SameRuns
        <3>6. OutputBeforeClose'
            BY <2>2, <3>1 DEF OutputBeforeClose, SameEnd
        <3> QED BY <3>1, <3>4, <3>5, <3>6 DEF BridgeInv
    <2>4. CASE ch.status # "pending" /\ UpEnded /\ ch' = [ch EXCEPT !.relay = FALSE]
        <3> DEFINE b == FALSE
        <3>1. b \in BOOLEAN /\ ~b
            OBVIOUS
        <3>2. ch' = [ch EXCEPT !.relay = b]
            BY <2>4
        <3> HIDE DEF b
        <3>3. ch' \in BridgeType
            BY <1>1, <3>1, <3>2, Zenon DEF BridgeType
        <3>4. /\ SameStreams /\ ch'.closer = ch.closer /\ ch'.copy = ch.copy /\ ch'.at = ch.at
              /\ ch'.status = ch.status
            BY <1>1, <3>2 DEF BridgeType, SameStreams
        <3>5. SameUpstream /\ SameEnd
            BY <1>1, <3>2 DEF BridgeType, SameUpstream, SameEnd
        <3>6. (ClientLost' <=> ClientLost) /\ (UpEnded' <=> UpEnded) /\ (ch'.eof <=> ch.eof)
            BY <2>1, <3>5 DEF ClientLost, UpEnded, SameUpstream, SameEnd, links
        <3>7. ch.closer # "over"
            BY <1>2, <2>1 DEF CloserInv
        <3>8. CloserInv'
            BY <1>2, <2>2, <2>4, <3>4, <3>5, <3>6, <3>7 DEF CloserInv, SameEnd
        <3>9. CopyInv'
            BY <1>3, <3>4, <3>6, CopyKept
        <3>10. OutputBeforeClose'
            BY <1>4, <3>4, <3>5, CloseKept
        <3> QED BY <3>3, <3>8, <3>9, <3>10 DEF BridgeInv
    <2> QED BY <1>13, <2>3, <2>4 DEF relayRequest
<1>14. CASE closer
    <2>1. UNCHANGED links
        BY <1>14 DEF closer
    <2>2. CASE ch.closer = "wait" /\ (\A s \in Outputs : ~ch.copy[s])
               /\ ch' = [ch EXCEPT !.closer = "eof"]
        <3>1. ch' \in BridgeType /\ ch'.closer = "eof"
            BY <1>1, <2>2 DEF BridgeType
        <3>2. /\ SameStreams /\ ch'.relay = ch.relay /\ ch'.copy = ch.copy /\ ch'.at = ch.at
              /\ ch'.status = ch.status
            BY <1>1, <2>2 DEF BridgeType, SameStreams
        <3>3. SameUpstream /\ SameEnd
            BY <1>1, <2>2 DEF BridgeType, SameUpstream, SameEnd
        <3>4. (ClientLost' <=> ClientLost) /\ (UpEnded' <=> UpEnded) /\ (ch'.eof <=> ch.eof)
            BY <2>1, <3>3 DEF ClientLost, UpEnded, SameUpstream, SameEnd, links
        <3>5. CloserInv'
            BY <1>2, <2>2, <3>1, <3>2, <3>3, <3>4 DEF CloserInv, SameEnd
        <3>6. CopyInv'
            BY <1>3, <2>2, <3>2, <3>4, CopyKept
        <3>7. OutputBeforeClose'
            BY <1>4, <3>2, <3>3, CloseKept
        <3> QED BY <3>1, <3>5, <3>6, <3>7 DEF BridgeInv
    <2>3. CASE ch.closer = "eof" /\ ~ch.relay
               /\ ch' = [ch EXCEPT !.closer = "over", !.downClosed = TRUE, !.cut = DownEnded]
        <3>1. PICK gone \in BOOLEAN, t \in BOOLEAN :
                  /\ ch' = [ch EXCEPT !.closer = "over", !.downClosed = t, !.cut = gone]
                  /\ t /\ (gone <=> DownEnded)
            BY <2>3, Zenon DEF DownEnded
        <3>2. ch' \in BridgeType
            BY <1>1, <3>1, Zenon DEF BridgeType
        <3>3. /\ SameStreams /\ ch'.relay = ch.relay /\ ch'.copy = ch.copy /\ ch'.at = ch.at
              /\ ch'.status = ch.status
            BY <1>1, <3>1 DEF BridgeType, SameStreams
        <3>4. /\ SameUpstream /\ ch'.clientClosed = ch.clientClosed /\ ch'.closer = "over"
              /\ ch'.cut = gone /\ ch'.downClosed = t
            BY <1>1, <3>1 DEF BridgeType, SameUpstream
        <3>5. (ClientLost' <=> ClientLost) /\ (UpEnded' <=> UpEnded) /\ (ch'.eof <=> ch.eof)
            BY <2>1, <3>4 DEF ClientLost, UpEnded, SameUpstream, links
        <3>6. ~ch.relay /\ ch.closer = "eof" /\ \A s \in Outputs : ~ch.copy[s]
            BY <1>2, <2>3 DEF CloserInv
        <3>7. CloserInv'
            BY <1>2, <3>3, <3>4, <3>5, <3>6 DEF CloserInv
        <3>8. CopyInv'
            BY <1>3, <3>3, <3>5, <3>6, CopyKept
        <3>9. ASSUME ~DownEnded PROVE ch.got = ch.sent /\ ch.status \in {"none", "delivered"}
            <4>1. ~ClientLost
                BY <3>9 DEF DownEnded, ClientLost
            <4>2. ch.got \in PerOutput({0, 1}) /\ ch.sent \in PerOutput({0, 1})
                BY <1>1 DEF BridgeType
            <4>3. ASSUME NEW s \in Outputs PROVE ch.got[s] = ch.sent[s]
                <5>1. ch.pend[s] = 0 /\ ch.sent[s] = ch.got[s] + ch.pend[s]
                    BY <1>3, <3>6, <4>1 DEF CopyInv
                <5>2. ch.got[s] \in {0, 1}
                    BY <4>2 DEF PerOutput
                <5> QED BY <5>1, <5>2
            <4>4. ch.got = ch.sent
                BY <4>2, <4>3 DEF PerOutput
            <4>5. ch.status \notin {"pending", "lost"}
                BY <1>2, <3>6, <4>1 DEF CloserInv
            <4>6. ch.status \in {"none", "pending", "delivered", "lost"}
                BY <1>1 DEF BridgeType
            <4> QED BY <4>4, <4>5, <4>6
        <3>10. DownEnded => ch'.cut
            BY <3>1, <3>4, Zenon
        <3>11. OutputBeforeClose'
            BY <3>3, <3>9, <3>10 DEF OutputBeforeClose, SameStreams
        <3> QED BY <3>2, <3>7, <3>8, <3>11 DEF BridgeInv
    <2> QED BY <1>14, <2>2, <2>3 DEF closer
<1>15. CASE forwardRequest
    <2>1. ch.at = "run" /\ LinksKept
        BY <1>15 DEF forwardRequest, LinksKept, links
    <2>2. PICK x \in {"sent", "audited"} : ch' = [ch EXCEPT !.exec = x]
        BY <1>15 DEF forwardRequest
    <2>3. ch' \in BridgeType /\ ch'.at = ch.at
        BY <1>1, <2>2 DEF BridgeType
    <2>4. SameStreams /\ SameRuns
        BY <1>1, <2>2 DEF BridgeType, SameStreams, SameRuns
    <2>5. SameUpstream /\ SameEnd /\ ch'.status = ch.status
        BY <1>1, <2>2 DEF BridgeType, SameUpstream, SameEnd
    <2>6. ch.closer # "off"
        BY <1>2, <2>1 DEF CloserInv
    <2> QED BY <2>1, <2>3, <2>4, <2>5, <2>6, LoopMoves DEF SameBut_at
<1>16. CASE bridgeCloses \/ bridgeReturns
    <2>1. PICK a \in {"accepting", "closing", "over"} :
              a # "accepting" /\ ch' = [ch EXCEPT !.at = a]
        BY <1>16 DEF bridgeCloses, bridgeReturns
    <2>2. ch' \in BridgeType /\ ch'.at = a /\ SameBut_at
        BY <1>1, <2>1, MovesAt
    <2>3. ch.at \in {"run", "closing"} /\ LinksKept
        BY <1>16 DEF bridgeCloses, bridgeReturns, LinksKept, links
    <2>4. ch.closer # "off"
        BY <1>2, <2>3 DEF CloserInv
    <2> QED BY <2>1, <2>2, <2>3, <2>4, LoopMoves
<1> QED BY <1>5, <1>6, <1>7, <1>8, <1>9, <1>10, <1>11, <1>12, <1>13, <1>14, <1>15, <1>16
        DEF BridgeNext

\* The proxy closes a client's channel only after everything upstream wrote has been
\* delivered, the exit status included, whatever the order in which copies, relay
\* and closer run.
THEOREM DeliveredBeforeClose == BridgeSpec => []OutputBeforeClose
<1>1. BridgeInv => OutputBeforeClose
    BY DEF BridgeInv
<1> QED BY <1>1, InitBridge, StepBridge, PTL DEF BridgeSpec

-----------------------------------------------------------------------------
(* SSHSession.                                                                *)

Connecting == {"authorize", "dial", "login"}
Starting == {"handshake", "authed"} \cup Connecting

SessionInv ==
    /\ at \in Starting \cup {"serving", "waiting", "leaving", "returned"}
    /\ now \in Nat /\ attempts \in Nat /\ auths \in Nat /\ bridges \in Nat
    /\ grant.end \in Nat
    /\ at \in {"dial", "login", "authed", "serving"} => grant.end > 0
    /\ renewing \in {"off", "wait", "ask", "over"}
    /\ renewing \in {"off", "over"} => expiry = 0
    /\ at \in Starting => renewing = "off" /\ bridges = 0
    /\ at \in {"leaving", "returned"} => renewing \in {"off", "over"} /\ bridges = 0
    /\ at = "serving" /\ ctx = "live" => expiry = grant.end
    /\ at = "returned" => ~conn /\ up # "open"
    /\ at = "handshake" => auths = attempts
    /\ at \in Connecting => auths + 1 = attempts
    /\ at \in {"authed", "serving", "waiting"} => auths = attempts /\ attempts > 0
    /\ at \in {"leaving", "returned"} => auths = (IF attempts = 0 THEN 1 ELSE attempts)

\* A session starts with nothing running, no lease and no attempt.
LEMMA InitSession == SessionInit => SessionInv
BY DEF SessionInit, SessionInv, Starting, Connecting, NoGrant

\* Every step of a session, of its peers and of its timers keeps SessionInv.
LEMMA StepSession == SessionInv /\ [SessionNext]_sessionVars => SessionInv'
<1> SUFFICES ASSUME SessionInv, [SessionNext]_sessionVars PROVE SessionInv'
    OBVIOUS
<1>1. CASE ParentCancelled
    BY <1>1 DEF ParentCancelled, SessionInv, Starting, Connecting, ends, lease
<1>2. CASE HandshakeTimeout
    BY <1>2 DEF HandshakeTimeout, SessionInv, Starting, Connecting, ends, lease
<1>3. CASE PeerFails
    BY <1>3 DEF PeerFails, SessionInv, Starting, Connecting, ends, lease
<1>4. CASE Tick
    BY <1>4 DEF Tick, SessionInv, Starting, Connecting, ends, lease
<1>5. CASE HandshakeFails
    BY <1>5 DEF HandshakeFails, SessionInv, Starting, Connecting, ends, lease
<1>6. CASE VerifiedPublicKey
    BY <1>6 DEF VerifiedPublicKey, SessionInv, Starting, Connecting, ends, lease
<1>7. CASE connectAuthorize
    BY SSHConstants, <1>7 DEF connectAuthorize, ConnectFails, HTTPAuthorizer, validateGrant,
       NoGrant, SessionInv, Starting, Connecting, ends, lease
<1>8. CASE connectDial
    BY <1>8 DEF connectDial, ConnectFails, SessionInv, Starting, Connecting, ends, lease
<1>9. CASE LoginInterrupted
    BY <1>9 DEF LoginInterrupted, SessionInv, Starting, Connecting, ends, lease
<1>10. CASE connectLogin
    BY <1>10 DEF connectLogin, ConnectFails, SessionInv, Starting, Connecting, ends, lease
<1>11. CASE SessionStarts
    BY <1>11 DEF SessionStarts, SessionInv, Starting, Connecting, ends, lease
<1>12. CASE ContextCloses
    BY <1>12 DEF ContextCloses, Running, SessionInv, Starting, Connecting, ends, lease
<1>13. CASE UpstreamWait
    BY <1>13 DEF UpstreamWait, Running, SessionInv, Starting, Connecting, ends, lease
<1>14. CASE keepalive
    BY <1>14 DEF keepalive, Running, SessionInv, Starting, Connecting, ends, lease
<1>15. CASE RenewTick
    BY <1>15 DEF RenewTick, SessionInv, Starting, Connecting, ends, lease
<1>16. CASE renewAnswer
    BY SSHConstants, <1>16 DEF renewAnswer, RenewOver, HTTPAuthorizer, validateGrant, NoGrant,
       SessionInv, Starting, Connecting, ends, lease
<1>17. CASE renewStops
    BY <1>17 DEF renewStops, RenewOver, SessionInv, Starting, Connecting, ends, lease
<1>18. CASE ExpiryFires
    BY <1>18 DEF ExpiryFires, SessionInv, Starting, Connecting, ends, lease
<1>19. CASE ChansEnd
    BY <1>19 DEF ChansEnd, SessionInv, Starting, Connecting, ends, lease
<1>20. CASE WaitAll
    BY <1>20 DEF WaitAll, SessionInv, Starting, Connecting, ends, lease
<1>21. CASE handleReturns
    BY <1>21 DEF handleReturns, SessionInv, Starting, Connecting, ends, lease
<1>22. CASE ChannelOpens
    BY <1>22 DEF ChannelOpens, session, SessionInv, Starting, Connecting, ends, lease
<1>23. CASE BridgeReturns
    BY <1>23 DEF BridgeReturns, session, SessionInv, Starting, Connecting, ends, lease
<1>24. CASE UNCHANGED sessionVars
    BY <1>24 DEF sessionVars, SessionInv, ends, lease
<1> QED BY <1>1, <1>2, <1>3, <1>4, <1>5, <1>6, <1>7, <1>8, <1>9, <1>10, <1>11, <1>12, <1>13,
           <1>14, <1>15, <1>16, <1>17, <1>18, <1>19, <1>20, <1>21, <1>22, <1>23, <1>24
        DEF SessionNext

\* When handle has returned nothing of the session is left: no connection, goroutine
\* or timer, and one audit record for every attempt to authenticate.
THEOREM SessionLeavesNothing == SessionSpec => []NothingLeft
<1>1. SessionInv => NothingLeft
    BY DEF SessionInv, NothingLeft
<1> QED BY <1>1, InitSession, StepSession, PTL DEF SessionSpec

\* Time never passes the end of the last accepted grant while a session serves under
\* a live context, however renewals and the expiry timer interleave (renew).
THEOREM LeaseBounds == SessionSpec => LeaseEnds
<1>1. SessionInv /\ [SessionNext]_sessionVars =>
          [now' # now /\ at = "serving" /\ ctx = "live" => now < grant.end]_sessionVars
    <2> SUFFICES ASSUME SessionInv, SessionNext, now' # now, at = "serving", ctx = "live"
                 PROVE  now < grant.end
        BY DEF sessionVars
    <2>1. Tick
        <3>1. ~ParentCancelled /\ ~HandshakeTimeout /\ ~PeerFails /\ ~HandshakeFails /\ ~VerifiedPublicKey
            BY DEF ParentCancelled, HandshakeTimeout, PeerFails, HandshakeFails, VerifiedPublicKey
        <3>2. ~connectAuthorize /\ ~connectDial /\ ~LoginInterrupted /\ ~connectLogin
            BY DEF connectAuthorize, connectDial, LoginInterrupted, connectLogin
        <3>3. ~SessionStarts /\ ~ContextCloses /\ ~UpstreamWait /\ ~keepalive /\ ~RenewTick
            BY DEF SessionStarts, ContextCloses, UpstreamWait, keepalive, RenewTick
        <3>4. ~renewAnswer /\ ~renewStops /\ ~ExpiryFires /\ ~ChansEnd
            BY DEF renewAnswer, renewStops, ExpiryFires, ChansEnd
        <3>5. ~WaitAll /\ ~handleReturns /\ ~ChannelOpens /\ ~BridgeReturns
            BY DEF WaitAll, handleReturns, ChannelOpens, BridgeReturns, session
        <3> QED BY <3>1, <3>2, <3>3, <3>4, <3>5 DEF SessionNext
    <2> QED BY <2>1 DEF Tick, SessionInv
<1> QED BY <1>1, InitSession, StepSession, PTL DEF SessionSpec, LeaseEnds

-----------------------------------------------------------------------------
(* Tunnel. TunnelInvariant holds the invariant and what keeps it; here the     *)
(* records are well formed, and each action meets one of its lemmas.           *)
INSTANCE TunnelInvariant

FrameType == [st : {"off", "serving", "served", "left"}, done : BOOLEAN,
              hijacked : BOOLEAN, handlers : Int]
ReqType == [frame : {1, 2}, at : {"none", "exchange", "dial", "respond", "hijack", "relay"}]
RelayType == [up : {"off", "copy", "over"}, down : {"off", "copy", "over"}, fin : BOOLEAN]
LoopFacts == frame \in [1..2 -> FrameType]
Records == LoopFacts /\ request \in ReqType /\ relay \in RelayType
TunnelInv == Records /\ TunnelState

\* The record of a loop that starts.
LEMMA ServingFrame ==
    /\ Serving \in FrameType
    /\ Serving.st = "serving" /\ ~Serving.done /\ ~Serving.hijacked /\ Serving.handlers = 0
<1>1. FrameOff \in FrameType
    BY DEF FrameOff, FrameType
<1>2. Serving \in FrameType
    BY <1>1 DEF Serving, FrameType
<1>3. Serving.st = "serving" /\ Serving.handlers = 0
    BY <1>1 DEF Serving, FrameType, FrameOff
<1>4. ~FrameOff.done /\ ~FrameOff.hijacked
    BY DEF FrameOff
<1>5. Serving.done = FrameOff.done /\ Serving.hijacked = FrameOff.hijacked
    BY <1>1 DEF Serving, FrameType
<1> QED BY <1>2, <1>3, <1>4, <1>5

\* A record that is not written says what it said.
LEMMA NotWritten ==
    /\ frame' = frame => SameLoops
    /\ request' = request => SameRequest
    /\ relay' = relay => SameRelay
    /\ Records /\ UNCHANGED <<frame, request, relay>> => Quiet /\ Records'
<1>1. frame' = frame => SameLoops
    BY DEF SameLoops, Same, St, Done, Hijacked, Handlers
<1>2. request' = request => SameRequest
    BY DEF SameRequest, ReqAt, ReqFrame
<1>3. relay' = relay => SameRelay
    BY DEF SameRelay, Fin, Over
<1>4. UNCHANGED <<frame, request, relay>> => (Records => Records')
    BY DEF Records, LoopFacts
<1> QED BY <1>1, <1>2, <1>3, <1>4 DEF Quiet

\* A write to the record of loop f leaves the other loop as it was.
LEMMA OtherNotWritten ==
    ASSUME LoopFacts, NEW f \in 1..2, NEW r \in FrameType, frame' = [frame EXCEPT ![f] = r]
    PROVE  LoopFacts' /\ OtherLoop(f) /\ frame'[f] = r
<1>1. LoopFacts' /\ frame'[f] = r
    BY DEF LoopFacts
<1>2. \A g \in 1..2 : g # f => frame'[g] = frame[g]
    BY DEF LoopFacts
<1>3. (f = 1 => frame'[2] = frame[2]) /\ (f = 2 => frame'[1] = frame[1])
    BY <1>2
<1> QED BY <1>1, <1>3 DEF OtherLoop, Same, St, Done, Hijacked, Handlers

\* The writes: the loop starts, a handler starts or returns, the loop moves on, its
\* connection is closed or hijacked.
Starts(f) == frame' = [frame EXCEPT ![f] = Serving]
WithHandlers(f, n) == frame' = [frame EXCEPT ![f].handlers = n]
WithStage(f, s) == frame' = [frame EXCEPT ![f].st = s]
WithDone(f) == frame' = [frame EXCEPT ![f].done = TRUE]
WithHijacked(f) == frame' = [frame EXCEPT ![f].hijacked = TRUE]

\* A loop starts to serve.
LEMMA SetServing ==
    ASSUME LoopFacts, NEW f \in 1..2, Starts(f)
    PROVE  LoopFacts' /\ LoopStarts(f)
<1>1. LoopFacts' /\ OtherLoop(f) /\ frame'[f] = Serving
    BY OtherNotWritten, ServingFrame, Zenon DEF Starts
<1> QED BY <1>1, ServingFrame DEF LoopStarts, St, Done, Hijacked, Handlers

\* A handler starts or returns: the loop's count changes and nothing else.
LEMMA SetHandlers ==
    ASSUME LoopFacts, NEW f \in 1..2, NEW n \in Int, WithHandlers(f, n)
    PROVE  LoopFacts' /\ LoopCounts(f, n)
<1> DEFINE r == [frame[f] EXCEPT !.handlers = n]
<1>1. /\ r \in FrameType /\ r.handlers = n /\ r.st = frame[f].st
      /\ r.done = frame[f].done /\ r.hijacked = frame[f].hijacked
    BY DEF FrameType, LoopFacts
<1>2. frame' = [frame EXCEPT ![f] = r]
    BY DEF WithHandlers
<1> HIDE DEF r
<1>3. LoopFacts' /\ OtherLoop(f) /\ frame'[f] = r
    BY <1>1, <1>2, OtherNotWritten, Zenon
<1> QED BY <1>1, <1>3 DEF LoopCounts, Handlers, St, Done, Hijacked

\* Serve or its caller returns: the loop's stage changes and nothing else.
LEMMA SetStage ==
    ASSUME LoopFacts, NEW f \in 1..2, NEW s \in {"served", "left"}, WithStage(f, s)
    PROVE  LoopFacts' /\ LoopReaches(f, s)
<1> DEFINE r == [frame[f] EXCEPT !.st = s]
<1>1. /\ r \in FrameType /\ r.st = s /\ r.handlers = frame[f].handlers
      /\ r.done = frame[f].done /\ r.hijacked = frame[f].hijacked
    BY DEF FrameType, LoopFacts
<1>2. frame' = [frame EXCEPT ![f] = r]
    BY DEF WithStage
<1> HIDE DEF r
<1>3. LoopFacts' /\ OtherLoop(f) /\ frame'[f] = r
    BY <1>1, <1>2, OtherNotWritten, Zenon
<1> QED BY <1>1, <1>3 DEF LoopReaches, Handlers, St, Done, Hijacked

\* The loop's connection is closed: a flag is set and nothing else.
LEMMA SetDone ==
    ASSUME LoopFacts, NEW f \in 1..2, WithDone(f)
    PROVE  LoopFacts' /\ LoopDone(f)
<1> DEFINE b == TRUE
           r == [frame[f] EXCEPT !.done = b]
<1>1. b \in BOOLEAN /\ b
    OBVIOUS
<1>2. frame' = [frame EXCEPT ![f] = r]
    BY DEF WithDone
<1> HIDE DEF b
<1>3. /\ r \in FrameType /\ r.done = b /\ r.hijacked = frame[f].hijacked
      /\ r.st = frame[f].st /\ r.handlers = frame[f].handlers
    BY <1>1, Zenon DEF FrameType, LoopFacts
<1> HIDE DEF r
<1>4. LoopFacts' /\ OtherLoop(f) /\ frame'[f] = r
    BY <1>2, <1>3, OtherNotWritten, Zenon
<1>5. Handlers(f)' = Handlers(f) /\ St(f)' = St(f)
    BY <1>3, <1>4 DEF Handlers, St
<1>6. Done(f)' /\ (Hijacked(f)' <=> Hijacked(f))
    BY <1>1, <1>3, <1>4, Zenon DEF Done, Hijacked
<1> QED BY <1>4, <1>5, <1>6 DEF LoopDone

\* The loop's connection is hijacked: a flag is set and nothing else.
LEMMA SetHijacked ==
    ASSUME LoopFacts, NEW f \in 1..2, WithHijacked(f)
    PROVE  LoopFacts' /\ LoopHijacked(f)
<1> DEFINE b == TRUE
           r == [frame[f] EXCEPT !.hijacked = b]
<1>1. b \in BOOLEAN /\ b
    OBVIOUS
<1>2. frame' = [frame EXCEPT ![f] = r]
    BY DEF WithHijacked
<1> HIDE DEF b
<1>3. /\ r \in FrameType /\ r.hijacked = b /\ r.done = frame[f].done
      /\ r.st = frame[f].st /\ r.handlers = frame[f].handlers
    BY <1>1, Zenon DEF FrameType, LoopFacts
<1> HIDE DEF r
<1>4. LoopFacts' /\ OtherLoop(f) /\ frame'[f] = r
    BY <1>2, <1>3, OtherNotWritten, Zenon
<1>5. Handlers(f)' = Handlers(f) /\ St(f)' = St(f)
    BY <1>3, <1>4 DEF Handlers, St
<1>6. (Done(f)' <=> Done(f)) /\ Hijacked(f)'
    BY <1>1, <1>3, <1>4, Zenon DEF Done, Hijacked
<1> QED BY <1>4, <1>5, <1>6 DEF LoopHijacked

\* A direction of the relay, or Shutdown, finishes it.
LEMMA Finished ==
    ASSUME NEW r \in RelayType, NEW b \in BOOLEAN
    PROVE  /\ [r EXCEPT !.fin = b] \in RelayType /\ [r EXCEPT !.fin = b].fin = b
           /\ \A d \in Directions :
                 /\ [r EXCEPT ![d] = "over", !.fin = b] \in RelayType
                 /\ [r EXCEPT ![d] = "over", !.fin = b].fin = b
<1>1. [r EXCEPT !.fin = b] \in RelayType /\ [r EXCEPT !.fin = b].fin = b
    BY Zenon DEF RelayType
<1>2. /\ [r EXCEPT !["up"] = "over", !.fin = b] \in RelayType
      /\ [r EXCEPT !["up"] = "over", !.fin = b].fin = b
    BY Zenon DEF RelayType
<1>3. /\ [r EXCEPT !["down"] = "over", !.fin = b] \in RelayType
      /\ [r EXCEPT !["down"] = "over", !.fin = b].fin = b
    BY Zenon DEF RelayType
<1> QED BY <1>1, <1>2, <1>3, Zenon DEF Directions

\* The request moves on, a new one begins, or it is over; a relay begins or is over.
RequestTo(x) == request' = [request EXCEPT !.at = x]
RequestOn(f) == request' = [frame |-> f, at |-> "exchange"]
LEMMA MovesRequest ==
    ASSUME request \in ReqType
    PROVE  /\ \A x \in {"dial", "respond", "hijack", "relay"} :
                 RequestTo(x) => request' \in ReqType /\ ReqAt' = x /\ ReqFrame' = ReqFrame
           /\ \A f \in 1..2 :
                 RequestOn(f) => request' \in ReqType /\ ReqAt' = "exchange" /\ ReqFrame' = f
           /\ request' = NoReq => request' \in ReqType /\ ReqAt' = "none" /\ ReqFrame' \in 1..2
<1>1. ASSUME NEW x \in {"dial", "respond", "hijack", "relay"}, RequestTo(x)
      PROVE  request' \in ReqType /\ ReqAt' = x /\ ReqFrame' = ReqFrame
    BY <1>1 DEF RequestTo, ReqType, ReqAt, ReqFrame
<1>2. ASSUME NEW f \in 1..2, RequestOn(f)
      PROVE  request' \in ReqType /\ ReqAt' = "exchange" /\ ReqFrame' = f
    BY <1>2 DEF RequestOn, ReqType, ReqAt, ReqFrame
<1>3. ASSUME request' = NoReq PROVE request' \in ReqType /\ ReqAt' = "none" /\ ReqFrame' \in 1..2
    BY <1>3 DEF NoReq, ReqType, ReqAt, ReqFrame
<1> QED BY <1>1, <1>2, <1>3

\* A relay starts with neither direction over, and is finished by either or by Shutdown.
LEMMA MovesRelay ==
    ASSUME relay \in RelayType
    PROVE  /\ relay' = Copying => relay' \in RelayType /\ ~Fin' /\ ~Over'
           /\ relay' = [relay EXCEPT !.fin = TRUE] => relay' \in RelayType /\ Fin'
           /\ \A d \in Directions :
                 relay' = [relay EXCEPT ![d] = "over", !.fin = TRUE] => relay' \in RelayType /\ Fin'
<1> DEFINE b == TRUE
<1>1. b \in BOOLEAN /\ b
    OBVIOUS
<1>2. ASSUME relay' = Copying PROVE relay' \in RelayType /\ ~Fin' /\ ~Over'
    BY <1>2 DEF Copying, RelayType, Fin, Over
<1>3. ASSUME relay' = [relay EXCEPT !.fin = TRUE] PROVE relay' \in RelayType /\ Fin'
    <2>1. relay' = [relay EXCEPT !.fin = b]
        BY <1>3
    <2> HIDE DEF b
    <2>2. relay' \in RelayType /\ relay'.fin = b
        BY <1>1, <2>1, Finished, Zenon
    <2> QED BY <1>1, <2>2, Zenon DEF Fin
<1>4. ASSUME NEW d \in Directions, relay' = [relay EXCEPT ![d] = "over", !.fin = TRUE]
      PROVE  relay' \in RelayType /\ Fin'
    <2>1. relay' = [relay EXCEPT ![d] = "over", !.fin = b]
        BY <1>4, Zenon
    <2> HIDE DEF b
    <2>2. relay' \in RelayType /\ relay'.fin = b
        BY <1>1, <2>1, Finished, Zenon
    <2> QED BY <1>1, <2>2, Zenon DEF Fin
<1> QED BY <1>2, <1>3, <1>4, Zenon

\* A request moves on, begins or is over, and a relay begins or is finished, with
\* well-formed records.
LEMMA RequestWritten ==
    ASSUME Records, LoopFacts', relay' \in RelayType
    PROVE  /\ UNCHANGED request => SameRequest /\ Records'
           /\ \A x \in {"dial", "respond", "hijack", "relay"} :
                 RequestTo(x) => ReqAt' = x /\ ReqFrame' = ReqFrame /\ Records'
           /\ \A f \in 1..2 : RequestOn(f) => ReqAt' = "exchange" /\ ReqFrame' = f /\ Records'
           /\ request' = NoReq => ReqAt' = "none" /\ ReqFrame' \in 1..2 /\ Records'
<1>1. request \in ReqType
    BY DEF Records
<1>2. UNCHANGED request => SameRequest /\ request' \in ReqType
    BY <1>1, NotWritten
<1> QED BY <1>1, <1>2, MovesRequest DEF Records

\* Before the first connection is accepted nothing runs.
LEMMA InitTunnel == TunnelInit => TunnelInv
<1> SUFFICES ASSUME TunnelInit PROVE TunnelInv
    OBVIOUS
<1>1. /\ main = "none" /\ tunnel = "off" /\ owner = "none" /\ open /\ upstream = "none"
      /\ ~h2 /\ told = "none"
    BY DEF TunnelInit
<1>2. Records
    BY DEF TunnelInit, Records, LoopFacts, FrameType, ReqType, RelayType, FrameOff, NoReq, NoRelay
<1>3. /\ St(1) = "off" /\ ~Done(1) /\ ~Hijacked(1) /\ Handlers(1) = 0
      /\ St(2) = "off" /\ ~Done(2) /\ ~Hijacked(2) /\ Handlers(2) = 0
    BY DEF TunnelInit, FrameOff, St, Done, Hijacked, Handlers
<1>4. ReqAt = "none" /\ ReqFrame = 1 /\ ~Fin /\ ~Over
    BY DEF TunnelInit, NoReq, NoRelay, ReqAt, ReqFrame, Fin, Over
<1>5. TunnelTypes
    BY <1>1, <1>3, <1>4 DEF TunnelTypes, Stages
<1>6. Ownership
    BY <1>1, <1>3, <1>4 DEF Ownership
<1>7. Loop(1) /\ Loop(2) /\ Hijacks
    BY <1>1, <1>3, <1>4 DEF Loop, Hijacks
<1>8. OpenConns
    BY <1>1, <1>4 DEF OpenConns, Stages
<1>9. Kept
    BY <1>1, <1>4 DEF Kept
<1> QED BY <1>2, <1>5, <1>6, <1>7, <1>8, <1>9 DEF TunnelInv, TunnelState

\* The listeners, readiness, a peer that leaves and a step of something else.
LEMMA KeepsIdle ==
    ASSUME TunnelInv, Bind \/ Shutdown \/ BecomeReady \/ PeerLeaves \/ UNCHANGED tunnelVars
    PROVE  TunnelInv'
<1>1. Quiet /\ Records'
    BY NotWritten DEF TunnelInv, Bind, Shutdown, BecomeReady, PeerLeaves, tunnelVars
<1>2. UNCHANGED <<main, tunnel, owner, h2, open, upstream, told, code>>
    BY DEF Bind, Shutdown, BecomeReady, PeerLeaves, tunnelVars
<1>3. Ends => Ends'
    BY DEF Bind, Shutdown, BecomeReady, PeerLeaves, tunnelVars, net, peers, Ends
<1> QED BY <1>1, <1>2, <1>3, NothingMoves DEF TunnelInv

\* A connection is accepted.
LEMMA KeepsAccept ==
    ASSUME TunnelInv, Accept
    PROVE  TunnelInv'
<1>1. Quiet /\ Records' /\ (Ends => Ends')
    BY NotWritten DEF TunnelInv, Accept, net, peers, Ends
<1>2. /\ main = "none" /\ UNCHANGED <<h2, open, upstream, told, code>>
      /\ \/ main' = "peek" /\ UNCHANGED <<tunnel, owner>>
         \/ main' = "tunnel" /\ tunnel' = "sni" /\ owner' = "https"
    BY DEF Accept
<1> QED BY <1>1, <1>2, Accepted DEF TunnelInv

\* handleTunnel tells SOCKS5 from an HTTP proxy client.
LEMMA KeepsHandleTunnel ==
    ASSUME TunnelInv, handleTunnel
    PROVE  TunnelInv'
<1>1. /\ main = "peek" /\ UNCHANGED <<h2, upstream, told, code, request, relay>>
      /\ Ends => Ends'
    BY DEF handleTunnel, net, peers, Ends
<1>2. CASE /\ frame' = frame
           /\ \/ ~open' /\ main' = "returned" /\ UNCHANGED <<tunnel, owner>>
              \/ main' = "tunnel" /\ tunnel' = "socks" /\ owner' = "socks" /\ UNCHANGED open
    <2>1. Quiet /\ Records'
        BY <1>1, <1>2, NotWritten DEF TunnelInv
    <2> QED BY <1>1, <1>2, <2>1, Peeked DEF TunnelInv
<1>3. CASE main' = "frame" /\ Starts(1) /\ UNCHANGED <<open, tunnel, owner>>
    <2>1. LoopFacts' /\ LoopStarts(1)
        BY <1>3, SetServing DEF TunnelInv, Records
    <2>2. SameRequest /\ SameRelay /\ Records'
        BY <1>1, <2>1, NotWritten DEF TunnelInv, Records
    <2> QED BY <1>1, <1>3, <2>1, <2>2, OuterLoopStarts DEF TunnelInv
<1> QED BY <1>2, <1>3 DEF handleTunnel, Starts

\* handleTunnel returns with its loop.
LEMMA KeepsHandleTunnelReturns ==
    ASSUME TunnelInv, handleTunnelReturns
    PROVE  TunnelInv'
<1>1. Quiet /\ Records' /\ (Ends => Ends')
    BY NotWritten DEF TunnelInv, handleTunnelReturns, net, peers, Ends
<1>2. /\ main = "frame" /\ St(1) = "left" /\ main' = "returned"
      /\ UNCHANGED <<tunnel, owner, h2, open, upstream, told, code>>
    BY DEF handleTunnelReturns, St
<1> QED BY <1>1, <1>2, OuterLoopReturned DEF TunnelInv

\* handleSOCKS5 reads the request.
LEMMA KeepsHandleSOCKS5 ==
    ASSUME TunnelInv, handleSOCKS5
    PROVE  TunnelInv'
<1>1. Quiet /\ Records' /\ (Ends => Ends')
    BY NotWritten DEF TunnelInv, handleSOCKS5, net, peers, Ends
<1>2. /\ tunnel = "socks" /\ tunnel' \in {"leave", "check"} /\ told' = told
      /\ UNCHANGED <<main, owner, h2, open, upstream>>
    BY DEF handleSOCKS5
<1>3. told' # "refused" /\ owner = "socks"
    BY <1>2 DEF TunnelInv, TunnelState, Hijacks, Ownership
<1> QED BY <1>1, <1>2, <1>3, StageMoves DEF TunnelInv, EarlyStages, Established

\* The pipeline's verdict on the tunnel.
LEMMA KeepsTunnelTransformCheck ==
    ASSUME TunnelInv, tunnelTransformCheck
    PROVE  TunnelInv'
<1>1. Quiet /\ Records' /\ (Ends => Ends')
    BY NotWritten DEF TunnelInv, tunnelTransformCheck, net, peers, Ends
<1>2. /\ tunnel = "check" /\ tunnel' \in {"admitted", "refused"} /\ told' = told
      /\ UNCHANGED <<main, owner, h2, open, upstream>>
    BY DEF tunnelTransformCheck
<1>3. told' # "refused"
    BY <1>2 DEF TunnelInv, TunnelState, Hijacks
<1> QED BY <1>1, <1>2, <1>3, StageMoves DEF TunnelInv, EarlyStages, Established

\* The CONNECT handler is counted out of its loop.
LEMMA HandlerOfTunnel ==
    ASSUME TunnelInv, owner = "connect", tunnel # "returned", WithHandlers(1, Handlers(1) - 1)
    PROVE  LoopFacts' /\ LoopCounts(1, 0)
<1> DEFINE n == Handlers(1) - 1
<1>1. n = 0 /\ n \in Int
    BY HandlerCounted DEF TunnelInv
<1>2. WithHandlers(1, n) /\ LoopFacts
    BY DEF TunnelInv, Records
<1> HIDE DEF n
<1>3. LoopFacts' /\ LoopCounts(1, n)
    BY <1>1, <1>2, SetHandlers
<1> QED BY <1>1, <1>3

\* The tunnel is refused.
LEMMA KeepsTunnelRefused ==
    ASSUME TunnelInv, TunnelRefused
    PROVE  TunnelInv'
<1>1. /\ tunnel = "refused" /\ told' = "refused" /\ (Ends => Ends')
      /\ UNCHANGED <<main, owner, h2, open, upstream, code, request, relay>>
    BY DEF TunnelRefused, net, peers, Ends
<1>2. CASE owner = "connect"
    <2>1. tunnel' = "returned" /\ WithHandlers(1, Handlers(1) - 1)
        BY <1>2 DEF TunnelRefused, WithHandlers, Handlers
    <2>2. LoopFacts' /\ LoopCounts(1, 0)
        BY <1>1, <1>2, <2>1, HandlerOfTunnel
    <2>3. SameRequest /\ SameRelay /\ Records'
        BY <1>1, <2>2, NotWritten DEF TunnelInv, Records
    <2> QED BY <1>1, <1>2, <2>1, <2>2, <2>3, ConnectRefused DEF TunnelInv
<1>3. CASE owner # "connect"
    <2>1. tunnel' = "leave" /\ frame' = frame
        BY <1>3 DEF TunnelRefused
    <2>2. Quiet /\ Records'
        BY <1>1, <2>1, NotWritten DEF TunnelInv
    <2> QED BY <1>1, <1>3, <2>1, <2>2, StageMoves DEF TunnelInv, EarlyStages, Established
<1> QED BY <1>2, <1>3

\* The tunnel is admitted.
LEMMA KeepsTunnelAdmitted ==
    ASSUME TunnelInv, TunnelAdmitted
    PROVE  TunnelInv'
<1>1. Quiet /\ Records' /\ (Ends => Ends')
    BY NotWritten DEF TunnelInv, TunnelAdmitted, net, peers, Ends
<1>2. /\ tunnel = "admitted" /\ tunnel' = IF owner = "connect" THEN "hijack" ELSE "reply"
      /\ told' = told
      /\ UNCHANGED <<main, owner, h2, open, upstream>>
    BY DEF TunnelAdmitted
<1>3. told' # "refused"
    BY <1>2 DEF TunnelInv, TunnelState, Hijacks
<1> QED BY <1>1, <1>2, <1>3, StageMoves DEF TunnelInv, EarlyStages, Established

\* The client is told that its tunnel stands.
LEMMA KeepsTunnelReply ==
    ASSUME TunnelInv, TunnelReply
    PROVE  TunnelInv'
<1>1. Quiet /\ Records' /\ (Ends => Ends')
    BY NotWritten DEF TunnelInv, TunnelReply, net, peers, Ends
<1>2. /\ tunnel = "reply" /\ tunnel' \in {"leave", "proto"} /\ told' \in {told, "established"}
      /\ UNCHANGED <<main, owner, h2, open, upstream>>
    BY DEF TunnelReply
<1>3. told' # "refused"
    BY <1>2 DEF TunnelInv, TunnelState, Hijacks
<1> QED BY <1>1, <1>2, <1>3, StageMoves DEF TunnelInv, EarlyStages, Established

\* The first byte inside the tunnel.
LEMMA KeepsServeTunnelWithReader ==
    ASSUME TunnelInv, serveTunnelWithReader
    PROVE  TunnelInv'
<1>1. /\ tunnel = "proto" /\ (Ends => Ends')
      /\ UNCHANGED <<main, owner, h2, open, upstream, told, code, request, relay>>
    BY DEF serveTunnelWithReader, net, peers, Ends
<1>2. CASE frame' = frame /\ tunnel' \in {"leave", "sni", "handshake"}
    <2>1. Quiet /\ Records'
        BY <1>1, <1>2, NotWritten DEF TunnelInv
    <2>2. told' # "refused"
        BY <1>1 DEF TunnelInv, TunnelState, Hijacks
    <2> QED BY <1>1, <1>2, <2>1, <2>2, StageMoves DEF TunnelInv, EarlyStages, Established
<1>3. CASE tunnel' = "frame" /\ Starts(2)
    <2>1. LoopFacts' /\ LoopStarts(2)
        BY <1>3, SetServing DEF TunnelInv, Records
    <2>2. SameRequest /\ SameRelay /\ Records'
        BY <1>1, <2>1, NotWritten DEF TunnelInv, Records
    <2> QED BY <1>1, <1>3, <2>1, <2>2, InnerLoopStarts DEF TunnelInv
<1> QED BY <1>2, <1>3 DEF serveTunnelWithReader, Starts

\* The TLS handshake inside the tunnel.
LEMMA KeepsServeTunnelTLS ==
    ASSUME TunnelInv, serveTunnelTLS
    PROVE  TunnelInv'
<1>1. tunnel = "handshake" /\ UNCHANGED <<main, owner, upstream, told, code, request, relay>>
    BY DEF serveTunnelTLS
<1>2. CASE frame' = frame /\ tunnel' = "leave" /\ ~open' /\ UNCHANGED h2
    <2>1. Quiet /\ Records'
        BY <1>1, <1>2, NotWritten DEF TunnelInv
    <2> QED BY <1>1, <1>2, <2>1, TunnelHandshakeFails DEF TunnelInv
<1>3. CASE tunnel' = "frame" /\ Starts(2) /\ UNCHANGED open
    <2>1. LoopFacts' /\ LoopStarts(2)
        BY <1>3, SetServing DEF TunnelInv, Records
    <2>2. SameRequest /\ SameRelay /\ Records'
        BY <1>1, <2>1, NotWritten DEF TunnelInv, Records
    <2> QED BY <1>1, <1>3, <2>1, <2>2, InnerLoopStarts DEF TunnelInv
<1> QED BY <1>2, <1>3 DEF serveTunnelTLS, Starts

\* The loop inside the tunnel returns.
LEMMA KeepsTunnelFrameReturns ==
    ASSUME TunnelInv, TunnelFrameReturns
    PROVE  TunnelInv'
<1>1. Quiet /\ Records'
    BY NotWritten DEF TunnelInv, TunnelFrameReturns
<1>2. /\ tunnel = "frame" /\ St(2) = "left" /\ ~open' /\ tunnel' = "leave"
      /\ UNCHANGED <<main, owner, h2, upstream, told, code>>
    BY DEF TunnelFrameReturns, St
<1> QED BY <1>1, <1>2, InnerLoopReturned DEF TunnelInv

\* The tunnel's handler leaves.
LEMMA KeepsTunnelLeaves ==
    ASSUME TunnelInv, TunnelLeaves
    PROVE  TunnelInv'
<1>1. /\ tunnel = "leave" /\ ~open' /\ tunnel' = "returned"
      /\ UNCHANGED <<owner, h2, upstream, told, code, request, relay>>
    BY DEF TunnelLeaves
<1>2. CASE owner = "connect"
    <2>1. main' = main /\ WithHandlers(1, Handlers(1) - 1)
        BY <1>2 DEF TunnelLeaves, WithHandlers, Handlers
    <2>2. LoopFacts' /\ LoopCounts(1, 0)
        BY <1>1, <1>2, <2>1, HandlerOfTunnel
    <2>3. SameRequest /\ SameRelay /\ Records'
        BY <1>1, <2>2, NotWritten DEF TunnelInv, Records
    <2> QED BY <1>1, <1>2, <2>1, <2>2, <2>3, ConnectLeaves DEF TunnelInv
<1>3. CASE owner # "connect"
    <2>1. main' = "returned" /\ frame' = frame
        BY <1>3 DEF TunnelLeaves
    <2>2. Quiet /\ Records'
        BY <1>1, <2>1, NotWritten DEF TunnelInv
    <2> QED BY <1>1, <1>3, <2>1, <2>2, TunnelGoroutineLeaves DEF TunnelInv
<1> QED BY <1>2, <1>3

\* A loop starts a handler.
LEMMA KeepsHandlerStarts ==
    ASSUME TunnelInv, NEW f \in 1..2, HandlerStarts(f)
    PROVE  TunnelInv'
<1>1. /\ St(f) = "serving" /\ Handlers(f) = 0 /\ ~Done(f) /\ open
      /\ (f = 2 => ~h2) /\ (f = 1 => tunnel = "off") /\ (Ends => Ends')
      /\ UNCHANGED <<main, h2, relay, open, upstream, told, code>>
    BY DEF HandlerStarts, St, Done, Handlers, net, peers, Ends
<1>2. WithHandlers(f, 1)
    BY DEF HandlerStarts, WithHandlers
<1>3. LoopFacts' /\ LoopCounts(f, 1)
    BY <1>2, SetHandlers DEF TunnelInv, Records
<1>4. SameRelay /\ relay' \in RelayType
    BY <1>1, NotWritten DEF TunnelInv, Records
<1>5. CASE f = 1 /\ owner' = "connect" /\ tunnel' = "check" /\ UNCHANGED request
    <2>1. SameRequest /\ Records'
        BY <1>3, <1>4, <1>5, RequestWritten DEF TunnelInv
    <2> QED BY <1>1, <1>3, <1>4, <1>5, <2>1, ConnectStarts DEF TunnelInv
<1>6. CASE RequestOn(f) /\ UNCHANGED <<owner, tunnel>>
    <2>1. ReqAt' = "exchange" /\ ReqFrame' = f /\ Records'
        BY <1>3, <1>4, <1>6, RequestWritten DEF TunnelInv
    <2> QED BY <1>1, <1>3, <1>4, <1>6, <2>1, RequestStarts DEF TunnelInv
<1> QED BY <1>5, <1>6 DEF HandlerStarts, RequestOn

\* A loop's connection is closed.
LEMMA KeepsConnStateClosed ==
    ASSUME TunnelInv, NEW f \in 1..2, ConnStateClosed(f)
    PROVE  TunnelInv'
<1>1. /\ St(f) = "serving" /\ ~Done(f) /\ ~Hijacked(f) /\ (Handlers(f) = 0 \/ (f = 2 /\ h2))
      /\ ~open' /\ (Ends => Ends')
      /\ UNCHANGED <<main, tunnel, owner, request, h2, relay, upstream, told, code>>
    BY DEF ConnStateClosed, St, Done, Hijacked, Handlers, net, peers, Ends
<1>2. WithDone(f)
    BY DEF ConnStateClosed, WithDone
<1>3. LoopFacts' /\ LoopDone(f)
    BY <1>2, SetDone DEF TunnelInv, Records
<1>4. SameRequest /\ SameRelay /\ Records'
    BY <1>1, <1>3, NotWritten DEF TunnelInv, Records
<1> QED BY <1>1, <1>3, <1>4, ConnectionCloses DEF TunnelInv

\* A loop's connection is hijacked.
LEMMA KeepsConnStateHijacked ==
    ASSUME TunnelInv, NEW f \in 1..2, ConnStateHijacked(f)
    PROVE  TunnelInv'
<1>1. /\ \/ tunnel = "hijack" /\ f = 1
         \/ ReqAt = "hijack" /\ f = ReqFrame
      /\ UNCHANGED <<main, owner, h2, open, upstream, told, code>>
      /\ Ends => Ends'
    BY DEF ConnStateHijacked, ReqAt, ReqFrame, net, peers, Ends
<1>2. CASE ~Hijacked(f)
    <2>1. WithHijacked(f) /\ UNCHANGED <<tunnel, request, relay>>
        BY <1>2 DEF ConnStateHijacked, WithHijacked, Hijacked
    <2>2. LoopFacts' /\ LoopHijacked(f)
        BY <2>1, SetHijacked DEF TunnelInv, Records
    <2>3. SameRequest /\ SameRelay /\ Records'
        BY <2>1, <2>2, NotWritten DEF TunnelInv, Records
    <2> QED BY <1>1, <1>2, <2>1, <2>2, <2>3, HijackBegins DEF TunnelInv
<1>3. CASE Hijacked(f)
    <2>1. WithDone(f)
        BY <1>3 DEF ConnStateHijacked, WithDone, Hijacked
    <2>2. LoopFacts' /\ LoopDone(f)
        BY <2>1, SetDone DEF TunnelInv, Records
    <2>3. CASE tunnel = "hijack"
        <3>1. tunnel' = "reply" /\ UNCHANGED <<request, relay>>
            BY <1>3, <2>3 DEF ConnStateHijacked, Hijacked
        <3>2. SameRequest /\ SameRelay /\ Records'
            BY <2>2, <3>1, NotWritten DEF TunnelInv, Records
        <3>3. f = 1
            BY <1>1, <2>3, HijackedOnce DEF TunnelInv
        <3> QED BY <1>1, <1>3, <2>2, <2>3, <3>1, <3>2, <3>3, TunnelHijacks DEF TunnelInv
    <2>4. CASE tunnel # "hijack"
        <3>1. RequestTo("relay") /\ relay' = Copying /\ UNCHANGED tunnel
            BY <1>3, <2>4 DEF ConnStateHijacked, RequestTo, Hijacked
        <3>2. relay' \in RelayType /\ ~Fin' /\ ~Over'
            BY <3>1, MovesRelay DEF TunnelInv, Records
        <3>3. ReqAt' = "relay" /\ ReqFrame' = ReqFrame /\ Records'
            BY <2>2, <3>1, <3>2, RequestWritten DEF TunnelInv
        <3> QED BY <1>1, <1>3, <2>2, <2>4, <3>1, <3>2, <3>3, RequestHijacks DEF TunnelInv
    <2> QED BY <2>3, <2>4
<1> QED BY <1>2, <1>3

\* Serve returns.
LEMMA KeepsServeReturns ==
    ASSUME TunnelInv, NEW f \in 1..2, ServeReturns(f)
    PROVE  TunnelInv'
<1>1. /\ St(f) = "serving" /\ Done(f) /\ (Ends => Ends')
      /\ UNCHANGED <<main, tunnel, owner, request, h2, relay, open, upstream, told, code>>
    BY DEF ServeReturns, St, Done, net, peers, Ends
<1>2. WithStage(f, "served")
    BY DEF ServeReturns, WithStage
<1>3. LoopFacts' /\ LoopReaches(f, "served")
    BY <1>2, SetStage DEF TunnelInv, Records
<1>4. SameRequest /\ SameRelay /\ Records'
    BY <1>1, <1>3, NotWritten DEF TunnelInv, Records
<1> QED BY <1>1, <1>3, <1>4, LoopServed DEF TunnelInv

\* serveOneHTTPConn returns.
LEMMA KeepsServeOneHTTPConn ==
    ASSUME TunnelInv, NEW f \in 1..2, serveOneHTTPConn(f)
    PROVE  TunnelInv'
<1>1. /\ St(f) = "served" /\ (Hijacked(f) => Handlers(f) = 0) /\ (Ends => Ends')
      /\ UNCHANGED <<main, tunnel, owner, request, h2, relay, open, upstream, told, code>>
    BY DEF serveOneHTTPConn, St, Hijacked, Handlers, net, peers, Ends
<1>2. WithStage(f, "left")
    BY DEF serveOneHTTPConn, WithStage
<1>3. LoopFacts' /\ LoopReaches(f, "left")
    BY <1>2, SetStage DEF TunnelInv, Records
<1>4. SameRequest /\ SameRelay /\ Records'
    BY <1>1, <1>3, NotWritten DEF TunnelInv, Records
<1> QED BY <1>1, <1>3, <1>4, LoopLeft DEF TunnelInv

\* A request's handler returns and its deferred calls run: the loop loses a handler.
LEMMA HandlerOfRequest ==
    ASSUME TunnelInv, ReqAt \notin {"none", "hijack"}, ReqAt = "relay" => ~open,
           WithHandlers(ReqFrame, Handlers(ReqFrame) - 1),
           request' = NoReq, upstream' # "open",
           UNCHANGED <<main, tunnel, owner, h2, relay, open, told>>
    PROVE  TunnelInv'
<1>1. PICK f \in 1..2 : f = ReqFrame
    BY HandlerCounted DEF TunnelInv
<1> DEFINE n == Handlers(f) - 1
<1>2. n = 0 /\ n \in Int
    BY <1>1, HandlerCounted DEF TunnelInv
<1>3. WithHandlers(f, n) /\ LoopFacts
    BY <1>1 DEF TunnelInv, Records
<1> HIDE DEF n
<1>4. LoopFacts' /\ LoopCounts(f, n)
    BY <1>2, <1>3, SetHandlers
<1>5. SameRelay /\ relay' \in RelayType
    BY NotWritten DEF TunnelInv, Records
<1>6. ReqAt' = "none" /\ ReqFrame' \in 1..2 /\ Records'
    BY <1>4, <1>5, RequestWritten DEF TunnelInv
<1>7. LoopCounts(f, 0)
    BY <1>2, <1>4
<1> QED BY <1>1, <1>5, <1>6, <1>7, RequestReturns DEF TunnelInv

\* A WebSocket request goes on to stage x.
LEMMA NextStage ==
    ASSUME TunnelInv, NEW x \in {"dial", "respond", "hijack"}, RequestTo(x),
           ReqAt \in {"exchange", "dial", "respond"},
           UNCHANGED <<frame, relay, main, tunnel, owner, h2, open, told>>,
           x = "respond" /\ code' = 101 => upstream' = "open",
           x = "hijack" => upstream' = "open",
           x = "dial" => upstream' # "open"
    PROVE  TunnelInv'
<1>1. SameLoops /\ SameRelay /\ LoopFacts' /\ relay' \in RelayType
    BY NotWritten DEF TunnelInv, Records, LoopFacts
<1>2. ReqAt' = x /\ ReqFrame' = ReqFrame /\ Records'
    BY <1>1, RequestWritten DEF TunnelInv
<1> QED BY <1>1, <1>2, RequestGoesOn DEF TunnelInv

\* An exchange ends or becomes a WebSocket upgrade.
LEMMA KeepsExchangeEnds ==
    ASSUME TunnelInv, ExchangeEnds
    PROVE  TunnelInv'
<1>1. ReqAt = "exchange" /\ UNCHANGED <<main, tunnel, owner, h2, relay, open, upstream, told, code>>
    BY DEF ExchangeEnds, ReqAt
<1>2. upstream # "open"
    BY <1>1, NotDialled DEF TunnelInv
<1>3. CASE request' = NoReq /\ WithHandlers(ReqFrame, Handlers(ReqFrame) - 1)
    BY <1>1, <1>2, <1>3, HandlerOfRequest
<1>4. CASE RequestTo("dial") /\ UNCHANGED frame
    BY <1>1, <1>2, <1>4, NextStage
<1> QED BY <1>3, <1>4 DEF ExchangeEnds, WithHandlers, RequestTo, Handlers, ReqFrame

\* HTTP/2 streams come and go.
LEMMA KeepsStreams ==
    ASSUME TunnelInv, Streams
    PROVE  TunnelInv'
<1>1. /\ h2 /\ (Ends => Ends')
      /\ UNCHANGED <<main, tunnel, owner, request, h2, relay, open, upstream, told, code>>
    BY DEF Streams, net, peers, Ends
<1>2. Handlers(2) \in Int
    BY DEF TunnelInv, TunnelState, TunnelTypes
<1>3. PICK n \in Int : WithHandlers(2, n)
    BY <1>2 DEF Streams, WithHandlers, Handlers
<1>4. LoopFacts' /\ LoopCounts(2, n)
    BY <1>3, SetHandlers DEF TunnelInv, Records
<1>5. St(2) # "off"
    BY DEF Streams, TunnelInv, TunnelState, Loop, St, Handlers
<1>6. SameRequest /\ SameRelay /\ Records'
    BY <1>1, <1>4, NotWritten DEF TunnelInv, Records
<1> QED BY <1>1, <1>4, <1>5, <1>6, StreamsCounted DEF TunnelInv

\* The WebSocket dial.
LEMMA KeepsWsDial ==
    ASSUME TunnelInv, wsDial
    PROVE  TunnelInv'
<1>1. ReqAt = "dial" /\ UNCHANGED <<main, tunnel, owner, h2, relay, open, told>>
    BY DEF wsDial, ReqAt
<1>2. CASE request' = NoReq /\ WithHandlers(ReqFrame, Handlers(ReqFrame) - 1) /\ upstream' # "open"
    BY <1>1, <1>2, HandlerOfRequest
<1>3. CASE /\ RequestTo("respond") /\ UNCHANGED frame
           /\ \/ code' = 401 /\ UNCHANGED upstream
              \/ code' = 101 /\ upstream' = "open"
    BY <1>1, <1>3, NextStage
<1> QED BY <1>2, <1>3 DEF wsDial, HandlerReturns, WithHandlers, RequestTo, Handlers, ReqFrame

\* The WebSocket response.
LEMMA KeepsWsRespond ==
    ASSUME TunnelInv, wsRespond
    PROVE  TunnelInv'
<1>1. ReqAt = "respond" /\ UNCHANGED <<main, tunnel, owner, h2, relay, open, told, code>>
    BY DEF wsRespond, ReqAt
<1>2. CASE request' = NoReq /\ WithHandlers(ReqFrame, Handlers(ReqFrame) - 1) /\ upstream' # "open"
    BY <1>1, <1>2, HandlerOfRequest
<1>3. CASE code = 101 /\ RequestTo("hijack") /\ UNCHANGED <<frame, upstream>>
    <2>1. upstream = "open"
        BY <1>1, <1>3 DEF TunnelInv, TunnelState, OpenConns
    <2> QED BY <1>1, <1>3, <2>1, NextStage
<1> QED BY <1>2, <1>3 DEF wsRespond, HandlerReturns, WithHandlers, RequestTo, Handlers, ReqFrame

\* A direction of a WebSocket relay ends.
LEMMA KeepsWsRelayEnds ==
    ASSUME TunnelInv, NEW d \in Directions, wsRelayEnds(d)
    PROVE  TunnelInv'
<1>1. relay' = [relay EXCEPT ![d] = "over", !.fin = TRUE]
    BY DEF wsRelayEnds
<1>2. relay' \in RelayType /\ Fin'
    BY <1>1, MovesRelay, Zenon DEF TunnelInv, Records
<1>3. /\ ReqAt = "relay" /\ ~open' /\ upstream' = "closed"
      /\ UNCHANGED <<main, tunnel, owner, frame, request, h2, told, code>>
    BY DEF wsRelayEnds, ReqAt
<1>4. SameLoops /\ SameRequest /\ Records'
    BY <1>2, <1>3, NotWritten DEF TunnelInv, Records, LoopFacts
<1> QED BY <1>2, <1>3, <1>4, RelayFinishes DEF TunnelInv

\* A direction of a passthrough relay ends.
LEMMA KeepsBidiEnds ==
    ASSUME TunnelInv, NEW d \in Directions, bidiEnds(d)
    PROVE  TunnelInv'
<1>1. relay' = [relay EXCEPT ![d] = "over", !.fin = TRUE]
    BY DEF bidiEnds
<1>2. relay' \in RelayType /\ Fin'
    BY <1>1, MovesRelay, Zenon DEF TunnelInv, Records
<1>3. /\ tunnel = "relay"
      /\ UNCHANGED <<main, tunnel, owner, frame, request, h2, open, upstream, told, code>>
    BY DEF bidiEnds
<1>4. SameLoops /\ SameRequest /\ Records'
    BY <1>2, <1>3, NotWritten DEF TunnelInv, Records, LoopFacts
<1> QED BY <1>2, <1>3, <1>4, DirectionEnds DEF TunnelInv

\* Shutdown finishes a WebSocket relay.
LEMMA KeepsWsShutdown ==
    ASSUME TunnelInv, wsShutdown
    PROVE  TunnelInv'
<1>1. relay' = [relay EXCEPT !.fin = TRUE]
    BY DEF wsShutdown
<1>2. relay' \in RelayType /\ Fin'
    BY <1>1, MovesRelay, Zenon DEF TunnelInv, Records
<1>3. /\ ReqAt = "relay" /\ ~open' /\ upstream' = "closed"
      /\ UNCHANGED <<main, tunnel, owner, frame, request, h2, told, code>>
    BY DEF wsShutdown, ReqAt
<1>4. SameLoops /\ SameRequest /\ Records'
    BY <1>2, <1>3, NotWritten DEF TunnelInv, Records, LoopFacts
<1> QED BY <1>2, <1>3, <1>4, RelayFinishes DEF TunnelInv

\* The WebSocket handler returns.
LEMMA KeepsHandleWebSocketReturns ==
    ASSUME TunnelInv, handleWebSocketReturns
    PROVE  TunnelInv'
<1>1. /\ ReqAt = "relay" /\ upstream' # "open" /\ request' = NoReq
      /\ UNCHANGED <<main, tunnel, owner, h2, relay, open, told>>
    BY DEF handleWebSocketReturns, HandlerReturns, ReqAt
<1>2. WithHandlers(ReqFrame, Handlers(ReqFrame) - 1)
    BY DEF handleWebSocketReturns, HandlerReturns, WithHandlers, Handlers, ReqFrame
<1>3. Over
    BY DEF handleWebSocketReturns, RelayOver, Directions, Over
<1>4. ~open
    BY <1>1, <1>3 DEF TunnelInv, TunnelState, OpenConns
<1> QED BY <1>1, <1>2, <1>4, HandlerOfRequest

\* The ClientHello is read.
LEMMA KeepsPeekSNI ==
    ASSUME TunnelInv, peekSNI
    PROVE  TunnelInv'
<1>1. Quiet /\ Records' /\ (Ends => Ends')
    BY NotWritten DEF TunnelInv, peekSNI, net, peers, Ends
<1>2. /\ tunnel = "sni" /\ tunnel' \in {"leave", "sniRun"} /\ told' = told
      /\ UNCHANGED <<main, owner, h2, open, upstream>>
    BY DEF peekSNI
<1>3. told' # "refused"
    BY <1>2 DEF TunnelInv, TunnelState, Hijacks
<1> QED BY <1>1, <1>2, <1>3, StageMoves DEF TunnelInv, EarlyStages, Established

\* The run of a passthrough.
LEMMA KeepsServeSNIPassthrough ==
    ASSUME TunnelInv, serveSNIPassthrough
    PROVE  TunnelInv'
<1>1. /\ tunnel = "sniRun" /\ UNCHANGED <<main, owner, frame, request, h2, open, told>>
      /\ Ends => Ends'
    BY DEF serveSNIPassthrough, net, peers, Ends
<1>2. CASE tunnel' = "leave" /\ UNCHANGED <<relay, upstream>>
    <2>1. Quiet /\ Records'
        BY <1>1, <1>2, NotWritten DEF TunnelInv
    <2>2. told' # "refused"
        BY <1>1 DEF TunnelInv, TunnelState, Hijacks
    <2> QED BY <1>1, <1>2, <2>1, <2>2, StageMoves DEF TunnelInv, EarlyStages, Established
<1>3. CASE upstream' = "open" /\ relay' = Copying /\ tunnel' = "relay"
    <2>1. relay' \in RelayType /\ ~Fin' /\ ~Over'
        BY <1>3, MovesRelay DEF TunnelInv, Records
    <2>2. SameLoops /\ SameRequest /\ Records'
        BY <1>1, <2>1, NotWritten DEF TunnelInv, Records, LoopFacts
    <2> QED BY <1>1, <1>3, <2>1, <2>2, PassthroughStarts DEF TunnelInv
<1> QED BY <1>2, <1>3 DEF serveSNIPassthrough

\* A passthrough's connections are closed.
LEMMA KeepsBidiCloses ==
    ASSUME TunnelInv, bidiCloses
    PROVE  TunnelInv'
<1>1. Quiet /\ Records' /\ (Ends => Ends')
    BY NotWritten DEF TunnelInv, bidiCloses, net, peers, Ends
<1>2. /\ tunnel = "relay" /\ ~open' /\ upstream' = "closed" /\ (Fin \/ Ends)
      /\ UNCHANGED <<main, tunnel, owner, h2, told, code>>
    BY DEF bidiCloses, Fin, Ends, ShutdownCtxDone
<1> QED BY <1>1, <1>2, PassthroughCloses DEF TunnelInv

\* A passthrough is over.
LEMMA KeepsBidiReturns ==
    ASSUME TunnelInv, bidiReturns
    PROVE  TunnelInv'
<1>1. Quiet /\ Records'
    BY NotWritten DEF TunnelInv, bidiReturns
<1>2. /\ tunnel = "relay" /\ upstream' = "closed" /\ tunnel' = "leave"
      /\ UNCHANGED <<main, owner, h2, open, told, code>>
    BY DEF bidiReturns
<1> QED BY <1>1, <1>2, PassthroughReturns DEF TunnelInv

\* Every step of the listeners, the peers, the loops, their handlers and the relays
\* keeps TunnelInv.
LEMMA StepTunnel == TunnelInv /\ [TunnelNext]_tunnelVars => TunnelInv'
<1> SUFFICES ASSUME TunnelInv, [TunnelNext]_tunnelVars PROVE TunnelInv'
    OBVIOUS
<1>1. CASE Bind \/ Shutdown \/ BecomeReady \/ PeerLeaves \/ UNCHANGED tunnelVars \/ Accept \/
           handleTunnel \/ handleTunnelReturns \/ handleSOCKS5 \/ tunnelTransformCheck
    BY <1>1, KeepsIdle, KeepsAccept, KeepsHandleTunnel, KeepsHandleTunnelReturns,
       KeepsHandleSOCKS5, KeepsTunnelTransformCheck, Zenon
<1>2. CASE TunnelRefused \/ TunnelAdmitted \/ TunnelReply \/ serveTunnelWithReader \/
           serveTunnelTLS \/ TunnelFrameReturns \/ TunnelLeaves
    BY <1>2, KeepsTunnelRefused, KeepsTunnelAdmitted, KeepsTunnelReply,
       KeepsServeTunnelWithReader, KeepsServeTunnelTLS, KeepsTunnelFrameReturns,
       KeepsTunnelLeaves, Zenon
<1>3. CASE ExchangeEnds \/ Streams \/ wsDial \/ wsRespond \/ wsShutdown \/
           handleWebSocketReturns
    BY <1>3, KeepsExchangeEnds, KeepsStreams, KeepsWsDial, KeepsWsRespond, KeepsWsShutdown,
       KeepsHandleWebSocketReturns, Zenon
<1>4. CASE peekSNI \/ serveSNIPassthrough \/ bidiCloses \/ bidiReturns
    BY <1>4, KeepsPeekSNI, KeepsServeSNIPassthrough, KeepsBidiCloses, KeepsBidiReturns, Zenon
<1>5. CASE \E f \in 1..2 : Frame(f)
    BY <1>5, KeepsHandlerStarts, KeepsConnStateClosed, KeepsConnStateHijacked,
       KeepsServeReturns, KeepsServeOneHTTPConn, Zenon DEF Frame
<1>6. CASE \E d \in Directions : wsRelayEnds(d) \/ bidiEnds(d)
    BY <1>6, KeepsWsRelayEnds, KeepsBidiEnds, Zenon
<1> QED BY <1>1, <1>2, <1>3, <1>4, <1>5, <1>6, Zenon DEF TunnelNext

\* A running relay keeps both its connections until a peer leaves, a direction
\* finishes it or Shutdown begins, whatever serving loops return around it.
THEOREM RelayConnected == TunnelSpec => []RelayKeepsConnection
<1>1. TunnelInv => RelayKeepsConnection
    BY DEF TunnelInv, TunnelState, Kept, ShutdownCtxDone, RelayKeepsConnection, Relaying, ReqAt,
       Fin, Ends
<1> QED BY <1>1, InitTunnel, StepTunnel, PTL DEF TunnelSpec

\* When a connection's goroutine has returned, both connections are closed and no
\* tunnel, handler or relay of it runs.
THEOREM TunnelLeavesNothing == TunnelSpec => []NothingLeftBehind
<1>1. TunnelInv => NothingLeftBehind
    <2> SUFFICES ASSUME TunnelInv, main = "returned"
        PROVE ~open /\ upstream # "open" /\ tunnel \in {"off", "returned"} /\ request.at = "none"
        BY DEF NothingLeftBehind
    <2> QED BY AllReturned DEF TunnelInv, ReqAt
<1> QED BY <1>1, InitTunnel, StepTunnel, PTL DEF TunnelSpec

-----------------------------------------------------------------------------
\* Nothing is told or recorded when the listener starts.
LEMMA InitAudit == TunnelInit => AuditInv
BY DEF TunnelInit, AuditInv, Audited

AuditSame == UNCHANGED <<tunnel, owner, told, code, records>>

\* Every step keeps AuditInv: only tunnelTransformCheck audits an admission.
LEMMA StepAudit == TunnelInv /\ AuditInv /\ [TunnelNext]_tunnelVars => AuditInv'
<1> SUFFICES ASSUME TunnelInv, AuditInv, [TunnelNext]_tunnelVars PROVE AuditInv'
    OBVIOUS
<1>0. /\ code \in Nat /\ (tunnel \in Unaudited => told = "none")
      /\ tunnel \in Carrying /\ owner # "https" => told = "established"
    BY AuditFacts
<1>1. CASE AuditSame
    BY <1>0, <1>1, NoRecord DEF AuditSame
<1>2. CASE Bind \/ Shutdown \/ BecomeReady \/ PeerLeaves \/ UNCHANGED tunnelVars
    BY <1>1, <1>2 DEF Bind, Shutdown, BecomeReady, PeerLeaves, tunnelVars, AuditSame
<1>3. CASE Accept
    <2>1. /\ UNCHANGED <<told, code, records>>
          /\ \/ UNCHANGED <<tunnel, owner>>
             \/ tunnel' = "sni" /\ owner' = "https"
        BY <1>3 DEF Accept
    <2> QED BY <1>0, <2>1, NoRecord DEF Unaudited, Checked, Carrying
<1>4. CASE handleTunnel
    <2>1. /\ main = "peek" /\ UNCHANGED <<told, code, records>>
          /\ UNCHANGED <<tunnel, owner>> \/ tunnel' = "socks"
        BY <1>4 DEF handleTunnel
    <2>2. tunnel = "off"
        BY <2>1 DEF TunnelInv, TunnelState, Ownership
    <2> QED BY <1>0, <2>1, <2>2, NoRecord DEF Unaudited, Checked, Carrying
<1>5. CASE handleSOCKS5
    <2>1. /\ tunnel = "socks" /\ tunnel' \in {"leave", "check"}
          /\ UNCHANGED <<owner, told, code, records>>
        BY <1>5 DEF handleSOCKS5
    <2> QED BY <1>0, <2>1, NoRecord DEF Unaudited, Checked, Carrying
<1>6. CASE tunnelTransformCheck
    <2>1. PICK v \in TunnelVerdicts : /\ tunnel' = IF v.ok THEN "admitted" ELSE "refused"
                                      /\ Emit("connect", v.status)
        BY <1>6 DEF tunnelTransformCheck
    <2>2. v.status \in Nat /\ (v.ok <=> v.status = 200)
        BY DEF TunnelVerdicts
    <2>3. tunnel = "check" /\ UNCHANGED <<told, code>> /\ Recorded("connect", v.status)
        BY <1>6, <2>1 DEF tunnelTransformCheck, Emit, Recorded
    <2>4. tunnel' = IF v.status = 200 THEN "admitted" ELSE "refused"
        BY <2>1, <2>2
    <2> QED BY <2>2, <2>3, <2>4, CheckRecord
<1>7. CASE TunnelRefused
    <2>1. /\ tunnel = "refused" /\ told' = "refused" /\ tunnel' \in {"returned", "leave"}
          /\ UNCHANGED <<owner, code, records>>
        BY <1>7 DEF TunnelRefused
    <2> QED BY <1>0, <2>1, NoRecord DEF Unaudited, Checked, Carrying
<1>8. CASE TunnelAdmitted
    <2>1. /\ tunnel = "admitted" /\ tunnel' \in {"hijack", "reply"}
          /\ UNCHANGED <<owner, told, code, records>>
        BY <1>8 DEF TunnelAdmitted
    <2> QED BY <1>0, <2>1, NoRecord DEF Unaudited, Checked, Carrying
<1>9. CASE TunnelReply
    <2>1. /\ tunnel = "reply" /\ UNCHANGED <<owner, code, records>>
          /\ \/ tunnel' = "leave" /\ UNCHANGED told
             \/ tunnel' = "proto" /\ told' = "established"
        BY <1>9 DEF TunnelReply
    <2> QED BY <1>0, <2>1, NoRecord DEF Unaudited, Checked, Carrying
<1>10. CASE serveTunnelWithReader
    <2>1. /\ tunnel = "proto" /\ tunnel' \in {"leave", "sni", "handshake", "frame"}
          /\ UNCHANGED <<owner, told, code, records>>
        BY <1>10 DEF serveTunnelWithReader
    <2> QED BY <1>0, <2>1, NoRecord DEF Unaudited, Checked, Carrying
<1>11. CASE serveTunnelTLS \/ TunnelFrameReturns
    <2>1. /\ tunnel \in {"handshake", "frame"}
          /\ tunnel' = "leave" \/ (tunnel = "handshake" /\ tunnel' = "frame")
          /\ UNCHANGED <<owner, told, code, records>>
        BY <1>11 DEF serveTunnelTLS, TunnelFrameReturns
    <2> QED BY <1>0, <2>1, NoRecord DEF Unaudited, Checked, Carrying
<1>12. CASE TunnelLeaves
    <2>1. tunnel = "leave" /\ tunnel' = "returned" /\ UNCHANGED <<owner, told, code, records>>
        BY <1>12 DEF TunnelLeaves
    <2> QED BY <1>0, <2>1, NoRecord DEF Unaudited, Checked, Carrying
<1>13. ASSUME NEW f \in 1..2, HandlerStarts(f) PROVE AuditInv'
    <2>1. /\ UNCHANGED <<told, code, records>>
          /\ \/ f = 1 /\ tunnel = "off" /\ tunnel' = "check"
             \/ UNCHANGED <<tunnel, owner>>
        BY <1>13 DEF HandlerStarts
    <2> QED BY <1>0, <2>1, NoRecord DEF Unaudited, Checked, Carrying
<1>14. ASSUME NEW f \in 1..2, ConnStateHijacked(f) PROVE AuditInv'
    <2>1. /\ UNCHANGED <<owner, told, code, records>>
          /\ UNCHANGED tunnel \/ (tunnel = "hijack" /\ tunnel' = "reply")
        BY <1>14 DEF ConnStateHijacked
    <2> QED BY <1>0, <2>1, NoRecord DEF Unaudited, Checked, Carrying
<1>15. ASSUME NEW f \in 1..2, ConnStateClosed(f) \/ ServeReturns(f) \/ serveOneHTTPConn(f)
       PROVE  AuditInv'
    BY <1>1, <1>15 DEF ConnStateClosed, ServeReturns, serveOneHTTPConn, AuditSame
<1>16. CASE handleTunnelReturns \/ ExchangeEnds \/ Streams
    BY <1>1, <1>16 DEF handleTunnelReturns, ExchangeEnds, Streams, AuditSame
<1>17. CASE wsDial
    <2>1. UNCHANGED <<tunnel, owner, told, records>> /\ code' \in {code, 401, 101}
        BY <1>17 DEF wsDial
    <2> QED BY <1>0, <2>1, NoRecord
<1>18. CASE wsRespond \/ wsShutdown \/ handleWebSocketReturns \/ bidiCloses
    BY <1>1, <1>18 DEF wsRespond, wsShutdown, handleWebSocketReturns, bidiCloses, AuditSame
<1>19. ASSUME NEW d \in Directions, wsRelayEnds(d) \/ bidiEnds(d) PROVE AuditInv'
    BY <1>1, <1>19 DEF wsRelayEnds, bidiEnds, AuditSame
<1>20. CASE peekSNI
    <2>1. /\ tunnel = "sni" /\ tunnel' \in {"leave", "sniRun"}
          /\ UNCHANGED <<owner, told, code, records>>
        BY <1>20 DEF peekSNI
    <2> QED BY <1>0, <2>1, NoRecord DEF Unaudited, Checked, Carrying
<1>21. CASE serveSNIPassthrough
    <2>1. tunnel = "sniRun" /\ UNCHANGED <<owner, told>>
        BY <1>21 DEF serveSNIPassthrough
    <2>2. CASE UNCHANGED records /\ code' = 200 /\ tunnel' = "relay"
        BY <1>0, <2>1, <2>2, NoRecord DEF Unaudited, Checked, Carrying
    <2>3. CASE \E s \in {400, 403, 502, 503} : tunnel' = "leave" /\ code' = s /\ Emit("sni", s)
        <3>1. PICK s \in {400, 403, 502, 503} : tunnel' = "leave" /\ code' = s /\ Emit("sni", s)
            BY <2>3
        <3>2. s \in Nat /\ Recorded("sni", s)
            BY <3>1 DEF Emit, Recorded
        <3> QED BY <2>1, <3>1, <3>2, SniRecord
    <2>4. \/ UNCHANGED records /\ code' = 200 /\ tunnel' = "relay"
          \/ \E s \in {400, 403, 502, 503} : tunnel' = "leave" /\ code' = s /\ Emit("sni", s)
        BY <1>21 DEF serveSNIPassthrough
    <2> QED BY <2>2, <2>3, <2>4
<1>22. CASE bidiReturns
    <2>1. /\ tunnel = "relay" /\ tunnel' = "leave" /\ Recorded("sni", code)
          /\ UNCHANGED <<owner, told, code>>
        BY <1>22 DEF bidiReturns, Emit, Recorded
    <2> QED BY <1>0, <2>1, SniRecord
<1> QED BY <1>2, <1>3, <1>4, <1>5, <1>6, <1>7, <1>8, <1>9, <1>10, <1>11, <1>12, <1>13, <1>14,
           <1>15, <1>16, <1>17, <1>18, <1>19, <1>20, <1>21, <1>22, Zenon DEF TunnelNext, Frame

\* A client is told that its tunnel is established, and bytes are relayed for it, only
\* after one run audited as admitted; a refusal only after one audited as refused.
THEOREM AdmissionIsAudited == TunnelSpec => []AdmissionAudited
<1>1. AuditInv => AdmissionAudited
    BY AuditSays DEF AdmissionAudited
<1> QED BY <1>1, InitTunnel, StepTunnel, InitAudit, StepAudit, PTL DEF TunnelSpec

\* A tunnel and an SSH session side by side: neither leaves anything behind.
THEOREM NothingOutlives == TunnelSpec /\ SessionSpec => []NothingRemains
<1>1. NothingLeftBehind /\ NothingLeft => NothingRemains
    BY DEF NothingRemains
<1> QED BY <1>1, TunnelLeavesNothing, SessionLeavesNothing, PTL
=============================================================================

------------------------------ MODULE SSHBridge ------------------------------
(* sshproxy bridge: one session channel of the client, paired with one of the *)
(* upstream server, and the goroutines that serve it: a copy per output       *)
(* stream, the relay of upstream's channel requests, the closer that waits    *)
(* for those, and the loop over the client's requests.                        *)
(*                                                                            *)
(* The multiplexer of golang.org/x/crypto/ssh is external: closing a          *)
(* connection ends its channels, what a channel has buffered is still read    *)
(* before its end is seen, and a conforming peer answers a close by a close.  *)
EXTENDS Naturals

VARIABLES
    down, remote,  \* the connections: "live", "silent" (the peer answers nothing) or "dead"
    ch               \* the channel pair and its goroutines

links == <<down, remote>>
bridgeVars == <<links, ch>>

Outputs == {"out", "err"}

\* at: where the loop over the client's requests is. exec: a client request was sent
\* upstream ("sent") and then audited. pend, sent and got: what upstream wrote to a
\* stream, whether it is still buffered, and what reached the client. status: the
\* exit-status request. cut: the client had closed its end, or was gone, when the
\* proxy closed the channel.
NewBridge ==
    [at |-> "opening", exec |-> "none",
     pend |-> [s \in Outputs |-> 0], sent |-> [s \in Outputs |-> 0],
     got |-> [s \in Outputs |-> 0], status |-> "none", eof |-> FALSE, ended |-> FALSE,
     copy |-> [s \in Outputs |-> FALSE], relay |-> FALSE, closer |-> "off",
     clientClosed |-> FALSE, downClosed |-> FALSE, cut |-> FALSE]

BridgeInit == down = "live" /\ remote = "live" /\ ch = NewBridge

\* A peer stops answering or its connection ends; the session then closes both
\* (SessionEnds of SSHSession).
LinkFails ==
    /\ \/ down # "dead" /\ down' \in {"silent", "dead"} \ {down} /\ UNCHANGED remote
       \/ remote # "dead" /\ remote' \in {"silent", "dead"} \ {remote} /\ UNCHANGED down
    /\ UNCHANGED ch

UpLives == remote = "live"
UpAnswers == remote # "silent"

bridgeOpen ==
    /\ ch.at = "opening"
    /\ \/ UpAnswers /\ ch' = [ch EXCEPT !.at = "over"]
       \/ UpLives /\ ch' = [ch EXCEPT !.at = "accepting"]
    /\ UNCHANGED links

\* nc.Accept: a client that is gone leaves the upstream channel to be closed.
bridgeAccept ==
    /\ ch.at = "accepting"
    /\ ch' = IF down = "dead"
             THEN [ch EXCEPT !.at = "over"]
             ELSE [ch EXCEPT !.at = "run", !.copy = [s \in Outputs |-> TRUE],
                             !.relay = TRUE, !.closer = "wait"]
    /\ UNCHANGED links

Bridged == ch.at \in {"run", "closing"}

\* Upstream answers the command it was sent: output, its exit status, then the end
\* of its output, then the end of the channel.
UpstreamWrites ==
    /\ Bridged /\ ch.exec # "none" /\ UpLives /\ ~ch.ended
    /\ \/ \E s \in Outputs :
             /\ ~ch.eof /\ ch.sent[s] = 0
             /\ ch' = [ch EXCEPT !.sent[s] = 1, !.pend[s] = 1]
       \/ ch.status = "none" /\ ch' = [ch EXCEPT !.status = "pending"]
       \/ ~ch.eof /\ ch' = [ch EXCEPT !.eof = TRUE]
    /\ UNCHANGED links

\* Upstream closes the channel, on its own or because the proxy closed it.
UpstreamEnds ==
    /\ Bridged /\ UpLives /\ ~ch.ended
    /\ ch' = [ch EXCEPT !.eof = TRUE, !.ended = TRUE]
    /\ UNCHANGED links

ClientClosesChannel ==
    /\ Bridged /\ down = "live" /\ ~ch.clientClosed
    /\ ch' = [ch EXCEPT !.clientClosed = TRUE]
    /\ UNCHANGED links

UpEnded == ch.ended \/ remote = "dead"
DownEnded == ch.clientClosed \/ ch.downClosed \/ down = "dead"

\* io.Copy of a stream: a chunk is delivered, or the write fails.
copyChunk(s) ==
    /\ ch.copy[s] /\ ch.pend[s] > 0 /\ (DownEnded \/ down = "live")
    /\ ch' = IF DownEnded THEN [ch EXCEPT !.copy[s] = FALSE]
                          ELSE [ch EXCEPT !.pend[s] = 0, !.got[s] = 1]
    /\ UNCHANGED links

copyEnds(s) ==
    /\ ch.copy[s] /\ ch.pend[s] = 0 /\ (ch.eof \/ UpEnded)
    /\ ch' = [ch EXCEPT !.copy[s] = FALSE]
    /\ UNCHANGED links

\* MUTANT: a request the client's end no longer takes is tried for ever.
relayRequestRetries ==
    /\ ch.relay
    /\ \/ /\ ch.status = "pending" /\ ~DownEnded
          /\ ch' = [ch EXCEPT !.status = "delivered"]
       \/ ch.status # "pending" /\ UpEnded /\ ch' = [ch EXCEPT !.relay = FALSE]
    /\ UNCHANGED links

\* Upstream's channel requests go downstream until the channel ends.
relayRequest ==
    /\ ch.relay
    /\ \/ /\ ch.status = "pending"
          /\ ch' = [ch EXCEPT !.status = IF DownEnded THEN "lost" ELSE "delivered"]
       \/ ch.status # "pending" /\ UpEnded /\ ch' = [ch EXCEPT !.relay = FALSE]
    /\ UNCHANGED links

closerEagerly ==
    /\ \A s \in Outputs : ~ch.copy[s]
    /\ ch.closer = "wait"
    /\ ch' = [ch EXCEPT !.closer = "over", !.downClosed = TRUE, !.cut = DownEnded]
    /\ UNCHANGED links

\* output.Wait, CloseWrite, <-requests, down.Close. (cut: the client had closed its
\* end or was gone, so nothing more could be delivered to it.)
closer ==
    /\ \/ /\ ch.closer = "wait" /\ \A s \in Outputs : ~ch.copy[s]
          /\ ch' = [ch EXCEPT !.closer = "eof"]
       \/ /\ ch.closer = "eof" /\ ~ch.relay
          /\ ch' = [ch EXCEPT !.closer = "over", !.downClosed = TRUE, !.cut = DownEnded]
    /\ UNCHANGED links

\* A client request the policy forwards is sent upstream and then audited.
forwardRequest ==
    /\ ch.at = "run"
    /\ \/ /\ ch.exec = "none" /\ ~DownEnded /\ ~UpEnded
          /\ ch' = [ch EXCEPT !.exec = "sent"]
       \/ ch.exec = "sent" /\ UpAnswers /\ ch' = [ch EXCEPT !.exec = "audited"]
    /\ UNCHANGED links

\* downReqs ends with the channel or the connection: up.Close.
bridgeCloses ==
    /\ ch.at = "run" /\ ch.exec # "sent"
    /\ ch.clientClosed \/ down = "dead"
    /\ ch' = [ch EXCEPT !.at = "closing"]
    /\ UNCHANGED links

\* <-closed; the copy of the client's input has ended with its source.
bridgeReturns ==
    /\ ch.at = "closing" /\ ch.closer = "over"
    /\ ch' = [ch EXCEPT !.at = "over"]
    /\ UNCHANGED links

-----------------------------------------------------------------------------
BridgeNext ==
    \/ LinkFails \/ bridgeOpen \/ bridgeAccept
    \/ UpstreamWrites \/ UpstreamEnds \/ ClientClosesChannel
    \/ \E s \in Outputs : copyChunk(s) \/ copyEnds(s)
    \/ relayRequest \/ closer \/ forwardRequest \/ bridgeCloses \/ bridgeReturns

\* Goroutines that can go on do. Of the peers only the answer to a close is asked.
BridgeFairness ==
    /\ WF_bridgeVars(bridgeOpen) /\ WF_bridgeVars(bridgeAccept)
    /\ \A s \in Outputs : WF_bridgeVars(copyChunk(s)) /\ WF_bridgeVars(copyEnds(s))
    /\ WF_bridgeVars(relayRequest) /\ WF_bridgeVars(closer)
    /\ WF_bridgeVars(forwardRequest /\ ch.exec = "sent")
    /\ WF_bridgeVars(bridgeCloses) /\ WF_bridgeVars(bridgeReturns)
    /\ WF_bridgeVars(UpstreamEnds /\ ch.at = "closing")

BridgeSpec == BridgeInit /\ [][BridgeNext]_bridgeVars /\ BridgeFairness

-----------------------------------------------------------------------------
\* When the proxy is the one that closes the client's channel, everything upstream
\* wrote has been delivered: both streams and the exit status (bridge: "the
\* downstream channel closes only after exit-status requests are delivered").
OutputBeforeClose ==
    ch.downClosed /\ ~ch.cut => ch.got = ch.sent /\ ch.status \in {"none", "delivered"}

\* bridge returns, with every goroutine it started over and every command it sent
\* upstream audited, once the client has closed the channel and upstream lives to
\* answer, and at the latest when both connections are closed: no goroutine waits
\* for another for ever.
BridgeEnds ==
    LET Ended == ch.at = "over" /\ ch.exec # "sent" /\ ~ch.relay /\ \A s \in Outputs : ~ch.copy[s]
    IN  /\ down = "dead" /\ remote = "dead" ~> Ended
        /\ ch.clientClosed ~> Ended \/ remote = "silent"
=============================================================================

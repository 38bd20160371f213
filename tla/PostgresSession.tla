--------------------------- MODULE PostgresSession ---------------------------
(***************************************************************************)
(* One PostgreSQL client session (postgres/session.go, postgres/auth.go):  *)
(* the handshake, the upstream session's set-up, and the relay with its    *)
(* two goroutines, clientToServer and serverToClient.                      *)
(*                                                                         *)
(* The client is any sender of frontend messages, pipelined or not; the    *)
(* upstream server is modelled by the message flow of the PostgreSQL       *)
(* protocol.  A statement is what ClassifyClientStatement says of it.      *)
(***************************************************************************)
EXTENDS Naturals, Sequences, SequencesExt

CONSTANTS
    NumSettings,  \* pinned settings of the upstream
    MaxMsgs,      \* bound: frontend messages the client sends
    MaxInbox      \* bound: of those, unread by clientToServer

ASSUME SessionConstants ==
    NumSettings \in Nat /\ MaxMsgs \in Nat /\ MaxInbox \in Nat \ {0}

VARIABLES
    phase, attempt,          \* runSession; receiveStartup's loop counter
    setup,                   \* settings, then the role, applied upstream so far
    cl, us,                  \* client and upstream sockets
    c2s, s2c,                \* the relay's goroutines
    skipExtended, txStatus,  \* relay
    inbox, up, down,         \* bytes in flight: client, to and from upstream
    sent, rejected, owed,    \* the client: messages sent, whether its batch holds
                             \* a refused Parse, ReadyForQuerys it is still owed
    utx, ignoring            \* the upstream: transaction state, discarding to Sync

handshake == <<phase, attempt, setup>>
sockets == <<cl, us>>
pumps == <<c2s, s2c>>
client == <<sent, rejected>>
server == <<utx, ignoring>>
vars == <<handshake, sockets, pumps, skipExtended, txStatus, inbox, up, down,
          client, owed, server>>

Kinds == {"Terminate", "Query", "Parse", "FunctionCall", "Sync", "Other", "Oversized"}

\* orphan: sent after a Parse the proxy refuses and before the batch's Sync.
Messages == [kind : Kinds, allowed : BOOLEAN, orphan : BOOLEAN]

TxStates == {"I", "T"}
Replies == {"reply", "error"} \cup TxStates  \* a TxState is a ReadyForQuery

MaxAttempts == 3
SetupSteps == NumSettings + 1

-----------------------------------------------------------------------------
Init ==
    /\ phase = "startup" /\ attempt = 0 /\ setup = 0
    /\ cl = "open" /\ us = "none"
    /\ c2s = "none" /\ s2c = "none"
    /\ skipExtended = FALSE /\ txStatus = "I"
    /\ inbox = <<>> /\ up = <<>> /\ down = <<>>
    /\ sent = 0 /\ rejected = FALSE /\ owed = 0
    /\ utx = "I" /\ ignoring = FALSE

-----------------------------------------------------------------------------
(* runSession before the relay.                                            *)

relayVars == <<pumps, skipExtended, txStatus, inbox, up, down, client, owed, server>>

\* An early return: the deferred closes run.
End ==
    /\ phase' = "ended"
    /\ cl' = "closed"
    /\ us' = IF us = "none" THEN "none" ELSE "closed"

\* receiveStartup and the routing by database: an SSL or GSS request is refused
\* and the loop goes on, a StartupMessage for a known database is accepted,
\* anything else (a CancelRequest, a read error, the deadline) ends the session.
receiveStartup ==
    /\ phase = "startup" /\ attempt < MaxAttempts
    /\ \/ attempt' = attempt + 1 /\ UNCHANGED <<phase, sockets>>
       \/ phase' = "auth" /\ UNCHANGED <<attempt, sockets>>
       \/ End /\ UNCHANGED attempt
    /\ UNCHANGED <<setup, relayVars>>

tooManyRequests ==
    /\ phase = "startup" /\ attempt = MaxAttempts
    /\ End
    /\ UNCHANGED <<attempt, setup, relayVars>>

\* authenticateClient.
authenticateClient ==
    /\ phase = "auth"
    /\ \/ phase' = "dial" /\ UNCHANGED sockets
       \/ End
    /\ UNCHANGED <<attempt, setup, relayVars>>

\* dialUpstream: the DSN resolves, names the routing database, and connects.
dialUpstream ==
    /\ phase = "dial"
    /\ \/ phase' = "setup" /\ us' = "open" /\ UNCHANGED cl
       \/ End
    /\ UNCHANGED <<attempt, setup, relayVars>>

\* applySessionSetup: one setting, or SET ROLE; a refusal ends the session.
applySessionSetup ==
    /\ phase = "setup" /\ setup < SetupSteps
    /\ \/ setup' = setup + 1 /\ UNCHANGED <<phase, sockets>>
       \/ End /\ UNCHANGED setup
    /\ UNCHANGED <<attempt, relayVars>>

SetupDone ==
    /\ phase = "setup" /\ setup = SetupSteps
    /\ phase' = "hijack"
    /\ UNCHANGED <<attempt, setup, sockets, relayVars>>

\* Hijack (which fails only on a connection pgconn has closed) and
\* completeClientHandshake, whose ReadyForQuery says 'I'; then relay.run.
completeClientHandshake ==
    /\ phase = "hijack"
    /\ \/ /\ phase' = "relay"
          /\ c2s' = "run" /\ s2c' = "run"
          /\ UNCHANGED sockets
       \/ End /\ UNCHANGED pumps
    /\ UNCHANGED <<attempt, setup, skipExtended, txStatus, inbox, up, down, client, owed,
                   server>>

-----------------------------------------------------------------------------
(* clientToServer.  A flush to an upstream that is no longer there ends it. *)

Receiving(kind) ==
    /\ c2s = "run" /\ cl # "closed"
    /\ inbox # <<>> /\ Head(inbox).kind = kind
    /\ inbox' = Tail(inbox)

Forward ==
    IF us = "open" THEN up' = Append(up, Head(inbox)) /\ UNCHANGED c2s
                   ELSE c2s' = "done" /\ UNCHANGED up

Drop == UNCHANGED <<c2s, up>>

\* writeReject, writeReadyForQuery: to the client directly, not through down.
writeReject(withReadyForQuery) == owed' = IF withReadyForQuery THEN owed - 1 ELSE owed
writeReadyForQuery == owed' = owed - 1

c2sTerminate ==
    /\ Receiving("Terminate")
    /\ up' = IF us = "open" THEN Append(up, Head(inbox)) ELSE up
    /\ c2s' = "done"
    /\ UNCHANGED <<handshake, sockets, s2c, skipExtended, txStatus, down, client, owed,
                   server>>

\* MUTANT: a refused Query is answered with an ErrorResponse only.
c2sQueryNoReady ==
    /\ Receiving("Query")
    /\ skipExtended' = FALSE
    /\ IF Head(inbox).allowed THEN Forward /\ UNCHANGED owed
                              ELSE Drop /\ writeReject(FALSE)
    /\ UNCHANGED <<handshake, sockets, s2c, txStatus, down, client, server>>

c2sQuery ==
    /\ Receiving("Query")
    /\ skipExtended' = FALSE
    /\ IF Head(inbox).allowed THEN Forward /\ UNCHANGED owed
                              ELSE Drop /\ writeReject(TRUE)
    /\ UNCHANGED <<handshake, sockets, s2c, txStatus, down, client, server>>

\* An allowed Parse is forwarded whether or not the batch is being skipped.
c2sParse ==
    /\ Receiving("Parse")
    /\ IF Head(inbox).allowed
       THEN Forward /\ UNCHANGED <<owed, skipExtended>>
       ELSE Drop /\ writeReject(FALSE) /\ skipExtended' = TRUE
    /\ UNCHANGED <<handshake, sockets, s2c, txStatus, down, client, server>>

c2sFunctionCall ==
    /\ Receiving("FunctionCall")
    /\ Drop
    /\ IF skipExtended THEN UNCHANGED owed ELSE writeReject(TRUE)
    /\ UNCHANGED <<handshake, sockets, s2c, skipExtended, txStatus, down, client, server>>

c2sSync ==
    /\ Receiving("Sync")
    /\ skipExtended' = FALSE
    /\ IF skipExtended THEN Drop /\ writeReadyForQuery
                       ELSE Forward /\ UNCHANGED owed
    /\ UNCHANGED <<handshake, sockets, s2c, txStatus, down, client, server>>

\* MUTANT: only Parse looks at the refusal.
c2sOtherForward ==
    /\ Receiving("Other")
    /\ Forward
    /\ UNCHANGED <<handshake, sockets, s2c, skipExtended, txStatus, down, client, owed,
                   server>>

\* Bind, Describe, Execute, Close, Flush, CopyData...
c2sOther ==
    /\ Receiving("Other")
    /\ IF skipExtended THEN Drop ELSE Forward
    /\ UNCHANGED <<handshake, sockets, s2c, skipExtended, txStatus, down, client, owed,
                   server>>

\* Receive fails: the peer is gone and drained, the socket is closed, or the
\* message is over the body limit.
c2sReadError ==
    /\ c2s = "run"
    /\ \/ cl = "closed"
       \/ cl = "gone" /\ inbox = <<>>
       \/ inbox # <<>> /\ Head(inbox).kind = "Oversized"
    /\ c2s' = "done"
    /\ UNCHANGED <<handshake, sockets, s2c, skipExtended, txStatus, inbox, up, down, client,
                   owed, server>>

-----------------------------------------------------------------------------
(* serverToClient, and run.                                                *)

\* Receive from upstream, then writeClient.
writeClient ==
    /\ s2c = "run" /\ us # "closed" /\ down # <<>>
    /\ down' = Tail(down)
    /\ IF Head(down) \in TxStates
       THEN txStatus' = Head(down) /\ owed' = owed - 1
       ELSE UNCHANGED <<txStatus, owed>>
    /\ UNCHANGED <<handshake, sockets, pumps, skipExtended, inbox, up, client, server>>

s2cReadError ==
    /\ s2c = "run"
    /\ us = "closed" \/ (us = "gone" /\ down = <<>>)
    /\ s2c' = "done"
    /\ UNCHANGED <<handshake, sockets, c2s, skipExtended, txStatus, inbox, up, down, client,
                   owed, server>>

\* MUTANT: run closes the client's connection only.
runCloseClient ==
    /\ phase = "relay" /\ "done" \in {c2s, s2c}
    /\ cl # "closed" /\ cl' = "closed"
    /\ UNCHANGED <<handshake, us, relayVars>>

\* run: the first goroutine to end makes it close both connections.
runClose ==
    /\ phase = "relay" /\ "done" \in {c2s, s2c}
    /\ cl # "closed" \/ us # "closed"
    /\ cl' = "closed" /\ us' = "closed"
    /\ UNCHANGED <<handshake, relayVars>>

runReturn ==
    /\ phase = "relay" /\ c2s = "done" /\ s2c = "done"
    /\ End
    /\ UNCHANGED <<attempt, setup, relayVars>>

-----------------------------------------------------------------------------
(* The client and the upstream server.                                     *)

\* The client sends its next message.
ClientSend(kind, allowed) ==
    LET batch == rejected /\ kind # "Query"
        \* what the protocol answers with a ReadyForQuery
        ready == kind \in {"Query", "Sync"} \/ (kind = "FunctionCall" /\ ~rejected)
    IN
    /\ phase = "relay" /\ cl = "open" /\ sent < MaxMsgs /\ Len(inbox) < MaxInbox
    /\ inbox' = Append(inbox, [kind |-> kind, allowed |-> allowed, orphan |-> batch])
    /\ sent' = sent + 1
    /\ rejected' = CASE kind \in {"Query", "Sync"} -> FALSE
                     [] kind = "Parse" /\ ~allowed -> TRUE
                     [] OTHER -> rejected
    /\ owed' = IF ready THEN owed + 1 ELSE owed
    /\ UNCHANGED <<handshake, sockets, pumps, skipExtended, txStatus, up, down, server>>

ClientClose ==
    /\ phase = "relay" /\ cl = "open"
    /\ cl' = "gone"
    /\ UNCHANGED <<handshake, us, relayVars>>

\* The server takes its next message.  Between an error and a Sync it discards
\* everything, a Query it will then never answer included.
ServerStep ==
    /\ us = "open" /\ up # <<>>
    /\ up' = Tail(up)
    /\ LET kind == Head(up).kind IN
       \/ /\ kind = "Sync" \/ (kind = "Query" /\ ~ignoring)
          /\ ignoring' = FALSE
          /\ utx' \in TxStates
          /\ down' = down \o (IF kind = "Sync" THEN <<utx'>> ELSE <<"reply", utx'>>)
          /\ UNCHANGED <<us, owed>>
       \/ /\ kind \in {"Parse", "Other"} /\ ~ignoring
          /\ \E r \in {"reply", "error"} : down' = Append(down, r) /\ ignoring' = (r = "error")
          /\ UNCHANGED <<us, owed, utx>>
       \/ /\ kind \notin {"Sync", "Terminate"} /\ ignoring
          /\ owed' = IF kind = "Query" THEN owed - 1 ELSE owed
          /\ UNCHANGED <<us, down, server>>
       \/ /\ kind = "Terminate"
          /\ us' = "gone"
          /\ UNCHANGED <<owed, down, server>>
    /\ UNCHANGED <<handshake, cl, pumps, skipExtended, txStatus, inbox, client>>

ServerClose ==
    /\ phase = "relay" /\ us = "open"
    /\ us' = "gone"
    /\ UNCHANGED <<handshake, cl, relayVars>>

-----------------------------------------------------------------------------
Handshake ==
    \/ receiveStartup \/ tooManyRequests \/ authenticateClient \/ dialUpstream
    \/ applySessionSetup \/ SetupDone \/ completeClientHandshake

clientToServer ==
    \/ c2sTerminate \/ c2sQuery \/ c2sParse \/ c2sFunctionCall \/ c2sSync \/ c2sOther
    \/ c2sReadError
serverToClient == writeClient \/ s2cReadError
run == runClose \/ runReturn

\* The kinds that carry a statement are allowed or not; the policy does not look
\* at the others.
Client ==
    \/ \E kind \in Kinds, allowed \in BOOLEAN :
          (allowed \/ kind \in {"Query", "Parse"}) /\ ClientSend(kind, allowed)
    \/ ClientClose
Server == ServerStep \/ ServerClose

Next == Handshake \/ clientToServer \/ serverToClient \/ run \/ Client \/ Server

\* The handshake runs under deadlines, the goroutines are scheduled.  Neither
\* the client nor the server owes the session anything.
Fairness ==
    WF_vars(Handshake) /\ WF_vars(clientToServer) /\ WF_vars(serverToClient) /\ WF_vars(run)

Spec == Init /\ [][Next]_vars
FairSpec == Spec /\ Fairness

-----------------------------------------------------------------------------
\* What reaches the upstream is allowed by the statement policy, carries no
\* FunctionCall, belongs to no batch whose statement was refused (Parse apart),
\* and meets a session whose settings and role are in place.
StatementPolicy ==
    \A m \in ToSet(up) :
        /\ m.allowed /\ m.kind # "FunctionCall"
        /\ m.orphan => m.kind \in {"Parse", "Terminate"}
        /\ setup = SetupSteps

\* Every Query, Sync and FunctionCall the protocol answers is answered with
\* exactly one ReadyForQuery, the proxy's own or the upstream's: with nothing in
\* flight and both peers there, the client is owed none. And "synthetic
\* ReadyForQuery messages preserve the upstream transaction state"
\* (session.go:299-300): the status the next refusal reports is the upstream's.
ReadyBalance ==
    up = <<>> /\ down = <<>> =>
        /\ cl = "open" /\ us = "open" /\ inbox = <<>> => owed = 0
        /\ txStatus = utx

\* A session does not outlive either of its connections: once one goroutine of
\* the relay ends, or the handshake fails, both connections are closed and the
\* session is over.
SessionEnds ==
    /\ ("done" \in {c2s, s2c}) ~> (phase = "ended" /\ cl = "closed" /\ us = "closed")
    /\ (phase = "startup") ~> (phase \in {"relay", "ended"})
    /\ [](phase = "ended" => cl = "closed" /\ us \in {"none", "closed"})
=============================================================================

----------------------------- MODULE SSHSession -----------------------------
(* One SSH connection of sshproxy.Server: authentication, the upstream login  *)
(* under a short-lived grant, the renewal of its lease, keepalives, the       *)
(* goroutines that bridge its channels (SSHBridge has their inside) and the   *)
(* teardown that waits for all of them.                                       *)
(*                                                                            *)
(* The client, the upstream server, the authorizer, every timer and Shutdown  *)
(* (the parent context) step independently.                                   *)
EXTENDS Naturals

CONSTANTS
    MaxTime,     \* bound on the clock
    MaxLease,    \* validateGrant's longest lease (15 minutes)
    MaxAttempts, \* bound on the keys a client tries
    MaxBridges   \* bound on the channels open at once

ASSUME SSHConstants == MaxTime \in Nat /\ MaxLease \in Nat \ {0}

VARIABLES
    ctx,        \* the session's context: "live" or "done"
    hctx,       \* handshakeCtx: "live" or "done"
    at,         \* where handle is
    attempts,   \* keys whose possession the client has proved
    auths,      \* "auth" audit records
    conn,       \* the downstream connection is open
    up,         \* the upstream connection: "none", "open" or "closed"
    client, server,  \* the peers: "here", "silent" or "gone"
    now,
    grant,      \* the last grant that was accepted
    expiry,     \* when the expiry timer fires, 0 when it is stopped
    renewing,   \* the renew goroutine: "off", "wait", "ask" or "over"
    bridges     \* bridge goroutines

ends == <<client, server>>
lease == <<grant, expiry, renewing>>
sessionVars == <<ctx, hctx, at, attempts, auths, conn, up, ends, now, lease, bridges>>

GrantIds == {"a", "b"}
NoGrant == [id |-> "none", end |-> 0]

SessionInit ==
    /\ ctx = "live" /\ hctx = "live" /\ at = "handshake" /\ attempts = 0 /\ auths = 0
    /\ conn = TRUE /\ up = "none" /\ client = "here" /\ server = "here"
    /\ now = 0 /\ grant = NoGrant /\ expiry = 0 /\ renewing = "off"
    /\ bridges = 0

(***************************** environment **********************************)

ParentCancelled ==
    /\ at # "returned" /\ ctx = "live" /\ ctx' = "done" /\ hctx' = "done"
    /\ UNCHANGED <<at, attempts, auths, conn, up, ends, now, lease, bridges>>

HandshakeTimeout ==
    /\ hctx = "live" /\ at # "serving" /\ hctx' = "done"
    /\ UNCHANGED <<ctx, at, attempts, auths, conn, up, ends, now, lease, bridges>>

PeerFails ==
    /\ at # "returned"
    /\ \/ client = "here" /\ client' \in {"silent", "gone"} /\ UNCHANGED server
       \/ up = "open" /\ server = "here" /\ server' \in {"silent", "gone"} /\ UNCHANGED client
    /\ UNCHANGED <<ctx, hctx, at, attempts, auths, conn, up, now, lease, bridges>>

\* Timers are prompt: time waits for one that is due.
Tick ==
    /\ now < MaxTime /\ ~(expiry # 0 /\ expiry <= now)
    /\ now' = now + 1
    /\ UNCHANGED <<ctx, hctx, at, attempts, auths, conn, up, ends, lease, bridges>>

(***************************** authentication *******************************)

\* ssh.NewServerConn fails; a connection that proved no key is audited here.
HandshakeFails ==
    /\ at = "handshake"
    /\ auths' = IF attempts = 0 THEN auths + 1 ELSE auths
    /\ at' = "leaving"
    /\ UNCHANGED <<ctx, hctx, attempts, conn, up, ends, now, lease, bridges>>

VerifiedPublicKey ==
    /\ at = "handshake" /\ conn /\ client = "here" /\ attempts < MaxAttempts
    /\ attempts' = attempts + 1
    /\ at' = "authorize"
    /\ UNCHANGED <<ctx, hctx, auths, conn, up, ends, now, lease, bridges>>

\* connect failed: the attempt is audited and the client may try another key.
ConnectFails ==
    /\ at' = "handshake" /\ auths' = auths + 1
    /\ up' = IF up = "open" THEN "closed" ELSE up

\* What an authorizer may answer: an error or a grant, for this target or (id) for
\* something else, that ends at any time. A grant's end is 0 in NoGrant only.
HTTPAuthorizer == {NoGrant} \cup [id : GrantIds, end : 1..(now + MaxLease + 1)]

validateGrant(g) == g # NoGrant /\ g.end > now /\ g.end <= now + MaxLease

\* Everything but the end and the key's encoding must be the same.
sameGrant(a, b) == a.id = b.id

\* parseRoute, Authorize, validateGrant, signer and the host key.
connectAuthorize ==
    /\ at = "authorize"
    /\ \/ ConnectFails /\ UNCHANGED grant
       \/ \E g \in HTTPAuthorizer :
             validateGrant(g) /\ grant' = g /\ at' = "dial" /\ UNCHANGED <<auths, up>>
    /\ UNCHANGED <<ctx, hctx, attempts, conn, ends, now, expiry, renewing, bridges>>

connectDial ==
    /\ at = "dial"
    /\ \/ ConnectFails /\ UNCHANGED server
       \/ up' = "open" /\ server' = "here" /\ at' = "login" /\ UNCHANGED auths
    /\ UNCHANGED <<ctx, hctx, attempts, conn, client, now, lease, bridges>>

\* context.AfterFunc(handshakeCtx) closes the connection under the login.
LoginInterrupted ==
    /\ at = "login" /\ hctx = "done" /\ up = "open"
    /\ up' = "closed"
    /\ UNCHANGED <<ctx, hctx, at, attempts, auths, conn, ends, now, lease, bridges>>

\* NewClientConn ignores the context, so stop() tells whether it is done: a
\* login that succeeded as its time ran out is closed.
connectLogin ==
    /\ at = "login"
    /\ \/ ConnectFails
       \/ /\ up = "open" /\ server = "here" /\ hctx = "live"
          /\ at' = "authed" /\ auths' = auths + 1 /\ UNCHANGED up
    /\ UNCHANGED <<ctx, hctx, attempts, conn, ends, now, lease, bridges>>

SessionStartsUntimed ==
    /\ at = "authed"
    /\ \/ /\ conn /\ client = "here"
          /\ at' = "serving" /\ hctx' = "done"
          /\ renewing' = "wait" /\ expiry' = 0
       \/ at' = "leaving" /\ UNCHANGED <<hctx, renewing, expiry>>
    /\ UNCHANGED <<ctx, attempts, auths, conn, up, ends, now, grant, bridges>>

\* NewServerConn returns with the session established: the goroutines start,
\* among them renew with its expiry timer. Or the client left meanwhile.
SessionStarts ==
    /\ at = "authed"
    /\ \/ /\ conn /\ client = "here"
          /\ at' = "serving" /\ hctx' = "done"
          /\ renewing' = "wait" /\ expiry' = grant.end
       \/ at' = "leaving" /\ UNCHANGED <<hctx, renewing, expiry>>
    /\ UNCHANGED <<ctx, attempts, auths, conn, up, ends, now, grant, bridges>>

(***************************** the running session **************************)

Running == at \in {"serving", "waiting"}

\* context.AfterFunc(ctx): the downstream connection always, the upstream one once
\* the session runs.
ContextCloses ==
    /\ ctx = "done" /\ at # "returned"
    /\ \/ conn /\ conn' = FALSE /\ UNCHANGED up
       \/ Running /\ up = "open" /\ up' = "closed" /\ UNCHANGED conn
    /\ UNCHANGED <<ctx, hctx, at, attempts, auths, ends, now, lease, bridges>>

UpstreamDead == up = "closed" \/ server = "gone"
DownstreamDead == ~conn \/ client = "gone"

\* sess.conn.Wait returns and cancels the session.
UpstreamWait ==
    /\ Running /\ UpstreamDead /\ ctx = "live"
    /\ ctx' = "done"
    /\ UNCHANGED <<hctx, at, attempts, auths, conn, up, ends, now, lease, bridges>>

\* A keepalive to either peer fails or goes unanswered for three intervals.
keepalive ==
    /\ Running /\ ctx = "live"
    /\ DownstreamDead \/ UpstreamDead \/ client = "silent" \/ server = "silent"
    /\ ctx' = "done"
    /\ UNCHANGED <<hctx, at, attempts, auths, conn, up, ends, now, lease, bridges>>

\* (A tick taken once the context is done fails in Authorize: renewStops.)
RenewTick ==
    /\ renewing = "wait" /\ ctx = "live" /\ renewing' = "ask"
    /\ UNCHANGED <<ctx, hctx, at, attempts, auths, conn, up, ends, now, grant, expiry,
                   bridges>>

RenewOver == renewing' = "over" /\ expiry' = 0

\* The authorizer's answer: an error, an invalid or a different grant ends the
\* session; the same grant moves the timer to its new end.
renewAnswer ==
    /\ renewing = "ask"
    /\ \E g \in HTTPAuthorizer :
          IF validateGrant(g) /\ sameGrant(grant, g)
          THEN grant' = g /\ expiry' = g.end /\ renewing' = "wait" /\ UNCHANGED ctx
          ELSE ctx' = "done" /\ RenewOver /\ UNCHANGED grant
    /\ UNCHANGED <<hctx, at, attempts, auths, conn, up, ends, now, bridges>>

renewStops ==
    /\ renewing = "wait" /\ ctx = "done"
    /\ RenewOver
    /\ UNCHANGED <<ctx, hctx, at, attempts, auths, conn, up, ends, now, grant, bridges>>

\* time.AfterFunc(until the grant's end, cancel).
ExpiryFires ==
    /\ expiry # 0 /\ expiry <= now
    /\ ctx' = "done" /\ expiry' = 0
    /\ UNCHANGED <<hctx, at, attempts, auths, conn, up, ends, now, grant, renewing,
                   bridges>>

\* The channel loop ends with the downstream connection: cancel, close upstream.
ChansEnd ==
    /\ at = "serving" /\ DownstreamDead
    /\ ctx' = "done" /\ up' = "closed" /\ at' = "waiting"
    /\ UNCHANGED <<hctx, attempts, auths, conn, ends, now, lease, bridges>>

WaitAllButBridge ==
    /\ at = "waiting" /\ renewing = "over"
    /\ at' = "leaving"
    /\ UNCHANGED <<ctx, hctx, attempts, auths, conn, up, ends, now, lease, bridges>>

\* wg.Wait: every goroutine of the session has returned, the bridge included. (The
\* ones that only wait for the context or the connections, which ChansEnd ended, have
\* no state of their own.)
WaitAll ==
    /\ at = "waiting" /\ renewing = "over" /\ bridges = 0
    /\ at' = "leaving"
    /\ UNCHANGED <<ctx, hctx, attempts, auths, conn, up, ends, now, lease, bridges>>

\* The deferred calls of handle.
handleReturns ==
    /\ at = "leaving"
    /\ at' = "returned" /\ ctx' = "done" /\ hctx' = "done" /\ conn' = FALSE
    /\ up' = IF up = "open" THEN "closed" ELSE up
    /\ UNCHANGED <<attempts, auths, ends, now, lease, bridges>>

session == <<ctx, hctx, at, attempts, auths, conn, up, ends, now, lease>>

\* A goroutine per session channel; other types are refused in the loop itself.
ChannelOpens ==
    /\ at = "serving" /\ conn /\ client = "here" /\ bridges < MaxBridges
    /\ bridges' = bridges + 1
    /\ UNCHANGED session

\* bridge returns when its channel is closed, and at the latest when both
\* connections are (BridgeEnds of SSHBridge).
BridgeReturns ==
    /\ bridges > 0
    /\ bridges' = bridges - 1
    /\ UNCHANGED session

-----------------------------------------------------------------------------
SessionNext ==
    \/ ParentCancelled \/ HandshakeTimeout \/ PeerFails \/ Tick
    \/ HandshakeFails \/ VerifiedPublicKey \/ connectAuthorize \/ connectDial
    \/ LoginInterrupted \/ connectLogin \/ SessionStarts
    \/ ContextCloses \/ UpstreamWait \/ keepalive
    \/ RenewTick \/ renewAnswer \/ renewStops \/ ExpiryFires
    \/ ChansEnd \/ WaitAll \/ handleReturns
    \/ ChannelOpens \/ BridgeReturns

\* Goroutines that can go on do, and timers fire. The handshake is bounded by its
\* deadline and ends with the connection; authorization, dial and login by
\* handshakeCtx; an authorizer's answer by its client's timeout. Nothing is asked of
\* the peers: an exchange with one that is silent ends when its connection does.
SessionFairness ==
    /\ WF_sessionVars(HandshakeTimeout) /\ WF_sessionVars(ExpiryFires)
    /\ WF_sessionVars(HandshakeFails /\ (DownstreamDead \/ hctx = "done"))
    /\ WF_sessionVars(connectAuthorize) /\ WF_sessionVars(connectDial) /\ WF_sessionVars(LoginInterrupted)
    /\ WF_sessionVars(connectLogin /\ (UpstreamDead \/ hctx = "done")) /\ WF_sessionVars(SessionStarts)
    /\ WF_sessionVars(ContextCloses) /\ WF_sessionVars(UpstreamWait)
    /\ WF_sessionVars(keepalive)
    /\ WF_sessionVars(renewAnswer) /\ WF_sessionVars(renewStops)
    /\ WF_sessionVars(ChansEnd) /\ WF_sessionVars(WaitAll) /\ WF_sessionVars(handleReturns)
    /\ WF_sessionVars(BridgeReturns /\ DownstreamDead /\ UpstreamDead)

SessionSpec == SessionInit /\ [][SessionNext]_sessionVars /\ SessionFairness

-----------------------------------------------------------------------------
\* A session outlives no lease: time never passes the end of the last grant that was
\* accepted while the session's context is live, however the renewals, their
\* failures and the expiry timer interleave (renew).
LeaseEnds ==
    [][now' # now /\ at = "serving" /\ ctx = "live" => now < grant.end]_sessionVars

\* When handle has returned nothing of the session is left: both connections are
\* closed, no goroutine of it or of its bridges runs, no timer is armed, and every
\* attempt to authenticate has its one audit record.
NothingLeft ==
    at = "returned" =>
        /\ ~conn /\ up # "open" /\ renewing \in {"off", "over"} /\ expiry = 0
        /\ bridges = 0
        /\ auths = (IF attempts = 0 THEN 1 ELSE attempts)

\* The session is torn down to the end once its context is done, or once either peer
\* has left or merely stopped answering; and no handshake lasts for ever.
SessionEnds ==
    /\ ctx = "done" ~> at = "returned"
    /\ client # "here" ~> at = "returned"
    /\ at = "serving" /\ server # "here" ~> at = "returned"
    /\ hctx = "live" ~> at \in {"serving", "returned"}
=============================================================================

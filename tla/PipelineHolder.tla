--------------------------- MODULE PipelineHolder ---------------------------
(***************************************************************************)
(* The swappable transform pipeline and the private upstream sockets it    *)
(* fences (transform/holder.go, transform/private_ips.go), together with   *)
(* the dials that open those sockets (proxy/private_ip.go).                *)
(*                                                                         *)
(* Load is a lock-free atomic read, so a dial may consult the pipeline     *)
(* between any two steps of Store.  Store, TrackPrivateConnection and      *)
(* privateConnection.Close exclude each other through the holder's mutex;  *)
(* Store holds it over several steps because the swapped pointer is        *)
(* visible to Load before the loop over the connections has run.           *)
(***************************************************************************)
EXTENDS FiniteSets

CONSTANTS
    Pipelines,   \* pipeline objects (identity matters: each is built once)
    Initial,     \* the pipeline NewPipelineHolder starts with
    Writers,     \* goroutines that call Store (sync callback, /v1/reload)
    NoWriter,    \* the mutex is not held across a step boundary
    Conns,       \* upstream sends, each opening at most one socket
    Addrs,       \* resolved upstream addresses
    Denied,      \* the addresses dnsguard denies
    Requests,    \* (method, host, path) keys a policy is asked about
    Allowlists   \* [Pipelines -> set of allowlists]; an allowlist maps a
                 \* request to the private addresses it authorises

ASSUME HolderConstants ==
    /\ Initial \in Pipelines
    /\ NoWriter \notin Writers
    /\ Denied \subseteq Addrs
    /\ Allowlists \in [Pipelines -> SUBSET [Requests -> SUBSET Addrs]]

VARIABLES
    current,     \* PipelineHolder.p
    mu,          \* which Store holds PipelineHolder.mu between steps
    connections, \* PipelineHolder.connections
    built,       \* every pipeline stored so far
    closedPl,    \* pipelines whose Close has run
    wpc, old, todo,       \* per writer: Store's position and locals
    cpc, req, addr, sock  \* per send: position, request, address, socket

vars == <<current, mu, connections, built, closedPl, wpc, old, todo,
          cpc, req, addr, sock>>
holderVars == <<current, mu, connections, built, closedPl>>
writerVars == <<wpc, old, todo>>
connVars   == <<cpc, req, addr, sock>>

ConnPC == {"idle", "dial", "dialShared", "connecting", "dialed", "tracked",
           "shared", "refused", "closing", "done"}

-----------------------------------------------------------------------------
(* The private-address policy of a pipeline.                               *)

\* The prefixes each allowlist of p returns for r.
Checks(p, r) == {f[r] : f \in Allowlists[p]}

\* PrivateIPPermission returns a closure, not nil: there is an allowlist and
\* none of them returned no prefix.
HasPermission(p, r) == Checks(p, r) # {} /\ {} \notin Checks(p, r)

\* The closure: every allowlist must authorise the address.
Permits(p, r, a) == HasPermission(p, r) /\ \A s \in Checks(p, r) : a \in s

\* dialPrivate's `allowed`.
Allowed(p, r, a) == a \notin Denied \/ Permits(p, r, a)

AllowedConn(p, c) == Allowed(p, req[c], addr[c])

-----------------------------------------------------------------------------
Init ==
    /\ current = Initial
    /\ mu = NoWriter
    /\ connections = {}
    /\ built = {Initial}
    /\ closedPl = {}
    /\ wpc = [w \in Writers |-> "idle"]
    /\ old = [w \in Writers |-> Initial]
    /\ todo = [w \in Writers |-> {}]
    /\ cpc = [c \in Conns |-> "idle"]
    /\ req \in [Conns -> Requests]
    /\ addr \in [Conns -> Addrs]
    /\ sock = [c \in Conns |-> "none"]

-----------------------------------------------------------------------------
(* PipelineHolder.Store(next), for a freshly built next.                   *)

\* Lock; old := p.Swap(next); start ranging over the connections.
StoreSwap(w, next) ==
    /\ wpc[w] = "idle" /\ mu = NoWriter
    /\ next \notin built
    /\ mu' = w
    /\ current' = next
    /\ built' = built \cup {next}
    /\ old' = [old EXCEPT ![w] = current]
    /\ todo' = [todo EXCEPT ![w] = connections]
    /\ wpc' = [wpc EXCEPT ![w] = "fence"]
    /\ UNCHANGED <<connections, closedPl, connVars>>

\* MUTANT: the connection is forgotten and its socket left open.
StoreFenceForget(w, c) ==
    /\ wpc[w] = "fence" /\ c \in todo[w]
    /\ todo' = [todo EXCEPT ![w] = @ \ {c}]
    /\ connections' = IF AllowedConn(current, c) THEN connections
                                                 ELSE connections \ {c}
    /\ UNCHANGED <<current, mu, built, closedPl, wpc, old, connVars>>

\* One iteration of the loop, in the map's arbitrary order.
StoreFence(w, c) ==
    /\ wpc[w] = "fence" /\ c \in todo[w]
    /\ todo' = [todo EXCEPT ![w] = @ \ {c}]
    /\ IF AllowedConn(current, c)
       THEN UNCHANGED <<connections, sock>>
       ELSE /\ connections' = connections \ {c}
            /\ sock' = [sock EXCEPT ![c] = "closed"]
    /\ UNCHANGED <<current, mu, built, closedPl, wpc, old, cpc, req, addr>>

StoreUnlock(w) ==
    /\ wpc[w] = "fence" /\ todo[w] = {}
    /\ mu' = NoWriter
    /\ wpc' = [wpc EXCEPT ![w] = "close"]
    /\ UNCHANGED <<current, connections, built, closedPl, old, todo, connVars>>

\* MUTANT: Close is applied to whatever the holder holds by then.
StoreCloseCurrent(w) ==
    /\ wpc[w] = "close"
    /\ closedPl' = closedPl \cup {current}
    /\ wpc' = [wpc EXCEPT ![w] = "idle"]
    /\ UNCHANGED <<current, mu, connections, built, old, todo, connVars>>

\* old.Close(), outside the lock; Store returns (old # next: next was fresh).
StoreCloseOld(w) ==
    /\ wpc[w] = "close"
    /\ closedPl' = closedPl \cup {old[w]}
    /\ wpc' = [wpc EXCEPT ![w] = "idle"]
    /\ UNCHANGED <<current, mu, connections, built, old, todo, connVars>>

-----------------------------------------------------------------------------
(* Proxy.RoundTrip, dialPrivate and privateConnection.                     *)

\* RoundTrip: without a permission the shared transport dials; with one, an
\* upstream proxy for the request is an error and otherwise dialPrivate dials.
RoundTrip(c) ==
    /\ cpc[c] = "idle"
    /\ \/ /\ ~HasPermission(current, req[c])
          /\ cpc' = [cpc EXCEPT ![c] = "dialShared"]
       \/ /\ HasPermission(current, req[c])
          /\ \E next \in {"dial", "done"} : cpc' = [cpc EXCEPT ![c] = next]
    /\ UNCHANGED <<holderVars, writerVars, req, addr, sock>>

\* serveSNIPassthrough dials through dialPrivate whatever the permission is.
PassthroughDial(c) ==
    /\ cpc[c] = "idle"
    /\ cpc' = [cpc EXCEPT ![c] = "dial"]
    /\ UNCHANGED <<holderVars, writerVars, req, addr, sock>>

\* The shared transport's dialer: guard.DialControl refuses denied addresses.
SharedDial(c) ==
    /\ cpc[c] = "dialShared"
    /\ IF addr[c] \in Denied
       THEN /\ cpc' = [cpc EXCEPT ![c] = "done"]
            /\ UNCHANGED sock
       ELSE /\ cpc' = [cpc EXCEPT ![c] = "shared"]
            /\ sock' = [sock EXCEPT ![c] = "open"]
    /\ UNCHANGED <<holderVars, writerVars, req, addr>>

\* dialer.Control: a lock-free Load, before the connect.
DialControl(c) ==
    /\ cpc[c] = "dial"
    /\ cpc' = [cpc EXCEPT ![c] = IF AllowedConn(current, c)
                                 THEN "connecting" ELSE "done"]
    /\ UNCHANGED <<holderVars, writerVars, req, addr, sock>>

\* The connect succeeds, or fails (refused, timed out, cancelled).
Connect(c) ==
    /\ cpc[c] = "connecting"
    /\ \/ /\ cpc' = [cpc EXCEPT ![c] = "dialed"]
          /\ sock' = [sock EXCEPT ![c] = "open"]
       \/ /\ cpc' = [cpc EXCEPT ![c] = "done"]
          /\ UNCHANGED sock
    /\ UNCHANGED <<holderVars, writerVars, req, addr>>

\* MUTANT: the policy is not asked again once the dial was admitted.
TrackUnchecked(c) ==
    /\ cpc[c] = "dialed" /\ mu = NoWriter
    /\ connections' = connections \cup {c}
    /\ cpc' = [cpc EXCEPT ![c] = "tracked"]
    /\ UNCHANGED <<current, mu, built, closedPl, writerVars, req, addr, sock>>

\* TrackPrivateConnection, one critical section.
Track(c) ==
    /\ cpc[c] = "dialed" /\ mu = NoWriter
    /\ IF AllowedConn(current, c)
       THEN /\ connections' = connections \cup {c}
            /\ cpc' = [cpc EXCEPT ![c] = "tracked"]
       ELSE /\ cpc' = [cpc EXCEPT ![c] = "refused"]
            /\ UNCHANGED connections
    /\ UNCHANGED <<current, mu, built, closedPl, writerVars, req, addr, sock>>

\* dialPrivate closes a socket whose admission failed.
CloseRefused(c) ==
    /\ cpc[c] = "refused"
    /\ sock' = [sock EXCEPT ![c] = "closed"]
    /\ cpc' = [cpc EXCEPT ![c] = "done"]
    /\ UNCHANGED <<holderVars, writerVars, req, addr>>

\* privateConnection.Close: delete under the lock, then close the socket.  The
\* user closes it whether or not a fence already did.
CloseForget(c) ==
    /\ cpc[c] = "tracked" /\ mu = NoWriter
    /\ connections' = connections \ {c}
    /\ cpc' = [cpc EXCEPT ![c] = "closing"]
    /\ UNCHANGED <<current, mu, built, closedPl, writerVars, req, addr, sock>>

\* The socket of a forgotten, or of a shared, connection is closed.
CloseSocket(c) ==
    /\ cpc[c] \in {"closing", "shared"}
    /\ sock' = [sock EXCEPT ![c] = "closed"]
    /\ cpc' = [cpc EXCEPT ![c] = "done"]
    /\ UNCHANGED <<holderVars, writerVars, req, addr>>

-----------------------------------------------------------------------------
Store(w) ==
    \/ \E next \in Pipelines : StoreSwap(w, next)
    \/ \E c \in Conns : StoreFence(w, c)
    \/ StoreUnlock(w)
    \/ StoreCloseOld(w)

Send(c) ==
    \/ RoundTrip(c) \/ PassthroughDial(c)
    \/ SharedDial(c) \/ DialControl(c) \/ Connect(c)
    \/ Track(c) \/ CloseRefused(c)
    \/ CloseForget(c) \/ CloseSocket(c)

Next == (\E w \in Writers : Store(w)) \/ (\E c \in Conns : Send(c))

\* A Store that began runs to its end; a dial that connected goes on to its
\* admission, and Go's mutex does not starve it there; a close in progress
\* ends.  Nothing makes a caller send, or close a connection it is using.
Fairness ==
    /\ \A w \in Writers :
          /\ WF_vars(\E c \in Conns : StoreFence(w, c))
          /\ WF_vars(StoreUnlock(w))
          /\ WF_vars(StoreCloseOld(w))
    /\ \A c \in Conns :
          /\ SF_vars(Track(c))
          /\ WF_vars(CloseRefused(c))
          /\ WF_vars(cpc[c] = "closing" /\ CloseSocket(c))

Spec == Init /\ [][Next]_vars
FairSpec == Spec /\ Fairness

-----------------------------------------------------------------------------
TypeOK ==
    /\ current \in Pipelines
    /\ mu \in Writers \cup {NoWriter}
    /\ connections \subseteq Conns
    /\ built \subseteq Pipelines /\ closedPl \subseteq Pipelines
    /\ wpc \in [Writers -> {"idle", "fence", "close"}]
    /\ old \in [Writers -> Pipelines]
    /\ todo \in [Writers -> SUBSET Conns]
    /\ cpc \in [Conns -> ConnPC]
    /\ req \in [Conns -> Requests]
    /\ addr \in [Conns -> Addrs]
    /\ sock \in [Conns -> {"none", "open", "closed"}]

\* A socket some caller may still write to.
Usable(c) == sock[c] = "open" /\ cpc[c] \in {"tracked", "shared"}

\* "Reload fences revoked sockets before ACK" (private_ips.go:38): whenever no
\* Store is between its swap and its unlock, every usable socket to an address
\* the guard denies is authorised, for its own request, by the pipeline now in
\* force, however dials, admissions, closes and reloads interleave.
PrivateSocketsFenced ==
    mu = NoWriter =>
        \A c \in Conns :
            Usable(c) /\ addr[c] \in Denied => Permits(current, req[c], addr[c])

\* Store's old.Close(): the pipeline in force is never a closed one, and with
\* no Store running exactly the replaced pipelines have been closed.  Two
\* overlapping Stores neither leak a pipeline nor close one still in force.
ReplacedPipelinesClosed ==
    /\ closedPl \subseteq built \ {current}
    /\ (\A w \in Writers : wpc[w] = "idle") => closedPl = built \ {current}

\* "unchanged authorization retains them" (private_ips.go:38): no step closes
\* the socket under a connection in use that the pipeline in force authorises.
RetainsAuthorized ==
    [][\A c \in Conns :
         Usable(c) /\ cpc'[c] = cpc[c] /\ AllowedConn(current, c)
           => sock'[c] = "open"]_vars

\* "Failed admission must leave no live socket" (private_ip.go:47) and the
\* fence: a socket the pipeline in force does not authorise is closed in the
\* end, in whatever phase of its life the withdrawal meets it.
RevokedSocketsClose ==
    \A c \in Conns :
        (sock[c] = "open" /\ ~AllowedConn(current, c))
            ~> (sock[c] = "closed" \/ AllowedConn(current, c))

-----------------------------------------------------------------------------
(* The strengthening that makes the two safety invariants inductive.       *)

\* The mutex is held across steps exactly by the Store that is fencing.
LockInv == \A w \in Writers : wpc[w] = "fence" <=> mu = w

\* What the loop has still to visit is still tracked.
TodoInv == \A w \in Writers : wpc[w] = "fence" => todo[w] \subseteq connections

\* The tracked set is the set of live admitted sockets; a dialed socket is
\* live; a shared socket does not go to a denied address.
ConnInv ==
    \A c \in Conns :
        /\ c \in connections <=> (cpc[c] = "tracked" /\ sock[c] = "open")
        /\ cpc[c] = "dialed" => sock[c] = "open"
        /\ cpc[c] = "shared" => addr[c] \notin Denied

\* A tracked connection is authorised by the pipeline in force, or the Store
\* that holds the mutex has still to visit it.
FenceInv ==
    \A c \in connections :
        \/ AllowedConn(current, c)
        \/ \E w \in Writers : mu = w /\ c \in todo[w]

\* Every stored pipeline is in force, closed, or the `old` of one Store.
Retired(w) == wpc[w] \in {"fence", "close"}
CloseInv ==
    /\ current \in built
    /\ \A w \in Writers :
          Retired(w) => old[w] \in built /\ old[w] # current /\ old[w] \notin closedPl
    /\ \A v, w \in Writers : Retired(v) /\ Retired(w) /\ v # w => old[v] # old[w]
    /\ closedPl \subseteq built \ {current}
    /\ \A p \in built :
          p = current \/ p \in closedPl \/ \E w \in Writers : Retired(w) /\ old[w] = p

IInv == TypeOK /\ LockInv /\ TodoInv /\ ConnInv /\ FenceInv /\ CloseInv
=============================================================================

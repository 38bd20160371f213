----------------------------- MODULE ManagedSync -----------------------------
(***************************************************************************)
(* A managed proxy following its control plane: the start-up of main and   *)
(* initManaged (cmd/iron-proxy/main.go), the config poller                 *)
(* (controlplane/poller.go) with the callback that applies each block of a *)
(* sync response, and the head of every proxied request, which snapshots   *)
(* the pipeline and asks the readiness gate (proxy/proxy.go).              *)
(*                                                                         *)
(* main, the poller and the requests are goroutines; the holders are       *)
(* single atomic pointers.  A pipeline is the config it was built from and *)
(* whether it carries an audit callback.                                   *)
(***************************************************************************)
EXTENDS FiniteSets

CONSTANTS
    Versions,  \* config versions (hashes) the control plane may serve
    NoConfig,  \* no sync yet
    NoServer,  \* a nil postgres server
    HasLocal,  \* the YAML has a postgres block of its own
    Payload,   \* [Versions -> [Components -> Blocks]]: what a full response holds
    Clients    \* request goroutines

Components == {"pipeline", "mcp", "postgres"}

\* A block of a response is missing, JSON null, or a value that builds or does
\* not.  "pipeline" stands for rules, secrets and transforms together.
Blocks == {"absent", "null", "ok", "bad"}

ASSUME SyncConstants ==
    /\ NoConfig \notin Versions /\ NoServer \notin Versions \cup {NoConfig}
    /\ HasLocal \in BOOLEAN
    /\ Payload \in [Versions -> [Components -> Blocks]]

VARIABLES
    cp, revoked,           \* the control plane's config, and its verdict
    mpc, mload,            \* main; whose pipeline its holder.Load() returned
    pl, mcpPolicy, pg,     \* what the holders and the postgres Manager enforce
    pgListener,            \* the listener initManaged hands back to main
    status,                \* Poller.status.ConfigHash (= Poller.configHash)
    ppc, resp, newPl,      \* the poller, the response and pipeline in hand
    poke,                  \* Poller.poke holds a token
    qat, qpl               \* requests: position, snapshot

syncVars == <<cp, revoked, mpc, mload, pl, mcpPolicy, pg, pgListener, status, ppc, resp,
              newPl, poke, qat, qpl>>
environment == <<cp, revoked>>
enforced == <<pl, mcpPolicy, pg, pgListener>>
inFlight == <<qat, qpl>>

Maybe == Versions \cup {NoConfig}
Empty == [cfg |-> NoConfig, audit |-> FALSE]

\* postgresListenerFromSync: the config whose upstreams the listener carries,
\* NoConfig for the local ones alone.
Local == IF HasLocal THEN NoConfig ELSE NoServer
Listener(c, b) == IF b = "ok" THEN c ELSE Local

Synced == status # NoConfig

\* What the control plane answers to a sync that names hash h: the blocks are
\* left out when h is current.
Response(h) == [cfg |-> cp, full |-> h # cp]
NoResponse == [cfg |-> NoConfig, full |-> FALSE]

Block(k) == IF resp.full THEN Payload[resp.cfg][k] ELSE "absent"

-----------------------------------------------------------------------------
SyncInit ==
    /\ cp \in Versions /\ revoked = FALSE
    /\ mpc = "init" /\ mload = "none"
    /\ pl = Empty /\ mcpPolicy = NoConfig /\ pg = NoServer /\ pgListener = NoServer
    /\ status = NoConfig
    /\ ppc = "unborn" /\ resp = NoResponse /\ newPl = Empty
    /\ poke = FALSE
    /\ qat = [q \in Clients |-> "idle"]
    /\ qpl = [q \in Clients |-> Empty]

-----------------------------------------------------------------------------
(* main.                                                                   *)

\* initManaged with an answer: a pipeline or MCP block that does not build ends
\* the process, a postgres block that does not build is replaced by the local
\* listener; the status is seeded and the poller started.
InitSynced ==
    /\ mpc = "init" /\ ~revoked
    /\ LET b == Payload[cp] IN
       IF "bad" \in {b["pipeline"], b["mcp"]}
       THEN /\ mpc' = "down"
            /\ UNCHANGED <<pl, mcpPolicy, pgListener, status, ppc>>
       ELSE /\ mpc' = "load"
            /\ pl' = [cfg |-> cp, audit |-> FALSE]
            /\ mcpPolicy' = IF b["mcp"] = "ok" THEN cp ELSE NoConfig
            /\ pgListener' = Listener(cp, b["postgres"])
            /\ status' = cp
            /\ ppc' = "sync"
    /\ UNCHANGED <<environment, mload, pg, resp, newPl, poke, inFlight>>

\* initManaged after a sync that failed for good: an empty pipeline, no status,
\* and the poller takes over.
InitUnsynced ==
    /\ mpc = "init" /\ ~revoked
    /\ mpc' = "load" /\ ppc' = "sync"
    /\ pgListener' = Local
    /\ UNCHANGED <<environment, mload, pl, mcpPolicy, pg, status, resp, newPl, poke, inFlight>>

\* The initial sync is told the proxy is revoked: os.Exit.
InitRevoked ==
    /\ mpc = "init" /\ revoked
    /\ mpc' = "down"
    /\ UNCHANGED <<environment, mload, enforced, status, ppc, resp, newPl, poke, inFlight>>

\* holder.Load() of `holder.Load().SetAuditFunc(auditFunc)`.
MainLoad ==
    /\ mpc = "load"
    /\ mpc' = "audit" /\ mload' = "current"
    /\ UNCHANGED <<environment, enforced, status, ppc, resp, newPl, poke, inFlight>>

\* SetAuditFunc on the pipeline main loaded, which a sync may have replaced.
MainSetAudit ==
    /\ mpc = "audit"
    /\ pl' = IF mload = "current" THEN [pl EXCEPT !.audit = TRUE] ELSE pl
    /\ mpc' = "start" /\ mload' = "none"
    /\ UNCHANGED <<environment, mcpPolicy, pg, pgListener, status, ppc, resp, newPl, poke, inFlight>>

\* The services start, pgManager.Start last.  Start takes the place of a server
\* that a sync has already launched on the same address: whichever binds second
\* fails, which is fatal for Start's and logged for the other.
MainStart ==
    /\ mpc = "start"
    /\ \/ mpc' = "serving" /\ pg' = IF pgListener = NoServer THEN pg ELSE pgListener
       \/ pgListener # NoServer /\ pg # NoServer /\ mpc' = "down" /\ pg' = pgListener
    /\ UNCHANGED <<environment, mload, pl, mcpPolicy, pgListener, status, ppc, resp, newPl,
                   poke, inFlight>>

\* main receives the poller's revocation error from errc and shuts down.
MainFatal ==
    /\ mpc = "serving" /\ ppc = "stopped"
    /\ mpc' = "down"
    /\ UNCHANGED <<environment, mload, enforced, status, ppc, resp, newPl, poke, inFlight>>

-----------------------------------------------------------------------------
(* The poller: Run, sync and the onUpdate callback of initManaged.         *)

Running == mpc \in {"load", "audit", "start", "serving"}

\* client.Sync returns a response; sync calls onUpdate when a block is not null.
PollFetch ==
    /\ Running /\ ppc = "sync" /\ ~revoked
    /\ resp' = Response(status)
    /\ ppc' = IF \E k \in Components : Block(k)' \in {"ok", "bad"}
              THEN "pipeline" ELSE "record"
    /\ UNCHANGED <<environment, mpc, mload, enforced, status, newPl, poke, inFlight>>

\* client.Sync returns an error that is neither transient (retried inside) nor
\* a revocation; it is logged.
PollError ==
    /\ Running /\ ppc = "sync" /\ ~revoked
    /\ ppc' = "wait"
    /\ UNCHANGED <<environment, mpc, mload, enforced, status, resp, newPl, poke, inFlight>>

\* A revocation: Run returns the error on errc.
PollRevoked ==
    /\ Running /\ ppc = "sync" /\ revoked
    /\ ppc' = "stopped"
    /\ UNCHANGED <<environment, mpc, mload, enforced, status, resp, newPl, poke, inFlight>>

\* MUTANT: a pipeline that does not build is swapped in as an empty one.
ApplyPipelineAnyway ==
    /\ Running /\ ppc = "pipeline"
    /\ IF Block("pipeline") = "absent"
       THEN ppc' = "mcp" /\ UNCHANGED newPl
       ELSE ppc' = "store" /\ newPl' = [cfg |-> resp.cfg, audit |-> pl.audit]
    /\ UNCHANGED <<environment, mpc, mload, enforced, status, resp, poke, inFlight>>

\* applyPipelineSync up to SetAuditFunc(holder.Load().AuditFunc()).  It is called
\* when a field is not nil, so a JSON null yields a pipeline with no transforms.
ApplyPipeline ==
    /\ Running /\ ppc = "pipeline"
    /\ CASE Block("pipeline") = "absent" -> ppc' = "mcp" /\ UNCHANGED newPl
         [] Block("pipeline") = "bad" -> ppc' = "wait" /\ UNCHANGED newPl
         [] OTHER -> /\ ppc' = "store"
                     /\ newPl' = [cfg |-> resp.cfg, audit |-> pl.audit]
    /\ UNCHANGED <<environment, mpc, mload, enforced, status, resp, poke, inFlight>>

\* holder.Store(newPipeline).
StorePipeline ==
    /\ Running /\ ppc = "store"
    /\ pl' = newPl
    /\ mload' = IF mload = "current" THEN "replaced" ELSE mload
    /\ ppc' = "mcp"
    /\ UNCHANGED <<environment, mpc, mcpPolicy, pg, pgListener, status, resp, newPl, poke, inFlight>>

\* MUTANT: an MCP block that does not compile is logged and the sync goes on.
ApplyMCPLogged ==
    /\ Running /\ ppc = "mcp"
    /\ mcpPolicy' = IF Block("mcp") = "ok" THEN resp.cfg ELSE mcpPolicy
    /\ ppc' = "postgres"
    /\ UNCHANGED <<environment, mpc, mload, pl, pg, pgListener, status, resp, newPl, poke, inFlight>>

\* applyMCPSync: null is a no-op, a policy that does not compile an error.
ApplyMCP ==
    /\ Running /\ ppc = "mcp"
    /\ mcpPolicy' = IF Block("mcp") = "ok" THEN resp.cfg ELSE mcpPolicy
    /\ ppc' = IF Block("mcp") = "bad" THEN "wait" ELSE "postgres"
    /\ UNCHANGED <<environment, mpc, mload, pl, pg, pgListener, status, resp, newPl, poke, inFlight>>

\* applyPostgresSync: null has no entries, so only the local listener is left.
ApplyPostgres ==
    /\ Running /\ ppc = "postgres"
    /\ pg' = IF Block("postgres") \in {"ok", "null"}
             THEN Listener(resp.cfg, Block("postgres")) ELSE pg
    /\ ppc' = IF Block("postgres") = "bad" THEN "wait" ELSE "record"
    /\ UNCHANGED <<environment, mpc, mload, pl, mcpPolicy, pgListener, status, resp, newPl, poke, inFlight>>

\* MUTANT: the poller keeps the hash of the config it asked with.
RecordStale ==
    /\ Running /\ ppc = "record"
    /\ status' = IF status = NoConfig THEN resp.cfg ELSE status
    /\ ppc' = "wait"
    /\ UNCHANGED <<environment, mpc, mload, enforced, resp, newPl, poke, inFlight>>

\* configHash and recordSync.
Record ==
    /\ Running /\ ppc = "record"
    /\ status' = resp.cfg
    /\ ppc' = "wait"
    /\ UNCHANGED <<environment, mpc, mload, enforced, resp, newPl, poke, inFlight>>

\* Run's select: the jittered timer fires.
WakeTimer ==
    /\ Running /\ ppc = "wait"
    /\ ppc' = "sync"
    /\ UNCHANGED <<environment, mpc, mload, enforced, status, resp, newPl, poke, inFlight>>

\* Run's select: a poke is received.
WakePoke ==
    /\ Running /\ ppc = "wait" /\ poke
    /\ ppc' = "sync" /\ poke' = FALSE
    /\ UNCHANGED <<environment, mpc, mload, enforced, status, resp, newPl, inFlight>>

\* Poke, from POST /v1/sync: a token is left unless one is there already.
Poke ==
    /\ mpc = "serving"
    /\ poke' = TRUE
    /\ UNCHANGED <<environment, mpc, mload, enforced, status, ppc, resp, newPl, inFlight>>

-----------------------------------------------------------------------------
(* The head and the end of a proxied request.                              *)

\* beginPipelineRun: the snapshot is taken before the gate is asked.
beginPipelineRun(q) ==
    /\ mpc = "serving" /\ qat[q] = "idle"
    /\ qat' = [qat EXCEPT ![q] = "begun"]
    /\ qpl' = [qpl EXCEPT ![q] = pl]
    /\ UNCHANGED <<environment, mpc, mload, enforced, status, ppc, resp, newPl, poke>>

\* isReady: 503 until the first sync is recorded.
ReadyGate(q) ==
    /\ mpc = "serving" /\ qat[q] = "begun"
    /\ qat' = [qat EXCEPT ![q] = IF Synced THEN "admitted" ELSE "refused"]
    /\ UNCHANGED <<environment, mpc, mload, enforced, status, ppc, resp, newPl, poke,
                   qpl>>

\* The deferred finish: EmitAudit through the snapshot's callback, if it has one.
FinishRequest(q) ==
    /\ mpc = "serving" /\ qat[q] \in {"admitted", "refused"}
    /\ qat' = [qat EXCEPT ![q] = IF qpl[q].audit THEN "audited" ELSE "unaudited"]
    /\ UNCHANGED <<environment, mpc, mload, enforced, status, ppc, resp, newPl, poke,
                   qpl>>

\* The goroutine serves the next request.
NextRequest(q) ==
    /\ qat[q] \in {"audited", "unaudited"}
    /\ qat' = [qat EXCEPT ![q] = "idle"]
    /\ qpl' = [qpl EXCEPT ![q] = Empty]
    /\ UNCHANGED <<environment, mpc, mload, enforced, status, ppc, resp, newPl, poke>>

-----------------------------------------------------------------------------
\* The control plane assigns another config, or revokes the proxy.
Assign ==
    /\ ~revoked
    /\ cp' \in Versions \ {cp}
    /\ UNCHANGED <<revoked, mpc, mload, enforced, status, ppc, resp, newPl, poke, inFlight>>

Revoke ==
    /\ ~revoked /\ revoked' = TRUE
    /\ UNCHANGED <<cp, mpc, mload, enforced, status, ppc, resp, newPl, poke, inFlight>>

Main == InitSynced \/ InitUnsynced \/ InitRevoked \/ MainLoad \/ MainSetAudit
        \/ MainStart \/ MainFatal
Poller ==
    \/ PollFetch \/ PollError \/ PollRevoked
    \/ ApplyPipeline \/ StorePipeline \/ ApplyMCP \/ ApplyPostgres \/ Record
    \/ WakeTimer \/ WakePoke
Request(q) == beginPipelineRun(q) \/ ReadyGate(q) \/ FinishRequest(q) \/ NextRequest(q)

SyncNext == Main \/ Poller \/ Poke \/ Assign \/ Revoke \/ \E q \in Clients : Request(q)

\* Goroutines that can run do; the timer fires; select is fair between a ready
\* timer and a waiting poke; a control plane that is asked again and again
\* answers again and again.
SyncFairness ==
    /\ WF_syncVars(Main) /\ WF_syncVars(Poller)
    /\ SF_syncVars(PollFetch) /\ SF_syncVars(WakePoke)

SyncSpec == SyncInit /\ [][SyncNext]_syncVars
FairSyncSpec == SyncSpec /\ SyncFairness

-----------------------------------------------------------------------------
Holds(k, c) == CASE k = "pipeline" -> pl.cfg = c
                 [] k = "mcp" -> mcpPolicy = c
                 [] k = "postgres" -> pg = c

\* "an invalid push from the control plane must not take down the proxy"
\* (main.go:559-560): no holder ever enforces a block that did not build, in
\* whatever order configs come, fail and come back.
KeepsLastGood ==
    \A c \in Versions, k \in Components : Holds(k, c) => Payload[c][k] # "bad"

\* Status serves to "verify which principal's config this proxy is actually
\* enforcing" (poller.go:29): after start-up the hash moves only when every block
\* the new config brings has been accepted and is in force, but for a postgres
\* server that main's Start has taken the place of.
StatusMeansApplied ==
    [][mpc # "init" /\ status' # status =>
         \A k \in Components :
            /\ Payload[status'][k] # "bad"
            /\ Payload[status'][k] = "ok" =>
                  Holds(k, status') \/ (k = "postgres" /\ pg = pgListener)]_syncVars

Whole(c) == \A k \in Components : Payload[c][k] = "ok"
Enforces(c) == \A k \in Components : Holds(k, c)
Settled(c) == cp = c /\ ~revoked /\ mpc # "down"

\* If the control plane settles on a config that builds while the proxy, up and
\* between two syncs, reports another one, the proxy comes to report and enforce
\* it for good, whatever failed or was half applied before.
Converges ==
    \A c \in Versions :
        Whole(c) =>
            (([]Settled(c) /\ status # c /\ mpc = "serving" /\ ppc \in {"sync", "wait"})
                ~> [](status = c /\ Enforces(c)))

\* "requests can never pass through un-transformed ... during startup"
\* (proxy.go:97-98): a request the gate admits runs on a pipeline built from a
\* control-plane config.
NeverUntransformed ==
    \A q \in Clients : qat[q] = "admitted" => qpl[q].cfg # NoConfig

\* "AuditFunc is called after every request completes" (pipeline.go:15).
EveryRequestAudited == \A q \in Clients : qat[q] # "unaudited"
=============================================================================

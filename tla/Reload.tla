------------------------------- MODULE Reload -------------------------------
(***************************************************************************)
(* POST /v1/reload in standalone mode (newReloadFunc, handleReload) and    *)
(* the placeholders whose secret is still to be installed                  *)
(* (transform/secrets/pending.go, newFromConfig): a request that carries   *)
(* one is held on a slot that outlives pipelines, until some later build   *)
(* of the secrets transform installs the secret.                           *)
(*                                                                         *)
(* Handlers of concurrent reloads and requests interleave; the slot table  *)
(* has a mutex, each holder is one atomic pointer.  A secret is named by   *)
(* the config whose entry it came from.                                    *)
(***************************************************************************)
EXTENDS Naturals

CONSTANTS
    Configs, InitialCfg, \* YAML configs; the one the process started with
    FailStage,   \* [Configs -> Stages]: the first step of a reload that refuses it
    Installed,   \* [Configs -> SUBSET Values]: placeholders with a secret
    Pending,     \* [Configs -> SUBSET Values]: placeholders declared pending
    Scans,       \* [Configs -> BOOLEAN]: its entries look at the request's header
    Values,      \* placeholders
    Slots,       \* identities of pendingSlot objects
    None,        \* nil
    Reloaders, Requests, \* handler goroutines
    MaxReloads   \* bound: reloads of a behaviour

Stages == {"none", "load", "pending", "transform", "mcp", "gateway", "postgres"}

ASSUME ReloadConstants ==
    /\ None \notin Configs \cup Slots
    /\ Configs \cap {"none", "refused", "placeholder"} = {}
    /\ FailStage \in [Configs -> Stages]
    /\ Installed \in [Configs -> SUBSET Values]
    /\ Pending \in [Configs -> SUBSET Values]
    /\ Scans \in [Configs -> BOOLEAN]
    /\ InitialCfg \in Configs /\ FailStage[InitialCfg] = "none"
    /\ Pending[InitialCfg] = {}
    /\ MaxReloads \in Nat

VARIABLES
    byValue, resolved,          \* pendingSlots; each slot's secret (ready is closed
                                \* exactly when it has one)
    plCfg, plSlot,              \* the pipeline in force: its config and its slots
    mcp, gateway, postgres,     \* the other holders
    rpc, rcfg, rslot, rtodo,    \* reloads: position, config, slots, loop
    started,                    \* reloads started so far
    overlapped,                 \* two reloads have run at the same time
    qpc, qv, qcfg, qslot, qsec, \* requests: position, placeholder, snapshot, secret
    out                         \* what left: a secret, the placeholder, or nothing

holders == <<plCfg, plSlot, mcp, gateway, postgres>>
slots == <<byValue, resolved>>
reloads == <<rpc, rcfg, rslot, rtodo, started, overlapped>>
requests == <<qpc, qv, qcfg, qslot, qsec, out>>
vars == <<slots, holders, reloads, requests>>

MaybeSlot == Slots \cup {None}
MaybeCfg == Configs \cup {None}
NoSlots == [v \in Values |-> None]

\* A slot some goroutine, pipeline or the table still points to.
Referenced(v, s) ==
    \/ byValue[v] = s \/ plSlot[v] = s
    \/ \E r \in Reloaders : rslot[r][v] = s
    \/ \E q \in Requests : qv[q] = v /\ qslot[q] = s

\* A newly allocated slot: any one nothing refers to.
Fresh(v) == CHOOSE s \in Slots : ~Referenced(v, s)
CanAllocate(v) == \E s \in Slots : ~Referenced(v, s)

\* The table's slot for v has no secret yet.
Waiting(v) == byValue[v] # None /\ resolved[v][byValue[v]] = None

-----------------------------------------------------------------------------
Init ==
    /\ byValue = NoSlots
    /\ resolved = [v \in Values |-> [s \in Slots |-> None]]
    /\ plCfg = InitialCfg /\ plSlot = NoSlots
    /\ mcp = InitialCfg /\ gateway = InitialCfg /\ postgres = InitialCfg
    /\ rpc = [r \in Reloaders |-> "idle"]
    /\ rcfg = [r \in Reloaders |-> InitialCfg]
    /\ rslot = [r \in Reloaders |-> NoSlots]
    /\ rtodo = [r \in Reloaders |-> {}]
    /\ started = 0 /\ overlapped = FALSE
    /\ qpc = [q \in Requests |-> "idle"]
    /\ qv \in [Requests -> Values]
    /\ qcfg = [q \in Requests |-> InitialCfg]
    /\ qslot = [q \in Requests |-> None]
    /\ qsec = [q \in Requests |-> None]
    /\ out = [q \in Requests |-> "none"]

-----------------------------------------------------------------------------
(* A reload.                                                               *)

Goto(r, pc) == rpc' = [rpc EXCEPT ![r] = pc]

\* The handler returns; what it built is in a holder or garbage.
Finish(r) ==
    /\ Goto(r, "idle")
    /\ rcfg' = [rcfg EXCEPT ![r] = InitialCfg]
    /\ rslot' = [rslot EXCEPT ![r] = NoSlots]
    /\ rtodo' = [rtodo EXCEPT ![r] = {}]

\* LoadConfig, Validate and the entries of the secrets block of cfg, which is
\* what the host last wrote to the file; a refusal so far is a 422 with nothing
\* done.  Then the pending entries that have no secret are compiled.
StartReload(r, cfg) ==
    /\ rpc[r] = "idle" /\ FailStage[cfg] # "load"
    /\ started < MaxReloads /\ started' = started + 1
    /\ rcfg' = [rcfg EXCEPT ![r] = cfg]
    /\ rtodo' = [rtodo EXCEPT ![r] = Pending[cfg] \ Installed[cfg]]
    /\ overlapped' = (overlapped \/ \E o \in Reloaders : rpc[o] # "idle")
    /\ Goto(r, "declare")
    /\ UNCHANGED <<slots, holders, rslot, requests>>

\* MUTANT: every declaration starts a new wait.
declarePendingFresh(r, v) ==
    /\ rpc[r] = "declare" /\ v \in rtodo[r]
    /\ rtodo' = [rtodo EXCEPT ![r] = @ \ {v}]
    /\ CanAllocate(v)
    /\ LET s == Fresh(v) IN
       /\ byValue' = [byValue EXCEPT ![v] = s]
       /\ resolved' = [resolved EXCEPT ![v][s] = None]
       /\ rslot' = [rslot EXCEPT ![r][v] = s]
    /\ UNCHANGED <<holders, rpc, rcfg, started, overlapped, requests>>

\* declarePending: the slot that is still waiting, or a new one.
declarePending(r, v) ==
    /\ rpc[r] = "declare" /\ v \in rtodo[r]
    /\ rtodo' = [rtodo EXCEPT ![r] = @ \ {v}]
    /\ \/ /\ Waiting(v)
          /\ rslot' = [rslot EXCEPT ![r][v] = byValue[v]]
          /\ UNCHANGED slots
       \/ /\ ~Waiting(v)
          /\ CanAllocate(v)
          /\ LET s == Fresh(v) IN
             /\ byValue' = [byValue EXCEPT ![v] = s]
             /\ resolved' = [resolved EXCEPT ![v][s] = None]
             /\ rslot' = [rslot EXCEPT ![r][v] = s]
    /\ UNCHANGED <<holders, rpc, rcfg, started, overlapped, requests>>

\* compilePending refuses an entry, after any number of others: 422.
PendingRefused(r) ==
    /\ rpc[r] = "declare" /\ FailStage[rcfg[r]] = "pending"
    /\ Finish(r)
    /\ UNCHANGED <<slots, holders, started, overlapped, requests>>

PendingCompiled(r) ==
    /\ rpc[r] = "declare" /\ rtodo[r] = {} /\ FailStage[rcfg[r]] # "pending"
    /\ Goto(r, "install")
    /\ rtodo' = [rtodo EXCEPT ![r] = Installed[rcfg[r]]]
    /\ UNCHANGED <<slots, holders, rcfg, rslot, started, overlapped, requests>>

\* MUTANT: only the pipeline the reload builds learns of the secret.
installPendingNot(r, v) ==
    /\ rpc[r] = "install" /\ v \in rtodo[r]
    /\ rtodo' = [rtodo EXCEPT ![r] = @ \ {v}]
    /\ UNCHANGED <<slots, holders, rpc, rcfg, rslot, started, overlapped, requests>>

\* installPending, for one installed placeholder.
installPending(r, v) ==
    /\ rpc[r] = "install" /\ v \in rtodo[r]
    /\ rtodo' = [rtodo EXCEPT ![r] = @ \ {v}]
    /\ resolved' = IF Waiting(v)
                   THEN [resolved EXCEPT ![v][byValue[v]] = rcfg[r]] ELSE resolved
    /\ UNCHANGED <<byValue, holders, rpc, rcfg, rslot, started, overlapped, requests>>

\* The rest of buildPipeline, the MCP policy, the gateway and the postgres
\* listener build, or one of them refuses the config: 422.
BuildRest(r) ==
    /\ rpc[r] = "install" /\ rtodo[r] = {}
    /\ \/ FailStage[rcfg[r]] = "none" /\ Goto(r, "pipeline") /\ UNCHANGED <<rcfg, rslot, rtodo>>
       \/ FailStage[rcfg[r]] # "none" /\ Finish(r)
    /\ UNCHANGED <<slots, holders, started, overlapped, requests>>

SwapPipeline(r) ==
    /\ rpc[r] = "pipeline"
    /\ plCfg' = rcfg[r] /\ plSlot' = rslot[r]
    /\ Goto(r, "mcp")
    /\ UNCHANGED <<slots, mcp, gateway, postgres, rcfg, rslot, rtodo, started,
                   overlapped, requests>>

SwapMCP(r) ==
    /\ rpc[r] = "mcp"
    /\ mcp' = rcfg[r]
    /\ Goto(r, "gateway")
    /\ UNCHANGED <<slots, plCfg, plSlot, gateway, postgres, rcfg, rslot, rtodo,
                   started, overlapped, requests>>

\* MUTANT: a config whose gateway the process already has returns early.
SwapGatewayEarly(r) ==
    /\ rpc[r] = "gateway"
    /\ gateway' = rcfg[r]
    /\ Finish(r)
    /\ UNCHANGED <<slots, plCfg, plSlot, mcp, postgres, started, overlapped, requests>>

SwapGateway(r) ==
    /\ rpc[r] = "gateway"
    /\ gateway' = rcfg[r]
    /\ Goto(r, "postgres")
    /\ UNCHANGED <<slots, plCfg, plSlot, mcp, postgres, rcfg, rslot, rtodo,
                   started, overlapped, requests>>

\* pgManager.Reload; the handler answers 200.
SwapPostgres(r) ==
    /\ rpc[r] = "postgres"
    /\ postgres' = rcfg[r]
    /\ Finish(r)
    /\ UNCHANGED <<slots, plCfg, plSlot, mcp, gateway, started, overlapped, requests>>

-----------------------------------------------------------------------------
(* A request through the secrets transform: TransformRequest and           *)
(* waitForPending.                                                         *)

\* The request snapshots the pipeline; a pending entry of it applies or not.
BeginRequest(q, v) ==
    /\ qpc[q] = "idle"
    /\ qv' = [qv EXCEPT ![q] = v]
    /\ qcfg' = [qcfg EXCEPT ![q] = plCfg]
    /\ qslot' = [qslot EXCEPT ![q] = plSlot[v]]
    /\ qsec' = [qsec EXCEPT ![q] = None]
    /\ out' = [out EXCEPT ![q] = "none"]
    /\ qpc' = [qpc EXCEPT ![q] = IF plSlot[v] # None THEN "pending" ELSE "secrets"]
    /\ UNCHANGED <<slots, holders, reloads>>

Ready(q) == resolved[qv[q]][qslot[q]] # None

\* The first select: ready, or wait.
CheckReady(q) ==
    /\ qpc[q] = "pending"
    /\ qpc' = [qpc EXCEPT ![q] = IF Ready(q) THEN "installed" ELSE "wait"]
    /\ UNCHANGED <<slots, holders, reloads, qv, qcfg, qslot, qsec, out>>

\* The second select: the slot is resolved.
WakeReady(q) ==
    /\ qpc[q] = "wait" /\ Ready(q)
    /\ qpc' = [qpc EXCEPT ![q] = "installed"]
    /\ UNCHANGED <<slots, holders, reloads, qv, qcfg, qslot, qsec, out>>

\* The request ends with o; its transform no longer refers to the slot.
Leave(q, o) ==
    /\ out' = [out EXCEPT ![q] = o]
    /\ qpc' = [qpc EXCEPT ![q] = "end"]

\* The second select: pending_wait passed or the request was cancelled: 503.
WakeTimeout(q) ==
    /\ qpc[q] = "wait"
    /\ Leave(q, "refused")
    /\ UNCHANGED <<slots, holders, reloads, qv, qcfg, qslot, qsec>>

\* What leaves when the secret s is swapped in: the entry may not look at the
\* header that carries the placeholder.
Swapped(s) == IF Scans[s] THEN s ELSE "placeholder"

\* MUTANT: a secret that cannot be read is skipped.
SwapInstalledOpen(q) ==
    /\ qpc[q] = "installed"
    /\ LET s == resolved[qv[q]][qslot[q]] IN
       /\ qsec' = [qsec EXCEPT ![q] = s]
       /\ \E o \in {Swapped(s), "placeholder"} : Leave(q, o)
    /\ UNCHANGED <<slots, holders, reloads, qv, qcfg, qslot>>

\* The installed secret is read and swapped in, or cannot be read: 503.
SwapInstalled(q) ==
    /\ qpc[q] = "installed"
    /\ LET s == resolved[qv[q]][qslot[q]] IN
       /\ qsec' = [qsec EXCEPT ![q] = s]
       /\ \E o \in {Swapped(s), "refused"} : Leave(q, o)
    /\ UNCHANGED <<slots, holders, reloads, qv, qcfg, qslot>>

\* The loop over the snapshot's own secrets: swapped, refused (require), or left
\* alone when its value cannot be read or no entry names it.
SwapSecrets(q) ==
    /\ qpc[q] = "secrets"
    /\ \E o \in IF qv[q] \in Installed[qcfg[q]]
                THEN {Swapped(qcfg[q]), "refused", "placeholder"} ELSE {"placeholder"} :
          Leave(q, o)
    /\ UNCHANGED <<slots, holders, reloads, qv, qcfg, qslot, qsec>>

\* The request is over; the goroutine's references are gone.
EndRequest(q) ==
    /\ qpc[q] = "end"
    /\ qpc' = [qpc EXCEPT ![q] = "idle"]
    /\ qcfg' = [qcfg EXCEPT ![q] = InitialCfg]
    /\ qslot' = [qslot EXCEPT ![q] = None]
    /\ qsec' = [qsec EXCEPT ![q] = None]
    /\ out' = [out EXCEPT ![q] = "none"]
    /\ UNCHANGED <<slots, holders, reloads, qv>>

-----------------------------------------------------------------------------
ReloadStep(r) ==
    \/ \E cfg \in Configs : StartReload(r, cfg)
    \/ \E v \in Values : declarePending(r, v) \/ installPending(r, v)
    \/ PendingRefused(r) \/ PendingCompiled(r) \/ BuildRest(r)
    \/ SwapPipeline(r) \/ SwapMCP(r) \/ SwapGateway(r) \/ SwapPostgres(r)

RequestStep(q) ==
    \/ \E v \in Values : BeginRequest(q, v)
    \/ CheckReady(q) \/ WakeReady(q) \/ WakeTimeout(q)
    \/ SwapInstalled(q) \/ SwapSecrets(q) \/ EndRequest(q)

Next ==
    \/ \E r \in Reloaders : ReloadStep(r)
    \/ \E q \in Requests : RequestStep(q)

\* Goroutines that can run do.  Neither a timeout nor a cancellation is counted
\* on, and nobody has to reload.
Fairness ==
    /\ \A r \in Reloaders : WF_vars(rpc[r] # "idle" /\ ReloadStep(r))
    /\ \A q \in Requests :
          WF_vars(CheckReady(q)) /\ WF_vars(WakeReady(q)) /\ WF_vars(SwapInstalled(q))

Spec == Init /\ [][Next]_vars
FairSpec == Spec /\ Fairness

-----------------------------------------------------------------------------
Outcomes == {"none", "refused", "placeholder"} \cup Configs

TypeOK ==
    /\ byValue \in [Values -> MaybeSlot]
    /\ resolved \in [Values -> [Slots -> MaybeCfg]]
    /\ plCfg \in Configs /\ plSlot \in [Values -> MaybeSlot]
    /\ mcp \in Configs /\ gateway \in Configs /\ postgres \in Configs
    /\ rpc \in [Reloaders -> {"idle", "declare", "install", "pipeline", "mcp", "gateway",
                              "postgres"}]
    /\ rcfg \in [Reloaders -> Configs]
    /\ rslot \in [Reloaders -> [Values -> MaybeSlot]]
    /\ rtodo \in [Reloaders -> SUBSET Values]
    /\ started \in 0..MaxReloads /\ overlapped \in BOOLEAN
    /\ qpc \in [Requests -> {"idle", "pending", "wait", "installed", "secrets", "end"}]
    /\ qv \in [Requests -> Values]
    /\ qcfg \in [Requests -> Configs]
    /\ qslot \in [Requests -> MaybeSlot]
    /\ qsec \in [Requests -> MaybeCfg]
    /\ out \in [Requests -> Outcomes]

\* A slot that is still waiting is the one the table knows: whatever pipelines
\* were built, refused or swapped meanwhile, an install reaches every request
\* held on the placeholder and every pipeline that will hold one.
WaitersReachable ==
    \A v \in Values, s \in Slots :
        Referenced(v, s) /\ resolved[v][s] = None => byValue[v] = s

\* "ready closes once" (pending.go:48): a secret, once installed in a slot that
\* somebody still refers to, is never replaced; a second close would panic.
ResolvedOnce ==
    [][\A v \in Values, s \in Slots :
         Referenced(v, s) /\ resolved[v][s] # None => resolved'[v][s] = resolved[v][s]]_vars

\* "It fails closed: on timeout, a failed read of the installed secret, or a
\* cancelled request, the placeholder never leaves" (pending.go:154): a request
\* held on a placeholder leaves with it only when the entry that was installed
\* does not look at the header it is in.
PendingFailsClosed ==
    \A q \in Requests :
        out[q] = "placeholder" /\ qslot[q] # None => qsec[q] # None /\ ~Scans[qsec[q]]

\* Reloads that do not overlap swap all components or none, and never one of a
\* config some component refused ("Validation runs for every component before
\* any state is mutated", main.go:710).
ComponentsAgree ==
    /\ FailStage[plCfg] = "none"
    /\ ~overlapped /\ (\A r \in Reloaders : rpc[r] = "idle")
          => {plCfg, mcp, gateway, postgres} = {plCfg}

\* Reloads that do not overlap: once the pipeline in force has the secret, a
\* request held on the placeholder under an earlier one goes on, without the
\* help of its timeout.
InstallReleases ==
    \A q \in Requests, v \in Values :
        (qpc[q] = "wait" /\ qv[q] = v /\ v \in Installed[plCfg] /\ ~overlapped)
            ~> (qpc[q] # "wait" \/ overlapped)

\* A config that is refused leaves "the existing state ... untouched" (main.go:
\* 710) and "installs nothing" (secrets.go:324): no request leaves with a secret
\* of such a config.
RefusedInstallsNothing ==
    \A q \in Requests : out[q] \in Configs => FailStage[out[q]] = "none"

-----------------------------------------------------------------------------
(* The strengthening that makes the safety invariants inductive.           *)

\* Where a request is says what it holds: a request that goes on to swap has a
\* resolved slot, and nothing leaves before the end.
HeldInv ==
    \A q \in Requests :
        /\ qpc[q] \in {"pending", "wait", "installed"} => qslot[q] # None
        /\ qpc[q] = "installed" => Ready(q)
        /\ qpc[q] = "secrets" => qslot[q] = None
        /\ qpc[q] # "end" => out[q] = "none"

IInv == TypeOK /\ WaitersReachable /\ HeldInv /\ PendingFailsClosed
=============================================================================

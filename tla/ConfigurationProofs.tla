---------------------------- MODULE ConfigurationProofs ----------------------------
(* How a configuration comes into force, for any set of configs, placeholders, *)
(* reloads and requests. Reload: types, the reachability of every waiting      *)
(* slot, single resolution, that a held request fails closed and that reloads  *)
(* swap all components or none. ManagedSync: what the holders enforce always   *)
(* built, and the reported hash means what it says.                            *)
EXTENDS Reload, ManagedSync, TLAPS

\* A slot that is allocated is one nothing referred to.
LEMMA FreshSlot ==
    ASSUME NEW v \in Values, CanAllocate(v)
    PROVE  Fresh(v) \in Slots /\ ~Referenced(v, Fresh(v))
  BY DEF CanAllocate, Fresh

\* A swap yields an outcome, and the placeholder only if the entry does not scan.
LEMMA SwappedOutcome ==
    ASSUME NEW s \in Configs
    PROVE  /\ Swapped(s) \in Outcomes
           /\ Swapped(s) = "placeholder" => ~Scans[s]
           /\ Swapped(s) # "none"
  BY ReloadConstants DEF Swapped, Outcomes

\* The initial states satisfy the inductive invariant.
LEMMA InitIInv == Init => IInv
  <1> SUFFICES ASSUME Init PROVE IInv
    OBVIOUS
  <1>1. TypeOK
    <2>1. overlapped \in BOOLEAN
      BY Zenon DEF Init
    <2> QED BY <2>1, ReloadConstants
        DEF Init, TypeOK, MaybeSlot, MaybeCfg, NoSlots, Outcomes
  <1>2. WaitersReachable
    BY ReloadConstants DEF Init, WaitersReachable, Referenced, NoSlots
  <1>3. HeldInv /\ PendingFailsClosed
    BY DEF Init, HeldInv, PendingFailsClosed
  <1> QED BY <1>1, <1>2, <1>3 DEF IInv

\* A handler that returns leaves its locals in their types.
LEMMA FinishType ==
    ASSUME TypeOK, NEW r \in Reloaders, Finish(r)
    PROVE  /\ rpc' \in [Reloaders -> {"idle", "declare", "install", "pipeline", "mcp",
                                      "gateway", "postgres"}]
           /\ rcfg' \in [Reloaders -> Configs]
           /\ rslot' \in [Reloaders -> [Values -> MaybeSlot]]
           /\ rtodo' \in [Reloaders -> SUBSET Values]
  <1>1. NoSlots \in [Values -> MaybeSlot]
    BY DEF NoSlots, MaybeSlot
  <1>2. rslot' \in [Reloaders -> [Values -> MaybeSlot]]
    BY <1>1 DEF TypeOK, Finish
  <1> QED BY <1>2, ReloadConstants DEF TypeOK, Finish, Goto

\* Only the start of a reload changes the overlap flag.
LEMMA OverlapStep == TypeOK /\ [Next]_vars => overlapped' \in BOOLEAN
  <1> SUFFICES ASSUME TypeOK, [Next]_vars PROVE overlapped' \in BOOLEAN
    OBVIOUS
  <1>1. overlapped \in BOOLEAN
    BY Zenon DEF TypeOK
  <1>2. ASSUME overlapped' = overlapped PROVE overlapped' \in BOOLEAN
    BY <1>1, <1>2
  <1>3. ASSUME NEW r \in Reloaders, NEW cfg \in Configs, StartReload(r, cfg)
        PROVE  overlapped' \in BOOLEAN
    BY <1>3, Zenon DEF StartReload
  <1>4. ASSUME NEW r \in Reloaders, NEW v \in Values,
               declarePending(r, v) \/ installPending(r, v)
        PROVE  overlapped' = overlapped
    BY <1>4 DEF declarePending, installPending
  <1>5. ASSUME NEW r \in Reloaders,
               PendingRefused(r) \/ PendingCompiled(r) \/ BuildRest(r)
               \/ SwapPipeline(r) \/ SwapMCP(r) \/ SwapGateway(r) \/ SwapPostgres(r)
        PROVE  overlapped' = overlapped
    BY <1>5 DEF PendingRefused, PendingCompiled, BuildRest, SwapPipeline, SwapMCP,
        SwapGateway, SwapPostgres
  <1>6. ASSUME NEW q \in Requests, RequestStep(q) PROVE overlapped' = overlapped
    BY <1>6 DEF RequestStep, BeginRequest, CheckReady, WakeReady, WakeTimeout,
        SwapInstalled, SwapSecrets, EndRequest, reloads
  <1>7. CASE UNCHANGED vars
    BY <1>2, <1>7 DEF vars, reloads
  <1> QED BY <1>2, <1>3, <1>4, <1>5, <1>6, <1>7 DEF Next, ReloadStep

\* A request that ends keeps the types.
LEMMA Departs ==
    ASSUME TypeOK, NEW q \in Requests, NEW o \in Outcomes, Leave(q, o),
           UNCHANGED <<slots, holders, reloads, qv, qcfg, qslot>>,
           qsec' = qsec \/ qsec' \in [Requests -> MaybeCfg]
    PROVE  TypeOK'
  <1>1. out' = [out EXCEPT ![q] = o] /\ qpc' = [qpc EXCEPT ![q] = "end"]
    BY DEF Leave
  <1>2. out' \in [Requests -> Outcomes] /\ qsec' \in [Requests -> MaybeCfg]
    BY <1>1 DEF TypeOK
  <1>3. qpc' \in [Requests -> {"idle", "pending", "wait", "installed", "secrets", "end"}]
    BY <1>1 DEF TypeOK
  <1> QED BY <1>2, <1>3 DEF TypeOK, slots, holders, reloads

\* The secret a request swaps in was installed.
LEMMA SecretInstalled ==
    ASSUME TypeOK, HeldInv, NEW q \in Requests, SwapInstalled(q)
    PROVE  resolved[qv[q]][qslot[q]] \in Configs
  <1>1. qpc[q] = "installed"
    BY DEF SwapInstalled
  <1>2. qslot[q] # None /\ resolved[qv[q]][qslot[q]] # None
    BY <1>1 DEF HeldInv, Ready
  <1>3. qv[q] \in Values /\ qslot[q] \in MaybeSlot
    BY DEF TypeOK
  <1>4. resolved \in [Values -> [Slots -> MaybeCfg]]
    BY DEF TypeOK
  <1> QED BY <1>2, <1>3, <1>4 DEF MaybeSlot, MaybeCfg

\* Every step keeps the variables in their types.
LEMMA TypeStep == TypeOK /\ HeldInv /\ [Next]_vars => TypeOK'
  <1> SUFFICES ASSUME TypeOK, HeldInv, [Next]_vars PROVE TypeOK'
    OBVIOUS
  <1>0. overlapped' \in BOOLEAN
    BY OverlapStep
  <1> USE <1>0, ReloadConstants DEF TypeOK, MaybeSlot, MaybeCfg, NoSlots, slots, holders, reloads,
        requests
  <1>1. ASSUME NEW r \in Reloaders, NEW cfg \in Configs, StartReload(r, cfg) PROVE TypeOK'
    BY <1>1 DEF StartReload, Goto
  <1>2. ASSUME NEW r \in Reloaders, NEW v \in Values, declarePending(r, v) PROVE TypeOK'
    <2>1. CASE Waiting(v)
      <3>1. rslot' = [rslot EXCEPT ![r] = [rslot[r] EXCEPT ![v] = byValue[v]]]
        BY <1>2, <2>1 DEF declarePending
      <3>2. [rslot[r] EXCEPT ![v] = byValue[v]] \in [Values -> MaybeSlot]
        OBVIOUS
      <3>3. rslot' \in [Reloaders -> [Values -> MaybeSlot]]
        BY <3>1, <3>2
      <3> QED BY <1>2, <2>1, <3>3 DEF declarePending
    <2>2. CASE ~Waiting(v)
      <3> DEFINE s == Fresh(v)
      <3>1. s \in Slots
        BY <1>2, <2>2, FreshSlot DEF declarePending
      <3>2. /\ rslot' = [rslot EXCEPT ![r] = [rslot[r] EXCEPT ![v] = s]]
            /\ resolved' = [resolved EXCEPT ![v] = [resolved[v] EXCEPT ![s] = None]]
            /\ byValue' = [byValue EXCEPT ![v] = s]
        BY <1>2, <2>2 DEF declarePending
      <3> HIDE DEF s
      <3>3. [rslot[r] EXCEPT ![v] = s] \in [Values -> MaybeSlot]
        BY <3>1
      <3>4. [resolved[v] EXCEPT ![s] = None] \in [Slots -> MaybeCfg]
        OBVIOUS
      <3>5. rslot' \in [Reloaders -> [Values -> MaybeSlot]]
        BY <3>2, <3>3
      <3>6. resolved' \in [Values -> [Slots -> MaybeCfg]]
        BY <3>2, <3>4
      <3>7. byValue' \in [Values -> MaybeSlot]
        BY <3>1, <3>2
      <3> QED BY <1>2, <3>5, <3>6, <3>7 DEF declarePending
    <2> QED BY <2>1, <2>2
  <1>3. ASSUME NEW r \in Reloaders, NEW v \in Values, installPending(r, v) PROVE TypeOK'
    BY <1>3 DEF installPending, Waiting
  <1>4. ASSUME NEW r \in Reloaders,
               PendingRefused(r) \/ PendingCompiled(r) \/ BuildRest(r)
        PROVE  TypeOK'
    <2>1. CASE PendingRefused(r)
      BY <2>1, FinishType DEF PendingRefused
    <2>2. CASE PendingCompiled(r)
      BY <2>2 DEF PendingCompiled, Goto
    <2>3. CASE BuildRest(r) /\ FailStage[rcfg[r]] = "none"
      BY <2>3 DEF BuildRest, Goto
    <2>4. CASE BuildRest(r) /\ FailStage[rcfg[r]] # "none"
      BY <2>4, FinishType DEF BuildRest
    <2> QED BY <1>4, <2>1, <2>2, <2>3, <2>4
  <1>5. ASSUME NEW r \in Reloaders,
               SwapPipeline(r) \/ SwapMCP(r) \/ SwapGateway(r) \/ SwapPostgres(r)
        PROVE  TypeOK'
    <2>1. CASE SwapPipeline(r)
      BY <2>1 DEF SwapPipeline, Goto
    <2>2. CASE SwapMCP(r)
      BY <2>2 DEF SwapMCP, Goto
    <2>3. CASE SwapGateway(r)
      BY <2>3 DEF SwapGateway, Goto
    <2>4. CASE SwapPostgres(r)
      BY <2>4, FinishType DEF SwapPostgres
    <2> QED BY <1>5, <2>1, <2>2, <2>3, <2>4
  <1>6. ASSUME NEW q \in Requests, NEW v \in Values, BeginRequest(q, v) PROVE TypeOK'
    BY <1>6 DEF BeginRequest, Outcomes
  <1>7. ASSUME NEW q \in Requests, CheckReady(q) \/ WakeReady(q) \/ WakeTimeout(q)
        PROVE  TypeOK'
    <2>1. CASE CheckReady(q)
      BY <2>1 DEF CheckReady
    <2>2. CASE WakeReady(q)
      BY <2>2 DEF WakeReady
    <2>3. CASE WakeTimeout(q)
      BY <2>3, Departs DEF WakeTimeout, Outcomes
    <2> QED BY <1>7, <2>1, <2>2, <2>3
  <1>8. ASSUME NEW q \in Requests, SwapSecrets(q) PROVE TypeOK'
    <2>1. PICK o : o \in {Swapped(qcfg[q]), "refused", "placeholder"} /\ Leave(q, o)
      BY <1>8 DEF SwapSecrets
    <2>2. o \in Outcomes
      BY <2>1, SwappedOutcome DEF Outcomes
    <2>3. UNCHANGED <<slots, holders, reloads, qv, qcfg, qslot, qsec>>
      BY <1>8 DEF SwapSecrets
    <2> QED BY <2>1, <2>2, <2>3, Departs
  <1>9. ASSUME NEW q \in Requests, SwapInstalled(q) PROVE TypeOK'
    <2> DEFINE s == resolved[qv[q]][qslot[q]]
    <2>1. s \in Configs
      BY <1>9, SecretInstalled
    <2>2. PICK o : o \in {Swapped(s), "refused"} /\ Leave(q, o)
      BY <1>9 DEF SwapInstalled
    <2>3. o \in Outcomes
      BY <2>1, <2>2, SwappedOutcome DEF Outcomes
    <2>4. UNCHANGED <<slots, holders, reloads, qv, qcfg, qslot>> /\ qsec' = [qsec EXCEPT ![q] = s]
      BY <1>9 DEF SwapInstalled
    <2>5. qsec' \in [Requests -> MaybeCfg]
      BY <2>1, <2>4
    <2> QED BY <2>2, <2>3, <2>4, <2>5, Departs
  <1>10. ASSUME NEW q \in Requests, EndRequest(q) PROVE TypeOK'
    BY <1>10 DEF EndRequest, Outcomes
  <1>11. CASE UNCHANGED vars
    BY <1>11 DEF vars
  <1> QED BY <1>1, <1>2, <1>3, <1>4, <1>5, <1>6, <1>7, <1>8, <1>9, <1>10, <1>11
      DEF Next, ReloadStep, RequestStep

\* "ready closes once": a step changes the secret of a slot only if nothing
\* refers to the slot, or if it had none.
LEMMA ResolveStep ==
    TypeOK /\ [Next]_vars =>
        \A v \in Values, s \in Slots :
            Referenced(v, s) /\ resolved[v][s] # None => resolved'[v][s] = resolved[v][s]
  <1> SUFFICES ASSUME TypeOK, [Next]_vars, NEW v \in Values, NEW s \in Slots,
                      Referenced(v, s), resolved[v][s] # None
               PROVE  resolved'[v][s] = resolved[v][s]
    OBVIOUS
  <1>1. ASSUME NEW r \in Reloaders, NEW u \in Values, declarePending(r, u)
        PROVE  resolved'[v][s] = resolved[v][s]
    <2>1. CASE Waiting(u)
      BY <1>1, <2>1 DEF declarePending, slots
    <2>2. CASE ~Waiting(u)
      <3>1. Fresh(u) \in Slots /\ ~Referenced(u, Fresh(u))
        BY <1>1, <2>2, FreshSlot DEF declarePending
      <3>2. resolved' = [resolved EXCEPT ![u][Fresh(u)] = None]
        BY <1>1, <2>2 DEF declarePending
      <3>3. v # u \/ s # Fresh(u)
        BY <3>1
      <3> QED BY <3>1, <3>2, <3>3 DEF TypeOK
    <2> QED BY <2>1, <2>2
  <1>2. ASSUME NEW r \in Reloaders, NEW u \in Values, installPending(r, u)
        PROVE  resolved'[v][s] = resolved[v][s]
    BY <1>2 DEF installPending, Waiting, TypeOK, MaybeSlot
  <1>3. ASSUME resolved' = resolved PROVE resolved'[v][s] = resolved[v][s]
    BY <1>3
  <1>4. ASSUME NEW r \in Reloaders, NEW cfg \in Configs, StartReload(r, cfg)
        PROVE  resolved' = resolved
    BY <1>4 DEF StartReload, slots
  <1>5. ASSUME NEW r \in Reloaders,
               PendingRefused(r) \/ PendingCompiled(r) \/ BuildRest(r)
               \/ SwapPipeline(r) \/ SwapMCP(r) \/ SwapGateway(r) \/ SwapPostgres(r)
        PROVE  resolved' = resolved
    BY <1>5 DEF PendingRefused, PendingCompiled, BuildRest, SwapPipeline, SwapMCP,
        SwapGateway, SwapPostgres, slots
  <1>6. ASSUME NEW q \in Requests, RequestStep(q) PROVE resolved' = resolved
    BY <1>6 DEF RequestStep, BeginRequest, CheckReady, WakeReady, WakeTimeout,
        SwapInstalled, SwapSecrets, EndRequest, slots
  <1>7. CASE UNCHANGED vars
    BY <1>7 DEF vars, slots
  <1> QED BY <1>1, <1>2, <1>3, <1>4, <1>5, <1>6, <1>7 DEF Next, ReloadStep

\* Every step keeps each waiting slot reachable through the table.  A new
\* reference is a copy of one there was, or of the table's own.
LEMMA ReachStep == TypeOK /\ WaitersReachable /\ [Next]_vars => WaitersReachable'
  <1> SUFFICES ASSUME TypeOK, WaitersReachable, [Next]_vars,
                      NEW v \in Values, NEW s \in Slots,
                      Referenced(v, s)', resolved'[v][s] = None
               PROVE  byValue'[v] = s
    BY DEF WaitersReachable
  <1> USE DEF slots, holders, reloads, requests
  <1>0. s # None
    BY ReloadConstants
  <1>1. ASSUME Referenced(v, s), UNCHANGED slots PROVE byValue'[v] = s
    BY <1>1 DEF WaitersReachable
  <1>2. ASSUME NEW r \in Reloaders, NEW cfg \in Configs, StartReload(r, cfg)
        PROVE  byValue'[v] = s
    BY <1>1, <1>2 DEF StartReload, Referenced
  <1>3. ASSUME NEW r \in Reloaders, NEW u \in Values, declarePending(r, u)
        PROVE  byValue'[v] = s
    <2>1. CASE Waiting(u)
      <3>1. /\ UNCHANGED slots /\ UNCHANGED holders /\ UNCHANGED requests
            /\ rslot' = [rslot EXCEPT ![r][u] = byValue[u]]
        BY <1>3, <2>1 DEF declarePending
      <3>2. ASSUME NEW o \in Reloaders, rslot'[o][v] = s
            PROVE  rslot[o][v] = s \/ byValue[v] = s
        BY <3>1, <3>2 DEF TypeOK
      <3>3. Referenced(v, s)
        BY <3>1, <3>2 DEF Referenced
      <3> QED BY <1>1, <3>1, <3>3
    <2>2. CASE ~Waiting(u)
      <3> DEFINE f == Fresh(u)
      <3>1. f \in Slots /\ ~Referenced(u, f)
        BY <1>3, <2>2, FreshSlot DEF declarePending
      <3>2. /\ UNCHANGED holders /\ UNCHANGED requests
            /\ rslot' = [rslot EXCEPT ![r][u] = f]
            /\ resolved' = [resolved EXCEPT ![u][f] = None]
            /\ byValue' = [byValue EXCEPT ![u] = f]
        BY <1>3, <2>2 DEF declarePending
      <3> HIDE DEF f
      <3>3. CASE v = u /\ s = f
        BY <3>2, <3>3 DEF TypeOK
      <3>4. CASE v # u \/ s # f
        <4>1. resolved[v][s] = None
          BY <3>1, <3>2, <3>4 DEF TypeOK
        <4>2. ASSUME NEW o \in Reloaders, rslot'[o][v] = s PROVE rslot[o][v] = s
          BY <3>2, <3>4, <4>2 DEF TypeOK
        <4>3. byValue'[v] = s => byValue[v] = s
          BY <3>2, <3>4 DEF TypeOK
        <4>4. Referenced(v, s)
          BY <3>2, <4>2, <4>3 DEF Referenced
        <4>5. byValue[v] = s
          BY <4>1, <4>4 DEF WaitersReachable
        <4>6. v # u
          BY <2>2, <1>0, <4>1, <4>5 DEF Waiting
        <4> QED BY <3>2, <4>5, <4>6 DEF TypeOK
      <3> QED BY <3>3, <3>4
    <2> QED BY <2>1, <2>2
  <1>4. ASSUME NEW r \in Reloaders, NEW u \in Values, installPending(r, u)
        PROVE  byValue'[v] = s
    <2>1. Referenced(v, s) /\ byValue' = byValue
      BY <1>4 DEF installPending, Referenced
    <2>2. resolved[v][s] = None
      <3>1. CASE ~Waiting(u)
        BY <1>4, <3>1 DEF installPending
      <3>2. CASE Waiting(u)
        <4>1. resolved' = [resolved EXCEPT ![u][byValue[u]] = rcfg[r]]
          BY <1>4, <3>2 DEF installPending
        <4>2. CASE u # v
          BY <4>1, <4>2 DEF TypeOK
        <4>3. CASE u = v /\ byValue[u] # s
          BY <4>1, <4>3 DEF TypeOK
        <4>4. CASE u = v /\ byValue[u] = s
          BY <3>2, <4>4 DEF Waiting
        <4> QED BY <4>2, <4>3, <4>4
      <3> QED BY <3>1, <3>2
    <2> QED BY <2>1, <2>2 DEF WaitersReachable
  <1>5. ASSUME NEW r \in Reloaders, UNCHANGED <<slots, requests>>, UNCHANGED plSlot,
               UNCHANGED rslot \/ Finish(r)
        PROVE  byValue'[v] = s
    <2>1. ASSUME NEW o \in Reloaders, rslot'[o][v] = s PROVE rslot[o][v] = s
      <3>1. CASE UNCHANGED rslot
        BY <2>1, <3>1
      <3>2. CASE Finish(r)
        <4>1. rslot' = [rslot EXCEPT ![r] = NoSlots]
          BY <3>2 DEF Finish
        <4>2. NoSlots[v] = None
          BY DEF NoSlots
        <4>3. o # r
          BY <1>0, <2>1, <4>1, <4>2 DEF TypeOK
        <4> QED BY <2>1, <4>1, <4>3 DEF TypeOK
      <3> QED BY <1>5, <3>1, <3>2
    <2>2. Referenced(v, s)
      BY <1>5, <2>1 DEF Referenced
    <2> QED BY <1>1, <1>5, <2>2
  <1>6. ASSUME NEW r \in Reloaders,
               PendingRefused(r) \/ PendingCompiled(r) \/ BuildRest(r)
               \/ SwapMCP(r) \/ SwapGateway(r) \/ SwapPostgres(r)
        PROVE  byValue'[v] = s
    <2>1. UNCHANGED <<slots, requests>> /\ UNCHANGED plSlot
      BY <1>6 DEF PendingRefused, PendingCompiled, BuildRest, SwapMCP, SwapGateway,
          SwapPostgres
    <2>2. UNCHANGED rslot \/ Finish(r)
      BY <1>6 DEF PendingRefused, PendingCompiled, BuildRest, SwapMCP, SwapGateway,
          SwapPostgres
    <2> QED BY <1>5, <2>1, <2>2
  <1>7. ASSUME NEW r \in Reloaders, SwapPipeline(r) PROVE byValue'[v] = s
    BY <1>1, <1>7 DEF SwapPipeline, Referenced
  <1>8. ASSUME NEW q \in Requests, NEW u \in Values, BeginRequest(q, u)
        PROVE  byValue'[v] = s
    BY <1>1, <1>8 DEF BeginRequest, Referenced, TypeOK
  <1>9. ASSUME NEW q \in Requests,
               CheckReady(q) \/ WakeReady(q) \/ WakeTimeout(q) \/ SwapInstalled(q)
               \/ SwapSecrets(q)
        PROVE  byValue'[v] = s
    <2>1. UNCHANGED <<slots, holders, reloads, qv, qslot>>
      BY <1>9 DEF CheckReady, WakeReady, WakeTimeout, SwapInstalled, SwapSecrets
    <2>2. Referenced(v, s)
      BY <2>1 DEF Referenced
    <2> QED BY <1>1, <2>1, <2>2
  <1>10. ASSUME NEW q \in Requests, EndRequest(q) PROVE byValue'[v] = s
    BY <1>0, <1>1, <1>10 DEF EndRequest, Referenced, TypeOK
  <1>11. CASE UNCHANGED vars
    BY <1>1, <1>11 DEF vars, Referenced
  <1> QED BY <1>2, <1>3, <1>4, <1>6, <1>7, <1>8, <1>9, <1>10, <1>11
      DEF Next, ReloadStep, RequestStep

\* Every step keeps the requests' bookkeeping: a slot a request found resolved
\* stays resolved while the request refers to it.
LEMMA HeldStep ==
    TypeOK /\ HeldInv /\ PendingFailsClosed /\ [Next]_vars => HeldInv' /\ PendingFailsClosed'
  <1> SUFFICES ASSUME TypeOK, HeldInv, PendingFailsClosed, [Next]_vars
               PROVE  HeldInv' /\ PendingFailsClosed'
    OBVIOUS
  <1> SUFFICES ASSUME NEW p \in Requests
               PROVE  /\ qpc'[p] \in {"pending", "wait", "installed"} => qslot'[p] # None
                      /\ qpc'[p] = "installed" => resolved'[qv'[p]][qslot'[p]] # None
                      /\ qpc'[p] = "secrets" => qslot'[p] = None
                      /\ qpc'[p] # "end" => out'[p] = "none"
                      /\ out'[p] = "placeholder" /\ qslot'[p] # None
                           => qsec'[p] # None /\ ~Scans[qsec'[p]]
    BY DEF HeldInv, PendingFailsClosed, Ready
  <1> DEFINE Kept ==
        /\ qpc'[p] \in {"pending", "wait", "installed"} => qslot'[p] # None
        /\ qpc'[p] = "installed" => resolved'[qv'[p]][qslot'[p]] # None
        /\ qpc'[p] = "secrets" => qslot'[p] = None
        /\ qpc'[p] # "end" => out'[p] = "none"
        /\ out'[p] = "placeholder" /\ qslot'[p] # None
             => qsec'[p] # None /\ ~Scans[qsec'[p]]
  <1> USE DEF slots, holders, reloads, requests
  <1>1. qslot[p] # None /\ Ready(p) => resolved'[qv[p]][qslot[p]] # None
    <2> SUFFICES ASSUME qslot[p] # None, Ready(p) PROVE resolved'[qv[p]][qslot[p]] # None
      OBVIOUS
    <2>1. qv[p] \in Values /\ qslot[p] \in Slots
      BY DEF TypeOK, MaybeSlot
    <2>2. Referenced(qv[p], qslot[p])
      BY Zenon DEF Referenced
    <2> QED BY <2>1, <2>2, ResolveStep DEF Ready
  <1>2. CASE UNCHANGED requests
    BY <1>1, <1>2 DEF HeldInv, PendingFailsClosed, Ready
  <1>3. ASSUME NEW r \in Reloaders, ReloadStep(r) PROVE UNCHANGED requests
    BY <1>3 DEF ReloadStep, StartReload, declarePending, installPending, PendingRefused,
        PendingCompiled, BuildRest, SwapPipeline, SwapMCP, SwapGateway, SwapPostgres
  <1>4. ASSUME NEW q \in Requests, NEW u \in Values, BeginRequest(q, u), UNCHANGED slots
        PROVE  Kept
    BY <1>4 DEF BeginRequest, HeldInv, PendingFailsClosed, Ready, TypeOK
  <1>5. ASSUME NEW q \in Requests,
               CheckReady(q) \/ WakeReady(q) \/ WakeTimeout(q) \/ EndRequest(q)
        PROVE  Kept
    <2>1. CASE CheckReady(q)
      BY <2>1 DEF CheckReady, HeldInv, PendingFailsClosed, Ready, TypeOK
    <2>2. CASE WakeReady(q)
      BY <2>2 DEF WakeReady, HeldInv, PendingFailsClosed, Ready, TypeOK
    <2>3. CASE WakeTimeout(q)
      BY <2>3 DEF WakeTimeout, Leave, HeldInv, PendingFailsClosed, Ready, TypeOK
    <2>4. CASE EndRequest(q)
      BY <2>4 DEF EndRequest, HeldInv, PendingFailsClosed, Ready, TypeOK
    <2> QED BY <1>5, <2>1, <2>2, <2>3, <2>4
  <1>6. ASSUME NEW q \in Requests, SwapInstalled(q)
        PROVE  Kept
    <2> DEFINE s == resolved[qv[q]][qslot[q]]
    <2>0. qv[q] \in Values /\ qslot[q] \in Slots
      BY <1>6, ReloadConstants DEF SwapInstalled, HeldInv, TypeOK, MaybeSlot
    <2>1. s \in Configs /\ s # None
      <3>1. s # None
        BY <1>6 DEF SwapInstalled, HeldInv, Ready
      <3> QED BY <2>0, <3>1 DEF TypeOK, MaybeCfg
    <2>2. PICK o : o \in {Swapped(s), "refused"} /\ Leave(q, o)
      BY <1>6 DEF SwapInstalled
    <2>3. o = "placeholder" => ~Scans[s]
      BY <2>1, <2>2, SwappedOutcome
    <2>4. /\ qsec' = [qsec EXCEPT ![q] = s]
          /\ UNCHANGED <<slots, qv, qslot>>
      BY <1>6 DEF SwapInstalled
    <2> HIDE DEF s
    <2> QED BY <2>1, <2>2, <2>3, <2>4 DEF Leave, HeldInv, PendingFailsClosed, Ready, TypeOK
  <1>7. ASSUME NEW q \in Requests, SwapSecrets(q)
        PROVE  Kept
    <2>1. qpc' = [qpc EXCEPT ![q] = "end"] /\ UNCHANGED <<slots, qv, qslot, qsec>>
      BY <1>7 DEF SwapSecrets, Leave
    <2>2. PICK o : out' = [out EXCEPT ![q] = o]
      BY <1>7 DEF SwapSecrets, Leave
    <2>3. qpc[q] = "secrets" /\ qslot[q] = None
      BY <1>7 DEF SwapSecrets, HeldInv
    <2>4. CASE p = q
      BY <2>1, <2>3, <2>4 DEF TypeOK
    <2>5. CASE p # q
      BY <2>1, <2>2, <2>5 DEF HeldInv, PendingFailsClosed, Ready, TypeOK
    <2> QED BY <2>4, <2>5
  <1>8. CASE UNCHANGED vars
    BY <1>2, <1>8 DEF vars
  <1>9. ASSUME NEW q \in Requests, NEW u \in Values, BeginRequest(q, u) PROVE UNCHANGED slots
    BY <1>9 DEF BeginRequest
  <1> QED BY <1>2, <1>3, <1>4, <1>5, <1>6, <1>7, <1>8, <1>9 DEF Next, RequestStep

\* The inductive invariant holds in every reachable state.
THEOREM IInvInvariant == Spec => []IInv
  <1>1. IInv /\ [Next]_vars => IInv'
    BY TypeStep, ReachStep, HeldStep DEF IInv
  <1> QED BY InitIInv, <1>1, PTL DEF Spec

\* Type correctness.
THEOREM TypeCorrect == Spec => []TypeOK
  <1>1. IInv => TypeOK
    BY DEF IInv
  <1> QED BY IInvInvariant, <1>1, PTL

\* Every waiting slot is the table's: installPending releases every request
\* that waits for the placeholder, across any number of swapped pipelines.
THEOREM Reachability == Spec => []WaitersReachable
  <1>1. IInv => WaitersReachable
    BY DEF IInv
  <1> QED BY IInvInvariant, <1>1, PTL

\* waitForPending fails closed: the placeholder leaves only past an installed
\* entry that does not look at it.
THEOREM HeldFailClosed == Spec => []PendingFailsClosed
  <1>1. IInv => PendingFailsClosed
    BY DEF IInv
  <1> QED BY IInvInvariant, <1>1, PTL

\* "ready closes once": no step resolves a slot in use a second time.
THEOREM SingleResolution == Spec => ResolvedOnce
  <1>1. TypeOK /\ [Next]_vars =>
          [\A v \in Values, s \in Slots :
             Referenced(v, s) /\ resolved[v][s] # None
               => resolved'[v][s] = resolved[v][s]]_vars
    BY ResolveStep
  <1> QED BY TypeCorrect, <1>1, PTL DEF Spec, ResolvedOnce

-----------------------------------------------------------------------------
Swapping == {"pipeline", "mcp", "gateway", "postgres"}

\* A reload that swaps has a config every component accepted. While reloads do not
\* overlap at most one runs, and what it has swapped so far is of its config; before
\* it swaps the first component all of them agree.
AgreeInv ==
    /\ FailStage[plCfg] = "none"
    /\ \A r \in Reloaders : rpc[r] \in Swapping => FailStage[rcfg[r]] = "none"
    /\ ~overlapped =>
          /\ \A r, s \in Reloaders : rpc[r] # "idle" /\ rpc[s] # "idle" => r = s
          /\ (\A r \in Reloaders : rpc[r] \notin {"mcp", "gateway", "postgres"}) =>
                mcp = plCfg /\ gateway = plCfg /\ postgres = plCfg
          /\ \A r \in Reloaders :
                /\ rpc[r] \in {"mcp", "gateway", "postgres"} => plCfg = rcfg[r]
                /\ rpc[r] \in {"gateway", "postgres"} => mcp = rcfg[r]
                /\ rpc[r] = "postgres" => gateway = rcfg[r]

Late == {"mcp", "gateway", "postgres"}

\* A running reload that goes to l keeps AgreeInv if what it leaves is right: the
\* others are idle, or overlap is recorded.
LEMMA AgreeMove ==
    ASSUME TypeOK, AgreeInv, NEW r \in Reloaders, NEW l, rpc[r] # "idle",
           rpc' = [rpc EXCEPT ![r] = l], overlapped' = overlapped,
           \A s \in Reloaders : s # r => rcfg'[s] = rcfg[s],
           FailStage[plCfg'] = "none", l \in Swapping => FailStage[rcfg'[r]] = "none",
           ~overlapped /\ l \notin Late =>
               mcp' = plCfg' /\ gateway' = plCfg' /\ postgres' = plCfg',
           ~overlapped /\ l \in Late =>
               /\ plCfg' = rcfg'[r]
               /\ l \in {"gateway", "postgres"} => mcp' = rcfg'[r]
               /\ l = "postgres" => gateway' = rcfg'[r]
    PROVE  AgreeInv'
  <1>1. rpc'[r] = l /\ \A s \in Reloaders : s # r => rpc'[s] = rpc[s]
    <2>1. DOMAIN rpc = Reloaders
      BY DEF TypeOK
    <2> QED BY <2>1
  <1>2. ~overlapped => \A s \in Reloaders : s # r => rpc[s] = "idle"
    BY DEF AgreeInv
  <1>3. \A s \in Reloaders : rpc'[s] \in Swapping => FailStage[rcfg'[s]] = "none"
    BY <1>1 DEF AgreeInv
  <1>4. ~overlapped => \A s \in Reloaders : s # r => rpc'[s] = "idle"
    BY <1>1, <1>2
  <1>5. ~overlapped =>
            \A s, o \in Reloaders : rpc'[s] # "idle" /\ rpc'[o] # "idle" => s = o
    BY <1>4
  <1>6. ~overlapped /\ (\A s \in Reloaders : rpc'[s] \notin Late) =>
            mcp' = plCfg' /\ gateway' = plCfg' /\ postgres' = plCfg'
    BY <1>1
  <1>7. ASSUME ~overlapped, NEW s \in Reloaders
        PROVE  /\ rpc'[s] \in Late => plCfg' = rcfg'[s]
               /\ rpc'[s] \in {"gateway", "postgres"} => mcp' = rcfg'[s]
               /\ rpc'[s] = "postgres" => gateway' = rcfg'[s]
    <2>1. CASE s = r
      BY <1>1, <1>7, <2>1 DEF Late
    <2>2. CASE s # r
      BY <1>4, <1>7, <2>2 DEF Late
    <2> QED BY <2>1, <2>2
  <1> QED BY <1>3, <1>5, <1>6, <1>7, Zenon DEF AgreeInv, Late

\* What is in force while r runs alone, and has swapped nothing yet or some.
LEMMA AgreeSoFar ==
    ASSUME AgreeInv, NEW r \in Reloaders, rpc[r] # "idle", ~overlapped
    PROVE  /\ rpc[r] \notin Late => mcp = plCfg /\ gateway = plCfg /\ postgres = plCfg
           /\ rpc[r] \in Late => plCfg = rcfg[r]
           /\ rpc[r] \in {"gateway", "postgres"} => mcp = rcfg[r]
           /\ rpc[r] = "postgres" => gateway = rcfg[r]
  <1>1. \A s \in Reloaders : s # r => rpc[s] = "idle"
    BY DEF AgreeInv
  <1>2. rpc[r] \notin Late => \A s \in Reloaders : rpc[s] \notin Late
    BY <1>1 DEF Late
  <1>3. rpc[r] \notin Late => mcp = plCfg /\ gateway = plCfg /\ postgres = plCfg
    BY <1>2 DEF AgreeInv, Late
  <1>4. /\ rpc[r] \in Late => plCfg = rcfg[r]
        /\ rpc[r] \in {"gateway", "postgres"} => mcp = rcfg[r]
        /\ rpc[r] = "postgres" => gateway = rcfg[r]
    BY DEF AgreeInv, Late
  <1> QED BY <1>3, <1>4

\* Every step of a reload or a request keeps AgreeInv.
LEMMA AgreeStep == TypeOK /\ AgreeInv /\ [Next]_vars => AgreeInv'
  <1> SUFFICES ASSUME TypeOK, AgreeInv, [Next]_vars PROVE AgreeInv'
    OBVIOUS
  <1> USE DEF holders, reloads
  <1>0. /\ FailStage[plCfg] = "none" /\ DOMAIN rpc = Reloaders /\ DOMAIN rcfg = Reloaders
        /\ \A r \in Reloaders : rpc[r] \in Swapping => FailStage[rcfg[r]] = "none"
    BY DEF AgreeInv, TypeOK
  <1>1. ASSUME NEW r \in Reloaders, NEW cfg \in Configs, StartReload(r, cfg) PROVE AgreeInv'
    <2>1. ~overlapped' => ~overlapped /\ \A o \in Reloaders : rpc[o] = "idle"
      BY <1>1, Zenon DEF StartReload
    <2>2. /\ rpc' = [rpc EXCEPT ![r] = "declare"] /\ UNCHANGED <<plCfg, mcp, gateway, postgres>>
          /\ rcfg' = [rcfg EXCEPT ![r] = cfg]
      BY <1>1 DEF StartReload, Goto
    <2>3. /\ rpc'[r] = "declare"
          /\ \A s \in Reloaders : s # r => rpc'[s] = rpc[s] /\ rcfg'[s] = rcfg[s]
      BY <1>0, <2>2
    <2>4. \A s \in Reloaders : rpc'[s] \in Swapping => FailStage[rcfg'[s]] = "none"
      BY <1>0, <2>3 DEF Swapping
    <2>5. ~overlapped' =>
              /\ \A s \in Reloaders : s # r => rpc'[s] = "idle"
              /\ \A s \in Reloaders : rpc'[s] \notin Late
              /\ mcp = plCfg /\ gateway = plCfg /\ postgres = plCfg
      <3>1. SUFFICES ASSUME ~overlapped'
                     PROVE  /\ \A s \in Reloaders : s # r => rpc'[s] = "idle"
                            /\ \A s \in Reloaders : rpc'[s] \notin Late
                            /\ mcp = plCfg /\ gateway = plCfg /\ postgres = plCfg
        OBVIOUS
      <3>2. \A s \in Reloaders : s # r => rpc'[s] = "idle"
        BY <2>1, <2>3, <3>1
      <3>3. \A s \in Reloaders : rpc'[s] \notin Late
        BY <2>3, <3>2 DEF Late
      <3>4. \A s \in Reloaders : rpc[s] \notin Late
        BY <2>1, <3>1 DEF Late
      <3>5. mcp = plCfg /\ gateway = plCfg /\ postgres = plCfg
        BY <2>1, <3>1, <3>4 DEF AgreeInv, Late
      <3> QED BY <3>2, <3>3, <3>5
    <2>6. ~overlapped' =>
              \A s, o \in Reloaders : rpc'[s] # "idle" /\ rpc'[o] # "idle" => s = o
      BY <2>5
    <2>7. ~overlapped' => \A s \in Reloaders : rpc'[s] \notin {"gateway", "postgres"}
      BY <2>5 DEF Late
    <2> QED BY <1>0, <2>2, <2>4, <2>5, <2>6, <2>7 DEF AgreeInv, Late
  <1>2. ASSUME NEW r \in Reloaders, NEW v \in Values, declarePending(r, v) \/ installPending(r, v)
        PROVE  AgreeInv'
    <2>1. UNCHANGED <<holders, rpc, rcfg, overlapped>>
      BY <1>2 DEF declarePending, installPending
    <2> QED BY <2>1 DEF AgreeInv
  <1>3. ASSUME NEW r \in Reloaders, Finish(r), rpc[r] \in {"declare", "install"},
               UNCHANGED <<holders, overlapped>>
        PROVE  AgreeInv'
    <2>1. /\ rpc' = [rpc EXCEPT ![r] = "idle"]
          /\ \A s \in Reloaders : s # r => rcfg'[s] = rcfg[s]
      BY <1>0, <1>3 DEF Finish, Goto
    <2>2. ~overlapped => mcp = plCfg /\ gateway = plCfg /\ postgres = plCfg
      BY <1>3, AgreeSoFar DEF Late
    <2> QED BY <1>0, <1>3, <2>1, <2>2, AgreeMove DEF Swapping, Late
  <1>4. ASSUME NEW r \in Reloaders, PendingRefused(r) PROVE AgreeInv'
    BY <1>3, <1>4 DEF PendingRefused
  <1>5. ASSUME NEW r \in Reloaders, NEW l \in {"install", "pipeline"}, Goto(r, l),
               rpc[r] \in {"declare", "install"}, UNCHANGED <<holders, overlapped, rcfg>>,
               l = "pipeline" => FailStage[rcfg[r]] = "none"
        PROVE  AgreeInv'
    <2>1. ~overlapped => mcp = plCfg /\ gateway = plCfg /\ postgres = plCfg
      BY <1>5, AgreeSoFar DEF Late
    <2> QED BY <1>0, <1>5, <2>1, AgreeMove DEF Swapping, Late, Goto
  <1>6. ASSUME NEW r \in Reloaders, PendingCompiled(r) PROVE AgreeInv'
    BY <1>5, <1>6 DEF PendingCompiled
  <1>7. ASSUME NEW r \in Reloaders, BuildRest(r) PROVE AgreeInv'
    <2>1. /\ rpc[r] = "install" /\ UNCHANGED <<holders, overlapped>>
          /\ \/ FailStage[rcfg[r]] = "none" /\ Goto(r, "pipeline") /\ UNCHANGED rcfg
             \/ Finish(r)
      BY <1>7 DEF BuildRest
    <2> QED BY <1>3, <1>5, <2>1
  <1>8. ASSUME NEW r \in Reloaders, SwapPipeline(r) PROVE AgreeInv'
    <2>1. /\ rpc[r] = "pipeline" /\ rpc' = [rpc EXCEPT ![r] = "mcp"] /\ plCfg' = rcfg[r]
          /\ UNCHANGED <<rcfg, overlapped>>
      BY <1>8 DEF SwapPipeline, Goto
    <2>2. FailStage[rcfg[r]] = "none"
      BY <1>0, <2>1 DEF Swapping
    <2> QED BY <2>1, <2>2, AgreeMove DEF Swapping, Late
  <1>9. ASSUME NEW r \in Reloaders, SwapMCP(r) PROVE AgreeInv'
    <2>1. /\ rpc[r] = "mcp" /\ rpc' = [rpc EXCEPT ![r] = "gateway"] /\ mcp' = rcfg[r]
          /\ UNCHANGED <<rcfg, overlapped, plCfg>>
      BY <1>9 DEF SwapMCP, Goto
    <2>2. ~overlapped => plCfg = rcfg[r]
      BY <2>1, AgreeSoFar DEF Late
    <2>3. FailStage[rcfg[r]] = "none"
      BY <1>0, <2>1 DEF Swapping
    <2> QED BY <1>0, <2>1, <2>2, <2>3, AgreeMove DEF Late
  <1>10. ASSUME NEW r \in Reloaders, SwapGateway(r) PROVE AgreeInv'
    <2>1. /\ rpc[r] = "gateway" /\ rpc' = [rpc EXCEPT ![r] = "postgres"] /\ gateway' = rcfg[r]
          /\ UNCHANGED <<rcfg, overlapped, plCfg, mcp>>
      BY <1>10 DEF SwapGateway, Goto
    <2>2. ~overlapped => plCfg = rcfg[r] /\ mcp = rcfg[r]
      BY <2>1, AgreeSoFar DEF Late
    <2>3. FailStage[rcfg[r]] = "none"
      BY <1>0, <2>1 DEF Swapping
    <2> QED BY <1>0, <2>1, <2>2, <2>3, AgreeMove DEF Late
  <1>11. ASSUME NEW r \in Reloaders, SwapPostgres(r) PROVE AgreeInv'
    <2>1. /\ rpc[r] = "postgres" /\ rpc' = [rpc EXCEPT ![r] = "idle"] /\ postgres' = rcfg[r]
          /\ UNCHANGED <<overlapped, plCfg, mcp, gateway>>
          /\ \A s \in Reloaders : s # r => rcfg'[s] = rcfg[s]
      BY <1>0, <1>11 DEF SwapPostgres, Finish, Goto
    <2>2. ~overlapped => plCfg = rcfg[r] /\ mcp = rcfg[r] /\ gateway = rcfg[r]
      BY <2>1, AgreeSoFar DEF Late
    <2> QED BY <1>0, <2>1, <2>2, AgreeMove DEF Swapping, Late
  <1>12. ASSUME NEW q \in Requests, RequestStep(q) PROVE AgreeInv'
    <2>1. UNCHANGED <<holders, reloads>>
      BY <1>12 DEF RequestStep, BeginRequest, CheckReady, WakeReady, WakeTimeout,
          SwapInstalled, SwapSecrets, EndRequest
    <2> QED BY <2>1 DEF AgreeInv
  <1>13. CASE UNCHANGED vars
    BY <1>13 DEF vars, AgreeInv
  <1>14. ASSUME NEW r \in Reloaders, ReloadStep(r) PROVE AgreeInv'
    BY <1>1, <1>2, <1>4, <1>6, <1>7, <1>8, <1>9, <1>10, <1>11, <1>14 DEF ReloadStep
  <1> QED BY <1>12, <1>13, <1>14 DEF Next

\* Reloads that do not overlap swap all components or none, and the pipeline in force
\* is never of a config that some component refused.
THEOREM AllOrNone == Spec => []ComponentsAgree
  <1>1. Init => AgreeInv
    BY ReloadConstants DEF Init, AgreeInv, Swapping
  <1>2. AgreeInv => ComponentsAgree
    BY DEF AgreeInv, ComponentsAgree
  <1> QED BY <1>1, <1>2, TypeCorrect, AgreeStep, PTL DEF Spec

-----------------------------------------------------------------------------
(* ManagedSync.                                                               *)

Servers == Maybe \cup {NoServer}
PipelineType == [cfg : Maybe, audit : BOOLEAN]

SyncTypes ==
    /\ cp \in Versions /\ status \in Maybe /\ mcpPolicy \in Maybe
    /\ pg \in Servers /\ pgListener \in Servers
    /\ pl \in PipelineType /\ newPl \in PipelineType
    /\ resp \in [cfg : Maybe, full : BOOLEAN]

\* A block of the response has been applied: it built, and when it is one to enforce
\* it is enforced (but for a server that main's Start has taken the place of).
AppliedBlock(k) ==
    /\ Payload[resp.cfg][k] # "bad"
    /\ Payload[resp.cfg][k] = "ok" =>
          CASE k = "pipeline" -> pl.cfg = resp.cfg
            [] k = "mcp" -> mcpPolicy = resp.cfg
            [] k = "postgres" -> pg = resp.cfg \/ pg = pgListener

\* Where the poller is says which blocks of its response are applied, and that the
\* hash it asked with is still the one it reports.
PollerInv ==
    /\ mpc = "init" => ppc = "unborn"
    /\ ppc \in {"pipeline", "store", "mcp", "postgres"} => resp.full /\ resp.cfg \in Versions
    /\ ppc = "record" => resp.cfg \in Versions /\ (~resp.full => resp.cfg = status)
    /\ ppc = "store" => newPl.cfg = resp.cfg /\ Payload[resp.cfg]["pipeline"] # "bad"
    /\ ppc \in {"mcp", "postgres"} \/ (ppc = "record" /\ resp.full) => AppliedBlock("pipeline")
    /\ ppc = "postgres" \/ (ppc = "record" /\ resp.full) => AppliedBlock("mcp")
    /\ ppc = "record" /\ resp.full => AppliedBlock("postgres")

\* What the holders have, and what main's Start will give the postgres Manager, built.
HoldersInv ==
    /\ pl.cfg \in Versions => Payload[pl.cfg]["pipeline"] # "bad"
    /\ mcpPolicy \in Versions => Payload[mcpPolicy]["mcp"] # "bad"
    /\ pg \in Versions => Payload[pg]["postgres"] # "bad"
    /\ pgListener \in Versions => Payload[pgListener]["postgres"] # "bad"

SyncInv == SyncTypes /\ PollerInv /\ HoldersInv

\* The proxy starts with nothing enforced.
LEMMA InitSync == SyncInit => SyncInv
  <1> SUFFICES ASSUME SyncInit PROVE SyncInv
    OBVIOUS
  <1>1. pl \in PipelineType /\ newPl \in PipelineType
    BY DEF SyncInit, Empty, PipelineType, Maybe
  <1>2. resp \in [cfg : Maybe, full : BOOLEAN]
    BY DEF SyncInit, NoResponse, Maybe
  <1>3. SyncTypes
    BY <1>1, <1>2 DEF SyncInit, SyncTypes, Servers, Maybe
  <1> QED BY <1>3, SyncConstants
      DEF SyncInit, SyncInv, PollerInv, HoldersInv, Empty, Servers, Maybe

\* Every step of main, the poller, the control plane and the requests keeps SyncInv.
LEMMA StepSync == SyncInv /\ [SyncNext]_syncVars => SyncInv'
  <1> SUFFICES ASSUME SyncInv, [SyncNext]_syncVars PROVE SyncInv'
    OBVIOUS
  <1> USE SyncConstants DEF SyncInv, SyncTypes, PollerInv, HoldersInv, AppliedBlock, PipelineType,
        Servers, Maybe, Components, Blocks, environment, enforced, inFlight
  <1>1. CASE InitSynced
    <2>1. pl' = pl \/ pl' = [cfg |-> cp, audit |-> FALSE]
      BY <1>1 DEF InitSynced
    <2>2. pl' \in PipelineType
      <3>1. [cfg |-> cp, audit |-> FALSE] \in PipelineType
        OBVIOUS
      <3> QED BY <2>1, <3>1
    <2>3. CASE "bad" \in {Payload[cp]["pipeline"], Payload[cp]["mcp"]}
      BY <1>1, <2>3 DEF InitSynced
    <2>4. CASE "bad" \notin {Payload[cp]["pipeline"], Payload[cp]["mcp"]}
      <3>1. pl'.cfg = cp
        BY <1>1, <2>4 DEF InitSynced
      <3>2. /\ mcpPolicy' \in {cp, NoConfig} /\ status' = cp /\ ppc' = "sync" /\ mpc' = "load"
            /\ pgListener' \in {Local, cp} /\ (pgListener' = cp => Payload[cp]["postgres"] # "bad")
        BY <1>1, <2>4 DEF InitSynced, Listener, Local
      <3>3. UNCHANGED <<cp, pg, newPl, resp>>
        BY <1>1 DEF InitSynced
      <3> QED BY <2>2, <2>4, <3>1, <3>2, <3>3 DEF Local
    <2> QED BY <2>3, <2>4
  <1>2. CASE InitUnsynced \/ InitRevoked
    BY <1>2 DEF InitUnsynced, InitRevoked, Local
  <1>3. CASE MainLoad \/ MainFatal
    BY <1>3 DEF MainLoad, MainFatal
  <1>4. CASE MainSetAudit
    <2>1. pl' \in PipelineType /\ pl'.cfg = pl.cfg
      BY <1>4 DEF MainSetAudit
    <2> QED BY <1>4, <2>1 DEF MainSetAudit
  <1>5. CASE MainStart
    BY <1>5 DEF MainStart
  <1>6. CASE PollFetch
    <2>1. PICK f \in BOOLEAN : resp' = [cfg |-> cp, full |-> f] /\ (f <=> status # cp)
      BY <1>6, Zenon DEF PollFetch, Response
    <2>2. resp'.cfg = cp /\ (resp'.full <=> status # cp) /\ resp' \in [cfg : Maybe, full : BOOLEAN]
      BY <2>1
    <2>3. ppc' \in {"pipeline", "record"} /\ (ppc' = "pipeline" => resp'.full)
      BY <1>6 DEF PollFetch, Block
    <2>4. ppc' = "record" /\ resp'.full =>
            \A k \in Components : Payload[cp][k] \notin {"ok", "bad"}
      BY <1>6, <2>2 DEF PollFetch, Block
    <2> QED BY <1>6, <2>2, <2>3, <2>4 DEF PollFetch, Running
  <1>7. CASE PollError \/ PollRevoked
    BY <1>7 DEF PollError, PollRevoked, Running
  <1>8. CASE ApplyPipeline
    BY <1>8 DEF ApplyPipeline, Block, Running
  <1>9. CASE StorePipeline
    BY <1>9 DEF StorePipeline, Running
  <1>10. CASE ApplyMCP
    BY <1>10 DEF ApplyMCP, Block, Running
  <1>11. CASE ApplyPostgres
    BY <1>11 DEF ApplyPostgres, Block, Listener, Local, Running
  <1>12. CASE Record
    BY <1>12 DEF Record, Running
  <1>13. CASE WakeTimer \/ WakePoke \/ Poke
    BY <1>13 DEF WakeTimer, WakePoke, Poke, Running
  <1>14. CASE Assign \/ Revoke
    BY <1>14 DEF Assign, Revoke
  <1>15. ASSUME NEW q \in Clients, Request(q) PROVE SyncInv'
    BY <1>15 DEF Request, beginPipelineRun, ReadyGate, FinishRequest, NextRequest
  <1>16. CASE UNCHANGED syncVars
    BY <1>16 DEF syncVars
  <1> QED BY <1>1, <1>2, <1>3, <1>4, <1>5, <1>6, <1>7, <1>8, <1>9, <1>10, <1>11, <1>12, <1>13,
             <1>14, <1>15, <1>16 DEF SyncNext, Main, Poller

\* SyncInv holds in every reachable state of a managed proxy.
THEOREM SyncInvariance == SyncSpec => []SyncInv
  BY InitSync, StepSync, PTL DEF SyncSpec

\* No holder ever enforces a block that did not build, in whatever order configs
\* come, fail and come back.
THEOREM LastGoodKept == SyncSpec => []KeepsLastGood
  <1>1. SyncInv => KeepsLastGood
    BY DEF SyncInv, HoldersInv, KeepsLastGood, Holds, Components
  <1> QED BY <1>1, SyncInvariance, PTL

\* After start-up the reported hash moves only when every block of the new config was
\* accepted and is in force.
THEOREM StatusTruthful == SyncSpec => StatusMeansApplied
  <1> DEFINE Moves == mpc # "init" /\ status' # status =>
                        \A k \in Components :
                          /\ Payload[status'][k] # "bad"
                          /\ Payload[status'][k] = "ok" =>
                                Holds(k, status') \/ (k = "postgres" /\ pg = pgListener)
  <1>1. SyncInv /\ [SyncNext]_syncVars => [Moves]_syncVars
    <2> SUFFICES ASSUME SyncInv, SyncNext, mpc # "init", status' # status,
                        NEW k \in Components
        PROVE  /\ Payload[status'][k] # "bad"
               /\ Payload[status'][k] = "ok" =>
                     Holds(k, status') \/ (k = "postgres" /\ pg = pgListener)
        BY DEF syncVars
    <2>1. Record
        BY DEF SyncNext, Main, Poller, Request, InitSynced, InitUnsynced, InitRevoked, MainLoad,
               MainSetAudit, MainStart, MainFatal, PollFetch, PollError, PollRevoked,
               ApplyPipeline, StorePipeline, ApplyMCP, ApplyPostgres, WakeTimer, WakePoke, Poke,
               Assign, Revoke, beginPipelineRun, ReadyGate, FinishRequest, NextRequest
    <2>2. status' = resp.cfg /\ resp.full /\ AppliedBlock(k)
        BY <2>1 DEF Record, SyncInv, SyncTypes, PollerInv, Components
    <2> QED BY <2>2 DEF AppliedBlock, Holds, Components
  <1> QED BY <1>1, SyncInvariance, PTL DEF SyncSpec, StatusMeansApplied
=============================================================================

SPECIFICATION MCSpec
CONSTANTS
    whole = whole  badMCP = badMCP  nulls = nulls  badPl = badPl
    Versions = {whole, badMCP, nulls, badPl}
    NoConfig = NoConfig
    NoServer = NoServer
    HasLocal = FALSE
    Payload <- MCPayload
    Clients = {k1}
    base = base  wait = wait  inst = inst  bad = bad  half = half  v1 = v1
    Configs = {base, wait, inst, bad, half}
    InitialCfg = base
    FailStage <- MCFailStage
    Installed <- MCInstalled
    Pending <- MCPending
    Scans <- MCScans
    Values = {v1}
    Slots = {s1, s2, s3, s4}
    None = None
    Reloaders = {r1, r2}
    Requests = {q1}
    MaxReloads = 3
INVARIANT EveryRequestAudited
CHECK_DEADLOCK FALSE

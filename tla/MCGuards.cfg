SPECIFICATION MCSpec
CONSTANTS
    p0 = p0  p1 = p1  p2 = p2
    pub = pub  priv1 = priv1  priv2 = priv2
    r1 = r1  r2 = r2
    Pipelines = {p0, p1, p2}
    Initial = p0
    Writers = {w1, w2}
    NoWriter = NoWriter
    Conns = {c1, c2}
    Addrs = {pub, priv1, priv2}
    Denied = {priv1, priv2}
    Requests = {r1, r2}
    Allowlists <- MCAllowlists
    Calls = {j1, j2, j3}
    Threshold = 2
    MaxConcurrent = 2
    Fallback = "deny"
INVARIANTS
    PrivateSocketsFenced
    ReplacedPipelinesClosed
    NeverWedged
PROPERTIES
    RevokedSocketsClose
    ProbeResolves
CHECK_DEADLOCK FALSE

----------------------------- MODULE SecretCache -----------------------------
(* cachedValue (secrets/resolver.go): the cache in front of every secret that *)
(* is fetched. Concurrent requests call Get; whoever holds the mutex answers  *)
(* from the cache or fetches, with everybody else waiting; successes, failed  *)
(* refreshes and first failures are remembered for different times.           *)
(*                                                                            *)
(* The backend holds versions 1, 2, ... of the secret and may be unreachable  *)
(* for a while. A request's own context can be done at any moment.            *)
EXTENDS Naturals

CONSTANTS
    Requests,
    TTLs,          \* the values of ttl explored; 0 caches for ever
    FailureTTL, FetchTimeout,
    MaxVersion, MaxTime  \* bounds on the versions and on the clock

ASSUME CacheConstants ==
    /\ TTLs \subseteq Nat /\ FailureTTL \in Nat \ {0} /\ FetchTimeout \in Nat
    /\ MaxVersion \in Nat \ {0} /\ MaxTime \in Nat
    /\ "free" \notin Requests

VARIABLES
    successTTL,  \* the configured ttl
    cv,          \* the cache: [initialized, value, expiresAt]
    mu,          \* who holds cv.mu, "free" if nobody
    fetch,       \* the fetch under way: the version held and whether down at its start, and when that was
    answer,      \* per request: [is |-> none, asked, error or value, version]
    ctx,         \* per request: "live" or "done"
    backend,     \* [version, down, changed |-> time of the last rotation or recovery]
    outages,     \* how often the backend went down
    lastEnd,     \* when the last fetch ended and what it means: [at, spare]
    answered,    \* per request: when its Get was answered
    now

cache == <<cv, mu, fetch, lastEnd>>
calls == <<answer, answered, ctx>>
environment == <<backend, outages, now>>
cacheVars == <<successTTL, cache, calls, environment>>

Said(what, v) == [is |-> what, version |-> v]
NoFetch == [from |-> 0, down |-> FALSE, at |-> 0]

\* newLazyValue: nothing fetched, and a zero expiresAt that has passed.
CacheInit ==
    /\ successTTL \in TTLs
    /\ cv = [initialized |-> FALSE, value |-> 0, expiresAt |-> 0]
    /\ mu = "free" /\ fetch = NoFetch /\ lastEnd = [at |-> 0, spare |-> 0]
    /\ answer = [r \in Requests |-> Said("none", 0)] /\ answered = [r \in Requests |-> 0]
    /\ ctx = [r \in Requests |-> "live"]
    /\ backend = [version |-> 1, down |-> FALSE, changed |-> 0]
    /\ outages = 0 /\ now = 0

(***************************** environment **********************************)

\* A fetch is abandoned after fetchTimeout, so time waits for its end.
Tick ==
    /\ now < MaxTime
    /\ mu # "free" => now < fetch.at + FetchTimeout
    /\ now' = now + 1
    /\ UNCHANGED <<successTTL, cache, calls, backend, outages>>

Rotate ==
    /\ backend.version < MaxVersion
    /\ backend' = [backend EXCEPT !.version = @ + 1, !.changed = now]
    /\ UNCHANGED <<successTTL, cache, calls, outages, now>>

Outage ==
    /\ \/ ~backend.down /\ outages = 0 /\ outages' = 1
          /\ backend' = [backend EXCEPT !.down = TRUE]
       \/ backend.down /\ UNCHANGED outages
          /\ backend' = [backend EXCEPT !.down = FALSE, !.changed = now]
    /\ UNCHANGED <<successTTL, cache, calls, now>>

Cancel(r) ==
    /\ answer[r].is = "asked" /\ ctx[r] = "live"
    /\ ctx' = [ctx EXCEPT ![r] = "done"]
    /\ UNCHANGED <<successTTL, cache, answer, answered, environment>>

(***************************** Get ******************************************)

\* A handler's next call, for a request with a context of its own.
GetCalled(r) ==
    /\ answer[r].is # "asked"
    /\ answer' = [answer EXCEPT ![r] = Said("asked", 0)]
    /\ answered' = [answered EXCEPT ![r] = 0]
    /\ ctx' = [ctx EXCEPT ![r] = "live"]
    /\ UNCHANGED <<successTTL, cache, environment>>

Answers(r, a) ==
    /\ answer' = [answer EXCEPT ![r] = a]
    /\ answered' = [answered EXCEPT ![r] = now]

GetHitSliding(r) ==
    /\ answer[r].is = "asked" /\ mu = "free" /\ cv.initialized
    /\ successTTL = 0 \/ now < cv.expiresAt
    /\ Answers(r, Said("value", cv.value))
    /\ cv' = [cv EXCEPT !.expiresAt = now + successTTL]
    /\ UNCHANGED <<successTTL, mu, fetch, lastEnd, ctx, environment>>

\* cv.mu is free, and the cache answers.
GetHit(r) ==
    /\ answer[r].is = "asked" /\ mu = "free" /\ cv.initialized
    /\ successTTL = 0 \/ now < cv.expiresAt
    /\ Answers(r, Said("value", cv.value))
    /\ UNCHANGED <<successTTL, cache, ctx, environment>>

\* The first fetch failed less than failureTTL ago: its error again.
GetRefused(r) ==
    /\ answer[r].is = "asked" /\ mu = "free" /\ ~cv.initialized
    /\ now < cv.expiresAt
    /\ Answers(r, Said("error", 0))
    /\ UNCHANGED <<successTTL, cache, ctx, environment>>

\* Otherwise cv.fetch runs under the lock, detached from the caller's context.
GetFetches(r) ==
    /\ answer[r].is = "asked" /\ mu = "free"
    /\ now >= cv.expiresAt /\ (cv.initialized => successTTL # 0)
    /\ mu' = r
    /\ fetch' = [from |-> backend.version, down |-> backend.down, at |-> now]
    /\ UNCHANGED <<successTTL, cv, lastEnd, calls, environment>>

FetchEnds(spare) ==
    /\ mu' = "free" /\ fetch' = NoFetch
    /\ lastEnd' = [at |-> now, spare |-> spare]

\* A version the backend held while it was being asked.
fetchSucceeds(r) ==
    /\ mu = r /\ ~backend.down
    /\ \E v \in fetch.from..backend.version :
          /\ cv' = [initialized |-> TRUE, value |-> v,
                    expiresAt |-> IF successTTL > 0 THEN now + successTTL ELSE cv.expiresAt]
          /\ Answers(r, Said("value", v))
    /\ FetchEnds(successTTL)
    /\ UNCHANGED <<successTTL, ctx, environment>>

fetchFailsAttached(r) ==
    /\ mu = r /\ (backend.down \/ fetch.down \/ ctx[r] = "done")
    /\ IF cv.initialized
       THEN /\ cv' = [cv EXCEPT !.expiresAt = now + successTTL \div 2]
            /\ Answers(r, Said("value", cv.value))
            /\ FetchEnds(successTTL \div 2)
       ELSE /\ cv' = [cv EXCEPT !.expiresAt = now + FailureTTL]
            /\ Answers(r, Said("error", 0))
            /\ FetchEnds(FailureTTL)
    /\ UNCHANGED <<successTTL, ctx, environment>>

fetchFailsUnspaced(r) ==
    /\ mu = r /\ (backend.down \/ fetch.down)
    /\ IF cv.initialized
       THEN /\ UNCHANGED cv
            /\ Answers(r, Said("value", cv.value))
            /\ FetchEnds(successTTL \div 2)
       ELSE /\ cv' = [cv EXCEPT !.expiresAt = now + FailureTTL]
            /\ Answers(r, Said("error", 0))
            /\ FetchEnds(FailureTTL)
    /\ UNCHANGED <<successTTL, ctx, environment>>

fetchFailsForgets(r) ==
    /\ mu = r /\ (backend.down \/ fetch.down)
    /\ cv' = [cv EXCEPT !.expiresAt = now + FailureTTL]
    /\ Answers(r, Said("error", 0))
    /\ FetchEnds(FailureTTL)
    /\ UNCHANGED <<successTTL, ctx, environment>>

\* The old value for another half ttl, or the error for failureTTL.
fetchFails(r) ==
    /\ mu = r /\ (backend.down \/ fetch.down)
    /\ IF cv.initialized
       THEN /\ cv' = [cv EXCEPT !.expiresAt = now + successTTL \div 2]
            /\ Answers(r, Said("value", cv.value))
            /\ FetchEnds(successTTL \div 2)
       ELSE /\ cv' = [cv EXCEPT !.expiresAt = now + FailureTTL]
            /\ Answers(r, Said("error", 0))
            /\ FetchEnds(FailureTTL)
    /\ UNCHANGED <<successTTL, ctx, environment>>

Get(r) ==
    \/ GetCalled(r)
    \/ GetHit(r) \/ GetRefused(r) \/ GetFetches(r) \/ fetchSucceeds(r) \/ fetchFails(r)

CacheNext ==
    \/ \E r \in Requests : Get(r) \/ Cancel(r)
    \/ Tick \/ Rotate \/ Outage

CacheSpec == CacheInit /\ [][CacheNext]_cacheVars

-----------------------------------------------------------------------------
\* A cached secret is never more than ttl old, plus the time one fetch takes: a
\* version that was rotated away is answered only that long after the rotation, or
\* after the end of the outage that kept the cache from hearing of it.
FreshWithinTTL ==
    \A r \in Requests :
        /\ successTTL # 0 /\ ~backend.down
        /\ answer[r].is = "value" /\ answer[r].version < backend.version
        /\ answered[r] >= backend.changed
        => answered[r] < backend.changed + successTTL + FetchTimeout

\* The backend is asked again only when what the last fetch taught has run out:
\* waiters that pile up behind a failing fetch do not each repeat it.
BackendSpared ==
    [][mu = "free" /\ mu' # "free" => now >= lastEnd.at + lastEnd.spare]_cacheVars

\* An error is answered only if the backend was out: a request that is cancelled
\* while it fetches for everybody leaves no error behind ("a single client
\* cancellation can't poison the failure cache for unrelated requests").
ErrorsAreTheBackends == \A r \in Requests : answer[r].is = "error" => outages > 0

\* The promise of a source, implemented: what the cache holds is the register.
Promise == INSTANCE SecretSource WITH latest <- cv.value

Implements == Promise!Spec
=============================================================================

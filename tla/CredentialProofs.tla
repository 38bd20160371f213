-------------------------- MODULE CredentialProofs --------------------------
(* SecretCache, for any set of requests and any times: the cache keeps the     *)
(* promise of a source (SecretSource), spares its backend, and answers no      *)
(* error the backend did not cause. TokenEntry, for any number of requests and *)
(* of rotations: a request carries a token of the credential that it read      *)
(* itself, though all requests share the entry.                                *)
EXTENDS SecretCache, TokenEntry, TLAPS

Versions == 0..MaxVersion

\* Types, as far as the steps need them.
Typed ==
    /\ successTTL \in Nat
    /\ cv \in [initialized : BOOLEAN, value : Versions, expiresAt : Nat]
    /\ mu \in Requests \cup {"free"}
    /\ fetch \in [from : Versions, down : BOOLEAN, at : Nat]
    /\ answer \in [Requests -> [is : {"none", "asked", "error", "value"}, version : Versions]]
    /\ ctx \in [Requests -> {"live", "done"}]
    /\ backend \in [version : 1..MaxVersion, down : BOOLEAN, changed : Nat]
    /\ outages \in Nat /\ now \in Nat
    /\ lastEnd \in [at : Nat, spare : Nat]

\* The cache is initialized by holding a version, it is never ahead of the backend,
\* and a fetch under way, for a request that waits, cannot bring an older one.
Forward ==
    /\ cv.initialized <=> cv.value # 0
    /\ cv.value <= backend.version
    /\ mu # "free" => /\ answer[mu].is = "asked"
                      /\ fetch.from \in 1..backend.version /\ cv.value <= fetch.from

\* What the last fetch taught holds until the cache expires, where it does.
Spared ==
    (cv.initialized => successTTL # 0) => lastEnd.at + lastEnd.spare <= cv.expiresAt

\* Everything that leads to an error is there because the backend went down.
Blamed ==
    /\ backend.down => outages > 0
    /\ fetch.down => outages > 0
    /\ ~cv.initialized /\ now < cv.expiresAt => outages > 0
    /\ \A r \in Requests : answer[r].is = "error" => outages > 0

CacheInv == Typed /\ Forward /\ Spared /\ Blamed

\* newLazyValue starts the cache in the invariant.
LEMMA InitInv == CacheInit => CacheInv
<1> SUFFICES ASSUME CacheInit PROVE CacheInv
  OBVIOUS
<1>1. Typed
  BY CacheConstants DEF CacheInit, Typed, Versions, Said, NoFetch
<1>2. Forward
  BY CacheConstants DEF CacheInit, Forward
<1>3. Spared
  BY DEF CacheInit, Spared
<1>4. Blamed
  BY DEF CacheInit, Blamed, Said, NoFetch
<1> QED
  BY <1>1, <1>2, <1>3, <1>4 DEF CacheInv

\* An outage begins or ends, and the version stays.
LEMMA OutageEffect ==
  ASSUME backend \in [version : 1..MaxVersion, down : BOOLEAN, changed : Nat], Outage
  PROVE  \/ backend' = [version |-> backend.version, down |-> TRUE, changed |-> backend.changed]
            /\ outages' = 1
         \/ backend' = [version |-> backend.version, down |-> FALSE, changed |-> now]
            /\ outages' = outages
  BY DEF Outage

\* Every step of a Get, of the clock and of the backend keeps the invariant.
LEMMA StepInv == CacheInv /\ [CacheNext]_cacheVars => CacheInv'
<1> SUFFICES ASSUME CacheInv, [CacheNext]_cacheVars PROVE CacheInv'
  OBVIOUS
<1> USE CacheConstants
<1> USE DEF CacheInv, Versions, cache, calls, environment
<1>1. CASE UNCHANGED cacheVars
  BY <1>1 DEF cacheVars, Typed, Forward, Spared, Blamed
<1>2. CASE Tick
  BY <1>2 DEF Tick, Typed, Forward, Spared, Blamed
<1>3. CASE Rotate
  <2>1. backend' = [version |-> backend.version + 1, down |-> backend.down, changed |-> now]
    BY <1>3 DEF Rotate, Typed
  <2>2. Typed'
    BY <2>1, <1>3 DEF Rotate, Typed
  <2> QED
    BY <2>1, <2>2, <1>3 DEF Rotate, Typed, Forward, Spared, Blamed
<1>4. CASE Outage
  <2>1. \/ backend' = [version |-> backend.version, down |-> TRUE, changed |-> backend.changed]
           /\ outages' = 1
        \/ backend' = [version |-> backend.version, down |-> FALSE, changed |-> now]
           /\ outages' = outages
    <3>1. backend \in [version : 1..MaxVersion, down : BOOLEAN, changed : Nat]
      BY DEF Typed
    <3> QED BY <1>4, <3>1, OutageEffect
  <2>2. /\ backend' \in [version : 1..MaxVersion, down : BOOLEAN, changed : Nat]
        /\ outages' \in Nat /\ backend'.version = backend.version
        /\ backend'.down => outages' > 0
        /\ outages > 0 => outages' > 0
    <3>1. CASE /\ backend' = [version |-> backend.version, down |-> TRUE,
                              changed |-> backend.changed]
               /\ outages' = 1
      BY <3>1 DEF Typed
    <3>2. CASE /\ backend' = [version |-> backend.version, down |-> FALSE, changed |-> now]
               /\ outages' = outages
      BY <3>2 DEF Typed
    <3> QED
      BY <2>1, <3>1, <3>2
  <2>3. UNCHANGED <<successTTL, cv, mu, fetch, lastEnd, answer, ctx, now>>
    BY <1>4 DEF Outage
  <2> QED
    BY <2>2, <2>3 DEF Typed, Forward, Spared, Blamed
<1>5. ASSUME NEW r \in Requests, Cancel(r) PROVE CacheInv'
  BY <1>5 DEF Cancel, Typed, Forward, Spared, Blamed
<1>6. ASSUME NEW r \in Requests, GetCalled(r) PROVE CacheInv'
  BY <1>6 DEF GetCalled, Said, Typed, Forward, Spared, Blamed
<1>7. ASSUME NEW r \in Requests, GetHit(r) PROVE CacheInv'
  BY <1>7 DEF GetHit, Answers, Said, Typed, Forward, Spared, Blamed
<1>8. ASSUME NEW r \in Requests, GetRefused(r) PROVE CacheInv'
  BY <1>8 DEF GetRefused, Answers, Said, Typed, Forward, Spared, Blamed
<1>9. ASSUME NEW r \in Requests, GetFetches(r) PROVE CacheInv'
  BY <1>9 DEF GetFetches, Typed, Forward, Spared, Blamed
<1>10. ASSUME NEW r \in Requests, fetchSucceeds(r) PROVE CacheInv'
  <2>1. PICK v \in fetch.from..backend.version :
          /\ cv' = [initialized |-> TRUE, value |-> v,
                    expiresAt |-> IF successTTL > 0 THEN now + successTTL ELSE cv.expiresAt]
          /\ Answers(r, Said("value", v))
    BY <1>10 DEF fetchSucceeds
  <2>2. v \in Versions /\ v # 0 /\ v <= backend.version
    BY <2>1, <1>10 DEF fetchSucceeds, Typed, Forward
  <2>3. Typed'
    BY <2>1, <2>2, <1>10 DEF fetchSucceeds, FetchEnds, NoFetch, Answers, Said, Typed
  <2>4. Forward'
    BY <2>1, <2>2, <1>10 DEF fetchSucceeds, FetchEnds, Typed, Forward
  <2>5. Spared'
    BY <2>1, <1>10 DEF fetchSucceeds, FetchEnds, Typed, Spared
  <2>6. Blamed'
    BY <2>1, <1>10 DEF fetchSucceeds, FetchEnds, NoFetch, Answers, Said, Typed, Blamed
  <2> QED
    BY <2>3, <2>4, <2>5, <2>6
<1>11. ASSUME NEW r \in Requests, fetchFails(r) PROVE CacheInv'
  <2>1. successTTL \div 2 \in Nat
    BY DEF Typed
  <2>2. Typed'
    <3>1. \E n \in Nat : cv' = [initialized |-> cv.initialized, value |-> cv.value,
                              expiresAt |-> n]
      BY <2>1, <1>11 DEF fetchFails, Typed
    <3>2. cv' \in [initialized : BOOLEAN, value : Versions, expiresAt : Nat]
      BY <3>1 DEF Typed
    <3>3. answer' \in [Requests -> [is : {"none", "asked", "error", "value"}, version : Versions]]
      BY <1>11 DEF fetchFails, Answers, Said, Typed
    <3>4. lastEnd' \in [at : Nat, spare : Nat]
      BY <2>1, <1>11 DEF fetchFails, FetchEnds, Typed
    <3>5. mu' = "free" /\ fetch' = NoFetch
      BY <1>11 DEF fetchFails, FetchEnds
    <3>6. UNCHANGED <<successTTL, ctx, backend, outages, now>>
      BY <1>11 DEF fetchFails
    <3> QED
      BY <3>2, <3>3, <3>4, <3>5, <3>6 DEF NoFetch, Typed
  <2>3. Forward'
    BY <1>11 DEF fetchFails, FetchEnds, Typed, Forward
  <2>4. Spared'
    BY <2>1, <1>11 DEF fetchFails, FetchEnds, Typed, Spared
  <2>5. Blamed'
    BY <1>11 DEF fetchFails, FetchEnds, NoFetch, Answers, Said, Typed, Blamed
  <2> QED
    BY <2>2, <2>3, <2>4, <2>5
<1> QED
  BY <1>1, <1>2, <1>3, <1>4, <1>5, <1>6, <1>7, <1>8, <1>9, <1>10, <1>11
  DEF CacheNext, Get

\* The inductive invariant of cachedValue holds throughout.
THEOREM Invariance == CacheSpec => []CacheInv
  BY InitInv, StepInv, PTL DEF CacheSpec

\* cachedValue is a source: whoever calls Get, however fetches fail, time out of
\* their callers' contexts or race a rotation, callers see a register that only moves
\* forward, and an error only while it holds nothing.
THEOREM Implementation == CacheSpec => Implements
<1>1. CacheInit => Promise!Init
  BY DEF CacheInit, Promise!Init, Said
<1>2. CacheInv /\ [CacheNext]_cacheVars => [Promise!Next]_(Promise!vars)
  <2> SUFFICES ASSUME CacheInv, [CacheNext]_cacheVars,
                      ~UNCHANGED <<cv.value, answer>>
               PROVE Promise!Next
    BY DEF Promise!vars
  <2> USE DEF CacheInv, cache, calls, environment
  <2>1. CASE UNCHANGED cacheVars \/ Tick \/ Rotate \/ Outage
    BY <2>1 DEF cacheVars, Tick, Rotate, Outage
  <2>2. ASSUME NEW r \in Requests, Cancel(r) \/ GetFetches(r) PROVE FALSE
    BY <2>2 DEF Cancel, GetFetches
  <2>3. ASSUME NEW r \in Requests, GetCalled(r) PROVE Promise!Ask(r)
    BY <2>3 DEF GetCalled, Said, Promise!Ask, Promise!Says
  <2>4. ASSUME NEW r \in Requests, GetHit(r) PROVE Promise!Answer(r)
    BY <2>4 DEF GetHit, Answers, Said, Promise!Answer, Promise!Says, Typed, Versions, Forward
  <2>5. ASSUME NEW r \in Requests, GetRefused(r) PROVE Promise!Refuse(r)
    BY <2>5 DEF GetRefused, Answers, Said, Promise!Refuse, Promise!Says, Typed, Forward
  <2>6. ASSUME NEW r \in Requests, fetchSucceeds(r) PROVE Promise!Answer(r)
    BY <2>6, CacheConstants
    DEF fetchSucceeds, Answers, Said, Promise!Answer, Promise!Says, Typed, Versions, Forward
  <2>7. ASSUME NEW r \in Requests, fetchFails(r) PROVE Promise!Answer(r) \/ Promise!Refuse(r)
    BY <2>7, CacheConstants
    DEF fetchFails, Answers, Said, Promise!Answer, Promise!Refuse, Promise!Says,
        Typed, Versions, Forward
  <2> QED
    BY <2>1, <2>2, <2>3, <2>4, <2>5, <2>6, <2>7 DEF CacheNext, Get, Promise!Next
<1> QED
  BY <1>1, <1>2, Invariance, PTL DEF CacheSpec, Implements, Promise!Spec

\* No fetch starts before what the last one taught has run out.
THEOREM Sparing == CacheSpec => BackendSpared
<1>1. CacheInv /\ [CacheNext]_cacheVars
        => [mu = "free" /\ mu' # "free" => now >= lastEnd.at + lastEnd.spare]_cacheVars
  BY DEF CacheInv, Typed, Spared, CacheNext, Get, Tick, Rotate, Outage, Cancel, GetCalled,
         GetHit, GetRefused, GetFetches, fetchSucceeds, fetchFails, FetchEnds,
         cache, calls, environment, cacheVars
<1> QED
  BY <1>1, Invariance, PTL DEF CacheSpec, BackendSpared

\* An error that Get answers was the backend's: a cancelled caller leaves none.
THEOREM Blame == CacheSpec => []ErrorsAreTheBackends
<1>1. CacheInv => ErrorsAreTheBackends
  BY DEF CacheInv, Blamed, ErrorsAreTheBackends
<1> QED
  BY <1>1, Invariance, PTL

-----------------------------------------------------------------------------
(* Freshness. A version that was rotated away came from a fetch that started  *)
(* before the rotation, and a refresh that failed met an outage.              *)

\* Answers lie in the past, and a fetch under way is not overdue.
Timed ==
    /\ answered \in [Requests -> Nat]
    /\ \A r \in Requests : answered[r] <= now
    /\ mu # "free" => fetch.at <= now /\ now <= fetch.at + FetchTimeout
    /\ cv.initialized /\ successTTL # 0 => cv.expiresAt <= now + successTTL

\* The backend changed after a fetch that may bring an old version, or fail, began.
Overtaken ==
    mu # "free" =>
        /\ fetch.from < backend.version => fetch.at <= backend.changed
        /\ fetch.down /\ ~backend.down => fetch.at <= backend.changed

\* An old version expires soon enough after the change.
Expires ==
    cv.initialized /\ successTTL # 0 /\ cv.value < backend.version /\ ~backend.down
        => cv.expiresAt <= backend.changed + successTTL + FetchTimeout

TimeInv == Timed /\ Overtaken /\ Expires /\ FreshWithinTTL

\* newLazyValue: no time has passed, and nothing is held.
LEMMA InitTime == CacheInit => TimeInv
  BY CacheConstants
  DEF CacheInit, TimeInv, Timed, Overtaken, Expires, FreshWithinTTL, Said

\* The order of rotations, outages, fetches and answers in time is kept.
LEMMA StepTime == CacheInv /\ TimeInv /\ [CacheNext]_cacheVars => TimeInv'
<1> SUFFICES ASSUME CacheInv, TimeInv, [CacheNext]_cacheVars PROVE TimeInv'
  OBVIOUS
<1> USE CacheConstants
<1> USE DEF CacheInv, TimeInv, Versions, cache, calls, environment
<1>1. CASE UNCHANGED cacheVars
  BY <1>1 DEF cacheVars, Timed, Overtaken, Expires, FreshWithinTTL
<1>2. CASE Tick
  BY <1>2 DEF Tick, Typed, Timed, Overtaken, Expires, FreshWithinTTL
<1>3. CASE Rotate
  <2>1. backend' = [version |-> backend.version + 1, down |-> backend.down, changed |-> now]
    BY <1>3 DEF Rotate, Typed
  <2>2. UNCHANGED <<successTTL, cv, mu, fetch, answer, answered, now>>
    BY <1>3 DEF Rotate
  <2> QED
    BY <2>1, <2>2 DEF Typed, Timed, Overtaken, Expires, FreshWithinTTL
<1>4. CASE Outage
  <2>1. \/ backend' = [version |-> backend.version, down |-> TRUE, changed |-> backend.changed]
        \/ backend' = [version |-> backend.version, down |-> FALSE, changed |-> now]
    <3>1. backend \in [version : 1..MaxVersion, down : BOOLEAN, changed : Nat]
      BY DEF Typed
    <3> QED BY <1>4, <3>1, OutageEffect
  <2>2. UNCHANGED <<successTTL, cv, mu, fetch, answer, answered, now>>
    BY <1>4 DEF Outage
  <2>3. CASE backend' = [version |-> backend.version, down |-> TRUE,
                         changed |-> backend.changed]
    BY <2>2, <2>3 DEF Typed, Timed, Overtaken, Expires, FreshWithinTTL
  <2>4. CASE backend' = [version |-> backend.version, down |-> FALSE, changed |-> now]
    BY <2>2, <2>4 DEF Typed, Timed, Overtaken, Expires, FreshWithinTTL
  <2> QED
    BY <2>1, <2>3, <2>4
<1>5. ASSUME NEW r \in Requests, Cancel(r) PROVE TimeInv'
  BY <1>5 DEF Cancel, Typed, Timed, Overtaken, Expires, FreshWithinTTL
<1>6. ASSUME NEW r \in Requests, GetCalled(r) PROVE TimeInv'
  BY <1>6 DEF GetCalled, Said, Typed, Timed, Overtaken, Expires, FreshWithinTTL
<1>7. ASSUME NEW r \in Requests, GetHit(r) PROVE TimeInv'
  <2>1. Timed' /\ Overtaken' /\ Expires'
    BY <1>7 DEF GetHit, Answers, Typed, Timed, Overtaken, Expires
  <2>2. FreshWithinTTL'
    BY <1>7 DEF GetHit, Answers, Said, Typed, Timed, Expires, FreshWithinTTL
  <2> QED
    BY <2>1, <2>2
<1>8. ASSUME NEW r \in Requests, GetRefused(r) PROVE TimeInv'
  BY <1>8 DEF GetRefused, Answers, Said, Typed, Timed, Overtaken, Expires, FreshWithinTTL
<1>9. ASSUME NEW r \in Requests, GetFetches(r) PROVE TimeInv'
  BY <1>9 DEF GetFetches, Typed, Timed, Overtaken, Expires, FreshWithinTTL
<1>10. ASSUME NEW r \in Requests, fetchSucceeds(r) PROVE TimeInv'
  <2>1. PICK v \in fetch.from..backend.version :
          /\ cv' = [initialized |-> TRUE, value |-> v,
                    expiresAt |-> IF successTTL > 0 THEN now + successTTL ELSE cv.expiresAt]
          /\ Answers(r, Said("value", v))
    BY <1>10 DEF fetchSucceeds
  <2>2. UNCHANGED <<successTTL, backend, now>> /\ mu' = "free" /\ mu = r
    BY <1>10 DEF fetchSucceeds, FetchEnds
  <2>3. v < backend.version => now <= backend.changed + FetchTimeout
    BY <2>1, <2>2 DEF Typed, Timed, Overtaken
  <2>4. Timed' /\ Overtaken'
    BY <2>1, <2>2 DEF Answers, Typed, Timed, Overtaken
  <2>5. Expires'
    BY <2>1, <2>2, <2>3 DEF Typed, Expires
  <2>6. FreshWithinTTL'
    BY <2>1, <2>2, <2>3 DEF Answers, Said, Typed, Timed, FreshWithinTTL
  <2> QED
    BY <2>4, <2>5, <2>6
<1>11. ASSUME NEW r \in Requests, fetchFails(r) PROVE TimeInv'
  <2>1. successTTL \div 2 \in Nat /\ successTTL \div 2 <= successTTL
    BY DEF Typed
  <2>2. /\ UNCHANGED <<successTTL, backend, now>> /\ mu' = "free" /\ mu = r
        /\ answered' = [answered EXCEPT ![r] = now]
        /\ ~backend.down => fetch.down
    BY <1>11 DEF fetchFails, FetchEnds, Answers
  <2>3. ~backend.down => now <= backend.changed + FetchTimeout
    BY <2>2 DEF Typed, Timed, Overtaken
  <2>4. CASE cv.initialized
    <3>1. /\ cv' = [initialized |-> cv.initialized, value |-> cv.value,
                    expiresAt |-> now + successTTL \div 2]
          /\ answer' = [answer EXCEPT ![r] = Said("value", cv.value)]
      BY <2>4, <1>11 DEF fetchFails, Answers, Typed
    <3>2. Timed' /\ Overtaken' /\ Expires'
      BY <3>1, <2>1, <2>2, <2>3 DEF Typed, Timed, Overtaken, Expires
    <3>3. FreshWithinTTL'
      BY <3>1, <2>2, <2>3 DEF Said, Typed, Timed, FreshWithinTTL
    <3> QED
      BY <3>2, <3>3
  <2>5. CASE ~cv.initialized
    <3>1. /\ cv' = [initialized |-> cv.initialized, value |-> cv.value,
                    expiresAt |-> now + FailureTTL]
          /\ answer' = [answer EXCEPT ![r] = Said("error", 0)]
      BY <2>5, <1>11 DEF fetchFails, Answers, Typed
    <3>2. Timed' /\ Overtaken' /\ Expires'
      BY <3>1, <2>2, <2>5 DEF Typed, Timed, Overtaken, Expires
    <3>3. FreshWithinTTL'
      BY <3>1, <2>2 DEF Said, Typed, Timed, FreshWithinTTL
    <3> QED
      BY <3>2, <3>3
  <2> QED
    BY <2>4, <2>5
<1> QED
  BY <1>1, <1>2, <1>3, <1>4, <1>5, <1>6, <1>7, <1>8, <1>9, <1>10, <1>11
  DEF CacheNext, Get

\* A rotated secret is answered for less than ttl, plus the time of one fetch, after
\* the rotation or the end of the outage that hid it (cachedValue.get).
THEOREM Freshness == CacheSpec => []FreshWithinTTL
<1>1. TimeInv => FreshWithinTTL
  BY DEF TimeInv
<1> QED
  BY <1>1, Invariance, InitTime, StepTime, PTL DEF CacheSpec

-----------------------------------------------------------------------------
(* TokenEntry.                                                                *)

Read == [is : {"none", "asked", "error", "value"}, version : 0..MaxCredential]
Source == [cred : 0..MaxCredential, owner : Callers, token : 0..MaxCredential, expires : Nat]
Kinds == {"pending", "stub", "unmatched", "rejected", "bare", "injected"}
Whys == {"none", "credential", "endpoint", "context"}
Outcome == [kind : Kinds, token : 0..MaxCredential, why : Whys]

TokenTyped ==
    /\ held \in 0..MaxCredential /\ read \in [Callers -> Read]
    /\ at \in [Callers -> {"idle", "credentials", "entry", "token", "done"}]
    /\ sources \in Seq(Source) /\ entry \in 0..Len(sources)
    /\ mine \in [Callers -> Nat] /\ outcome \in [Callers -> Outcome]
    /\ clock \in Nat

\* A source only ever holds a token of its own credential.
OwnToken == \A i \in 1..Len(sources) : sources[i].token \in {0, sources[i].cred}

\* What a request has read is settled before it takes the entry's lock, and the source
\* it leaves the lock with was built from it.
Settled(r) ==
    /\ at[r] = "credentials" => read[r].is # "none"
    /\ at[r] \in {"entry", "token"} => read[r].is = "value"
    /\ at[r] = "token" => /\ mine[r] \in 1..Len(sources)
                          /\ sources[mine[r]].cred = read[r].version
    /\ outcome[r].kind = "injected" => /\ at[r] = "done" /\ read[r].is = "value"
                                       /\ outcome[r].token = read[r].version
    /\ outcome[r].kind = "bare" => ~require

TokenInv == TokenTyped /\ OwnToken /\ \A r \in Callers : Settled(r)

\* buildEntry starts in the invariant.
LEMMA InitToken == TokenInit => TokenInv
  BY TokenConstants
  DEF TokenInit, Credential!Init, TokenInv, TokenTyped, OwnToken, Settled, Pending,
      Read, Source, Outcome, Kinds, Whys

\* A mint error settles nothing but its own request.
LEMMA FailsInv ==
  ASSUME TokenInv, NEW r \in Callers, NEW why \in Whys, MintFails(r, why),
         at[r] # "done", UNCHANGED <<require, held, read, sources, entry, mine, clock>>
  PROVE  TokenInv'
<1>1. outcome'[r].kind = "bare" => ~require
  BY DEF MintFails, TokenInv, TokenTyped
<1>2. outcome'[r].kind # "injected"
  BY DEF MintFails, TokenInv, TokenTyped
<1>3. TokenTyped'
  BY TokenConstants DEF MintFails, TokenInv, TokenTyped, Outcome, Kinds
<1> QED
  BY <1>1, <1>2, <1>3 DEF MintFails, TokenInv, TokenTyped, OwnToken, Settled

\* A request leaves the lock with a source built from the credential it read.
LEMMA TakesSource ==
  ASSUME TokenInv, NEW r \in Callers, at[r] = "entry",
         sources' \in Seq(Source), Len(sources) <= Len(sources'),
         \A i \in 1..Len(sources) : sources'[i] = sources[i],
         OwnToken', entry' \in 1..Len(sources'),
         sources'[entry'].cred = read[r].version,
         mine' = [mine EXCEPT ![r] = entry'], at' = [at EXCEPT ![r] = "token"],
         UNCHANGED <<require, held, read, outcome, clock>>
  PROVE  TokenInv'
<1>1. TokenTyped'
  BY DEF TokenInv, TokenTyped
<1>2. mine'[r] = entry' /\ at'[r] = "token"
  BY DEF TokenInv, TokenTyped
<1>3. read[r].is = "value" /\ outcome[r].kind # "injected"
      /\ (outcome[r].kind = "bare" => ~require)
  BY DEF TokenInv, Settled
<1>4. Settled(r)'
  BY <1>2, <1>3 DEF Settled
<1>5. ASSUME NEW c \in Callers, c # r PROVE Settled(c)'
  <2>1. mine'[c] = mine[c] /\ at'[c] = at[c]
    BY <1>5 DEF TokenInv, TokenTyped
  <2>2. Settled(c)
    BY DEF TokenInv
  <2>3. Len(sources) \in Nat /\ Len(sources') \in Nat
    BY DEF TokenInv, TokenTyped
  <2> QED
    BY <2>1, <2>2, <2>3 DEF Settled
<1> QED
  BY <1>1, <1>4, <1>5 DEF TokenInv

\* A request moves on, and its own facts hold at the new place.
LEMMA MovesOn ==
  ASSUME TokenInv, NEW r \in Callers, NEW w \in {"credentials", "entry"},
         at' = [at EXCEPT ![r] = w], outcome[r].kind # "injected",
         w = "credentials" => read[r].is # "none",
         w = "entry" => read[r].is = "value",
         UNCHANGED <<require, held, read, sources, entry, mine, outcome, clock>>
  PROVE  TokenInv'
<1>1. TokenTyped'
  BY DEF TokenInv, TokenTyped
<1>2. OwnToken'
  BY DEF TokenInv, OwnToken
<1>3. at'[r] = w /\ \A c \in Callers : c # r => at'[c] = at[c]
  BY DEF TokenInv, TokenTyped
<1>4. Settled(r)'
  <2>1. Settled(r)
    BY DEF TokenInv
  <2> QED BY <1>3, <2>1 DEF Settled
<1>5. ASSUME NEW c \in Callers, c # r PROVE Settled(c)'
  <2>1. Settled(c)
    BY DEF TokenInv
  <2> QED BY <1>3, <1>5, <2>1 DEF Settled
<1> QED
  BY <1>1, <1>2, <1>4, <1>5 DEF TokenInv

\* Every step of every request, of the credential's source and of the clock keeps it.
LEMMA StepToken == TokenInv /\ [TokenNext]_tokenVars => TokenInv'
<1> SUFFICES ASSUME TokenInv, [TokenNext]_tokenVars PROVE TokenInv'
  OBVIOUS
<1> USE TokenConstants
<1>1. CASE UNCHANGED tokenVars
  BY <1>1 DEF tokenVars, credential, TokenInv, TokenTyped, OwnToken, Settled
<1>2. CASE Passes
  BY <1>2 DEF Passes, credential, TokenInv, TokenTyped, OwnToken, Settled
<1>3. ASSUME NEW r \in Callers, ContextDone(r) PROVE TokenInv'
  BY <1>3 DEF ContextDone, credential, TokenInv, TokenTyped, OwnToken, Settled
<1>4. ASSUME NEW r \in Callers, TransformRequest(r) PROVE TokenInv'
  <2>1. CASE at' = [at EXCEPT ![r] = "credentials"] /\ Credential!Ask(r) /\ UNCHANGED outcome
    BY <1>4, <2>1
    DEF TransformRequest, Credential!Ask, Credential!Says, TokenInv, TokenTyped, OwnToken,
        Settled, Read
  <2>2. ASSUME NEW k \in {"stub", "unmatched"}, at' = [at EXCEPT ![r] = "done"],
               outcome' = [outcome EXCEPT ![r].kind = k], UNCHANGED credential
        PROVE TokenInv'
    <3>1. outcome' \in [Callers -> Outcome] /\ outcome'[r].kind = k
      BY <2>2 DEF TokenInv, TokenTyped, Outcome, Kinds
    <3> QED
      BY <1>4, <2>2, <3>1
      DEF TransformRequest, credential, TokenInv, TokenTyped, OwnToken, Settled
  <2> QED
    BY <1>4, <2>1, <2>2 DEF TransformRequest
<1>5. ASSUME NEW r \in Callers, sourceAnswers(r) PROVE TokenInv'
  <2>1. held' \in 0..MaxCredential /\ read[r].is = "asked"
    BY <1>5 DEF sourceAnswers, Credential!Answer, Credential!Refuse, TokenInv, TokenTyped
  <2>2. PICK a \in Read : a.is \in {"error", "value"} /\ read' = [read EXCEPT ![r] = a]
    BY <1>5, <2>1
    DEF sourceAnswers, Credential!Answer, Credential!Refuse, Credential!Says, Read
  <2>3. read' \in [Callers -> Read]
    BY <2>2 DEF TokenInv, TokenTyped
  <2> QED
    BY <1>5, <2>1, <2>2, <2>3 DEF sourceAnswers, TokenInv, TokenTyped, OwnToken, Settled
<1>6. ASSUME NEW r \in Callers, resolveCredentials(r) PROVE TokenInv'
  <2>1. CASE read[r].is = "error"
    BY <1>6, <2>1, FailsInv DEF resolveCredentials, credential, Whys
  <2>2. CASE read[r].is # "error"
    <3>1. read[r].is = "value"
      BY <1>6, <2>2 DEF resolveCredentials, TokenInv, TokenTyped, Read, Settled
    <3>2. at' = [at EXCEPT ![r] = "entry"] /\ at[r] = "credentials"
          /\ UNCHANGED <<require, held, read, sources, entry, mine, outcome, clock>>
      BY <1>6, <2>2 DEF resolveCredentials, credential
    <3>3. outcome[r].kind # "injected"
      BY <3>2 DEF TokenInv, Settled
    <3> QED
      BY <3>1, <3>2, <3>3, MovesOn
  <2> QED
    BY <2>1, <2>2
<1>7. ASSUME NEW r \in Callers, tokenSourceFor(r) PROVE TokenInv'
  <2>1. at[r] = "entry" /\ UNCHANGED <<require, held, read, clock>>
    BY <1>7 DEF tokenSourceFor, credential
  <2>2. /\ sources \in Seq(Source) /\ entry \in 0..Len(sources) /\ Len(sources) \in Nat
        /\ read[r] \in Read /\ OwnToken
    BY DEF TokenInv, TokenTyped
  <2>3. CASE entry # 0 /\ sources[entry].cred = read[r].version /\ TakeEntry(r)
    <3>1. UNCHANGED <<sources, entry, outcome>> /\ mine' = [mine EXCEPT ![r] = entry]
          /\ at' = [at EXCEPT ![r] = "token"]
      BY <2>3 DEF TakeEntry
    <3>2. OwnToken'
      BY <2>2, <3>1 DEF OwnToken
    <3>3. /\ sources' \in Seq(Source) /\ Len(sources) <= Len(sources')
          /\ \A i \in 1..Len(sources) : sources'[i] = sources[i]
          /\ entry' \in 1..Len(sources') /\ sources'[entry'].cred = read[r].version
          /\ mine' = [mine EXCEPT ![r] = entry']
      BY <2>2, <2>3, <3>1
    <3> QED
      BY <2>1, <3>1, <3>2, <3>3, TakesSource
  <2>4. CASE read[r].version \in Incomplete /\ MintFails(r, "credential")
             /\ UNCHANGED <<sources, entry, mine>>
    BY <2>1, <2>4, FailsInv DEF Whys
  <2>5. ASSUME sources' = Append(sources, [cred |-> read[r].version, owner |-> r,
                                           token |-> 0, expires |-> 0]),
               entry' = Len(sources) + 1, mine' = [mine EXCEPT ![r] = entry'],
               at' = [at EXCEPT ![r] = "token"], UNCHANGED outcome
        PROVE TokenInv'
    <3> DEFINE new == [cred |-> read[r].version, owner |-> r, token |-> 0, expires |-> 0]
    <3>1. new \in Source /\ new.cred = read[r].version /\ new.token = 0
      <4>1. read[r].version \in 0..MaxCredential
        BY <2>2 DEF Read
      <4> QED BY <4>1, TokenConstants DEF Source
    <3>2. sources' = Append(sources, new)
      BY <2>5
    <3> HIDE DEF new
    <3>3. /\ sources' \in Seq(Source) /\ Len(sources') = Len(sources) + 1
          /\ \A i \in 1..Len(sources) : sources'[i] = sources[i]
          /\ sources'[Len(sources) + 1] = new
      BY <2>2, <3>1, <3>2
    <3>4. OwnToken'
      BY <2>2, <3>1, <3>3 DEF OwnToken
    <3>5. /\ Len(sources) <= Len(sources') /\ entry' \in 1..Len(sources')
          /\ sources'[entry'].cred = read[r].version
      BY <2>2, <2>5, <3>1, <3>3
    <3> QED
      BY <2>1, <2>5, <3>3, <3>4, <3>5, TakesSource
  <2> QED
    BY <1>7, <2>3, <2>4, <2>5 DEF tokenSourceFor, buildTokenSource
<1>8. ASSUME NEW r \in Callers, Token(r) PROVE TokenInv'
  <2> DEFINE s == sources[mine[r]]
  <2>1. /\ mine[r] \in 1..Len(sources) /\ s \in Source /\ s.cred = read[r].version
        /\ s.token \in {0, s.cred} /\ at[r] = "token" /\ read[r].is = "value"
    BY <1>8 DEF Token, TokenInv, TokenTyped, OwnToken, Settled
  <2>2. ASSUME NEW t, t = s.cred, Minted(r, t), sources' \in Seq(Source),
               Len(sources') = Len(sources),
               \A i \in 1..Len(sources) : /\ sources'[i].cred = sources[i].cred
                                          /\ sources'[i].token \in {0, sources[i].cred}
        PROVE TokenInv'
    <3>1. outcome' \in [Callers -> Outcome]
      BY <2>1, <2>2 DEF Minted, TokenInv, TokenTyped, Outcome, Source, Kinds, Whys
    <3>2. outcome'[r].kind = "injected" /\ outcome'[r].token = read[r].version
      BY <2>1, <2>2 DEF Minted, TokenInv, TokenTyped
    <3> QED
      BY <1>8, <2>1, <2>2, <3>1, <3>2
      DEF Token, Minted, credential, TokenInv, TokenTyped, OwnToken, Settled
  <2>3. CASE s.token # 0 /\ Minted(r, s.token) /\ UNCHANGED sources
    <3>1. \A i \in 1..Len(sources) : /\ sources'[i].cred = sources[i].cred
                                     /\ sources'[i].token \in {0, sources[i].cred}
      BY <2>3 DEF TokenInv, OwnToken
    <3> QED
      BY <2>1, <2>2, <2>3, <3>1 DEF TokenInv, TokenTyped
  <2>4. CASE /\ sources' = [sources EXCEPT ![mine[r]].token = s.cred,
                                           ![mine[r]].expires = clock + TokenTTL]
             /\ Minted(r, s.cred)
    <3> DEFINE fresh == [s EXCEPT !.token = s.cred, !.expires = clock + TokenTTL]
    <3>1. fresh \in Source /\ fresh.cred = s.cred /\ fresh.token = s.cred
      <4>1. s.cred \in 0..MaxCredential /\ clock + TokenTTL \in Nat
        <5>1. clock \in Nat
          BY DEF TokenInv, TokenTyped
        <5>2. s.cred \in 0..MaxCredential
          BY <2>1 DEF Source
        <5> QED BY <5>1, <5>2, TokenConstants
      <4> HIDE DEF s
      <4> QED
        BY <2>1, <4>1 DEF Source
    <3>2. sources' = [sources EXCEPT ![mine[r]] = fresh]
      BY <2>4, <2>1 DEF TokenInv, TokenTyped
    <3> HIDE DEF fresh
    <3>3. sources' \in Seq(Source) /\ Len(sources') = Len(sources)
      BY <3>1, <3>2, <2>1 DEF TokenInv, TokenTyped
    <3>4. \A i \in 1..Len(sources) : sources'[i] = IF i = mine[r] THEN fresh ELSE sources[i]
      BY <3>2, <2>1 DEF TokenInv, TokenTyped
    <3>5. \A i \in 1..Len(sources) : /\ sources'[i].cred = sources[i].cred
                                     /\ sources'[i].token \in {0, sources[i].cred}
      BY <3>1, <3>4, <2>1 DEF TokenInv, OwnToken
    <3> QED
      BY <2>2, <2>4, <3>3, <3>5
  <2>5. CASE UNCHANGED sources /\ (MintFails(r, "endpoint") \/ MintFails(r, "context"))
    BY <1>8, <2>1, <2>5, FailsInv DEF Token, credential, Whys
  <2> QED
    BY <1>8, <2>3, <2>4, <2>5 DEF Token
<1> QED
  BY <1>1, <1>2, <1>3, <1>4, <1>5, <1>6, <1>7, <1>8 DEF TokenNext

\* tokenSourceFor hands a request the shared source only if it was built from the
\* credential the request read, so the token it mints is of that credential; and with
\* require set no request is forwarded without one.
THEOREM TokenOfOwnCredential == TokenSpec => []TokenMatchesCredential
<1>1. TokenInv => TokenMatchesCredential
  BY DEF TokenInv, Settled, TokenMatchesCredential
<1> QED
  BY <1>1, InitToken, StepToken, PTL DEF TokenSpec
=============================================================================

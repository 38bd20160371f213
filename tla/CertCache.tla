----------------------------- MODULE CertCache -----------------------------
(* certcache.Cache: leaf certificates made on demand and kept in an LRU that *)
(* expires its entries by the monotonic clock, while a certificate expires   *)
(* by wall time. The two drift apart when the host is suspended.             *)
EXTENDS Naturals, SequencesExt

CONSTANTS Domains, MaxSize, LeafExpiry, MaxWall  \* MaxWall bounds the clock

ASSUME CertConstants ==
    MaxSize \in Nat \ {0} /\ LeafExpiry \in Nat \ {0} /\ MaxWall \in Nat

VARIABLES
    lru,     \* the cached leaves, the most recently used first
    served,  \* what the last GetOrCreate returned
    mono, wall

certVars == <<lru, served, mono, wall>>

NoLeaf == [domain |-> "none", notAfter |-> 0, expires |-> 0, made |-> 0]

CertInit == lru = <<>> /\ served = NoLeaf /\ mono = 0 /\ wall = 0

\* The leaf of d, if there is one: the LRU keeps its entries by domain.
Has(d) == \E i \in DOMAIN lru : lru[i].domain = d
Place(d) == CHOOSE i \in DOMAIN lru : lru[i].domain = d
Cached(d) == lru[Place(d)]
Without(d) == IF Has(d) THEN RemoveAt(lru, Place(d)) ELSE lru

\* External, expirable.LRU: an entry lives until its time by the monotonic clock;
\* adding one beyond the size drops the one unused for longest.
Alive(e) == mono <= e.expires
Added(e, s) == SubSeq(<<e>> \o s, 1, IF Len(s) < MaxSize THEN Len(s) + 1 ELSE MaxSize)

generate(d) ==
    [domain |-> d, notAfter |-> wall + LeafExpiry, expires |-> mono + LeafExpiry, made |-> wall]

\* MUTANT: only the LRU is asked whether the leaf has expired.
HitAny(d) == Has(d) /\ Alive(Cached(d))

\* A cached leaf that is alive and has not expired by wall time.
Hit(d) == Has(d) /\ Alive(Cached(d)) /\ wall < Cached(d).notAfter

\* c.mu is held throughout. A miss first drops what is cached, if it is alive.
GetOrCreate(d) ==
    /\ \/ /\ Hit(d)
          /\ lru' = <<Cached(d)>> \o Without(d)
          /\ served' = Cached(d)
       \/ /\ ~Hit(d)
          /\ lru' = Added(generate(d), Without(d))
          /\ served' = generate(d)
    /\ UNCHANGED <<mono, wall>>

\* A key, serial or signature that fails: an error, and nothing cached.
GetOrCreateFails(d) ==
    /\ ~Hit(d)
    /\ lru' = IF Has(d) /\ Alive(Cached(d)) THEN Without(d) ELSE lru
    /\ served' = NoLeaf
    /\ UNCHANGED <<mono, wall>>

\* External: the LRU's own goroutine deletes what has expired, an entry at a time.
Reap ==
    /\ \E i \in DOMAIN lru : ~Alive(lru[i]) /\ lru' = RemoveAt(lru, i)
    /\ served' = NoLeaf
    /\ UNCHANGED <<mono, wall>>

\* Time passes; the monotonic clock stands still while the host is suspended.
Elapse ==
    /\ wall < MaxWall
    /\ wall' = wall + 1
    /\ mono' \in {mono, mono + 1}
    /\ served' = NoLeaf
    /\ UNCHANGED lru

CertNext ==
    \/ \E d \in Domains : GetOrCreate(d) \/ GetOrCreateFails(d)
    \/ Reap
    \/ Elapse

CertSpec == CertInit /\ [][CertNext]_certVars

-----------------------------------------------------------------------------
\* Every leaf handed to a handshake is valid by wall time at that moment, even
\* after a suspension that the LRU's clock did not see; and the cache keeps at most
\* MaxSize leaves, one per domain.
LeafValid ==
    /\ served # NoLeaf => wall < served.notAfter
    /\ Len(lru) <= MaxSize
    /\ \A i, j \in DOMAIN lru : lru[i].domain = lru[j].domain => i = j
=============================================================================

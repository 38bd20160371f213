---------------------------- MODULE SigningProofs ----------------------------
(* CertCache, for any set of domains, size and lifetime: a leaf that is handed *)
(* out is valid by wall time, and the cache is bounded. Signers, for any       *)
(* pipeline of transforms and any bounds: what is signed is what is sent.      *)
EXTENDS CertCache, Signers, SequenceTheorems, TLAPS

Leaf == [domain : Domains, notAfter : Nat, expires : Nat, made : Nat]
OnePerDomain(s) == \A i, j \in DOMAIN s : s[i].domain = s[j].domain => i = j

CertInv ==
    /\ mono \in Nat /\ wall \in Nat
    /\ lru \in Seq(Leaf) /\ Len(lru) <= MaxSize /\ OnePerDomain(lru)
    /\ served # NoLeaf => wall < served.notAfter

\* Removing one entry keeps the others, in their order.
LEMMA RemoveOne ==
    ASSUME NEW s \in Seq(Leaf), NEW i \in DOMAIN s
    PROVE  /\ RemoveAt(s, i) \in Seq(Leaf) /\ Len(RemoveAt(s, i)) = Len(s) - 1
           /\ \A k \in 1..(Len(s) - 1) : RemoveAt(s, i)[k] = IF k < i THEN s[k] ELSE s[k + 1]
<1>1. i \in 1..Len(s) /\ Len(s) \in Nat
    OBVIOUS
<1> DEFINE a == SubSeq(s, 1, i - 1)
           b == SubSeq(s, i + 1, Len(s))
<1>2. a \in Seq(Leaf) /\ Len(a) = i - 1 /\ \A k \in 1..(i - 1) : a[k] = s[k]
    BY <1>1
<1>3. b \in Seq(Leaf) /\ Len(b) = Len(s) - i /\ \A k \in 1..(Len(s) - i) : b[k] = s[i + k]
    BY <1>1
<1>4. RemoveAt(s, i) = a \o b
    BY DEF RemoveAt
<1> HIDE DEF a, b
<1> QED BY <1>1, <1>2, <1>3, <1>4

\* So one leaf per domain stays one leaf per domain.
LEMMA RemoveUnique ==
    ASSUME NEW s \in Seq(Leaf), OnePerDomain(s), NEW i \in DOMAIN s
    PROVE  /\ OnePerDomain(RemoveAt(s, i))
           /\ \A k \in DOMAIN RemoveAt(s, i) : RemoveAt(s, i)[k].domain # s[i].domain
<1> DEFINE r == RemoveAt(s, i)
<1>1. /\ r \in Seq(Leaf) /\ Len(r) = Len(s) - 1
      /\ \A k \in 1..(Len(s) - 1) : r[k] = IF k < i THEN s[k] ELSE s[k + 1]
    BY RemoveOne
<1>2. DOMAIN r = 1..(Len(s) - 1) /\ DOMAIN s = 1..Len(s) /\ Len(s) \in Nat
    BY <1>1
<1> HIDE DEF r
<1>3. ASSUME NEW j \in DOMAIN r, NEW k \in DOMAIN r, r[j].domain = r[k].domain
      PROVE  j = k
    <2> DEFINE at(x) == IF x < i THEN x ELSE x + 1
    <2>1. at(j) \in DOMAIN s /\ at(k) \in DOMAIN s /\ r[j] = s[at(j)] /\ r[k] = s[at(k)]
        BY <1>1, <1>2
    <2>2. at(j) = at(k)
        BY <1>3, <2>1 DEF OnePerDomain
    <2> QED BY <1>2, <2>2
<1>4. ASSUME NEW k \in DOMAIN r
      PROVE  r[k].domain # s[i].domain
    <2> DEFINE at == IF k < i THEN k ELSE k + 1
    <2>1. at \in DOMAIN s /\ r[k] = s[at] /\ at # i
        BY <1>1, <1>2
    <2> QED BY <2>1 DEF OnePerDomain
<1> QED BY <1>3, <1>4 DEF OnePerDomain, r

\* A leaf of a domain that s has none of goes in front of it.
LEMMA PutFirst ==
    ASSUME NEW s \in Seq(Leaf), OnePerDomain(s), NEW e \in Leaf,
           \A k \in DOMAIN s : s[k].domain # e.domain
    PROVE  /\ <<e>> \o s \in Seq(Leaf) /\ Len(<<e>> \o s) = Len(s) + 1
           /\ OnePerDomain(<<e>> \o s)
<1> DEFINE r == <<e>> \o s
<1>1. r \in Seq(Leaf) /\ Len(r) = Len(s) + 1 /\ r[1] = e
      /\ \A k \in 2..(Len(s) + 1) : r[k] = s[k - 1]
    OBVIOUS
<1>2. DOMAIN r = 1..(Len(s) + 1) /\ DOMAIN s = 1..Len(s) /\ Len(s) \in Nat
    BY <1>1
<1> HIDE DEF r
<1>3. ASSUME NEW j \in DOMAIN r, NEW k \in DOMAIN r, r[j].domain = r[k].domain
      PROVE  j = k
    <2>1. CASE j = 1 \/ k = 1
        <3>1. ASSUME NEW x \in DOMAIN r, x # 1 PROVE r[x].domain # e.domain
            <4>1. x - 1 \in DOMAIN s /\ r[x] = s[x - 1]
                BY <1>1, <1>2, <3>1
            <4> QED BY <4>1
        <3> QED BY <1>1, <1>3, <2>1, <3>1
    <2>2. CASE j # 1 /\ k # 1
        <3>1. /\ j - 1 \in DOMAIN s /\ k - 1 \in DOMAIN s
              /\ r[j] = s[j - 1] /\ r[k] = s[k - 1]
            BY <1>1, <1>2, <2>2
        <3>2. j - 1 = k - 1
            BY <1>3, <3>1 DEF OnePerDomain
        <3> QED BY <1>2, <3>2
    <2> QED BY <2>1, <2>2
<1> QED BY <1>1, <1>3 DEF OnePerDomain, r

\* What is left of the cache without the leaf of d.
LEMMA WithoutOf ==
    ASSUME CertInv, NEW d \in Domains
    PROVE  /\ Without(d) \in Seq(Leaf) /\ OnePerDomain(Without(d))
           /\ \A k \in DOMAIN Without(d) : Without(d)[k].domain # d
           /\ Len(Without(d)) <= MaxSize
           /\ Has(d) => /\ Cached(d) \in Leaf /\ Cached(d).domain = d
                        /\ Len(Without(d)) < MaxSize
<1>0. Len(lru) \in Nat /\ MaxSize \in Nat
    BY CertConstants DEF CertInv
<1>1. CASE Has(d)
    <2>1. Place(d) \in DOMAIN lru /\ lru[Place(d)].domain = d
        BY <1>1 DEF Has, Place
    <2>2. Without(d) = RemoveAt(lru, Place(d))
        BY <1>1 DEF Without
    <2>3. Without(d) \in Seq(Leaf) /\ Len(Without(d)) = Len(lru) - 1
        BY <2>1, <2>2, RemoveOne DEF CertInv
    <2>4. OnePerDomain(Without(d)) /\ \A k \in DOMAIN Without(d) : Without(d)[k].domain # d
        BY <2>1, <2>2, RemoveUnique DEF CertInv
    <2>5. Cached(d) \in Leaf /\ Cached(d).domain = d
        BY <2>1 DEF Cached, CertInv
    <2> QED BY <1>0, <2>3, <2>4, <2>5 DEF CertInv
<1>2. CASE ~Has(d)
    BY <1>2 DEF Has, Without, CertInv
<1> QED BY <1>1, <1>2

\* The cache starts empty.
LEMMA InitCert == CertInit => CertInv
BY CertConstants DEF CertInit, CertInv, OnePerDomain

\* Every step keeps the invariant: a leaf is only put in front of a cache that has
\* no other of its domain, and the one that falls out is the last.
LEMMA StepCert == CertInv /\ [CertNext]_certVars => CertInv'
<1> SUFFICES ASSUME CertInv, [CertNext]_certVars PROVE CertInv'
    OBVIOUS
<1>0. Len(lru) \in Nat /\ MaxSize \in Nat \ {0} /\ LeafExpiry \in Nat \ {0}
    BY CertConstants DEF CertInv
<1>1. ASSUME NEW d \in Domains, GetOrCreate(d) PROVE CertInv'
    <2>0. mono' = mono /\ wall' = wall /\ mono \in Nat /\ wall \in Nat
        BY <1>1 DEF GetOrCreate, CertInv
    <2> DEFINE s == Without(d)
    <2>1. /\ s \in Seq(Leaf) /\ OnePerDomain(s) /\ Len(s) <= MaxSize
          /\ \A k \in DOMAIN s : s[k].domain # d
          /\ Has(d) => Cached(d) \in Leaf /\ Cached(d).domain = d /\ Len(s) < MaxSize
        BY WithoutOf
    <2> HIDE DEF s
    <2>2. CASE Hit(d)
        <3>1. /\ lru' = <<Cached(d)>> \o s /\ served' = Cached(d)
              /\ Has(d) /\ wall < Cached(d).notAfter
            BY <1>1, <2>2 DEF GetOrCreate, Hit, s
        <3>2. lru' \in Seq(Leaf) /\ Len(lru') = Len(s) + 1 /\ OnePerDomain(lru')
            BY <2>1, <3>1, PutFirst
        <3>3. Len(lru') <= MaxSize
            BY <1>0, <2>1, <3>1, <3>2
        <3> QED BY <2>0, <3>1, <3>2, <3>3 DEF CertInv
    <2>3. CASE ~Hit(d)
        <3> DEFINE e == generate(d)
                   q == <<e>> \o s
                   n == IF Len(s) < MaxSize THEN Len(s) + 1 ELSE MaxSize
        <3>1. lru' = SubSeq(q, 1, n) /\ served' = e
            BY <1>1, <2>3 DEF GetOrCreate, Added, s
        <3>2. e \in Leaf /\ e.domain = d /\ wall < e.notAfter
            BY <1>0, <2>0 DEF generate, Leaf
        <3> HIDE DEF e
        <3>3. q \in Seq(Leaf) /\ Len(q) = Len(s) + 1 /\ OnePerDomain(q)
            BY <2>1, <3>2, PutFirst
        <3>4. Len(s) \in Nat /\ n \in Nat /\ n <= Len(q) /\ n <= MaxSize
            BY <1>0, <2>1, <3>3
        <3> HIDE DEF q, n
        <3>5. /\ lru' \in Seq(Leaf) /\ Len(lru') = n /\ DOMAIN lru' = 1..n
              /\ \A k \in 1..n : lru'[k] = q[k]
            BY <3>1, <3>3, <3>4
        <3>6. OnePerDomain(lru')
            BY <3>3, <3>4, <3>5 DEF OnePerDomain
        <3> QED BY <2>0, <3>1, <3>2, <3>4, <3>5, <3>6 DEF CertInv
    <2> QED BY <2>2, <2>3
<1>2. ASSUME NEW d \in Domains, GetOrCreateFails(d) PROVE CertInv'
    <2>1. /\ Without(d) \in Seq(Leaf) /\ OnePerDomain(Without(d))
          /\ Len(Without(d)) <= MaxSize
        BY WithoutOf
    <2> QED BY <1>2, <2>1 DEF GetOrCreateFails, CertInv
<1>3. CASE Reap
    <2>1. PICK i \in DOMAIN lru : lru' = RemoveAt(lru, i)
        BY <1>3 DEF Reap
    <2>2. lru' \in Seq(Leaf) /\ Len(lru') = Len(lru) - 1
        BY <2>1, RemoveOne DEF CertInv
    <2>3. OnePerDomain(lru')
        BY <2>1, RemoveUnique DEF CertInv
    <2> QED BY <1>0, <1>3, <2>2, <2>3 DEF Reap, CertInv
<1>4. CASE Elapse
    BY <1>4 DEF Elapse, CertInv, OnePerDomain
<1>5. CASE UNCHANGED certVars
    BY <1>5 DEF certVars, CertInv, OnePerDomain
<1> QED BY <1>1, <1>2, <1>3, <1>4, <1>5 DEF CertNext

\* Every leaf handed to a handshake is valid by wall time, however the two clocks
\* drift apart, and the cache holds at most MaxSize leaves, one per domain.
THEOREM LeavesValid == CertSpec => []LeafValid
<1>1. CertInv => LeafValid
    BY DEF CertInv, LeafValid, OnePerDomain
<1> QED BY InitCert, StepCert, <1>1, PTL DEF CertSpec

-----------------------------------------------------------------------------
(* Signers. The body of a request stands, between two transforms, in one of   *)
(* two ways: no transform has read it, and the reader holds what the client   *)
(* sends; or it is in memory, a prefix of the client's bytes.                 *)

BodyType ==
    [original : BOOLEAN, rest : Seq(Nat), fails : BOOLEAN, max : Nat,
     once : BOOLEAN, data : Seq(Nat), pos : Nat]

IsRequest(r) ==
    /\ r = [matched |-> r.matched, method |-> r.method, endpoint |-> r.endpoint,
            audience |-> r.audience, scope |-> r.scope, auth |-> r.auth,
            content |-> r.content, declared |-> r.declared, body |-> r.body]
    /\ r.body \in BodyType

Unbuffered(b, n) ==
    /\ b.original /\ ~b.once /\ b.max = MaxBytes
    /\ \E k \in 0..n : b.rest = BodyBytes(k) /\ (b.fails <=> k < n)

\* A body without a declared length is only kept in memory whole, or up to the limit.
Buffered(b, n, d) ==
    /\ ~b.original /\ b.once
    /\ \E k \in 0..n : b.data = BodyBytes(k)
    /\ d < 0 => b.data = BodyBytes(n) \/ Len(b.data) = MaxBytes

Stands(b, n, d) ==
    /\ n \in Nat /\ d \in {-1, n} /\ b \in BodyType /\ b.pos = 0
    /\ Unbuffered(b, n) \/ Buffered(b, n, d)

\* Every signature so far is over what is in memory, and that is what it may be over.
SignaturesOver(sigs, r) ==
    \A s \in sigs :
        s.covers =>
            /\ ~r.body.original /\ s.body = r.body.data
            /\ \/ s.body = r.content
               \/ r.declared < 0 /\ options.chunked /\ Len(s.body) = MaxBytes

SignInv ==
    /\ IsRequest(req)
    /\ fate.is \in {"open", "sent"} =>
        /\ req.content = BodyBytes(Len(req.content))
        /\ Stands(req.body, Len(req.content), req.declared)
        /\ SignaturesOver(signatures, req)

\* A source is loaded or it is not, and the backend is not away without its being noted.
MintInv ==
    /\ DOMAIN source = Minters /\ \A m \in Minters : source[m] \in {"none", "loaded"}
    /\ up \in BOOLEAN /\ downSince \in BOOLEAN
    /\ ~up => downSince
    /\ RefusedOnlyWhileDown

\* The first k bytes of a body are the body of k bytes.
LEMMA FirstBytes ==
    ASSUME NEW n \in Nat, NEW k \in 0..n
    PROVE  /\ BodyBytes(k) \in Seq(Nat) /\ Len(BodyBytes(k)) = k
           /\ SubSeq(BodyBytes(n), 1, k) = BodyBytes(k)
<1>1. ASSUME NEW m \in Nat
      PROVE  /\ BodyBytes(m) \in Seq(Nat) /\ Len(BodyBytes(m)) = m
             /\ \A i \in 1..m : BodyBytes(m)[i] = i
    BY DEF BodyBytes
<1>2. k \in Nat /\ k <= n
    OBVIOUS
<1>3. BodyBytes(k) \in Seq(Nat) /\ Len(BodyBytes(k)) = k
    BY <1>1, <1>2
<1>4. SubSeq(BodyBytes(n), 1, k) = [i \in 1..k |-> BodyBytes(n)[i]]
    BY <1>1, <1>2
<1>5. [i \in 1..k |-> BodyBytes(n)[i]] = BodyBytes(k)
    BY <1>1, <1>2 DEF BodyBytes
<1> QED BY <1>3, <1>4, <1>5

\* Rewinding changes the position, and nothing at the start.
LEMMA Rewound ==
    ASSUME NEW b \in BodyType
    PROVE  /\ Reset(b) \in BodyType /\ Reset(b).pos = 0
           /\ Reset(b).original = b.original /\ Reset(b).rest = b.rest
           /\ Reset(b).fails = b.fails /\ Reset(b).max = b.max
           /\ Reset(b).once = b.once /\ Reset(b).data = b.data
           /\ b.pos = 0 => Reset(b) = b
           /\ Reset(Reset(b)) = Reset(b)
BY DEF BodyType, Reset

\* So does reading to the end.
LEMMA AtEnd ==
    ASSUME NEW b \in BodyType, NEW p \in Nat, b.pos = 0
    PROVE  [b EXCEPT !.pos = p] \in BodyType /\ Reset([b EXCEPT !.pos = p]) = b
<1>1. [b EXCEPT !.pos = p] \in BodyType
    BY DEF BodyType
<1>2. [[b EXCEPT !.pos = p] EXCEPT !.pos = 0] = b
    BY DEF BodyType
<1> QED BY <1>1, <1>2 DEF Reset

\* Reading a body that no transform has read puts a prefix of the client's bytes in
\* memory; reading one that is in memory returns it.
LEMMA ReadBody ==
    ASSUME NEW b, NEW n, NEW d, Stands(b, n, d)
    PROVE  LET read == ReadAll(b)
               after == Reset(read.body)
           IN /\ read.err \in BOOLEAN /\ read.body \in BodyType /\ ~after.original
              /\ ~read.err => read.bytes = after.data /\ Stands(after, n, d)
              /\ d >= 0 => Stands(after, n, d)
              /\ ~b.original => after.data = b.data /\ ~read.err
<1> DEFINE read == ReadAll(b)
           after == Reset(read.body)
<1>0. n \in Nat /\ d \in Int /\ b \in BodyType /\ b.pos = 0 /\ MaxBytes \in Nat
    BY SignAssumption DEF Stands
<1>1. CASE Buffered(b, n, d)
    <2>1. Buffer(b) = b /\ ~BufferFails(b)
        BY <1>1 DEF Buffered, Buffer, BufferFails
    <2>2. Unread(b) = b.data
        BY <1>0 DEF Unread, BodyType
    <2>3. read = [err |-> FALSE, bytes |-> b.data, body |-> [b EXCEPT !.pos = Len(b.data)]]
        BY <2>1, <2>2 DEF ReadAll
    <2>4. Len(b.data) \in Nat
        BY <1>0 DEF BodyType
    <2>5. read.body \in BodyType /\ after = b
        BY <1>0, <2>3, <2>4, AtEnd
    <2>6. read.err = FALSE /\ read.bytes = b.data
        BY <2>3
    <2> QED BY <1>1, <2>5, <2>6 DEF Buffered
<1>2. CASE Unbuffered(b, n)
    <2>1. PICK k \in 0..n : b.rest = BodyBytes(k) /\ (b.fails <=> k < n)
        BY <1>2 DEF Unbuffered
    <2> DEFINE m == IF Truncates(b) THEN MaxBytes ELSE k
               c == Buffer(b)
    <2>2. k \in Nat /\ Len(b.rest) = k
        BY <1>0, <2>1, FirstBytes
    <2>3. Truncates(b) <=> MaxBytes > 0 /\ k >= MaxBytes
        BY <1>2, <2>2 DEF Truncates, Unbuffered
    <2>4. m \in 0..n /\ m \in 0..k
        BY <1>0, <2>2, <2>3
    <2>5. c = [b EXCEPT !.once = TRUE, !.original = FALSE, !.rest = <<>>, !.data = BodyBytes(m)]
        <3>1. CASE Truncates(b)
            <4>1. SubSeq(b.rest, 1, b.max) = BodyBytes(m)
                BY <1>2, <2>1, <2>2, <2>4, <3>1, FirstBytes DEF Unbuffered
            <4> QED BY <1>2, <3>1, <4>1 DEF Buffer, Unbuffered
        <3>2. CASE ~Truncates(b)
            BY <1>2, <2>1, <3>2 DEF Buffer, Unbuffered
        <3> QED BY <3>1, <3>2
    <2>6. BodyBytes(m) \in Seq(Nat) /\ Len(BodyBytes(m)) = m
        BY <1>0, <2>4, FirstBytes
    <2> HIDE DEF c
    <2>7. c \in BodyType /\ c.pos = 0 /\ ~c.original /\ c.once /\ c.data = BodyBytes(m)
        <3> DEFINE s == BodyBytes(m)
        <3>1. /\ b \in BodyType /\ s \in Seq(Nat) /\ b.pos = 0
              /\ c = [b EXCEPT !.once = TRUE, !.original = FALSE, !.rest = <<>>, !.data = s]
            BY <1>0, <2>5, <2>6
        <3> HIDE DEF s
        <3>2. <<>> \in Seq(Nat)
            OBVIOUS
        <3>3. c \in BodyType
            BY <3>1, <3>2 DEF BodyType
        <3>4. c.pos = 0 /\ ~c.original /\ c.once /\ c.data = s
            BY <3>1 DEF BodyType
        <3> QED BY <3>3, <3>4 DEF s
    <2>8. BufferFails(b) <=> k < n /\ ~Truncates(b)
        BY <1>2, <2>1 DEF BufferFails, Unbuffered
    <2>9. CASE BufferFails(b)
        <3>1. read.err /\ read.body = c
            BY <2>9 DEF ReadAll, c
        <3>2. after = c
            BY <2>7, <3>1, Rewound
        <3>3. d >= 0 => Stands(c, n, d)
            BY <1>0, <2>4, <2>7 DEF Stands, Buffered
        <3>4. read.err \in BOOLEAN
            BY <2>9 DEF ReadAll
        <3> QED BY <1>2, <2>7, <3>1, <3>2, <3>3, <3>4 DEF Unbuffered
    <2>10. CASE ~BufferFails(b)
        <3>1. read = [err |-> FALSE, bytes |-> Unread(c), body |-> [c EXCEPT !.pos = Len(c.data)]]
            BY <2>10 DEF ReadAll, c
        <3>2. Unread(c) = c.data
            BY <2>7 DEF Unread, BodyType
        <3>3. Len(c.data) \in Nat /\ read.err = FALSE /\ read.bytes = c.data
            BY <2>4, <2>6, <2>7, <3>1, <3>2
        <3>4. read.body \in BodyType /\ after = c
            BY <2>7, <3>1, <3>3, AtEnd
        <3>5. m = n \/ m = MaxBytes
            BY <1>0, <2>2, <2>8, <2>10
        <3>6. Stands(c, n, d)
            <4>1. c.data = BodyBytes(n) \/ Len(c.data) = MaxBytes
                BY <2>6, <2>7, <3>5
            <4> QED BY <2>4, <2>7, <4>1 DEF Stands, Buffered
        <3> QED BY <1>2, <2>7, <3>3, <3>4, <3>6 DEF Unbuffered
    <2> QED BY <2>9, <2>10
<1> QED BY <1>1, <1>2 DEF Stands

-----------------------------------------------------------------------------
(* The steps of Signers. *)

Whole(r) ==
    r.content = BodyBytes(Len(r.content)) /\ Stands(r.body, Len(r.content), r.declared)

\* What is in memory stays there as it is.
Keeps(b, c) == ~b.original => ~c.original /\ c.data = b.data

\* A request with another body, rewound.
LEMMA WithBody ==
    ASSUME NEW r, IsRequest(r), NEW b \in BodyType
    PROVE  /\ IsRequest([r EXCEPT !.body = b])
           /\ [r EXCEPT !.body = b].body = b
           /\ [r EXCEPT !.body = b].content = r.content
           /\ [r EXCEPT !.body = b].declared = r.declared
BY DEF IsRequest

\* A request with another Authorization.
LEMMA WithAuth ==
    ASSUME NEW r, IsRequest(r), NEW a
    PROVE  /\ IsRequest([r EXCEPT !.auth = a])
           /\ [r EXCEPT !.auth = a].body = r.body
           /\ [r EXCEPT !.auth = a].content = r.content
           /\ [r EXCEPT !.auth = a].declared = r.declared
BY DEF IsRequest

\* What the pipeline makes of a request when a transform is done with it.
LEMMA Passed ==
    ASSUME NEW r, IsRequest(r)
    PROVE  LET q == [r EXCEPT !.body = Reset(@)]
           IN /\ IsRequest(q) /\ q.body = Reset(r.body)
              /\ q.content = r.content /\ q.declared = r.declared
<1>1. r.body \in BodyType
    BY DEF IsRequest
<1>2. Reset(r.body) \in BodyType
    BY <1>1, Rewound
<1>3. [r EXCEPT !.body = Reset(@)] = [r EXCEPT !.body = Reset(r.body)]
    BY DEF IsRequest
<1> QED BY <1>2, <1>3, WithBody

\* Signatures over what is in memory stay so while it does.
LEMMA OverKept ==
    ASSUME NEW sigs, NEW r, NEW q, SignaturesOver(sigs, r), Keeps(r.body, q.body),
           q.content = r.content, q.declared = r.declared
    PROVE  SignaturesOver(sigs, q)
BY DEF SignaturesOver, Keeps

\* Looking for an audience leaves the body standing.
LEMMA StubBody ==
    ASSUME NEW r, IsRequest(r), Whole(r), NEW name
    PROVE  LET b == IF name = "gcp_auth" THEN isTokenEndpoint(r).body ELSE stubRequest(r).body
           IN /\ b \in BodyType /\ Reset(b) = b
              /\ Stands(b, Len(r.content), r.declared) /\ Keeps(r.body, b)
<1> DEFINE n == Len(r.content)
           d == r.declared
           b == IF name = "gcp_auth" THEN isTokenEndpoint(r).body ELSE stubRequest(r).body
           after == Reset(ReadAll(r.body).body)
<1>1. r.body \in BodyType /\ r.body.pos = 0 /\ d \in Int /\ Stands(r.body, n, d)
    BY DEF IsRequest, Whole, Stands
<1>2. b = r.body \/ (d >= 0 /\ b = after)
    <2>1. \/ tokenRequestBody(r).body = r.body
          \/ d >= 0 /\ tokenRequestBody(r).body = after
        BY <1>1 DEF tokenRequestBody
    <2>2. JWTBearerTargetAudience(r).body = tokenRequestBody(r).body
        BY DEF JWTBearerTargetAudience
    <2>3. isTokenEndpoint(r).body \in {r.body, JWTBearerTargetAudience(r).body}
        BY DEF isTokenEndpoint
    <2>4. stubRequest(r).body \in {r.body, JWTBearerTargetAudience(r).body}
        BY DEF stubRequest
    <2> QED BY <2>1, <2>2, <2>3, <2>4
<1>3. CASE b = r.body
    BY <1>1, <1>3, Rewound DEF Keeps
<1>4. CASE d >= 0 /\ b = after
    <2>1. ReadAll(r.body).body \in BodyType
        BY <1>1, ReadBody
    <2>2. after \in BodyType /\ Reset(after) = after
        BY <2>1, Rewound
    <2>3. Stands(after, n, d) /\ ~after.original
        BY <1>1, <1>4, ReadBody
    <2>4. Keeps(r.body, after)
        BY <1>1, ReadBody DEF Keeps
    <2> QED BY <1>4, <2>2, <2>3, <2>4
<1> QED BY <1>2, <1>3, <1>4

\* What is signed is what is put in place of the body, and is the client's body, or a
\* chunked one up to the limit.
LEMMA SignedBody ==
    ASSUME NEW r, IsRequest(r), Whole(r)
    PROVE  LET read == readBodyForSigning(r)
               b == NewBufferedBodyFromBytes(read.bytes)
           IN /\ read.body \in BodyType
              /\ read.why = "none" =>
                    /\ b \in BodyType /\ Reset(b) = b /\ ~b.original /\ b.data = read.bytes
                    /\ Stands(b, Len(r.content), r.declared) /\ Keeps(r.body, b)
                    /\ \/ read.bytes = r.content
                       \/ r.declared < 0 /\ options.chunked /\ Len(read.bytes) = MaxBytes
<1> DEFINE n == Len(r.content)
           d == r.declared
           read == readBodyForSigning(r)
           all == ReadAll(r.body)
           after == Reset(all.body)
           b == NewBufferedBodyFromBytes(read.bytes)
<1>1. Stands(r.body, n, d) /\ n \in Nat /\ d \in {-1, n} /\ r.content = BodyBytes(n)
    BY DEF Whole, Stands
<1>2. all.body \in BodyType /\ all.err \in BOOLEAN
    BY <1>1, ReadBody
<1>3. read.body = all.body /\ read.bytes = all.bytes
    BY DEF readBodyForSigning
<1>4. SUFFICES ASSUME read.why = "none"
      PROVE  /\ b \in BodyType /\ Reset(b) = b /\ ~b.original /\ b.data = read.bytes
             /\ Stands(b, n, d) /\ Keeps(r.body, b)
             /\ \/ read.bytes = r.content
                \/ d < 0 /\ options.chunked /\ Len(read.bytes) = MaxBytes
    BY <1>2, <1>3
<1>5. ~all.err /\ ~(Len(all.bytes) < d) /\ ~(d < 0 /\ ~options.chunked)
    BY <1>2, <1>4 DEF readBodyForSigning
<1>6. /\ all.bytes = after.data /\ Stands(after, n, d) /\ ~after.original
      /\ ~r.body.original => after.data = r.body.data
    BY <1>1, <1>5, ReadBody
<1>7. Buffered(after, n, d) /\ after \in BodyType
    BY <1>6 DEF Stands, Unbuffered
<1>8. PICK k \in 0..n : after.data = BodyBytes(k)
    BY <1>7 DEF Buffered
<1>9. read.bytes = after.data /\ read.bytes \in Seq(Nat) /\ Len(read.bytes) = k
    BY <1>1, <1>3, <1>6, <1>8, FirstBytes
<1>10. /\ b.original = FALSE /\ b.once = TRUE /\ b.data = read.bytes /\ b.pos = 0
       /\ b \in BodyType
    <2>1. <<>> \in Seq(Nat) /\ read.bytes \in Seq(Nat)
        BY <1>9
    <2> HIDE DEF read
    <2> QED BY <2>1 DEF NewBufferedBodyFromBytes, BodyType
<1> HIDE DEF b, read
<1>11. Stands(b, n, d)
    <2>1. d < 0 => b.data = BodyBytes(n) \/ Len(b.data) = MaxBytes
        BY <1>7, <1>9, <1>10 DEF Buffered
    <2> QED BY <1>1, <1>8, <1>9, <1>10, <2>1 DEF Stands, Buffered
<1>12. Reset(b) = b
    BY <1>10, Rewound
<1>13. Keeps(r.body, b)
    BY <1>6, <1>9, <1>10 DEF Keeps
<1>14. \/ read.bytes = r.content
       \/ d < 0 /\ options.chunked /\ Len(read.bytes) = MaxBytes
    <2>1. CASE d = -1
        BY <1>1, <1>5, <1>7, <1>9, <2>1 DEF Buffered
    <2>2. CASE d = n
        <3>1. k = n
            BY <1>1, <1>3, <1>5, <1>9, <2>2
        <3> QED BY <1>1, <1>8, <1>9, <3>1
    <2> QED BY <1>1, <2>1, <2>2
<1> QED BY <1>10, <1>11, <1>12, <1>13, <1>14

\* No request is one without transforms to match it.
LEMMA NoneIsRequest == IsRequest(NoRequest)
<1>1. <<>> \in Seq(Nat)
    OBVIOUS
<1>2. NewBufferedBodyFromBytes(<<>>) \in BodyType
    BY <1>1 DEF NewBufferedBodyFromBytes, BodyType
<1> QED BY <1>2 DEF NoRequest, IsRequest

\* The same of aws_auth, which leaves the body alone when it does not sign it.
LEMMA HashedBody ==
    ASSUME NEW r, IsRequest(r), Whole(r)
    PROVE  LET hash == payloadHash(r)
           IN /\ hash.body \in BodyType
              /\ hash.why = "none" =>
                    /\ Reset(hash.body) = hash.body
                    /\ Stands(hash.body, Len(r.content), r.declared)
                    /\ Keeps(r.body, hash.body)
                    /\ ~options.unsigned =>
                        /\ ~hash.body.original /\ hash.body.data = hash.bytes
                        /\ \/ hash.bytes = r.content
                           \/ /\ r.declared < 0 /\ options.chunked
                              /\ Len(hash.bytes) = MaxBytes
<1>1. CASE options.unsigned
    <2>1. payloadHash(r) = [why |-> "none", bytes |-> <<>>, body |-> r.body]
        BY <1>1 DEF payloadHash
    <2>2. r.body \in BodyType /\ r.body.pos = 0 /\ Stands(r.body, Len(r.content), r.declared)
        BY DEF IsRequest, Whole, Stands
    <2> QED BY <1>1, <2>1, <2>2, Rewound DEF Keeps
<1>2. CASE ~options.unsigned
    <2> DEFINE read == readBodyForSigning(r)
    <2>1. /\ payloadHash(r).why = read.why /\ payloadHash(r).bytes = read.bytes
          /\ payloadHash(r).body = IF read.why = "none"
                                   THEN NewBufferedBodyFromBytes(read.bytes) ELSE read.body
        BY <1>2 DEF payloadHash, readBodyForSigning
    <2> HIDE DEF read
    <2> QED BY <1>2, <2>1, SignedBody DEF read
<1> QED BY <1>1, <1>2

\* Before the first request there is none.
LEMMA InitSign == SignInit => SignInv
BY NoneIsRequest DEF SignInit, SignInv, Idle

\* A request stands when it is made: no transform has read its body.
LEMMA MadeWhole ==
    ASSUME NEW ts, NEW m, NEW e, NEW a, NEW s, NEW n \in Nat, NEW sent \in 0..n,
           NEW d \in {-1, n}
    PROVE  LET q == Request(ts, m, e, a, s, n, sent, d) IN IsRequest(q) /\ Whole(q)
<1> DEFINE q == Request(ts, m, e, a, s, n, sent, d)
           b == NewBufferedBody(BodyBytes(sent), sent < n, MaxBytes)
<1>1. /\ BodyBytes(sent) \in Seq(Nat) /\ BodyBytes(n) \in Seq(Nat)
      /\ Len(BodyBytes(n)) = n /\ MaxBytes \in Nat /\ <<>> \in Seq(Nat)
    BY FirstBytes, SignAssumption
<1>2. PICK f \in BOOLEAN :
         /\ b = [original |-> TRUE, rest |-> BodyBytes(sent), fails |-> f, max |-> MaxBytes,
                 once |-> FALSE, data |-> <<>>, pos |-> 0]
         /\ f <=> sent < n
    <2> DEFINE f == sent < n
    <2>1. f \in BOOLEAN /\ (f <=> sent < n)
        OBVIOUS
    <2>2. b = NewBufferedBody(BodyBytes(sent), f, MaxBytes)
        OBVIOUS
    <2> HIDE DEF f, b
    <2> QED BY <2>1, <2>2, Zenon DEF NewBufferedBody
<1> HIDE DEF b
<1>3. b \in BodyType
    BY <1>1, <1>2 DEF BodyType
<1>4. b.original /\ ~b.once /\ b.max = MaxBytes /\ b.rest = BodyBytes(sent) /\ b.pos = 0
    BY <1>2
<1>5. b.fails <=> sent < n
    BY <1>2
<1>6. Stands(b, n, d)
    BY <1>3, <1>4, <1>5 DEF Stands, Unbuffered
<1>7. q = [matched |-> ts, method |-> m, endpoint |-> e, audience |-> a, scope |-> s,
           auth |-> "client", content |-> BodyBytes(n), declared |-> d, body |-> b]
    BY DEF Request, b
<1> HIDE DEF q
<1>8. q.content = BodyBytes(n) /\ q.declared = d /\ q.body = b
    BY <1>7
<1>9. IsRequest(q)
    BY <1>3, <1>7 DEF IsRequest
<1> QED BY <1>1, <1>6, <1>8, <1>9 DEF Whole, q

\* So every request that arrives does.
LEMMA ArrivesWhole ==
    ASSUME NEW ts, NEW r \in Arrivals(ts)
    PROVE  IsRequest(r) /\ Whole(r)
<1>1. PICK m, e, a, s : \E n \in Nat : \E sent \in 0..n, d \in {-1, n} :
            r = Request(ts, m, e, a, s, n, sent, d)
    <2>1. CASE r = Request(ts, "CONNECT", "none", FALSE, "absent", 0, 0, 0)
        <3>1. 0 \in Nat /\ 0 \in 0..0 /\ 0 \in {-1, 0}
            OBVIOUS
        <3> QED BY <2>1, <3>1, Zenon
    <2>2. ASSUME NEW n \in 0..MaxLength, NEW sent \in 0..n, NEW d \in {-1, n},
                 \/ \E s \in {"absent", "refused", "allowed"} :
                        r = Request(ts, "POST", "none", FALSE, s, n, sent, d)
                 \/ \E e \in {"token", "metadata_token", "metadata_identity"} :
                        r = Request(ts, "POST", e, FALSE, "allowed", n, sent, d)
                 \/ r = Request(ts, "POST", "token", n > 0, "allowed", n, sent, d)
          PROVE  \E m, e, a, s : \E k \in Nat : \E y \in 0..k, z \in {-1, k} :
                    r = Request(ts, m, e, a, s, k, y, z)
        <3>1. n \in Nat
            BY SignAssumption
        <3> QED BY <2>2, <3>1, Zenon
    <2> DEFINE made(n, sent, d) ==
                 {Request(ts, "POST", "none", FALSE, s, n, sent, d) :
                    s \in {"absent", "refused", "allowed"}}
                 \union {Request(ts, "POST", e, FALSE, "allowed", n, sent, d) :
                    e \in {"token", "metadata_token", "metadata_identity"}}
                 \union {Request(ts, "POST", "token", n > 0, "allowed", n, sent, d)}
               batch(n) == UNION {made(n, sent, d) : sent \in 0..n, d \in {-1, n}}
    <2>3. Arrivals(ts) = {Request(ts, "CONNECT", "none", FALSE, "absent", 0, 0, 0)}
                         \union UNION {batch(n) : n \in 0..MaxLength}
        BY DEF Arrivals
    <2>4. ASSUME NEW n \in 0..MaxLength, NEW sent \in 0..n, NEW d \in {-1, n},
                 r \in made(n, sent, d)
          PROVE  \E m, e, a, s : \E k \in Nat : \E y \in 0..k, z \in {-1, k} :
                    r = Request(ts, m, e, a, s, k, y, z)
        BY <2>2, <2>4
    <2> HIDE DEF made
    <2>5. ASSUME NEW n \in 0..MaxLength, r \in batch(n)
          PROVE  \E sent \in 0..n, d \in {-1, n} : r \in made(n, sent, d)
        BY <2>5
    <2> HIDE DEF batch
    <2>6. \/ r = Request(ts, "CONNECT", "none", FALSE, "absent", 0, 0, 0)
          \/ \E n \in 0..MaxLength : r \in batch(n)
        BY <2>3
    <2> QED BY <2>1, <2>4, <2>5, <2>6, Zenon
<1> QED BY <1>1, MadeWhole

\* A transform that goes on keeps the request whole and what was signed in memory.
LEMMA GoesOn ==
    ASSUME SignInv, fate.is = "open", NEW r, IsRequest(r), Continue(r),
           r.content = req.content, r.declared = req.declared, Reset(r.body) = r.body,
           Stands(r.body, Len(req.content), req.declared), Keeps(req.body, r.body)
    PROVE  /\ IsRequest(req') /\ Whole(req') /\ SignaturesOver(signatures, req')
           /\ req'.body = r.body /\ req'.content = req.content
           /\ req'.declared = req.declared /\ fate' = fate
<1>1. /\ IsRequest(req') /\ req'.body = r.body
      /\ req'.content = req.content /\ req'.declared = req.declared
    BY Passed DEF Continue
<1>2. Whole(req')
    BY <1>1 DEF Whole, SignInv
<1>3. SignaturesOver(signatures, req')
    BY <1>1, OverKept DEF SignInv
<1> QED BY <1>1, <1>2, <1>3 DEF Continue

\* A transform that ends the request leaves nothing to be sent.
LEMMA Ended ==
    ASSUME NEW r, IsRequest(r), NEW is \in {"rejected", "stubbed"}, NEW why, Ends(r, is, why)
    PROVE  IsRequest(req') /\ fate'.is \notin {"open", "sent"} /\ fate'.why = why
BY Passed DEF Ends

\* A transform that does not touch the request.
LEMMA Untouched ==
    ASSUME SignInv, fate.is = "open", Continue(req), UNCHANGED <<options, signatures>>
    PROVE  SignInv'
<1>1. IsRequest(req) /\ Whole(req) /\ req.body \in BodyType /\ req.body.pos = 0
    BY DEF SignInv, IsRequest, Whole, Stands
<1>2. Reset(req.body) = req.body
    BY <1>1, Rewound
<1>3. IsRequest(req') /\ Whole(req') /\ SignaturesOver(signatures, req')
    BY <1>1, <1>2, GoesOn DEF Whole, Keeps
<1> QED BY <1>3 DEF SignInv, Whole, SignaturesOver

\* One more signature, over what is now in memory.
LEMMA SignedToo ==
    ASSUME UNCHANGED options, SignaturesOver(signatures, req'), NEW name, NEW bytes,
           NEW covers \in BOOLEAN, Sign(name, covers, bytes),
           covers => /\ ~req'.body.original /\ bytes = req'.body.data
                     /\ \/ bytes = req'.content
                        \/ req'.declared < 0 /\ options.chunked /\ Len(bytes) = MaxBytes
    PROVE  SignaturesOver(signatures, req)'
BY DEF SignaturesOver, Sign

\* Every step keeps it.
LEMMA StepSign == SignInv /\ [SignNext]_signVars => SignInv'
<1> SUFFICES ASSUME SignInv, [SignNext]_signVars PROVE SignInv'
    OBVIOUS
<1>0. /\ IsRequest(req) /\ req.body \in BodyType
      /\ fate.is \in {"open", "sent"} => Whole(req) /\ SignaturesOver(signatures, req)
    BY DEF SignInv, Whole, IsRequest
<1>1. CASE BackendChanges
    BY <1>1 DEF BackendChanges, SignInv, SignaturesOver
<1>2. CASE Arrive
    <2>1. IsRequest(req') /\ Whole(req')
        BY <1>2, ArrivesWhole DEF Arrive
    <2> QED BY <1>2, <2>1 DEF Arrive, SignInv, SignaturesOver, Whole
<1>3. CASE Forward
    BY <1>0, <1>3 DEF Forward, SignInv, SignaturesOver
<1>4. CASE Over
    BY <1>0, <1>4, NoneIsRequest DEF Over, SignInv, Idle
<1>5. ASSUME NEW name, MinterTransform(name) PROVE SignInv'
    <2> DEFINE b == Stub(name).body
               r == [req EXCEPT !.body = b]
    <2>1. fate.is = "open" /\ UNCHANGED <<pipeline, options, signatures>>
        BY <1>5 DEF MinterTransform, Turn
    <2>2. b = IF name = "gcp_auth" THEN isTokenEndpoint(req).body ELSE stubRequest(req).body
        BY DEF Stub
    <2>3. /\ b \in BodyType /\ Reset(b) = b
          /\ Stands(b, Len(req.content), req.declared) /\ Keeps(req.body, b)
        BY <1>0, <2>1, <2>2, StubBody
    <2> HIDE DEF b
    <2>4. IsRequest(r) /\ r.body = b /\ r.content = req.content /\ r.declared = req.declared
        BY <1>0, <2>3, WithBody
    <2> DEFINE q == [r EXCEPT !.auth = name]
    <2> HIDE DEF r
    <2>5. IsRequest(q) /\ q.body = b /\ q.content = req.content /\ q.declared = req.declared
        BY <2>4, WithAuth
    <2> HIDE DEF q
    <2>6. \/ Ends(r, "stubbed", name) \/ Ends(r, "rejected", "token_unavailable")
          \/ Continue(r) \/ Continue(q)
        BY <1>5 DEF MinterTransform, b, r, q
    <2>7. CASE Ends(r, "stubbed", name) \/ Ends(r, "rejected", "token_unavailable")
        <3>1. IsRequest(req') /\ fate'.is \notin {"open", "sent"}
            BY <2>4, <2>7, Ended
        <3> QED BY <1>0, <2>1, <3>1 DEF SignInv
    <2>8. CASE Continue(r) \/ Continue(q)
        <3>1. /\ IsRequest(req') /\ Whole(req') /\ SignaturesOver(signatures, req')
              /\ fate' = fate
            BY <2>1, <2>3, <2>4, <2>5, <2>8, GoesOn
        <3> QED BY <1>0, <2>1, <3>1 DEF SignInv, Whole, SignaturesOver
    <2> QED BY <2>6, <2>7, <2>8
<1>6. CASE hmacSign
    <2> DEFINE read == readBodyForSigning(req)
               b == NewBufferedBodyFromBytes(read.bytes)
               r == [req EXCEPT !.body = read.body]
               q == [r EXCEPT !.body = b]
    <2>1. fate.is = "open" /\ UNCHANGED <<pipeline, options>>
        BY <1>6 DEF hmacSign, Turn
    <2>2. read.body \in BodyType
        BY <1>0, <2>1, SignedBody
    <2>3. read.why = "none" =>
            /\ b \in BodyType /\ Reset(b) = b /\ ~b.original /\ b.data = read.bytes
            /\ Stands(b, Len(req.content), req.declared) /\ Keeps(req.body, b)
            /\ \/ read.bytes = req.content
               \/ req.declared < 0 /\ options.chunked /\ Len(read.bytes) = MaxBytes
        BY <1>0, <2>1, SignedBody
    <2>4. \/ Continue(req) /\ UNCHANGED signatures
          \/ (\E why : Ends(r, "rejected", why)) /\ UNCHANGED signatures
          \/ read.why = "none" /\ Continue(q) /\ Sign("hmac_sign", TRUE, read.bytes)
        BY <1>6 DEF hmacSign
    <2> HIDE DEF read, b
    <2>5. IsRequest(r) /\ r.content = req.content /\ r.declared = req.declared
        BY <1>0, <2>2, WithBody
    <2> HIDE DEF r
    <2>6. CASE Continue(req) /\ UNCHANGED signatures
        BY <1>0, <2>1, <2>6, Untouched
    <2>7. CASE (\E why : Ends(r, "rejected", why)) /\ UNCHANGED signatures
        <3>1. IsRequest(req') /\ fate'.is \notin {"open", "sent"}
            BY <2>5, <2>7, Ended
        <3> QED BY <3>1 DEF SignInv
    <2>8. CASE read.why = "none" /\ Continue(q) /\ Sign("hmac_sign", TRUE, read.bytes)
        <3>1. IsRequest(q) /\ q.body = b /\ q.content = req.content /\ q.declared = req.declared
            BY <2>3, <2>5, <2>8, WithBody
        <3> HIDE DEF q
        <3>2. /\ IsRequest(req') /\ Whole(req') /\ SignaturesOver(signatures, req')
              /\ req'.body = b /\ req'.content = req.content /\ req'.declared = req.declared
            BY <2>1, <2>3, <2>8, <3>1, GoesOn
        <3>3. SignaturesOver(signatures, req)'
            BY <2>1, <2>3, <2>8, <3>2, SignedToo
        <3> QED BY <3>2, <3>3 DEF SignInv, Whole
    <2> QED BY <2>4, <2>6, <2>7, <2>8
<1>7. CASE awsAuth
    <2> DEFINE hash == payloadHash(req)
               b == hash.body
               r == [req EXCEPT !.body = b]
    <2>1. fate.is = "open" /\ UNCHANGED <<pipeline, options>>
        BY <1>7 DEF awsAuth, Turn
    <2>2. b \in BodyType
        BY <1>0, <2>1, HashedBody
    <2>3. hash.why = "none" =>
            /\ Reset(b) = b
            /\ Stands(b, Len(req.content), req.declared) /\ Keeps(req.body, b)
            /\ ~options.unsigned =>
                /\ ~b.original /\ b.data = hash.bytes
                /\ \/ hash.bytes = req.content
                   \/ req.declared < 0 /\ options.chunked /\ Len(hash.bytes) = MaxBytes
        BY <1>0, <2>1, HashedBody
    <2>4. \/ Continue(req) /\ UNCHANGED signatures
          \/ \E why : Ends(req, "rejected", why)
          \/ \E why : Ends(r, "rejected", why)
          \/ Ends([r EXCEPT !.auth = "none"], "rejected", "signing_failed")
          \/ /\ hash.why = "none" /\ Continue([r EXCEPT !.auth = "aws_auth"])
             /\ Sign("aws_auth", ~options.unsigned, hash.bytes)
        BY <1>7 DEF awsAuth
    <2> HIDE DEF hash, b
    <2>5. IsRequest(r) /\ r.body = b /\ r.content = req.content /\ r.declared = req.declared
        BY <1>0, <2>2, WithBody
    <2> HIDE DEF r
    <2>6. CASE Continue(req) /\ UNCHANGED signatures
        BY <1>0, <2>1, <2>6, Untouched
    <2>7. ASSUME NEW x, IsRequest(x), NEW why, Ends(x, "rejected", why) PROVE SignInv'
        <3>1. IsRequest(req') /\ fate'.is \notin {"open", "sent"}
            BY <2>7, Ended
        <3> QED BY <3>1 DEF SignInv
    <2>8. CASE /\ hash.why = "none" /\ Continue([r EXCEPT !.auth = "aws_auth"])
               /\ Sign("aws_auth", ~options.unsigned, hash.bytes)
        <3> DEFINE q == [r EXCEPT !.auth = "aws_auth"]
        <3>1. IsRequest(q) /\ q.body = b /\ q.content = req.content /\ q.declared = req.declared
            BY <2>5, WithAuth
        <3>2. Continue(q)
            BY <2>8
        <3> HIDE DEF q
        <3>3. /\ IsRequest(req') /\ Whole(req') /\ SignaturesOver(signatures, req')
              /\ req'.body = b /\ req'.content = req.content /\ req'.declared = req.declared
            BY <2>1, <2>3, <2>8, <3>1, <3>2, GoesOn
        <3> DEFINE covers == ~options.unsigned
        <3>4. covers \in BOOLEAN /\ Sign("aws_auth", covers, hash.bytes)
            BY <2>8
        <3>5. covers => /\ ~req'.body.original /\ hash.bytes = req'.body.data
                        /\ \/ hash.bytes = req'.content
                           \/ /\ req'.declared < 0 /\ options.chunked
                              /\ Len(hash.bytes) = MaxBytes
            BY <2>3, <2>8, <3>3
        <3> HIDE DEF covers
        <3>6. SignaturesOver(signatures, req)'
            BY <2>1, <3>3, <3>4, <3>5, SignedToo
        <3> QED BY <3>3, <3>6 DEF SignInv, Whole
    <2>9. IsRequest([r EXCEPT !.auth = "none"])
        BY <2>5, WithAuth
    <2> QED BY <1>0, <2>4, <2>5, <2>6, <2>7, <2>8, <2>9
<1>10. CASE UNCHANGED signVars
    BY <1>10 DEF signVars, SignInv, SignaturesOver
<1> QED BY <1>1, <1>2, <1>3, <1>4, <1>5, <1>6, <1>7, <1>10 DEF SignNext, gcpAuth, gcpIDToken

\* Whatever transforms read the body before, a signature that goes upstream covers
\* what the upstream reads: the client's whole body, or a chunked one up to the limit.
THEOREM SignedIsSent == SignSpec => []SignedAsSent
<1>1. SignInv => SignedAsSent
    <2> SUFFICES ASSUME SignInv, fate.is = "sent", NEW s \in signatures, s.covers
                 PROVE  /\ s.body = StreamingReader(req.body).bytes
                        /\ \/ s.body = req.content
                           \/ req.declared < 0 /\ options.chunked /\ Len(s.body) = MaxBytes
        BY DEF SignedAsSent
    <2>1. /\ ~req.body.original /\ s.body = req.body.data
          /\ req.body \in BodyType /\ req.body.pos = 0
          /\ \/ s.body = req.content
             \/ req.declared < 0 /\ options.chunked /\ Len(s.body) = MaxBytes
        BY DEF SignInv, SignaturesOver, Stands
    <2>2. Unread(req.body) = req.body.data
        BY <2>1 DEF Unread, BodyType
    <2> QED BY <2>1, <2>2 DEF StreamingReader
<1> QED BY InitSign, StepSign, <1>1, PTL DEF SignSpec

\* Reading a body never fails for want of a token.
LEMMA ReadsNoToken ==
    ASSUME NEW r
    PROVE  /\ readBodyForSigning(r).why # "token_unavailable"
           /\ payloadHash(r).why # "token_unavailable"
           /\ scopeError(r) # "token_unavailable"
<1>1. readBodyForSigning(r).why # "token_unavailable"
    BY DEF readBodyForSigning
<1>2. payloadHash(r).why \in {"none", readBodyForSigning(r).why}
    BY DEF payloadHash, readBodyForSigning
<1>3. scopeError(r) # "token_unavailable"
    BY DEF scopeError
<1> QED BY <1>1, <1>2, <1>3

\* The backend's absence is noted from the start, and a source is never marked failed.
LEMMA StepMint == MintInv /\ [SignNext]_signVars => MintInv'
<1> SUFFICES ASSUME MintInv, [SignNext]_signVars PROVE MintInv'
    OBVIOUS
<1> USE DEF MintInv, RefusedOnlyWhileDown
<1>1. CASE BackendChanges
    BY <1>1 DEF BackendChanges
<1>2. CASE Arrive
    BY <1>2 DEF Arrive, Open
<1>3. CASE Forward
    BY <1>3 DEF Forward
<1>4. CASE Over
    BY <1>4 DEF Over, Idle
<1>5. ASSUME NEW name \in Minters, MinterTransform(name) PROVE MintInv'
    <2>1. UNCHANGED <<up, downSince>> /\ name # "token_unavailable"
        BY <1>5 DEF MinterTransform, Minters
    <2>2. \/ \E r : Continue(r) \/ Ends(r, "stubbed", name)
          \/ \E ok \in BOOLEAN : ~ok /\ mintToken(name, ok)
        BY <1>5, Zenon DEF MinterTransform
    <2>3. ASSUME NEW ok \in BOOLEAN, ~ok, mintToken(name, ok) PROVE ~up
        BY <1>5, <2>3 DEF mintToken, loadTokenSource
    <2>4. UNCHANGED source \/ source' = [source EXCEPT ![name] = "loaded"]
        BY <1>5 DEF MinterTransform, mintToken, loadTokenSource
    <2>5. DOMAIN source' = Minters /\ \A m \in Minters : source'[m] \in {"none", "loaded"}
        BY <2>4
    <2>6. fate' = fate \/ fate'.why # "token_unavailable" \/ ~up
        BY <2>1, <2>2, <2>3 DEF Continue, Ends
    <2> QED BY <2>1, <2>5, <2>6
<1>6. CASE hmacSign
    <2>1. UNCHANGED <<up, downSince, source>>
        BY <1>6 DEF hmacSign
    <2>2. \/ \E r : Continue(r)
          \/ \E r : Ends(r, "rejected", readBodyForSigning(req).why)
          \/ \E r : Ends(r, "rejected", "credential_unavailable")
          \/ \E r : \E why \in {"message_template_failed", "key_decode_failed",
                               "header_template_failed"} : Ends(r, "rejected", why)
        BY <1>6, Zenon DEF hmacSign
    <2>3. fate' = fate \/ fate'.why # "token_unavailable"
        BY <2>2, ReadsNoToken DEF Continue, Ends
    <2> QED BY <2>1, <2>3
<1>7. CASE awsAuth
    <2>1. UNCHANGED <<up, downSince, source>>
        BY <1>7 DEF awsAuth
    <2>2. \/ \E r : Continue(r)
          \/ \E r : Ends(r, "rejected", scopeError(req))
          \/ \E r : Ends(r, "rejected", payloadHash(req).why)
          \/ \E r : Ends(r, "rejected", "credential_unavailable")
          \/ \E r : Ends(r, "rejected", "signing_failed")
        BY <1>7, Zenon DEF awsAuth
    <2>3. fate' = fate \/ fate'.why # "token_unavailable"
        BY <2>2, ReadsNoToken DEF Continue, Ends
    <2> QED BY <2>1, <2>3
<1>8. CASE UNCHANGED signVars
    BY <1>8 DEF signVars
<1> QED BY <1>1, <1>2, <1>3, <1>4, <1>5, <1>6, <1>7, <1>8
    DEF SignNext, gcpAuth, gcpIDToken, Minters

\* A request is refused for want of a token only if the backend was away since it
\* arrived.
THEOREM RefusalIsCurrent == SignSpec => []RefusedOnlyWhileDown
<1>1. ASSUME SignInit PROVE MintInv
    <2>1. up \in BOOLEAN /\ downSince \in BOOLEAN /\ (~up => downSince)
        BY <1>1, Zenon DEF SignInit
    <2> QED BY <1>1, <2>1 DEF SignInit, MintInv, RefusedOnlyWhileDown, Idle
<1>2. MintInv => RefusedOnlyWhileDown
    BY DEF MintInv
<1> QED BY <1>1, <1>2, StepMint, PTL DEF SignSpec
=============================================================================

------------------------ MODULE PostgresSessionProofs ------------------------
(***************************************************************************)
(* For any number of pinned settings, of messages and of messages in       *)
(* flight: what reaches the upstream obeys the statement policy, and every *)
(* message the protocol answers is answered with exactly one ReadyForQuery *)
(* that tells the upstream's transaction state.                            *)
(*                                                                         *)
(* Three facts carry both: what clientToServer will know of a refused      *)
(* batch when it reaches a message is what the client knew when it sent it *)
(* (Batch), what the client is owed is in flight (Owed), and the last      *)
(* ReadyForQuery in flight tells the upstream's state (Told).              *)
(***************************************************************************)
EXTENDS PostgresSession, Integers, FiniteSetTheorems, FunctionTheorems, SequenceTheorems, TLAPS

Before == {"startup", "auth", "dial", "setup", "hijack"}

\* Whether a refused Parse is pending after message m, given what m says of the
\* messages before it.
After(m) == CASE m.kind \in {"Query", "Sync"} -> FALSE
              [] m.kind = "Parse" /\ ~m.allowed -> TRUE
              [] OTHER -> m.orphan

\* The marks of the messages in q, when clientToServer stands at skip and the
\* client at rej: each follows from the message before it.
Batch(q, skip, rej) ==
    /\ q = <<>> => (rej <=> skip)
    /\ q # <<>> => /\ q[1].orphan <=> (skip /\ q[1].kind # "Query")
                   /\ rej <=> After(q[Len(q)])
    /\ \A i \in 1 .. (Len(q) - 1) :
          q[i + 1].orphan <=> (After(q[i]) /\ q[i + 1].kind # "Query")

\* clientToServer takes the message at the head.
LEMMA BatchTail ==
    ASSUME NEW q \in Seq(Messages), NEW skip \in BOOLEAN, NEW rej \in BOOLEAN,
           Batch(q, skip, rej), q # <<>>,
           NEW next \in BOOLEAN, next <=> After(Head(q))
    PROVE  Batch(Tail(q), next, rej)
  <1>1. Tail(q) \in Seq(Messages) /\ Len(Tail(q)) = Len(q) - 1 /\ Len(q) \in Nat \ {0}
    OBVIOUS
  <1>2. \A i \in 1 .. Len(Tail(q)) : Tail(q)[i] = q[i + 1]
    OBVIOUS
  <1>3. Head(q) = q[1]
    OBVIOUS
  <1> DEFINE t == Tail(q)
  <1>4. t = <<>> <=> Len(q) = 1
    BY <1>1
  <1>5. t = <<>> => (rej <=> next)
    BY <1>3, <1>4 DEF Batch
  <1>6. t # <<>> => t[1] = q[2] /\ t[Len(t)] = q[Len(q)]
    BY <1>1, <1>2, <1>4
  <1>7. t # <<>> => /\ t[1].orphan <=> (next /\ t[1].kind # "Query")
                    /\ rej <=> After(t[Len(t)])
    <2> SUFFICES ASSUME t # <<>>
                 PROVE  /\ t[1].orphan <=> (next /\ t[1].kind # "Query")
                        /\ rej <=> After(t[Len(t)])
      OBVIOUS
    <2>1. 1 \in 1 .. (Len(q) - 1)
      BY <1>1, <1>4
    <2>2. q[2].orphan <=> (After(q[1]) /\ q[2].kind # "Query")
      BY <2>1 DEF Batch
    <2>3. t[1] = q[2] /\ t[Len(t)] = q[Len(q)]
      BY <1>6
    <2>4. t[1].orphan <=> (next /\ t[1].kind # "Query")
      BY <1>3, <2>2, <2>3
    <2>5. rej <=> After(q[Len(q)])
      BY DEF Batch
    <2> QED BY <2>3, <2>4, <2>5
  <1>8. ASSUME NEW i \in 1 .. (Len(t) - 1)
        PROVE  t[i + 1].orphan <=> (After(t[i]) /\ t[i + 1].kind # "Query")
    <2>1. i + 1 \in 1 .. (Len(q) - 1) /\ t[i] = q[i + 1] /\ t[i + 1] = q[i + 2]
      BY <1>1, <1>2
    <2>2. (i + 1) + 1 = i + 2
      OBVIOUS
    <2> QED BY <2>1, <2>2 DEF Batch
  <1> QED BY <1>5, <1>7, <1>8 DEF Batch

\* The client sends a message.
LEMMA BatchAppend ==
    ASSUME NEW q \in Seq(Messages), NEW skip \in BOOLEAN, NEW rej \in BOOLEAN,
           Batch(q, skip, rej), NEW m \in Messages,
           m.orphan <=> (rej /\ m.kind # "Query"),
           NEW next \in BOOLEAN, next <=> After(m)
    PROVE  Batch(Append(q, m), skip, next)
  <1> DEFINE t == Append(q, m)
  <1>1. /\ t \in Seq(Messages) /\ Len(t) = Len(q) + 1 /\ t[Len(t)] = m
        /\ Len(q) \in Nat /\ t # <<>>
    OBVIOUS
  <1>2. \A i \in 1 .. Len(q) : t[i] = q[i]
    OBVIOUS
  <1>3. q = <<>> => t[1] = m
    BY <1>1
  <1>4. q # <<>> => t[1] = q[1]
    BY <1>1, <1>2
  <1>5. t[1].orphan <=> (skip /\ t[1].kind # "Query")
    BY <1>3, <1>4 DEF Batch
  <1>6. ASSUME NEW i \in 1 .. (Len(t) - 1)
        PROVE  t[i + 1].orphan <=> (After(t[i]) /\ t[i + 1].kind # "Query")
    <2>1. CASE i = Len(q)
      <3>1. t[i] = q[Len(q)] /\ t[i + 1] = m /\ q # <<>>
        BY <1>1, <1>2, <2>1
      <3> QED BY <3>1 DEF Batch
    <2>2. CASE i # Len(q)
      <3>1. i \in 1 .. (Len(q) - 1) /\ t[i] = q[i] /\ t[i + 1] = q[i + 1]
        BY <1>1, <1>2, <2>2
      <3> QED BY <3>1 DEF Batch
    <2> QED BY <2>1, <2>2
  <1> QED BY <1>1, <1>5, <1>6 DEF Batch

-----------------------------------------------------------------------------
(* The last ReadyForQuery in flight.                                        *)

\* What serverToClient will have recorded once it has relayed d is u.
Told(d, status, u) ==
    /\ (\A i \in DOMAIN d : d[i] \notin TxStates) => status = u
    /\ \A i \in DOMAIN d :
          d[i] \in TxStates /\ (\A j \in DOMAIN d : j > i => d[j] \notin TxStates)
              => d[i] = u

\* serverToClient relays the message at the head.
LEMMA ToldTail ==
    ASSUME NEW d \in Seq(Replies), d # <<>>, NEW status, NEW u, Told(d, status, u),
           NEW next, next = IF Head(d) \in TxStates THEN Head(d) ELSE status
    PROVE  Told(Tail(d), next, u)
  <1> DEFINE t == Tail(d)
  <1>1. /\ DOMAIN d = 1 .. Len(d) /\ Len(d) \in Nat \ {0}
        /\ DOMAIN t = 1 .. (Len(d) - 1) /\ Head(d) = d[1]
        /\ \A i \in 1 .. (Len(d) - 1) : t[i] = d[i + 1]
    OBVIOUS
  <1>2. ASSUME \A i \in DOMAIN t : t[i] \notin TxStates PROVE next = u
    <2>1. \A i \in DOMAIN d : i > 1 => d[i] \notin TxStates
      <3> SUFFICES ASSUME NEW i \in DOMAIN d, i > 1 PROVE d[i] \notin TxStates
        OBVIOUS
      <3>1. i - 1 \in DOMAIN t /\ t[i - 1] = d[i]
        BY <1>1
      <3> QED BY <1>2, <3>1
    <2>2. CASE d[1] \in TxStates
      BY <1>1, <2>1, <2>2 DEF Told
    <2>3. CASE d[1] \notin TxStates
      <3>1. \A i \in DOMAIN d : d[i] \notin TxStates
        BY <1>1, <2>1, <2>3
      <3> QED BY <1>1, <2>3, <3>1 DEF Told
    <2> QED BY <2>2, <2>3
  <1>3. ASSUME NEW i \in DOMAIN t, t[i] \in TxStates,
               \A j \in DOMAIN t : j > i => t[j] \notin TxStates
        PROVE  t[i] = u
    <2>1. i + 1 \in DOMAIN d /\ d[i + 1] = t[i]
      BY <1>1
    <2>2. ASSUME NEW j \in DOMAIN d, j > i + 1 PROVE d[j] \notin TxStates
      <3>1. j - 1 \in DOMAIN t /\ j - 1 > i /\ t[j - 1] = d[j]
        BY <1>1, <2>2
      <3> QED BY <1>3, <3>1
    <2> QED BY <1>3, <2>1, <2>2 DEF Told
  <1> QED BY <1>2, <1>3 DEF Told

\* The upstream sends something that is no ReadyForQuery, or one.
LEMMA ToldAppend ==
    ASSUME NEW d \in Seq(Replies), NEW status, NEW u, Told(d, status, u),
           NEW e \in Replies, NEW v, v = IF e \in TxStates THEN e ELSE u
    PROVE  Told(Append(d, e), status, v)
  <1> DEFINE t == Append(d, e)
             n == Len(d) + 1
  <1>1. /\ DOMAIN d = 1 .. Len(d) /\ Len(d) \in Nat /\ DOMAIN t = 1 .. n
        /\ t[n] = e /\ \A i \in 1 .. Len(d) : t[i] = d[i]
    OBVIOUS
  <1>2. CASE e \in TxStates
    <2>1. n \in DOMAIN t /\ \A i \in DOMAIN t : i = n \/ n > i
      BY <1>1
    <2> QED BY <1>1, <1>2, <2>1 DEF Told
  <1>3. CASE e \notin TxStates
    <2>1. ASSUME \A i \in DOMAIN t : t[i] \notin TxStates PROVE status = v
      <3>1. \A i \in DOMAIN d : i \in DOMAIN t /\ d[i] = t[i]
        BY <1>1
      <3> QED BY <1>3, <2>1, <3>1 DEF Told
    <2>2. ASSUME NEW i \in DOMAIN t, t[i] \in TxStates,
                 \A j \in DOMAIN t : j > i => t[j] \notin TxStates
          PROVE  t[i] = v
      <3>1. i \in DOMAIN d /\ t[i] = d[i]
        BY <1>1, <1>3, <2>2
      <3>2. \A j \in DOMAIN d : j > i => d[j] \notin TxStates
        BY <1>1, <2>2
      <3> QED BY <1>3, <2>2, <3>1, <3>2 DEF Told
    <2> QED BY <2>1, <2>2 DEF Told
  <1> QED BY <1>2, <1>3

-----------------------------------------------------------------------------
(* Counting in a sequence that is read at the head and written at the end.  *)

Places(s, S) == {i \in DOMAIN s : s[i] \in S}
Count(s, S) == Cardinality(Places(s, S))

\* A sequence has finitely many places.
LEMMA CountType ==
    ASSUME NEW T, NEW s \in Seq(T), NEW S
    PROVE  IsFiniteSet(Places(s, S)) /\ Count(s, S) \in Nat
  <1>1. DOMAIN s = 1 .. Len(s) /\ Len(s) \in Nat
    OBVIOUS
  <1>2. IsFiniteSet(1 .. Len(s))
    BY <1>1, FS_Interval
  <1>3. Places(s, S) \in SUBSET (1 .. Len(s))
    BY <1>1 DEF Places
  <1>4. IsFiniteSet(Places(s, S))
    BY <1>2, <1>3, FS_Subset
  <1> QED BY <1>4, FS_CardinalityType DEF Count

\* Nothing is counted in the empty sequence.
LEMMA CountEmpty ==
    ASSUME NEW S PROVE Count(<<>>, S) = 0
  <1>1. Places(<<>>, S) = {}
    BY DEF Places
  <1> QED BY <1>1, FS_EmptySet DEF Count

\* An element is added at the end.
LEMMA CountAppend ==
    ASSUME NEW T, NEW s \in Seq(T), NEW e \in T, NEW S
    PROVE  Count(Append(s, e), S) = Count(s, S) + (IF e \in S THEN 1 ELSE 0)
  <1> DEFINE t == Append(s, e)
             n == Len(s) + 1
  <1>1. /\ DOMAIN s = 1 .. Len(s) /\ Len(s) \in Nat /\ DOMAIN t = 1 .. n
        /\ t[n] = e /\ \A i \in 1 .. Len(s) : t[i] = s[i]
    OBVIOUS
  <1>2. n \notin Places(s, S)
    BY <1>1 DEF Places
  <1>3. IsFiniteSet(Places(s, S)) /\ Count(s, S) \in Nat
    BY CountType
  <1>4. CASE e \in S
    <2>1. Places(t, S) = Places(s, S) \cup {n}
      BY <1>1, <1>4 DEF Places
    <2>2. Cardinality(Places(s, S) \cup {n}) = Cardinality(Places(s, S)) + 1
      BY <1>2, <1>3, FS_AddElement
    <2> QED BY <1>4, <2>1, <2>2 DEF Count
  <1>5. CASE e \notin S
    <2>1. Places(t, S) = Places(s, S)
      BY <1>1, <1>5 DEF Places
    <2> QED BY <1>3, <1>5, <2>1 DEF Count
  <1> QED BY <1>4, <1>5

\* The element at the head is taken.
LEMMA CountTail ==
    ASSUME NEW T, NEW s \in Seq(T), s # <<>>, NEW S
    PROVE  Count(s, S) = Count(Tail(s), S) + (IF Head(s) \in S THEN 1 ELSE 0)
  <1> DEFINE t == Tail(s)
             rest == Places(s, S) \ {1}
             shift == [i \in Places(t, S) |-> i + 1]
  <1>1. /\ DOMAIN s = 1 .. Len(s) /\ Len(s) \in Nat \ {0} /\ t \in Seq(T)
        /\ DOMAIN t = 1 .. (Len(s) - 1) /\ Head(s) = s[1]
        /\ \A i \in 1 .. (Len(s) - 1) : t[i] = s[i + 1]
    OBVIOUS
  <1>2. /\ IsFiniteSet(Places(s, S)) /\ Count(s, S) \in Nat
        /\ IsFiniteSet(Places(t, S)) /\ Count(t, S) \in Nat
    BY <1>1, CountType
  <1>3. \A i \in Places(t, S) : i \in Int /\ i + 1 \in rest
    BY <1>1 DEF Places
  <1>4. \A j \in rest : j - 1 \in Places(t, S) /\ (j - 1) + 1 = j
    BY <1>1 DEF Places
  <1>5. shift \in Bijection(Places(t, S), rest)
    <2>1. shift \in [Places(t, S) -> rest]
      BY <1>3
    <2>2. \A a, b \in Places(t, S) : shift[a] = shift[b] => a = b
      BY <1>3
    <2>3. \A j \in rest : \E i \in Places(t, S) : shift[i] = j
      BY <1>4
    <2> QED BY <2>1, <2>2, <2>3, Fun_IsBij
  <1>6. ExistsBijection(Places(t, S), rest)
    BY <1>5, Fun_ExistsBij
  <1>7. Cardinality(rest) = Count(t, S)
    BY <1>2, <1>6, FS_Bijection DEF Count
  <1>8. Cardinality(rest) = IF 1 \in Places(s, S) THEN Count(s, S) - 1 ELSE Count(s, S)
    BY <1>2, FS_RemoveElement DEF Count
  <1>9. 1 \in Places(s, S) <=> Head(s) \in S
    BY <1>1 DEF Places
  <1> QED BY <1>2, <1>7, <1>8, <1>9

-----------------------------------------------------------------------------
(* The inductive invariant.                                                 *)

\* What the client sends, what may be forwarded, and what is to be answered with a
\* ReadyForQuery.
Sendable == {m \in Messages : m.allowed \/ m.kind \in {"Query", "Parse"}}
Passed == {m \in Messages : /\ m.allowed /\ m.kind # "FunctionCall"
                            /\ m.orphan => m.kind \in {"Parse", "Terminate"}}
Answered == {m \in Messages : \/ m.kind \in {"Query", "Sync"}
                              \/ m.kind = "FunctionCall" /\ ~m.orphan}

TypeInv ==
    /\ inbox \in Seq(Sendable) /\ up \in Seq(Passed) /\ down \in Seq(Replies)
    /\ skipExtended \in BOOLEAN /\ rejected \in BOOLEAN
    /\ utx \in TxStates /\ owed \in Int

\* The relay starts when the set-up is complete, and nothing is forwarded before.
PhaseInv ==
    /\ phase \in Before \cup {"relay", "ended"}
    /\ phase \in Before => inbox = <<>> /\ up = <<>> /\ down = <<>> /\ owed = 0 /\ c2s = "none"
    /\ phase \in {"hijack", "relay"} => setup = SetupSteps
    /\ c2s = "run" => phase = "relay"
    /\ up # <<>> => setup = SetupSteps

BatchInv == Batch(inbox, skipExtended, rejected)
ToldInv == Told(down, txStatus, utx)

\* What the client is owed is in flight, one way or the other.
OwedInv ==
    us = "open" =>
        owed = Count(inbox, Answered) + Count(up, Answered) + Count(down, TxStates)

IInv == TypeInv /\ PhaseInv /\ BatchInv /\ ToldInv /\ OwedInv

\* What the client sends are messages.
LEMMA InboxMessages == TypeInv => inbox \in Seq(Messages)
  BY DEF TypeInv, Sendable

\* A session begins with nothing in flight.
LEMMA InitIInv == Init => IInv
  <1> SUFFICES ASSUME Init PROVE IInv
    OBVIOUS
  <1>1. TypeInv
    <2>1. inbox \in Seq(Sendable) /\ up \in Seq(Passed) /\ down \in Seq(Replies)
      BY DEF Init
    <2>2. skipExtended \in BOOLEAN /\ rejected \in BOOLEAN
      BY Zenon DEF Init
    <2>3. utx \in TxStates /\ owed \in Int
      BY DEF Init, TxStates
    <2> QED BY <2>1, <2>2, <2>3 DEF TypeInv
  <1>2. PhaseInv
    BY DEF Init, PhaseInv, Before
  <1>3. BatchInv
    BY DEF Init, BatchInv, Batch
  <1>4. ToldInv
    BY DEF Init, ToldInv, Told
  <1>5. OwedInv
    BY DEF Init, OwedInv
  <1> QED BY <1>1, <1>2, <1>3, <1>4, <1>5 DEF IInv

\* Steps that leave every message in flight alone: the handshake, the ends of the
\* goroutines and of the connections.
LEMMA QuietStep ==
    ASSUME IInv, PhaseInv',
           UNCHANGED <<skipExtended, txStatus, inbox, up, down, client, owed, server>>,
           us' = "open" => us = "open" \/ phase \in Before
    PROVE  IInv'
  <1>1. TypeInv' /\ BatchInv' /\ ToldInv'
    BY DEF IInv, TypeInv, BatchInv, ToldInv, client, server
  <1>2. OwedInv'
    <2>1. CASE us = "open"
      BY <2>1 DEF IInv, OwedInv
    <2>2. CASE us' = "open" /\ us # "open"
      <3>1. inbox' = <<>> /\ up' = <<>> /\ down' = <<>> /\ owed' = 0
        BY <2>2 DEF IInv, PhaseInv
      <3> QED BY <3>1, CountEmpty DEF OwedInv
    <2>3. CASE us' # "open"
      BY <2>3 DEF OwedInv
    <2> QED BY <2>1, <2>2, <2>3
  <1> QED BY <1>1, <1>2 DEF IInv

\* clientToServer takes the message at the head of the inbox and forwards it, drops
\* it (answering it itself if an answer is due) or loses it to an upstream that is
\* gone.
LEMMA TakeStep ==
    ASSUME IInv, inbox # <<>>, inbox' = Tail(inbox), c2s = "run", c2s' \in {"run", "done"},
           UNCHANGED <<handshake, sockets, txStatus, down, client, server>>,
           skipExtended' \in BOOLEAN, skipExtended' <=> After(Head(inbox)),
           \/ /\ us = "open" /\ Head(inbox) \in Passed
              /\ up' = Append(up, Head(inbox)) /\ owed' = owed
           \/ /\ up' = up
              /\ owed' = owed - (IF Head(inbox) \in Answered THEN 1 ELSE 0)
           \/ us # "open" /\ up' = up /\ owed' = owed
    PROVE  IInv'
  <1> DEFINE m == Head(inbox)
  <1> USE DEF handshake, sockets, client, server
  <1>1. TypeInv /\ inbox \in Seq(Messages)
    BY InboxMessages DEF IInv
  <1>2. TypeInv'
    <2>1. inbox' \in Seq(Sendable) /\ down' \in Seq(Replies)
      BY <1>1 DEF TypeInv
    <2>2. up' \in Seq(Passed)
      <3>1. CASE up' = up
        BY <1>1, <3>1 DEF TypeInv
      <3>2. CASE m \in Passed /\ up' = Append(up, m)
        BY <1>1, <3>2 DEF TypeInv
      <3> QED BY <3>1, <3>2
    <2>3. rejected' \in BOOLEAN
      BY <1>1, Zenon DEF TypeInv
    <2>4. utx' \in TxStates /\ owed' \in Int
      <3>1. owed' = owed \/ owed' = owed - 1 \/ owed' = owed - 0
        OBVIOUS
      <3> QED BY <1>1, <3>1 DEF TypeInv
    <2> QED BY <2>1, <2>2, <2>3, <2>4 DEF TypeInv
  <1>3. PhaseInv'
    <2>1. phase = "relay" /\ setup = SetupSteps
      BY DEF IInv, PhaseInv
    <2> QED BY <2>1 DEF IInv, PhaseInv, Before, SetupSteps
  <1>4. BatchInv'
    <2>1. Batch(Tail(inbox), skipExtended', rejected)
      BY <1>1, BatchTail DEF IInv, BatchInv, TypeInv
    <2> QED BY <2>1 DEF BatchInv
  <1>5. ToldInv'
    BY DEF IInv, ToldInv
  <1>6. OwedInv'
    <2> SUFFICES ASSUME us' = "open" PROVE OwedInv'
      BY DEF OwedInv
    <2> DEFINE one == IF m \in Answered THEN 1 ELSE 0
    <2>1. Count(inbox, Answered) = Count(Tail(inbox), Answered) + one
      BY <1>1, CountTail
    <2>2. /\ Count(inbox, Answered) \in Nat /\ Count(Tail(inbox), Answered) \in Nat
          /\ Count(up, Answered) \in Nat /\ Count(down, TxStates) \in Nat
      <3>1. Tail(inbox) \in Seq(Messages)
        BY <1>1
      <3> QED BY <1>1, <3>1, CountType DEF TypeInv
    <2>3. owed = Count(inbox, Answered) + Count(up, Answered) + Count(down, TxStates)
      BY DEF IInv, OwedInv
    <2>4. CASE m \in Passed /\ up' = Append(up, m) /\ owed' = owed
      <3>1. Count(up', Answered) = Count(up, Answered) + one
        BY <1>1, <2>4, CountAppend DEF TypeInv
      <3> QED BY <2>1, <2>2, <2>3, <2>4, <3>1 DEF OwedInv
    <2>5. CASE up' = up /\ owed' = owed - one
      <3>1. one \in Nat
        OBVIOUS
      <3> QED BY <2>1, <2>2, <2>3, <2>5, <3>1 DEF OwedInv
    <2> QED BY <2>4, <2>5
  <1> QED BY <1>2, <1>3, <1>4, <1>5, <1>6 DEF IInv

\* The client sends its next message, of a kind the protocol has.
LEMMA SendStep ==
    ASSUME IInv, NEW kind \in Kinds, NEW allowed \in BOOLEAN,
           allowed \/ kind \in {"Query", "Parse"}, ClientSend(kind, allowed)
    PROVE  IInv'
  <1> DEFINE m == [kind |-> kind, allowed |-> allowed,
                   orphan |-> rejected /\ kind # "Query"]
  <1> USE DEF handshake, sockets, pumps, server
  <1>1. TypeInv /\ inbox \in Seq(Messages)
    BY InboxMessages DEF IInv
  <1>2. /\ inbox' = Append(inbox, m)
        /\ UNCHANGED <<handshake, sockets, pumps, skipExtended, txStatus, up, down, server>>
    BY DEF ClientSend
  <1>3. m \in Messages /\ m \in Sendable
    BY DEF Messages, Sendable
  <1>4. rejected' \in BOOLEAN /\ (rejected' <=> After(m))
    <2>1. CASE kind \in {"Query", "Sync"}
      BY <2>1 DEF ClientSend, After
    <2>2. CASE kind = "Parse" /\ ~allowed
      BY <2>2 DEF ClientSend, After
    <2>3. CASE kind \notin {"Query", "Sync"} /\ ~(kind = "Parse" /\ ~allowed)
      <3>1. rejected' = rejected
        BY <2>3 DEF ClientSend
      <3>2. After(m) <=> rejected
        BY <2>3 DEF After
      <3>3. rejected \in BOOLEAN
        BY <1>1 DEF TypeInv
      <3> QED BY <3>1, <3>2, <3>3
    <2> QED BY <2>1, <2>2, <2>3
  <1>5. owed' = owed + (IF m \in Answered THEN 1 ELSE 0)
    <2>1. m \in Answered <=> kind \in {"Query", "Sync"} \/ (kind = "FunctionCall" /\ ~rejected)
      BY <1>3 DEF Answered
    <2>2. owed \in Int
      BY <1>1 DEF TypeInv
    <2> QED BY <2>1, <2>2 DEF ClientSend
  <1>6. TypeInv'
    <2>1. inbox' \in Seq(Sendable)
      BY <1>1, <1>2, <1>3 DEF TypeInv
    <2>2. owed' \in Int
      BY <1>1, <1>5 DEF TypeInv
    <2>3. skipExtended' \in BOOLEAN
      BY <1>1, <1>2 DEF TypeInv
    <2> QED BY <1>1, <1>2, <1>4, <2>1, <2>2, <2>3 DEF TypeInv
  <1>7. PhaseInv'
    <2>1. phase = "relay"
      BY DEF ClientSend
    <2> QED BY <1>2, <2>1 DEF IInv, PhaseInv, Before, SetupSteps
  <1>8. BatchInv'
    <2>1. m.orphan <=> (rejected /\ m.kind # "Query")
      OBVIOUS
    <2>2. Batch(Append(inbox, m), skipExtended, rejected')
      BY <1>1, <1>3, <1>4, <2>1, BatchAppend DEF IInv, BatchInv, TypeInv
    <2> QED BY <1>2, <2>2 DEF BatchInv
  <1>9. ToldInv'
    BY <1>2 DEF IInv, ToldInv
  <1>10. OwedInv'
    <2>1. Count(inbox', Answered) = Count(inbox, Answered) + (IF m \in Answered THEN 1 ELSE 0)
      BY <1>1, <1>2, <1>3, CountAppend
    <2>2. /\ Count(inbox, Answered) \in Nat /\ Count(up, Answered) \in Nat
          /\ Count(down, TxStates) \in Nat
      BY <1>1, CountType DEF TypeInv
    <2> QED BY <1>2, <1>5, <2>1, <2>2 DEF IInv, OwedInv
  <1> QED BY <1>6, <1>7, <1>8, <1>9, <1>10 DEF IInv

\* serverToClient relays the reply at the head of down.
LEMMA RelayStep ==
    ASSUME IInv, writeClient
    PROVE  IInv'
  <1> USE DEF handshake, sockets, pumps, client, server
  <1>1. TypeInv /\ down # <<>> /\ down' = Tail(down)
    BY DEF IInv, writeClient
  <1>2. UNCHANGED <<handshake, sockets, pumps, skipExtended, inbox, up, client, server>>
    BY DEF writeClient
  <1> DEFINE one == IF Head(down) \in TxStates THEN 1 ELSE 0
  <1>3. /\ txStatus' = IF Head(down) \in TxStates THEN Head(down) ELSE txStatus
        /\ owed' = owed - one
    BY <1>1 DEF writeClient, TypeInv
  <1>4. TypeInv'
    <2>1. down' \in Seq(Replies) /\ owed' \in Int
      BY <1>1, <1>3 DEF TypeInv
    <2>2. skipExtended' \in BOOLEAN /\ rejected' \in BOOLEAN
      BY <1>1, <1>2 DEF TypeInv
    <2> QED BY <1>1, <1>2, <2>1, <2>2 DEF TypeInv
  <1>5. PhaseInv' /\ BatchInv'
    BY <1>1, <1>2 DEF IInv, PhaseInv, BatchInv, SetupSteps
  <1>6. ToldInv'
    <2>1. Told(Tail(down), txStatus', utx)
      BY <1>1, <1>3, ToldTail DEF IInv, ToldInv, TypeInv
    <2> QED BY <1>1, <1>2, <2>1 DEF ToldInv
  <1>7. OwedInv'
    <2>1. Count(down, TxStates) = Count(Tail(down), TxStates) + one
      BY <1>1, CountTail DEF TypeInv
    <2>2. /\ Count(inbox, Answered) \in Nat /\ Count(up, Answered) \in Nat
          /\ Count(down, TxStates) \in Nat /\ Count(Tail(down), TxStates) \in Nat
      <3>1. Tail(down) \in Seq(Replies)
        BY <1>1 DEF TypeInv
      <3> QED BY <1>1, <3>1, CountType DEF TypeInv
    <2>3. one \in Nat
      OBVIOUS
    <2> QED BY <1>1, <1>2, <1>3, <2>1, <2>2, <2>3 DEF IInv, OwedInv
  <1> QED BY <1>4, <1>5, <1>6, <1>7 DEF IInv

\* The server's answers are appended one by one.
LEMMA Answers ==
    ASSUME NEW T, NEW s \in Seq(T), NEW a \in T, NEW b \in T
    PROVE  s \o <<a>> = Append(s, a) /\ s \o <<a, b>> = Append(Append(s, a), b)
  <1>1. s \o <<a>> = Append(s, a)
    <2>1. s \o <<a>> \in Seq(T) /\ Append(s, a) \in Seq(T) /\ Len(s \o <<a>>) = Len(Append(s, a))
      OBVIOUS
    <2>2. \A i \in 1 .. Len(s \o <<a>>) : (s \o <<a>>)[i] = Append(s, a)[i]
      OBVIOUS
    <2> QED BY <2>1, <2>2, SeqEqual
  <1>2. s \o <<a, b>> = Append(Append(s, a), b)
    <2> DEFINE x == s \o <<a, b>>
               y == Append(Append(s, a), b)
    <2>1. /\ x \in Seq(T) /\ y \in Seq(T) /\ Len(x) = Len(s) + 2 /\ Len(y) = Len(s) + 2
          /\ Len(s) \in Nat
      OBVIOUS
    <2>2. ASSUME NEW i \in 1 .. (Len(s) + 2) PROVE x[i] = y[i]
      <3>1. CASE i \in 1 .. Len(s)
        BY <3>1
      <3>2. CASE i = Len(s) + 1
        BY <3>2
      <3>3. CASE i = Len(s) + 2
        BY <3>3
      <3> QED BY <2>1, <3>1, <3>2, <3>3
    <2> QED BY <2>1, <2>2, SeqEqual
  <1> QED BY <1>1, <1>2

\* The server takes a message: it answers it, discards it, or leaves.
LEMMA UpstreamStep ==
    ASSUME IInv, ServerStep
    PROVE  IInv'
  <1> DEFINE m == Head(up)
             one == IF m \in Answered THEN 1 ELSE 0
  <1> USE DEF handshake, pumps, client, server
  <1>1. TypeInv /\ us = "open" /\ up # <<>> /\ up' = Tail(up) /\ m \in Passed
    <2>1. TypeInv /\ us = "open" /\ up # <<>> /\ up' = Tail(up)
      BY DEF IInv, ServerStep
    <2> QED BY <2>1 DEF TypeInv
  <1>2. UNCHANGED <<handshake, cl, pumps, skipExtended, txStatus, inbox, client>>
    BY DEF ServerStep
  <1>3. m \in Answered <=> m.kind \in {"Query", "Sync"}
    BY <1>1 DEF Passed, Answered
  <1>4. /\ Count(inbox, Answered) \in Nat /\ Count(up, Answered) \in Nat
        /\ Count(down, TxStates) \in Nat /\ Count(Tail(up), Answered) \in Nat
        /\ owed \in Int /\ one \in {0, 1}
    <2>1. Tail(up) \in Seq(Passed)
      BY <1>1 DEF TypeInv
    <2> QED BY <1>1, <2>1, CountType DEF TypeInv
  <1>5. /\ Count(up, Answered) = Count(Tail(up), Answered) + one
        /\ owed = Count(inbox, Answered) + Count(up, Answered) + Count(down, TxStates)
    <2>1. Count(up, Answered) = Count(Tail(up), Answered) + one
      BY <1>1, CountTail DEF TypeInv
    <2> QED BY <1>1, <2>1 DEF IInv, OwedInv
  <1>6. PhaseInv' /\ BatchInv'
    BY <1>1, <1>2 DEF IInv, PhaseInv, BatchInv, SetupSteps
  <1>7. /\ inbox' \in Seq(Sendable) /\ up' \in Seq(Passed)
        /\ skipExtended' \in BOOLEAN /\ rejected' \in BOOLEAN
    BY <1>1, <1>2 DEF TypeInv
  <1>8. CASE /\ m.kind \in {"Query", "Sync"} /\ utx' \in TxStates /\ owed' = owed
             /\ down' \in {down \o <<utx'>>, down \o <<"reply", utx'>>}
    <2>1. /\ utx' \in Replies /\ "reply" \in Replies /\ "reply" \notin TxStates
          /\ down \in Seq(Replies)
      BY <1>1, <1>8 DEF Replies, TxStates, TypeInv
    <2>2. Append(down, "reply") \in Seq(Replies)
      BY <2>1
    <2>3. down' \in {Append(down, utx'), Append(Append(down, "reply"), utx')}
      BY <1>8, <2>1, Answers
    <2>4. Told(down, txStatus, utx)
      BY DEF IInv, ToldInv
    <2>5. Told(Append(down, "reply"), txStatus, utx)
      BY <2>1, <2>4, ToldAppend
    <2>6. /\ Told(Append(down, utx'), txStatus, utx')
          /\ Told(Append(Append(down, "reply"), utx'), txStatus, utx')
      BY <1>8, <2>1, <2>2, <2>4, <2>5, ToldAppend
    <2>7. /\ Count(Append(down, utx'), TxStates) = Count(down, TxStates) + 1
          /\ Count(Append(down, "reply"), TxStates) = Count(down, TxStates) + 0
          /\ Count(Append(Append(down, "reply"), utx'), TxStates)
                = Count(Append(down, "reply"), TxStates) + 1
      <3>1. Count(Append(down, utx'), TxStates) = Count(down, TxStates) + 1
        BY <1>8, <2>1, CountAppend
      <3>2. Count(Append(down, "reply"), TxStates) = Count(down, TxStates) + 0
        BY <2>1, CountAppend
      <3>3. Count(Append(Append(down, "reply"), utx'), TxStates)
              = Count(Append(down, "reply"), TxStates) + 1
        BY <1>8, <2>1, <2>2, CountAppend
      <3> QED BY <3>1, <3>2, <3>3
    <2>8. down' \in Seq(Replies) /\ Count(down', TxStates) = Count(down, TxStates) + 1
      <3>1. /\ Append(down, utx') \in Seq(Replies)
            /\ Append(Append(down, "reply"), utx') \in Seq(Replies)
        BY <2>1, <2>2
      <3>2. CASE down' = Append(down, utx')
        BY <2>7, <3>1, <3>2
      <3>3. CASE down' = Append(Append(down, "reply"), utx')
        BY <1>4, <2>7, <3>1, <3>3
      <3> QED BY <2>3, <3>2, <3>3
    <2>9. TypeInv'
      BY <1>4, <1>7, <1>8, <2>8 DEF TypeInv
    <2>10. ToldInv'
      BY <1>2, <2>3, <2>6 DEF ToldInv
    <2>11. OwedInv'
      BY <1>1, <1>2, <1>3, <1>4, <1>5, <1>8, <2>8 DEF OwedInv
    <2> QED BY <1>6, <2>9, <2>10, <2>11 DEF IInv
  <1>9. CASE /\ m.kind \in {"Parse", "Other"} /\ owed' = owed /\ utx' = utx
             /\ \E r \in {"reply", "error"} : down' = Append(down, r)
    <2>1. PICK r \in {"reply", "error"} : down' = Append(down, r)
      BY <1>9
    <2>2. r \in Replies /\ r \notin TxStates /\ down \in Seq(Replies) /\ utx \in TxStates
      BY <1>1 DEF Replies, TxStates, TypeInv
    <2>3. Told(Append(down, r), txStatus, utx)
      BY <2>2, ToldAppend DEF IInv, ToldInv
    <2>4. down' \in Seq(Replies) /\ Count(down', TxStates) = Count(down, TxStates) + 0
      BY <2>1, <2>2, CountAppend
    <2>5. TypeInv'
      BY <1>4, <1>7, <1>9, <2>2, <2>4 DEF TypeInv
    <2>6. ToldInv'
      BY <1>2, <1>9, <2>1, <2>3 DEF ToldInv
    <2>7. OwedInv'
      BY <1>1, <1>2, <1>3, <1>4, <1>5, <1>9, <2>4 DEF OwedInv
    <2> QED BY <1>6, <2>5, <2>6, <2>7 DEF IInv
  <1>10. CASE /\ m.kind \notin {"Sync", "Terminate"} /\ down' = down /\ utx' = utx
              /\ owed' = IF m.kind = "Query" THEN owed - 1 ELSE owed
    <2>1. owed' = owed - one
      BY <1>3, <1>4, <1>10
    <2>2. TypeInv'
      BY <1>1, <1>4, <1>7, <1>10, <2>1 DEF TypeInv
    <2>3. ToldInv'
      BY <1>2, <1>10 DEF IInv, ToldInv
    <2>4. owed' = Count(inbox, Answered) + Count(Tail(up), Answered) + Count(down, TxStates)
      <3> HIDE DEF one
      <3> QED BY <1>4, <1>5, <2>1
    <2>5. OwedInv'
      BY <1>1, <1>2, <1>10, <2>4 DEF OwedInv
    <2> QED BY <1>6, <2>2, <2>3, <2>5 DEF IInv
  <1>11. CASE us' = "gone" /\ owed' = owed /\ down' = down /\ utx' = utx
    <2>1. TypeInv'
      BY <1>1, <1>7, <1>11 DEF TypeInv
    <2>2. ToldInv'
      BY <1>2, <1>11 DEF IInv, ToldInv
    <2>3. OwedInv'
      BY <1>11 DEF OwedInv
    <2> QED BY <1>6, <2>1, <2>2, <2>3 DEF IInv
  <1> QED
    <2>1. \/ /\ m.kind \in {"Query", "Sync"} /\ utx' \in TxStates /\ owed' = owed
             /\ down' \in {down \o <<utx'>>, down \o <<"reply", utx'>>}
          \/ /\ m.kind \in {"Parse", "Other"} /\ owed' = owed /\ utx' = utx
             /\ \E r \in {"reply", "error"} : down' = Append(down, r)
          \/ /\ m.kind \notin {"Sync", "Terminate"} /\ down' = down /\ utx' = utx
             /\ owed' = IF m.kind = "Query" THEN owed - 1 ELSE owed
          \/ us' = "gone" /\ owed' = owed /\ down' = down /\ utx' = utx
      BY DEF ServerStep
    <2> QED BY <1>8, <1>9, <1>10, <1>11, <2>1

\* One step per handler. The handlers of clientToServer do what TakeStep says.
LEMMA StepIInv == IInv /\ [Next]_vars => IInv'
  <1> SUFFICES ASSUME IInv, [Next]_vars PROVE IInv'
    OBVIOUS
  <1> USE DEF handshake, sockets, pumps, client, server
  <1>1. TypeInv /\ PhaseInv
    BY DEF IInv
  <1>2. CASE Handshake
    <2>1. UNCHANGED <<skipExtended, txStatus, inbox, up, down, client, owed, server>>
      BY <1>2 DEF Handshake, receiveStartup, tooManyRequests, authenticateClient, dialUpstream,
                  applySessionSetup, SetupDone, completeClientHandshake, relayVars
    <2>2. phase \in Before
      BY <1>2 DEF Handshake, receiveStartup, tooManyRequests, authenticateClient, dialUpstream,
                  applySessionSetup, SetupDone, completeClientHandshake, Before
    <2>3. PhaseInv'
      BY <1>1, <1>2, <2>1, <2>2
      DEF Handshake, receiveStartup, tooManyRequests, authenticateClient, dialUpstream,
          applySessionSetup, SetupDone, completeClientHandshake, relayVars, End,
          PhaseInv, Before, SetupSteps
    <2> QED BY <2>1, <2>2, <2>3, QuietStep
  <1>3. CASE c2sReadError \/ s2cReadError \/ run \/ ClientClose \/ ServerClose
    <2>1. UNCHANGED <<skipExtended, txStatus, inbox, up, down, client, owed, server>>
      BY <1>3 DEF c2sReadError, s2cReadError, run, runClose, runReturn, ClientClose,
                  ServerClose, relayVars
    <2>2. us' = "open" => us = "open"
      BY <1>3 DEF c2sReadError, s2cReadError, run, runClose, runReturn, ClientClose,
                  ServerClose, relayVars, End
    <2>3. PhaseInv'
      BY <1>1, <1>3, <2>1 DEF c2sReadError, s2cReadError, run, runClose, runReturn, ClientClose,
                  ServerClose, relayVars, End, PhaseInv, Before, SetupSteps
    <2> QED BY <2>1, <2>2, <2>3, QuietStep
  <1>4. CASE \E kind \in Kinds : Receiving(kind) /\ clientToServer
    <2> DEFINE m == Head(inbox)
    <2>1. inbox # <<>> /\ inbox' = Tail(inbox) /\ c2s = "run"
      BY <1>4 DEF Receiving
    <2>2. m \in Sendable /\ m \in Messages /\ m.allowed \in BOOLEAN /\ m.orphan \in BOOLEAN
      BY <1>1, <2>1 DEF TypeInv, Sendable, Messages
    <2>3. m.orphan <=> (skipExtended /\ m.kind # "Query")
      <3>1. m = inbox[1]
        BY <1>1, <2>1 DEF TypeInv
      <3> QED BY <2>1, <3>1 DEF IInv, BatchInv, Batch
    <2>4. skipExtended \in BOOLEAN /\ owed \in Int
      BY <1>1 DEF TypeInv
    <2>5. CASE c2sTerminate
      <3>1. m.kind = "Terminate" /\ m \in Passed /\ m \notin Answered
        BY <2>2, <2>5 DEF c2sTerminate, Receiving, Passed, Answered, Sendable
      <3>2. skipExtended' <=> After(m)
        BY <2>3, <2>5, <3>1 DEF c2sTerminate, After
      <3> QED BY <2>1, <2>4, <2>5, <3>1, <3>2, TakeStep DEF c2sTerminate
    <2>6. CASE c2sQuery
      <3>1. /\ m.kind = "Query" /\ m \in Answered /\ (m.allowed => m \in Passed)
            /\ skipExtended' = FALSE /\ ~After(m)
        BY <2>2, <2>3, <2>6 DEF c2sQuery, Receiving, Passed, Answered, After
      <3> QED BY <2>1, <2>6, <3>1, TakeStep DEF c2sQuery, Forward, Drop, writeReject
    <2>7. CASE c2sParse
      <3>1. m.kind = "Parse" /\ m \notin Answered /\ (m.allowed => m \in Passed)
        BY <2>2, <2>7 DEF c2sParse, Receiving, Passed, Answered
      <3>2. skipExtended' \in BOOLEAN /\ (skipExtended' <=> After(m))
        BY <2>3, <2>4, <2>7, <3>1 DEF c2sParse, After
      <3> QED BY <2>1, <2>4, <2>7, <3>1, <3>2, TakeStep
          DEF c2sParse, Forward, Drop, writeReject
    <2>8. CASE c2sFunctionCall
      <3>1. m.kind = "FunctionCall" /\ (m \in Answered <=> ~skipExtended)
        BY <2>2, <2>3, <2>8 DEF c2sFunctionCall, Receiving, Answered
      <3>2. skipExtended' \in BOOLEAN /\ (skipExtended' <=> After(m))
        BY <2>3, <2>4, <2>8, <3>1 DEF c2sFunctionCall, After
      <3>3. owed' = owed - (IF m \in Answered THEN 1 ELSE 0)
        BY <2>4, <2>8, <3>1 DEF c2sFunctionCall, writeReject
      <3> QED BY <2>1, <2>8, <3>2, <3>3, TakeStep DEF c2sFunctionCall, Drop
    <2>9. CASE c2sSync
      <3>1. /\ m.kind = "Sync" /\ m \in Answered /\ (~skipExtended => m \in Passed)
            /\ skipExtended' = FALSE /\ ~After(m)
        BY <2>2, <2>3, <2>9 DEF c2sSync, Receiving, Passed, Answered, After, Sendable
      <3> QED BY <2>1, <2>9, <3>1, TakeStep DEF c2sSync, Forward, Drop, writeReadyForQuery
    <2>10. CASE c2sOther
      <3>1. m.kind = "Other" /\ m \notin Answered /\ (~skipExtended => m \in Passed)
        BY <2>2, <2>3, <2>10 DEF c2sOther, Receiving, Passed, Answered, Sendable
      <3>2. skipExtended' \in BOOLEAN /\ (skipExtended' <=> After(m))
        BY <2>3, <2>4, <2>10, <3>1 DEF c2sOther, After
      <3> QED BY <2>1, <2>4, <2>10, <3>1, <3>2, TakeStep DEF c2sOther, Forward, Drop
    <2>11. CASE c2sReadError
      BY <1>3, <2>11
    <2> QED BY <1>4, <2>5, <2>6, <2>7, <2>8, <2>9, <2>10, <2>11 DEF clientToServer
  <1>5. CASE clientToServer
    <2>1. clientToServer => c2sReadError \/ \E kind \in Kinds : Receiving(kind)
      BY DEF clientToServer, c2sTerminate, c2sQuery, c2sParse, c2sFunctionCall, c2sSync,
             c2sOther, Kinds
    <2> QED BY <1>3, <1>4, <1>5, <2>1
  <1>6. CASE Client
    BY <1>3, <1>6, SendStep DEF Client
  <1>7. CASE UNCHANGED vars
    <2>1. /\ UNCHANGED <<skipExtended, txStatus, inbox, up, down, client, owed, server>>
          /\ UNCHANGED <<handshake, sockets, pumps>>
      BY <1>7 DEF vars
    <2>2. PhaseInv'
      BY <1>1, <2>1 DEF PhaseInv, SetupSteps
    <2> QED BY <2>1, <2>2, QuietStep
  <1> QED BY <1>2, <1>3, <1>5, <1>6, <1>7, RelayStep, UpstreamStep
          DEF Next, serverToClient, Server

\* What reaches the upstream is allowed by the statement policy, belongs to no batch
\* whose statement was refused (Parse apart) and meets a session that is set up,
\* however the client pipelines and whichever side leaves when.
THEOREM PolicyEnforced == Spec => []StatementPolicy
  <1>1. IInv => StatementPolicy
    <2> SUFFICES ASSUME IInv, NEW m \in ToSet(up)
                 PROVE  /\ m.allowed /\ m.kind # "FunctionCall"
                        /\ m.orphan => m.kind \in {"Parse", "Terminate"}
                        /\ setup = SetupSteps
      BY DEF StatementPolicy
    <2>1. PICK i \in DOMAIN up : m = up[i]
      BY DEF ToSet
    <2>2. m \in Passed /\ up # <<>>
      BY <2>1 DEF IInv, TypeInv
    <2> QED BY <2>2 DEF IInv, PhaseInv, Passed
  <1> QED BY <1>1, InitIInv, StepIInv, PTL DEF Spec

\* Every message the protocol answers is answered with exactly one ReadyForQuery, by
\* the proxy or by the upstream, and the status of the proxy's own is the upstream's.
THEOREM ReadyBalanced == Spec => []ReadyBalance
  <1>1. IInv => ReadyBalance
    <2> SUFFICES ASSUME IInv, up = <<>>, down = <<>>
                 PROVE  /\ us = "open" /\ inbox = <<>> => owed = 0
                        /\ txStatus = utx
      BY DEF ReadyBalance
    <2>1. us = "open" /\ inbox = <<>> => owed = 0
      BY CountEmpty DEF IInv, OwedInv
    <2>2. DOMAIN down = {}
      OBVIOUS
    <2>3. txStatus = utx
      BY <2>2 DEF IInv, ToldInv, Told
    <2> QED BY <2>1, <2>3
  <1> QED BY <1>1, InitIInv, StepIInv, PTL DEF Spec
=============================================================================

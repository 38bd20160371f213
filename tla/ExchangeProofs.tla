--------------------------- MODULE ExchangeProofs ---------------------------
(* Proofs about Exchange for any requests, pipelines and limits: replays are  *)
(* exact and authorised, authorised replays are reported, no send carries the *)
(* canonical credential when it must not, the audit tells what happened, and  *)
(* bodies arrive as the transforms left them.                                 *)
EXTENDS Exchange, SequenceTheorems, WellFoundedInduction, TLAPS

Early == {"arrive", "request", "gateway", "build", "send"}
Late == {"response", "finish", "done"}

\* Appending to the short sequences of this module.
LEMMA Appends ==
    ASSUME NEW s, NEW t
    PROVE  Append(<<>>, t) = <<t>> /\ Append(<<s>>, t) = <<s, t>>
  <1> DEFINE S == {s, t}
  <1>1. <<>> \in Seq(S) /\ <<s>> \in Seq(S) /\ <<t>> \in Seq(S) /\ <<s, t>> \in Seq(S)
    OBVIOUS
  <1>2. /\ Append(<<>>, t) \in Seq(S) /\ Len(Append(<<>>, t)) = 1
        /\ Append(<<>>, t)[1] = t
    BY <1>1
  <1>3. /\ Append(<<s>>, t) \in Seq(S) /\ Len(Append(<<s>>, t)) = 2
        /\ Append(<<s>>, t)[1] = s /\ Append(<<s>>, t)[2] = t
    BY <1>1
  <1>4. Append(<<>>, t) = <<t>>
    BY <1>1, <1>2, SeqEqual
  <1>5. Append(<<s>>, t) = <<s, t>>
    <2>1. \A j \in 1 .. 2 : Append(<<s>>, t)[j] = <<s, t>>[j]
      BY <1>3
    <2>2. Len(<<s, t>>) = 2
      OBVIOUS
    <2> QED BY <1>1, <1>3, <2>1, <2>2, SeqEqual
  <1> QED BY <1>4, <1>5

\* Short sequences of different lengths differ, and so do their elements' places.
LEMMA Tuples ==
    ASSUME NEW s, NEW t
    PROVE  /\ <<s>> # <<>> /\ <<s, t>> # <<>>
           /\ \A u : <<s, t>> # <<u>>
           /\ Len(<<>>) = 0 /\ Len(<<s>>) = 1 /\ Len(<<s, t>>) = 2
           /\ <<s>>[1] = s /\ <<s, t>>[1] = s /\ <<s, t>>[2] = t
  OBVIOUS

\* The initial states satisfy the inductive invariant.
LEMMA InitIInv == Init => IInv
  <1> SUFFICES ASSUME Init PROVE IInv
    OBVIOUS
  <1>1. accepted = FALSE /\ pc = "arrive" /\ resp = 0 /\ out = NoOut
    BY DEF Init
  <1>2. sends = <<>> /\ posts = <<>>
    BY DEF Init
  <1>3. out.replayable = FALSE
    BY <1>1 DEF NoOut
  <1>4. RetryInv
    BY <1>1, <1>2 DEF RetryInv, Labels
  <1> QED BY <1>3, <1>4 DEF IInv, KeptInFull

\* A step that leaves sends, posts and the decision alone, and stays before the
\* send or goes straight to the end, preserves the invariant.
LEMMA EarlyStep ==
    ASSUME RetryInv, pc \in Early, UNCHANGED retry,
           pc' \in Early \cup {"finish", "done"}
    PROVE  RetryInv'
  BY DEF RetryInv, Early, Labels, retry

\* Fail and Respond lead to the end, Goto where it says.
LEMMA Ends ==
    /\ Fail => pc' = "finish"
    /\ \A a, s : Respond(a, s) => pc' = "finish"
    /\ \A l : Goto(l) => pc' = l
  BY DEF Fail, Respond, Goto

\* Whatever a step does, the request it sent and the decision's bookkeeping are
\* kept unless the step says otherwise; at the end nothing more is sent.
LEMMA LateStep ==
    ASSUME RetryInv, pc \in Late, pc' \in Late,
           UNCHANGED <<out, sends, accepted, posts>>, resp' \in Statuses \cup {0}
    PROVE  RetryInv'
  BY DEF RetryInv, Late, Labels, Sent

\* One step per action.
LEMMA RetryStep == RetryInv /\ [Next]_vars => RetryInv'
  <1> SUFFICES ASSUME RetryInv, [Next]_vars PROVE RetryInv'
    OBVIOUS
  <1> USE DEF exchange, retry, answer, world
  <1>1. CASE UNCHANGED <<pc, retry, out>>
    BY <1>1 DEF RetryInv, Sent
  <1>2. CASE Arrive
    <2>1. pc \in Early /\ UNCHANGED retry
      BY <1>2 DEF Arrive, Early
    <2>2. pc' \in {"done", "finish", "request"}
      BY <1>2, Ends DEF Arrive
    <2> QED BY <2>1, <2>2, EarlyStep DEF Early
  <1>3. CASE ProcessRequest
    <2>1. pc \in Early /\ UNCHANGED retry
      BY <1>3 DEF ProcessRequest, Early
    <2>2. pc' \in {"finish", "request"}
      BY <1>3, Ends DEF ProcessRequest, ShortCircuit
    <2> QED BY <2>1, <2>2, EarlyStep DEF Early
  <1>4. CASE EvaluateMCP
    <2>1. pc \in Early /\ UNCHANGED retry
      BY <1>4 DEF EvaluateMCP, Early
    <2>2. pc' \in {"finish", "build", "gateway"}
      BY <1>4, Ends DEF EvaluateMCP
    <2> QED BY <2>1, <2>2, EarlyStep DEF Early
  <1>5. CASE ApplyGateway
    <2>1. pc \in Early /\ UNCHANGED retry
      BY <1>5 DEF ApplyGateway, Early
    <2>2. pc' \in {"finish", "build"}
      BY <1>5, Ends DEF ApplyGateway
    <2> QED BY <2>1, <2>2, EarlyStep DEF Early
  <1>6. CASE BuildUpstream
    <2>1. pc \in Early /\ UNCHANGED retry
      BY <1>6 DEF BuildUpstream, Early
    <2>2. pc' \in {"finish", "send"}
      <3>1. \/ \E a, s : Respond(a, s)
            \/ Goto("send")
        BY <1>6, Zenon DEF BuildUpstream
      <3> QED BY <3>1, Ends
    <2> QED BY <2>1, <2>2, EarlyStep DEF Early
  <1>7. CASE SendAnswered
    <2>1. /\ sends = <<>> /\ ~accepted /\ posts = <<>> /\ UNCHANGED <<out, accepted, posts>>
          /\ pc' \in {"decide", "response"} /\ sends' = Append(sends, Sent)
          /\ resp' \in Statuses
      BY <1>7, Ends DEF SendAnswered, RoundTripAnswers, RetryInv
    <2>2. sends' = <<Sent>> /\ Sent' = Sent
      BY <2>1, Appends DEF Sent
    <2>3. <<Sent>> # <<Sent, Sent>>
      BY Tuples
    <2> QED BY <2>1, <2>2, <2>3 DEF RetryInv, Labels
  <1>8. CASE SendFailed
    <2>1. /\ sends = <<>> /\ ~accepted /\ posts = <<>> /\ UNCHANGED <<out, accepted, posts>>
          /\ pc' = "finish" /\ sends' \in {sends, Append(sends, Sent)} /\ resp' = 0
      BY <1>8, Ends DEF SendFailed, RoundTripFails, RetryInv
    <2>2. sends' \in {<<>>, <<Sent>>} /\ Sent' = Sent
      BY <2>1, Appends DEF Sent
    <2>3. <<Sent>> # <<Sent, Sent>> /\ <<>> # <<Sent, Sent>>
      BY Tuples
    <2> QED BY <2>1, <2>2, <2>3 DEF RetryInv, Labels
  <1>9. CASE DecideNone
    <2>1. /\ sends = <<Sent>> /\ ~accepted /\ posts = <<>> /\ UNCHANGED <<out, retry>>
          /\ pc' = "response" /\ Sent' = Sent
      BY <1>9, Ends DEF DecideNone, RetryInv, Sent
    <2>2. <<Sent>> # <<Sent, Sent>>
      BY Tuples
    <2> QED BY <2>1, <2>2 DEF RetryInv, Labels
  <1>10. CASE DecideReplay
    <2>1. /\ sends = <<Sent>> /\ posts = <<>> /\ UNCHANGED <<out, sends, resp, posts>>
          /\ pc' = "replay" /\ Sent' = Sent /\ accepted' = TRUE /\ out.replayable
      BY <1>10, Ends DEF DecideReplay, RetryInv, Sent
    <2> QED BY <2>1 DEF RetryInv, Labels
  <1>11. CASE ReplayAnswered \/ ReplayFailed
    <2>1. /\ sends = <<Sent>> /\ accepted /\ posts = <<>> /\ out.replayable
          /\ UNCHANGED <<out, accepted, posts>> /\ pc' = "complete" /\ Sent' = Sent
      BY <1>11, Ends DEF ReplayAnswered, ReplayFailed, RetryInv, Sent
    <2>2. \/ sends' = Append(sends, Sent) /\ resp' \in Statuses \cup {0}
          \/ sends' = sends /\ resp' = 0
      BY <1>11 DEF ReplayAnswered, ReplayFailed, RoundTripAnswers, RoundTripFails
    <2>3. Append(<<Sent>>, Sent) = <<Sent, Sent>>
      BY Appends
    <2> QED BY <2>1, <2>2, <2>3 DEF RetryInv, Labels
  <1>12. CASE PostCompletion
    <2> DEFINE acks == {"done", "refused", "again"}
    <2>1. PICK a \in acks :
            /\ posts' = Append(posts, Post(resp, a))
            /\ IF a = "again" /\ Len(posts) = 0 THEN Goto("complete")
               ELSE IF resp = 0 THEN Fail ELSE Goto("response")
      BY <1>12 DEF PostCompletion, ReplayOutcome, Post
    <2>2. /\ accepted /\ out.replayable /\ sends \in {<<Sent>>, <<Sent, Sent>>}
          /\ resp # 0 => sends = <<Sent, Sent>>
          /\ resp \in Statuses \cup {0}
          /\ UNCHANGED <<out, sends, resp, accepted>> /\ Sent' = Sent
      BY <1>12 DEF PostCompletion, RetryInv, Sent
    <2>3. CASE posts = <<>>
      <3>1. posts' = <<Post(resp, a)>>
        BY <2>1, <2>3, Appends
      <3>2. pc' \in {"response", "finish"} \/ (pc' = "complete" /\ a = "again")
        BY <2>1, Ends
      <3> QED BY <2>2, <3>1, <3>2 DEF RetryInv, Labels, Post
    <2>4. CASE posts = <<Post(resp, "again")>>
      <3>1. posts' = <<Post(resp, "again"), Post(resp, a)>>
        BY <2>1, <2>4, Appends
      <3>2. Len(posts) = 1
        BY <2>4, Tuples
      <3>3. pc' \in {"response", "finish"}
        BY <2>1, <3>2, Ends
      <3> QED BY <2>2, <3>1, <3>3 DEF RetryInv, Labels, Post
    <2> QED BY <1>12, <2>3, <2>4 DEF PostCompletion, RetryInv
  <1>13. CASE ProcessResponse
    <2>1. pc \in Late /\ UNCHANGED <<out, sends, accepted, posts>>
      BY <1>13 DEF ProcessResponse, Late
    <2>2. pc' \in {"finish", "response"} /\ resp' \in Statuses \cup {0}
      <3>1. PICK o \in TransformResponse(pl[i]) :
              \/ o.verdict = "error" /\ Fail /\ UNCHANGED <<i, resp>>
              \/ o.verdict = "reject" /\ ShortCircuit(o) /\ UNCHANGED <<i, resp>>
              \/ o.verdict = "continue" /\ Goto("response") /\ i' = i + 1 /\ resp' = o.status
        BY <1>13 DEF ProcessResponse
      <3>2. o.verdict = "continue" => o.status \in Statuses \cup {0}
        BY DEF TransformResponse, RetryInv
      <3> QED BY <3>1, <3>2, Ends DEF RetryInv, ShortCircuit
    <2> QED BY <2>1, <2>2, LateStep DEF Late
  <1>14. CASE WriteResponse \/ Finish
    <2>1. pc \in Late /\ UNCHANGED <<out, sends, accepted, posts, resp>>
      BY <1>14 DEF WriteResponse, Finish, Late
    <2>2. pc' \in {"finish", "done"}
      BY <1>14, Ends DEF WriteResponse, Finish
    <2> QED BY <2>1, <2>2, LateStep DEF Late, RetryInv
  <1>15. CASE ClientGone \/ Expire
    BY <1>1, <1>15 DEF ClientGone, Expire
  <1>16. CASE UNCHANGED vars
    BY <1>1, <1>16 DEF vars
  <1> QED BY <1>2, <1>3, <1>4, <1>5, <1>6, <1>7, <1>8, <1>9, <1>10, <1>11, <1>12, <1>13,
             <1>14, <1>15, <1>16 DEF Next, Step

\* Only BuildUpstream changes the upstream request, and it keeps what it replays.
LEMMA KeptStep == KeptInFull /\ [Next]_vars => KeptInFull'
  <1> SUFFICES ASSUME KeptInFull, [Next]_vars PROVE KeptInFull'
    OBVIOUS
  <1> USE DEF exchange
  <1>1. CASE UNCHANGED out
    BY <1>1 DEF KeptInFull
  <1>2. CASE BuildUpstream
    <2> DEFINE r == StreamingReader(body)
               p == IF ResponseRetryEligible THEN PrepareReplayBody(r)
                    ELSE [err |-> FALSE, replayable |-> FALSE]
    <2>1. \/ UNCHANGED out
          \/ /\ ~p.err
             /\ out' = [bytes |-> r.bytes, fails |-> r.fails,
                        retry |-> ResponseRetryEligible, replayable |-> p.replayable]
      BY <1>2 DEF BuildUpstream
    <2>2. ~p.err /\ p.replayable => ~r.fails /\ Len(r.bytes) <= MaxRequestBody
      BY DEF PrepareReplayBody
    <2> HIDE DEF r, p
    <2> QED BY <1>1, <2>1, <2>2 DEF KeptInFull
  <1> QED BY <1>1, <1>2 DEF Next, Step, vars, Arrive, ProcessRequest, EvaluateMCP,
      ApplyGateway, SendAnswered, SendFailed, DecideNone, DecideReplay, ReplayAnswered,
      ReplayFailed, PostCompletion, ProcessResponse, WriteResponse, Finish, ClientGone, Expire

\* The inductive invariant holds in every reachable state.
THEOREM Invariance == Spec => []IInv
  <1>1. IInv /\ [Next]_vars => IInv'
    BY RetryStep, KeptStep DEF IInv
  <1> QED BY <1>1, InitIInv, PTL DEF Spec

\* At most one replay leaves, authorised, and equal to the first send.
THEOREM ExactReplay == Spec => []ReplayExact
  <1>1. IInv => ReplayExact
    <2> SUFFICES ASSUME IInv PROVE ReplayExact
      OBVIOUS
    <2>1. sends \in {<<>>, <<Sent>>, <<Sent, Sent>>}
      BY DEF IInv, RetryInv, Labels
    <2>2. sends = <<Sent, Sent>> => accepted /\ out.replayable
      BY Tuples DEF IInv, RetryInv, Labels
    <2>3. CASE sends = <<Sent, Sent>>
      <3>1. Len(sends) = 2 /\ sends[1] = Sent /\ sends[2] = Sent
        BY <2>3, Tuples
      <3>2. ~out.fails /\ Len(out.bytes) <= MaxRequestBody
        BY <2>2, <2>3 DEF IInv, KeptInFull
      <3>3. Sent.whole
        BY <3>2 DEF Sent
      <3>4. Len(Sent.bytes) <= MaxRequestBody
        BY <3>2 DEF Sent
      <3>5. sends[1] = sends[2] /\ sends[2].whole
        BY <3>1, <3>3, Zenon
      <3>6. Len(sends[2].bytes) <= MaxRequestBody
        BY <3>1, <3>4, Zenon
      <3>7. Len(sends) <= 2
        BY <3>1
      <3>8. accepted
        BY <2>2, <2>3
      <3> QED BY <3>5, <3>6, <3>7, <3>8 DEF ReplayExact
    <2>4. CASE sends \in {<<>>, <<Sent>>}
      <3>1. Len(sends) \in {0, 1}
        BY <2>4, Tuples
      <3>2. Len(sends) <= 2 /\ Len(sends) # 2
        BY <3>1
      <3> QED BY <3>2, Zenon DEF ReplayExact
    <2> QED BY <2>1, <2>3, <2>4
  <1> QED BY <1>1, Invariance, PTL

\* An authorised replay is reported, once or twice, and nothing else is.
THEOREM ReplayReported == Spec => []CompletionReported
  <1>1. IInv => CompletionReported
    <2> SUFFICES ASSUME IInv PROVE CompletionReported
      OBVIOUS
    <2>1. pc = "done" => (accepted <=> posts # <<>>)
      <3> SUFFICES ASSUME pc = "done" PROVE accepted <=> posts # <<>>
        OBVIOUS
      <3>1. CASE accepted
        <4>1. PICK o, a : posts = <<Post(o, a)>> \/ posts = <<Post(o, "again"), Post(o, a)>>
          BY <3>1 DEF IInv, RetryInv
        <4>2. posts # <<>>
          BY <4>1, Tuples
        <4> QED BY <3>1, <4>2
      <3>2. CASE ~accepted
        BY <3>2 DEF IInv, RetryInv
      <3> QED BY <3>1, <3>2
    <2>2. CASE posts = <<>>
      BY <2>1, <2>2 DEF CompletionReported
    <2>3. ASSUME NEW o, NEW a, o # 0 => sends = <<Sent, Sent>>,
                 posts = <<Post(o, a)>> \/ posts = <<Post(o, "again"), Post(o, a)>>
          PROVE  CompletionReported
      <3>1. /\ Post(o, a).outcome = o
            /\ Post(o, "again").outcome = o /\ Post(o, "again").ack = "again"
        BY DEF Post
      <3>2. o # 0 => Len(sends) = 2
        BY <2>3, Tuples
      <3>3. CASE posts = <<Post(o, a)>>
        <4>1. Len(posts) = 1 /\ DOMAIN posts = {1} /\ posts[1] = Post(o, a)
          BY <3>3
        <4> QED BY <2>1, <3>1, <3>2, <4>1 DEF CompletionReported
      <3>4. CASE posts = <<Post(o, "again"), Post(o, a)>>
        <4>1. /\ Len(posts) = 2 /\ DOMAIN posts = {1, 2}
              /\ posts[1] = Post(o, "again") /\ posts[2] = Post(o, a)
          BY <3>4
        <4> QED BY <2>1, <3>1, <3>2, <4>1 DEF CompletionReported
      <3> QED BY <2>3, <3>3, <3>4
    <2>4. CASE posts # <<>>
      <3>1. PICK o, a : /\ o # 0 => sends = <<Sent, Sent>>
                        /\ posts = <<Post(o, a)>> \/ posts = <<Post(o, "again"), Post(o, a)>>
        BY <2>4 DEF IInv, RetryInv, Labels
      <3> QED BY <2>3, <3>1
    <2> QED BY <2>2, <2>4
  <1> QED BY <1>1, Invariance, PTL

\* No send carries the canonical credential once it expired or was rerouted.
THEOREM FreshCredential == Spec => CredentialFresh
  <1>1. [Next]_vars => [sends' # sends => ~(cred /\ (expired \/ rerouted))]_vars
    <2> SUFFICES ASSUME Next, sends' # sends PROVE ValidDestination
      BY DEF ValidDestination, vars
    <2> QED BY DEF Next, Step, Arrive, ProcessRequest, EvaluateMCP, ApplyGateway,
        BuildUpstream, SendAnswered, SendFailed, DecideNone, DecideReplay, ReplayAnswered,
        ReplayFailed, PostCompletion, ProcessResponse, WriteResponse, Finish, ClientGone,
        Expire, RoundTripAnswers, RoundTripFails, retry
  <1> QED BY <1>1, PTL DEF Spec, CredentialFresh

-----------------------------------------------------------------------------
(* The audit record. *)

\* r tells what the client was given.
Truthful(r) ==
    IF r.canceled THEN canceled /\ wrote = 0 ELSE wrote # 0 /\ r.status = wrote

\* Nothing is written or recorded before the end; a response in hand has a status.
AuditInv ==
    /\ pc \in Labels
    /\ pc \notin {"finish", "done"} => wrote = 0 /\ audits = <<>>
    /\ pc \in {"decide", "response"} => resp # 0
    /\ pc = "finish" => audits = <<>> /\ Truthful(result)
    /\ pc = "done" /\ req.wellFormed => audits = <<result>> /\ Truthful(result)

\* A step that fails, answers with a status or goes on.
Moves ==
    \/ Fail
    \/ \E a, s : s # 0 /\ Respond(a, s)
    \/ \E l \in Labels \ {"finish", "done"} :
            Goto(l) /\ (l \in {"decide", "response"} => resp' # 0)

\* Such a step keeps the invariant.
LEMMA MovesAudit ==
    ASSUME AuditInv, pc \notin {"finish", "done"}, canceled' = canceled, Moves
    PROVE  AuditInv'
  <1>1. CASE \E a, s : s # 0 /\ Respond(a, s)
    BY <1>1 DEF AuditInv, Truthful, Respond, Labels
  <1>2. CASE Fail
    <2>1. CASE canceled
      BY <1>2, <2>1 DEF AuditInv, Truthful, Fail, Labels
    <2>2. CASE ~canceled
      <3>1. Respond("continue", 502)
        BY <1>2, <2>2 DEF Fail
      <3> QED BY <1>1, <3>1
    <2> QED BY <2>1, <2>2
  <1>3. CASE \E l \in Labels \ {"finish", "done"} :
               Goto(l) /\ (l \in {"decide", "response"} => resp' # 0)
    BY <1>3 DEF AuditInv, Goto, answer
  <1> QED BY <1>1, <1>2, <1>3 DEF Moves

\* A rejection has a status, whatever the transform says of it.
LEMMA Rejected ==
    ASSUME NEW o, ShortCircuit(o)
    PROVE  \E a, s : s # 0 /\ Respond(a, s)
  <1>1. (IF o.status = 0 THEN 403 ELSE o.status) # 0
    OBVIOUS
  <1> QED BY <1>1 DEF ShortCircuit

\* One step per action.
LEMMA AuditStep == AuditInv /\ [Next]_vars => AuditInv'
  <1> SUFFICES ASSUME AuditInv, [Next]_vars PROVE AuditInv'
    OBVIOUS
  <1> USE DEF exchange, retry, world
  <1>1. CASE Arrive
    <2>1. CASE req.wellFormed
      <3>1. Respond("reject", 503) \/ Goto("request")
        BY <1>1, <2>1 DEF Arrive
      <3>2. Moves
        BY <3>1 DEF Moves, Labels
      <3> QED BY <1>1, <3>2, MovesAudit DEF Arrive
    <2>2. CASE ~req.wellFormed
      BY <1>1, <2>2 DEF Arrive, AuditInv, Labels
    <2> QED BY <2>1, <2>2
  <1>2. CASE ProcessRequest
    <2>1. Fail \/ (\E o : ShortCircuit(o)) \/ Goto("request")
      BY <1>2, Zenon DEF ProcessRequest
    <2>2. Moves
      BY <2>1, Rejected DEF Moves, Labels
    <2> QED BY <1>2, <2>2, MovesAudit DEF ProcessRequest
  <1>3. CASE EvaluateMCP
    <2>1. Fail \/ Respond("reject", 200) \/ Goto("build") \/ Goto("gateway")
      BY <1>3, Zenon DEF EvaluateMCP
    <2>2. Moves
      BY <2>1 DEF Moves, Labels
    <2> QED BY <1>3, <2>2, MovesAudit DEF EvaluateMCP
  <1>4. CASE ApplyGateway
    <2>1. Fail \/ Goto("build")
      BY <1>4 DEF ApplyGateway
    <2>2. Moves
      BY <2>1 DEF Moves, Labels
    <2> QED BY <1>4, <2>2, MovesAudit DEF ApplyGateway
  <1>5. CASE BuildUpstream
    <2>1. Respond("reject", 403) \/ Respond("continue", 502) \/ Goto("send")
      BY <1>5, Zenon DEF BuildUpstream
    <2>2. Moves
      BY <2>1 DEF Moves, Labels
    <2> QED BY <1>5, <2>2, MovesAudit DEF BuildUpstream
  <1>6. CASE SendAnswered
    <2>1. (Goto("decide") \/ Goto("response")) /\ resp' \in Statuses
      BY <1>6 DEF SendAnswered, RoundTripAnswers
    <2>2. Moves
      BY <2>1, ExchangeConstants DEF Moves, Labels
    <2> QED BY <1>6, <2>2, MovesAudit DEF SendAnswered
  <1>7. CASE SendFailed
    BY <1>7, MovesAudit DEF SendFailed, Moves
  <1>8. CASE DecideNone
    <2>1. Goto("response") /\ resp' = resp /\ resp # 0
      BY <1>8 DEF DecideNone, AuditInv
    <2>2. Moves
      BY <2>1 DEF Moves, Labels
    <2> QED BY <1>8, <2>2, MovesAudit DEF DecideNone
  <1>9. CASE DecideReplay
    <2>1. Goto("replay")
      BY <1>9 DEF DecideReplay
    <2>2. Moves
      BY <2>1 DEF Moves, Labels
    <2> QED BY <1>9, <2>2, MovesAudit DEF DecideReplay
  <1>10. CASE ReplayAnswered \/ ReplayFailed
    <2>1. Goto("complete") /\ pc = "replay" /\ canceled' = canceled
      BY <1>10 DEF ReplayAnswered, ReplayFailed
    <2>2. Moves
      BY <2>1 DEF Moves, Labels
    <2> QED BY <2>1, <2>2, MovesAudit
  <1>11. CASE PostCompletion
    <2>1. \/ Goto("complete") \/ Fail
          \/ Goto("response") /\ resp' = resp /\ resp # 0
      BY <1>11 DEF PostCompletion
    <2>2. Moves
      BY <2>1 DEF Moves, Labels
    <2> QED BY <1>11, <2>2, MovesAudit DEF PostCompletion
  <1>12. CASE ProcessResponse
    <2>1. PICK o \in TransformResponse(pl[i]) :
             \/ Fail \/ ShortCircuit(o)
             \/ o.verdict = "continue" /\ Goto("response") /\ resp' = o.status
      BY <1>12 DEF ProcessResponse
    <2>2. o.verdict = "continue" => o.status \in Statuses \cup {resp}
      BY DEF TransformResponse
    <2>3. resp # 0 /\ 0 \notin Statuses
      BY <1>12, ExchangeConstants DEF ProcessResponse, AuditInv
    <2>4. Moves
      BY <2>1, <2>2, <2>3, Rejected DEF Moves, Labels
    <2> QED BY <1>12, <2>4, MovesAudit DEF ProcessResponse
  <1>13. CASE WriteResponse
    <2>1. resp # 0 /\ Respond("continue", resp)
      BY <1>13 DEF WriteResponse, AuditInv
    <2>2. Moves
      BY <2>1 DEF Moves
    <2> QED BY <1>13, <2>2, MovesAudit DEF WriteResponse
  <1>14. CASE Finish
    <2>1. audits' = <<result>> /\ pc' = "done" /\ UNCHANGED <<result, wrote, canceled>>
      BY <1>14, Appends DEF Finish, AuditInv
    <2>2. Truthful(result)
      BY <1>14 DEF Finish, AuditInv
    <2> QED BY <2>1, <2>2 DEF AuditInv, Truthful, Labels
  <1>15. CASE ClientGone
    BY <1>15 DEF ClientGone, AuditInv, Truthful, answer
  <1>16. CASE Expire
    BY <1>16 DEF Expire, AuditInv, Truthful, answer
  <1>17. CASE UNCHANGED vars
    BY <1>17 DEF vars, AuditInv, Truthful, answer
  <1> QED BY <1>1, <1>2, <1>3, <1>4, <1>5, <1>6, <1>7, <1>8, <1>9, <1>10, <1>11, <1>12,
             <1>13, <1>14, <1>15, <1>16, <1>17 DEF Next, Step

\* A request that began a run is audited once, with the status the client was given;
\* it is recorded as cancelled only if the client went away and was given nothing.
THEOREM AuditTells == Spec => []AuditTruthful
  <1>1. Init => AuditInv
    BY DEF Init, AuditInv, Labels
  <1>2. AuditInv => AuditTruthful
    <2> SUFFICES ASSUME AuditInv PROVE AuditTruthful
      OBVIOUS
    <2>1. pc # "done" => audits = <<>>
      BY DEF AuditInv
    <2>2. ASSUME pc = "done", req.wellFormed
          PROVE  /\ Len(audits) = 1
                 /\ IF audits[1].canceled THEN canceled /\ wrote = 0
                    ELSE wrote # 0 /\ audits[1].status = wrote
      <3>1. audits = <<result>> /\ Truthful(result)
        BY <2>2 DEF AuditInv
      <3>2. Len(audits) = 1 /\ audits[1] = result
        BY <3>1, Tuples
      <3> QED BY <3>1, <3>2 DEF Truthful
    <2> QED BY <2>1, <2>2 DEF AuditTruthful
  <1> QED BY <1>1, <1>2, AuditStep, PTL DEF Spec

-----------------------------------------------------------------------------
(* The loop over the entries of a secrets transform.                          *)

\* Induction over the natural numbers, for a set.
LEMMA SetInduction ==
    ASSUME NEW S, 0 \in S, \A n \in Nat : n \in S => n + 1 \in S
    PROVE  Nat \subseteq S
  <1> DEFINE R == OpToRel(<, Nat)
             T == Nat \ S
  <1>1. IsWellFoundedOn(R, Nat)
    BY NatLessThanWellFounded
  <1>2. \A a, b \in Nat : a < b => <<a, b>> \in R
    BY DEF OpToRel
  <1> HIDE DEF R
  <1>3. SUFFICES ASSUME T # {} PROVE FALSE
    OBVIOUS
  <1>4. PICK x \in T : \A y \in T : ~(<<y, x>> \in R)
    BY <1>1, <1>3, WFMin
  <1>5. x # 0 /\ x \in Nat
    OBVIOUS
  <1>6. x - 1 \in Nat /\ x - 1 < x
    BY <1>5
  <1>7. x - 1 \notin T
    BY <1>2, <1>4, <1>6
  <1>8. x - 1 + 1 \in S
    BY <1>6, <1>7
  <1> QED BY <1>5, <1>8

\* h is the loop as far as entry n.
LoopTo(h, n, entries, up) ==
    h = [k \in 0 .. n |-> IF k = 0 THEN Outcome("continue", 0)
                          ELSE SwapEntry(h[k - 1], entries[k], k \in up)]

\* Its first outcome.
LEMMA LoopFirst ==
    ASSUME NEW entries, NEW up, NEW n \in Nat, NEW h, LoopTo(h, n, entries, up)
    PROVE  h[0] = Outcome("continue", 0)
  BY DEF LoopTo

\* Each outcome follows from the one before.
LEMMA LoopTurns ==
    ASSUME NEW entries, NEW up, NEW n \in Nat, NEW h, LoopTo(h, n, entries, up),
           NEW k \in Nat, k + 1 <= n
    PROVE  h[k + 1] = SwapEntry(h[k], entries[k + 1], (k + 1) \in up)
  <1>1. k + 1 \in 0 .. n /\ k + 1 # 0 /\ (k + 1) - 1 = k
    OBVIOUS
  <1>2. h[k + 1] = SwapEntry(h[(k + 1) - 1], entries[k + 1], (k + 1) \in up)
    BY <1>1 DEF LoopTo
  <1> QED BY <1>1, <1>2

\* The loop runs to its end, whatever the entries.
LEMMA LoopEnds ==
    ASSUME NEW entries, NEW up, NEW n \in Nat
    PROVE  \E h : LoopTo(h, n, entries, up)
  <1> DEFINE S == {m \in Nat : \E h : LoopTo(h, m, entries, up)}
  <1>1. 0 \in S
    <2> DEFINE h == [k \in 0 .. 0 |-> Outcome("continue", 0)]
    <2>1. LoopTo(h, 0, entries, up)
      BY DEF LoopTo
    <2> QED BY <2>1
  <1>2. ASSUME NEW m \in Nat, m \in S PROVE m + 1 \in S
    <2>1. PICK h : LoopTo(h, m, entries, up)
      BY <1>2
    <2> DEFINE g == [k \in 0 .. (m + 1) |->
                        IF k <= m THEN h[k] ELSE SwapEntry(h[m], entries[k], k \in up)]
    <2>2. ASSUME NEW k \in 0 .. (m + 1)
          PROVE  g[k] = IF k = 0 THEN Outcome("continue", 0)
                        ELSE SwapEntry(g[k - 1], entries[k], k \in up)
      <3>1. CASE k = 0
        BY <2>1, <3>1 DEF LoopTo
      <3>2. CASE k \in 1 .. m
        <4>1. g[k] = h[k] /\ g[k - 1] = h[k - 1] /\ k \in 0 .. m /\ k # 0
          BY <3>2
        <4>2. h[k] = SwapEntry(h[k - 1], entries[k], k \in up)
          BY <2>1, <4>1 DEF LoopTo
        <4> QED BY <4>1, <4>2
      <3>3. CASE k = m + 1
        <4>1. g[k] = SwapEntry(h[m], entries[k], k \in up) /\ g[k - 1] = h[m] /\ k # 0
          BY <3>3
        <4> QED BY <4>1
      <3>4. k = 0 \/ k \in 1 .. m \/ k = m + 1
        OBVIOUS
      <3> QED BY <3>1, <3>2, <3>3, <3>4, Zenon
    <2>3. LoopTo(g, m + 1, entries, up)
      BY <2>2 DEF LoopTo
    <2> QED BY <2>3
  <1> HIDE DEF S
  <1>3. n \in S
    BY <1>1, <1>2, SetInduction
  <1> QED BY <1>3 DEF S

\* So what SwapAll answers is the loop's last outcome.
LEMMA SwapAllLoops ==
    ASSUME NEW entries, Len(entries) \in Nat, NEW up
    PROVE  \E h : LoopTo(h, Len(entries), entries, up) /\ SwapAll(entries, up) = h[Len(entries)]
  <1> DEFINE n == Len(entries)
             g == CHOOSE h : LoopTo(h, n, entries, up)
  <1>1. LoopTo(g, n, entries, up)
    BY LoopEnds
  <1>2. SwapAll(entries, up) = g[n]
    BY DEF SwapAll, LoopTo
  <1> QED BY <1>1, <1>2

-----------------------------------------------------------------------------
(* The body, from the client to upstream.                                     *)

\* At most one of the entries matches the body, and what it matches has a value.
MatchesOnce(entries) ==
    \A a, b \in DOMAIN entries : ~entries[a].canonical /\ ~entries[b].canonical => a = b
HasValues(entries) ==
    \A k \in DOMAIN entries :
        entries[k].canonical \/ entries[k].placeholder \in DOMAIN RealValue

\* No secrets transform has two match_body entries. With two, the second reads
\* the body from where the first left it, and BodyIntact does not hold.
OneMatchBody == \A p \in Pipelines : \A k \in DOMAIN p : MatchesOnce(p[k].entries)

IsBody(b) ==
    /\ b = [original |-> b.original, rest |-> b.rest, fails |-> b.fails, max |-> b.max,
            once |-> b.once, data |-> b.data, pos |-> b.pos]
    /\ b.rest \in Seq(Tokens) /\ b.data \in Seq(Tokens) /\ b.pos \in Nat

\* The request was received whole, and buffering cuts nothing off.
Whole == req.arrives = Len(req.body)
Fits == Len(req.body) <= MaxRequestBody

\* Wherever b is read from, it holds `bytes`: in the client's reader until it is
\* buffered, in memory from then on.
Holds(b, bytes) ==
    IF b.once THEN ~b.original /\ (Whole /\ Fits => b.data = bytes)
    ELSE /\ b.original /\ b.rest = SubSeq(req.body, 1, req.arrives) /\ bytes = req.body
         /\ b.max = MaxRequestBody /\ (Whole => ~b.fails)

\* The body in hand holds what is meant for upstream until it is built, and what
\* is built from it is that.
IntactInv ==
    /\ req \in Requests /\ pl \in Pipelines /\ i \in Nat \ {0}
    /\ intended \in Seq(Tokens) /\ IsBody(body)
    /\ pc \in {"arrive", "request", "gateway", "build"} =>
          body.pos = 0 /\ Holds(body, intended)
    /\ pc = "send" \/ sends # <<>> =>
          (~out.fails /\ Whole /\ (Fits \/ ~body.once) => out.bytes = intended)

\* What a request is.
LEMMA RequestFacts ==
    ASSUME req \in Requests
    PROVE  /\ req.body \in Seq(Tokens) /\ Len(req.body) \in Nat
           /\ req.arrives \in Nat /\ req.arrives <= Len(req.body)
           /\ SubSeq(req.body, 1, req.arrives) \in Seq(Tokens)
           /\ Whole => SubSeq(req.body, 1, req.arrives) = req.body
           /\ MaxRequestBody \in Nat
  <1>1. req \in RequestType /\ req.arrives <= Len(req.body) /\ MaxRequestBody \in Nat
    BY ExchangeConstants
  <1>2. req.body \in Seq(Tokens) /\ req.arrives \in Nat
    BY <1>1 DEF RequestType
  <1>3. SubSeq(req.body, 1, req.arrives) \in Seq(Tokens)
    BY <1>1, <1>2
  <1>4. SubSeq(req.body, 1, Len(req.body)) = req.body
    BY <1>2
  <1> QED BY <1>1, <1>2, <1>3, <1>4, LenProperties DEF Whole

\* Moving the position changes nothing else.
LEMMA Positioned ==
    ASSUME NEW b, IsBody(b), NEW n
    PROVE  [b EXCEPT !.pos = n]
             = [original |-> b.original, rest |-> b.rest, fails |-> b.fails, max |-> b.max,
                once |-> b.once, data |-> b.data, pos |-> n]
  BY DEF IsBody

\* Nor does giving the reader up.
LEMMA Detached ==
    ASSUME NEW b, IsBody(b), NEW f
    PROVE  [b EXCEPT !.original = f]
             = [original |-> f, rest |-> b.rest, fails |-> b.fails, max |-> b.max,
                once |-> b.once, data |-> b.data, pos |-> b.pos]
  BY DEF IsBody

\* Rewinding changes nothing but the position.
LEMMA Rewinds ==
    ASSUME NEW b, IsBody(b)
    PROVE  /\ IsBody(Reset(b)) /\ Reset(b).pos = 0 /\ Reset(b).once = b.once
           /\ \A s : Holds(b, s) => Holds(Reset(b), s)
  <1> DEFINE r == Reset(b)
  <1>1. r = [original |-> b.original, rest |-> b.rest, fails |-> b.fails, max |-> b.max,
             once |-> b.once, data |-> b.data, pos |-> 0]
    BY Positioned DEF Reset
  <1> HIDE DEF r
  <1>2. /\ r.original = b.original /\ r.rest = b.rest /\ r.fails = b.fails /\ r.max = b.max
        /\ r.once = b.once /\ r.data = b.data /\ r.pos = 0
    BY <1>1
  <1>3. IsBody(r)
    BY <1>1, <1>2 DEF IsBody
  <1>4. \A s : Holds(b, s) => Holds(r, s)
    BY <1>2, Zenon DEF Holds
  <1> QED BY <1>2, <1>3, <1>4 DEF r

\* Buffering keeps what the body holds.
LEMMA Buffers ==
    ASSUME req \in Requests, NEW s \in Seq(Tokens), NEW b, IsBody(b), Holds(b, s)
    PROVE  /\ IsBody(Buffer(b)) /\ Buffer(b).once /\ ~Buffer(b).original
           /\ Holds(Buffer(b), s) /\ Buffer(b).pos = b.pos
  <1>1. CASE b.once
    <2>1. Buffer(b) = b
      BY <1>1 DEF Buffer
    <2> QED BY <1>1, <2>1 DEF Holds
  <1>2. CASE ~b.once
    <2> DEFINE d == IF Truncates(b) THEN SubSeq(b.rest, 1, b.max) ELSE b.rest
               r == Buffer(b)
    <2>1. r = [original |-> FALSE, rest |-> <<>>, fails |-> b.fails, max |-> b.max,
               once |-> TRUE, data |-> d, pos |-> b.pos]
      BY <1>2 DEF Buffer, IsBody
    <2>2. /\ b.rest = SubSeq(req.body, 1, req.arrives) /\ s = req.body
          /\ b.max = MaxRequestBody
      BY <1>2 DEF Holds
    <2>3. d \in Seq(Tokens)
      <3>1. CASE Truncates(b)
        <4>1. b.max \in 0 .. Len(b.rest) /\ b.rest \in Seq(Tokens)
          BY <2>2, <3>1, RequestFacts, LenProperties DEF Truncates, IsBody
        <4> QED BY <3>1, <4>1
      <3>2. CASE ~Truncates(b)
        BY <3>2 DEF IsBody
      <3> QED BY <3>1, <3>2
    <2>4. Whole /\ Fits => d = s
      <3>1. SUFFICES ASSUME Whole, Fits PROVE d = s
        OBVIOUS
      <3>2. b.rest = s /\ s \in Seq(Tokens) /\ Len(s) <= MaxRequestBody
        BY <2>2, <3>1, RequestFacts DEF Fits
      <3>3. CASE Truncates(b)
        <4>1. b.max = Len(s)
          BY <2>2, <3>2, <3>3, RequestFacts DEF Truncates
        <4>2. SubSeq(s, 1, Len(s)) = s
          OBVIOUS
        <4> QED BY <3>2, <3>3, <4>1, <4>2
      <3>4. CASE ~Truncates(b)
        BY <3>2, <3>4
      <3> QED BY <3>3, <3>4
    <2> HIDE DEF d, r
    <2>5. r.once /\ ~r.original /\ r.data = d /\ r.pos = b.pos
      BY <2>1
    <2>6. IsBody(r)
      BY <2>1, <2>3 DEF IsBody
    <2>7. Holds(r, s)
      BY <2>4, <2>5 DEF Holds
    <2> QED BY <2>5, <2>6, <2>7 DEF r
  <1> QED BY <1>1, <1>2

\* io.ReadAll of a rewound body gives what it holds, and leaves the body holding it.
LEMMA Reads ==
    ASSUME req \in Requests, NEW s \in Seq(Tokens), NEW b, IsBody(b), Holds(b, s)
    PROVE  LET r == ReadAll(b) IN
           /\ IsBody(r.body) /\ r.body.once /\ ~r.body.original /\ Holds(r.body, s)
           /\ r.err \in BOOLEAN /\ r.bytes \in Seq(Tokens)
           /\ b.pos = 0 /\ Whole /\ Fits => ~r.err /\ r.bytes = s
  <1> DEFINE c == Buffer(b)
             r == ReadAll(b)
  <1>1. /\ IsBody(c) /\ c.once /\ ~c.original /\ Holds(c, s) /\ c.pos = b.pos
    BY Buffers
  <1>2. Whole => ~BufferFails(b)
    BY DEF BufferFails, Holds
  <1>3. CASE BufferFails(b)
    <2>1. r = [err |-> TRUE, bytes |-> <<>>, body |-> c]
      BY <1>3 DEF ReadAll
    <2> HIDE DEF c, r
    <2>2. r.err = TRUE /\ r.bytes = <<>> /\ r.body = c /\ <<>> \in Seq(Tokens)
      BY <2>1
    <2> QED BY <1>1, <1>2, <1>3, <2>2 DEF r
  <1>4. CASE ~BufferFails(b)
    <2> DEFINE n == Len(c.data)
               e == [c EXCEPT !.pos = n]
    <2>1. r = [err |-> FALSE, bytes |-> Unread(c), body |-> e]
      BY <1>4 DEF ReadAll
    <2>2. c.data \in Seq(Tokens) /\ n \in Nat /\ c.pos \in Nat
      BY <1>1, LenProperties DEF IsBody
    <2>3. Unread(c) \in Seq(Tokens)
      BY <2>2 DEF Unread
    <2>4. c.pos = 0 => Unread(c) = c.data
      <3>1. SubSeq(c.data, 1, Len(c.data)) = c.data
        BY <2>2
      <3> QED BY <3>1 DEF Unread
    <2>6. Whole /\ Fits => c.data = s
      BY <1>1 DEF Holds
    <2> HIDE DEF c, r, n
    <2>5. e = [original |-> c.original, rest |-> c.rest, fails |-> c.fails, max |-> c.max,
               once |-> c.once, data |-> c.data, pos |-> n]
      BY <1>1, Positioned
    <2> HIDE DEF e
    <2>7. /\ r.err = FALSE /\ r.bytes = Unread(c) /\ r.body = e
          /\ e.once = c.once /\ e.original = c.original /\ e.data = c.data /\ e.pos = n
          /\ e.rest = c.rest
      BY <2>1, <2>5
    <2>8. IsBody(e)
      BY <1>1, <2>2, <2>5, <2>7 DEF IsBody
    <2>9. Holds(e, s)
      BY <1>1, <2>6, <2>7 DEF Holds
    <2> QED BY <1>1, <2>3, <2>4, <2>6, <2>7, <2>8, <2>9 DEF r
  <1> QED BY <1>3, <1>4

\* What a transform leaves of the request, with the body holding what is intended.
IsOutcome(o) ==
    /\ o = [verdict |-> o.verdict, status |-> o.status, body |-> o.body, clen |-> o.clen,
            cred |-> o.cred, intended |-> o.intended]
    /\ o.intended \in Seq(Tokens) /\ IsBody(o.body) /\ Holds(o.body, o.intended)

\* Substituting gives bytes, the same ones if the placeholder is not among them.
LEMMA Substitutes ==
    ASSUME NEW s \in Seq(Tokens), NEW p \in DOMAIN RealValue
    PROVE  Substitute(s, p) \in Seq(Tokens) /\ (p \notin Range(s) => Substitute(s, p) = s)
  <1>1. RealValue[p] \in Tokens
    BY ExchangeConstants
  <1>2. s \in [1 .. Len(s) -> Tokens] /\ Len(s) \in Nat /\ DOMAIN s = 1 .. Len(s)
    BY LenProperties
  <1>3. Substitute(s, p) \in [1 .. Len(s) -> Tokens]
    BY <1>1, <1>2 DEF Substitute
  <1>4. Substitute(s, p) \in Seq(Tokens)
    BY <1>2, <1>3 DEF Seq
  <1>5. ASSUME p \notin Range(s) PROVE Substitute(s, p) = s
    <2>1. \A k \in DOMAIN s : s[k] # p
      BY <1>5 DEF Range
    <2>2. Substitute(s, p) = [k \in DOMAIN s |-> s[k]]
      BY <2>1 DEF Substitute
    <2> QED BY <1>2, <2>2
  <1> QED BY <1>4, <1>5

\* A body made of bytes holds them.
LEMMA FromBytes ==
    ASSUME NEW s \in Seq(Tokens), NEW d \in Seq(Tokens), Whole /\ Fits => d = s
    PROVE  IsBody(NewBufferedBodyFromBytes(d)) /\ Holds(NewBufferedBodyFromBytes(d), s)
  <1> DEFINE b == NewBufferedBodyFromBytes(d)
  <1>1. b = [original |-> FALSE, rest |-> <<>>, fails |-> FALSE, max |-> 0,
             once |-> TRUE, data |-> d, pos |-> 0]
    BY DEF NewBufferedBodyFromBytes
  <1> HIDE DEF b
  <1>2. /\ b.original = FALSE /\ b.rest = <<>> /\ b.fails = FALSE /\ b.max = 0
        /\ b.once = TRUE /\ b.data = d /\ b.pos = 0
    BY <1>1
  <1>3. IsBody(b)
    BY <1>1, <1>2 DEF IsBody
  <1>4. Holds(b, s)
    BY <1>2 DEF Holds
  <1> QED BY <1>3, <1>4 DEF b

\* swapBody of a rewound body leaves one that holds the substituted bytes.
LEMMA BodySwaps ==
    ASSUME req \in Requests, NEW s \in Seq(Tokens), NEW b, IsBody(b), Holds(b, s), b.pos = 0,
           NEW p \in DOMAIN RealValue
    PROVE  IsBody(SwapBody(b, p).body) /\ Holds(SwapBody(b, p).body, Substitute(s, p))
  <1> DEFINE r == ReadAll(b)
  <1>1. /\ IsBody(r.body) /\ r.body.once /\ ~r.body.original /\ Holds(r.body, s)
        /\ r.err \in BOOLEAN /\ r.bytes \in Seq(Tokens)
        /\ Whole /\ Fits => ~r.err /\ r.bytes = s
    BY Reads
  <1>2. CASE r.err \/ p \notin Range(r.bytes)
    <2>1. SwapBody(b, p) = [found |-> FALSE, body |-> r.body]
      BY <1>2 DEF SwapBody
    <2> HIDE DEF r
    <2>2. SwapBody(b, p).body = r.body
      BY <2>1
    <2>3. Whole /\ Fits => Substitute(s, p) = s
      BY <1>1, <1>2, Substitutes
    <2>4. Holds(r.body, Substitute(s, p))
      BY <1>1, <2>3 DEF Holds
    <2> QED BY <1>1, <2>2, <2>4
  <1>3. CASE ~(r.err \/ p \notin Range(r.bytes))
    <2>1. SwapBody(b, p)
            = [found |-> TRUE, body |-> NewBufferedBodyFromBytes(Substitute(r.bytes, p))]
      BY <1>3 DEF SwapBody
    <2> HIDE DEF r
    <2>2. SwapBody(b, p).body = NewBufferedBodyFromBytes(Substitute(r.bytes, p))
      BY <2>1
    <2>3. /\ Substitute(r.bytes, p) \in Seq(Tokens) /\ Substitute(s, p) \in Seq(Tokens)
          /\ Whole /\ Fits => Substitute(r.bytes, p) = Substitute(s, p)
      BY <1>1, Substitutes
    <2> QED BY <2>2, <2>3, FromBytes
  <1> QED BY <1>2, <1>3

\* One turn of the loop, when the body is rewound or the entry leaves it alone.
LEMMA Turn ==
    ASSUME req \in Requests, NEW o, IsOutcome(o), NEW e, NEW available,
           e.canonical \/ (e.placeholder \in DOMAIN RealValue /\ o.body.pos = 0)
    PROVE  /\ IsOutcome(SwapEntry(o, e, available))
           /\ e.canonical => SwapEntry(o, e, available).body = o.body
  <1> DEFINE n == SwapEntry(o, e, available)
             s == SwapBody(o.body, e.placeholder)
             sub == Substitute(o.intended, e.placeholder)
  <1>1. \/ n = o
        \/ n = [o EXCEPT !.verdict = "reject"]
        \/ n = [o EXCEPT !.cred = TRUE]
        \/ /\ ~e.canonical
           /\ LET w == [o EXCEPT !.body = s.body, !.intended = Substitute(@, e.placeholder)] IN
              n = w \/ n = [w EXCEPT !.verdict = "reject"]
    BY Zenon DEF SwapEntry
  <1>2. \/ n = o
        \/ n = [verdict |-> "reject", status |-> o.status, body |-> o.body, clen |-> o.clen,
                cred |-> o.cred, intended |-> o.intended]
        \/ n = [verdict |-> o.verdict, status |-> o.status, body |-> o.body, clen |-> o.clen,
                cred |-> TRUE, intended |-> o.intended]
        \/ /\ ~e.canonical
           /\ \E v : n = [verdict |-> v, status |-> o.status, body |-> s.body,
                          clen |-> o.clen, cred |-> o.cred, intended |-> sub]
    <2> HIDE DEF n, s
    <2> QED BY <1>1 DEF IsOutcome
  <1>3. ASSUME ~e.canonical
        PROVE  sub \in Seq(Tokens) /\ IsBody(s.body) /\ Holds(s.body, sub)
    BY <1>3, Substitutes, BodySwaps DEF IsOutcome
  <1> HIDE DEF n, s, sub
  <1>4. \/ n.body = o.body /\ n.intended = o.intended
        \/ ~e.canonical /\ n.body = s.body /\ n.intended = sub
    BY <1>2
  <1>5. n = [verdict |-> n.verdict, status |-> n.status, body |-> n.body, clen |-> n.clen,
             cred |-> n.cred, intended |-> n.intended]
    BY <1>2 DEF IsOutcome
  <1>6. IsOutcome(n)
    BY <1>3, <1>4, <1>5 DEF IsOutcome
  <1> QED BY <1>4, <1>6 DEF n

\* The k-th outcome of the loop: the body is rewound if no entry has read it yet.
Clean(entries, k) == \A j \in 1 .. k : entries[j].canonical
Turned(o, entries, k) == IsOutcome(o) /\ (Clean(entries, k) => o.body.pos = 0)

\* One turn of the loop takes it from one outcome to the next.
LEMMA NextTurn ==
    ASSUME req \in Requests, NEW entries \in Seq(EntryType), MatchesOnce(entries),
           HasValues(entries), NEW k \in Nat, k + 1 <= Len(entries), NEW available,
           NEW o, Turned(o, entries, k)
    PROVE  Turned(SwapEntry(o, entries[k + 1], available), entries, k + 1)
  <1> DEFINE e == entries[k + 1]
  <1>1. k + 1 \in DOMAIN entries /\ \A j \in 1 .. k : j \in DOMAIN entries /\ j # k + 1
    BY LenProperties
  <1>2. ~e.canonical => Clean(entries, k)
    BY <1>1 DEF MatchesOnce, Clean
  <1>3. e.canonical \/ e.placeholder \in DOMAIN RealValue
    BY <1>1 DEF HasValues
  <1>4. Clean(entries, k + 1) => e.canonical /\ Clean(entries, k)
    BY DEF Clean
  <1> HIDE DEF e
  <1>5. e.canonical \/ (e.placeholder \in DOMAIN RealValue /\ o.body.pos = 0)
    BY <1>2, <1>3 DEF Turned
  <1>6. /\ IsOutcome(SwapEntry(o, e, available))
        /\ e.canonical => SwapEntry(o, e, available).body = o.body
    BY <1>5, Turn DEF Turned
  <1> QED BY <1>4, <1>6, Zenon DEF Turned, e

\* The loop over entries of which one at most reads the body.
LEMMA Loop ==
    ASSUME req \in Requests, IsOutcome(Outcome("continue", 0)), body.pos = 0,
           NEW entries \in Seq(EntryType), NEW up, MatchesOnce(entries), HasValues(entries)
    PROVE  IsOutcome(SwapAll(entries, up))
  <1> DEFINE n == Len(entries)
  <1>1. n \in Nat
    BY LenProperties
  <1>2. PICK h : LoopTo(h, n, entries, up) /\ SwapAll(entries, up) = h[n]
    BY <1>1, SwapAllLoops
  <1> DEFINE S == {k \in Nat : k <= n => Turned(h[k], entries, k)}
  <1>3. 0 \in S
    <2>1. h[0] = Outcome("continue", 0)
      BY <1>1, <1>2, LoopFirst
    <2>2. Outcome("continue", 0).body = body
      BY DEF Outcome
    <2>3. Turned(h[0], entries, 0)
      BY <2>1, <2>2, Zenon DEF Turned
    <2> QED BY <2>3
  <1>4. ASSUME NEW k \in Nat, k \in S PROVE k + 1 \in S
    <2>1. SUFFICES ASSUME k + 1 <= n PROVE Turned(h[k + 1], entries, k + 1)
      OBVIOUS
    <2>2. k <= n
      BY <1>1, <2>1
    <2>3. Turned(h[k], entries, k)
      BY <1>4, <2>2
    <2>4. h[k + 1] = SwapEntry(h[k], entries[k + 1], (k + 1) \in up)
      BY <1>1, <1>2, <2>1, LoopTurns
    <2> QED BY <2>1, <2>3, <2>4, NextTurn
  <1> HIDE DEF S
  <1>5. Nat \subseteq S
    BY <1>3, <1>4, SetInduction
  <1>6. Turned(h[n], entries, n)
    BY <1>1, <1>5 DEF S
  <1> QED BY <1>2, <1>6 DEF Turned

\* Whatever a transform answers, the body it leaves holds what is intended.
LEMMA Transformed ==
    ASSUME OneMatchBody, req \in Requests, pl \in Pipelines, i \in 1 .. Len(pl),
           intended \in Seq(Tokens), IsBody(body), body.pos = 0, Holds(body, intended),
           NEW o \in TransformRequest(pl[i])
    PROVE  o.intended \in Seq(Tokens) /\ IsBody(o.body) /\ Holds(o.body, o.intended)
  <1> DEFINE t == pl[i]
             r == ReadAll(body)
  <1>1. /\ pl \in Seq(TransformType) /\ i \in DOMAIN pl /\ t \in TransformType
        /\ t.entries \in Seq(EntryType)
    <2>1. pl \in Seq(TransformType)
      BY ExchangeConstants
    <2>2. i \in DOMAIN pl /\ t \in TransformType
      BY <2>1
    <2>3. t.entries \in Seq(EntryType)
      BY <2>2 DEF TransformType
    <2> QED BY <2>1, <2>2, <2>3
  <1>2. IsBody(r.body) /\ Holds(r.body, intended)
    BY Reads
  <1>3. \A v, s : LET c == Outcome(v, s) IN
            c = [verdict |-> v, status |-> s, body |-> body, clen |-> clen, cred |-> cred,
                 intended |-> intended]
    BY DEF Outcome
  <1>4. \A v, s : IsOutcome(Outcome(v, s))
    BY <1>3 DEF IsOutcome
  <1>5. CASE o \in OAuthRequest
    <2>1. \E v, s : o = Outcome(v, s)
      BY <1>5 DEF OAuthRequest
    <2>2. IsOutcome(o)
      BY <1>4, <2>1
    <2> QED BY <2>2 DEF IsOutcome
  <1>6. CASE o \in CaptureRequest
    <2>1. o = [Outcome("continue", 0) EXCEPT !.body = r.body]
      BY <1>6 DEF CaptureRequest
    <2> HIDE DEF r
    <2>2. o.body = r.body /\ o.intended = intended
      BY <2>1 DEF Outcome
    <2> QED BY <1>2, <2>2
  <1>7. CASE o \in GRPCRequest(t)
    <2> DEFINE b == (IF t.reads THEN r ELSE [err |-> FALSE, body |-> body]).body
    <2>1. \/ \E v, s : o = [Outcome(v, s) EXCEPT !.body = b]
          \/ \E d \in Rewrites : o = [Outcome("continue", 0) EXCEPT
                                         !.body = NewBufferedBodyFromBytes(d),
                                         !.clen = Len(d), !.intended = d]
      BY <1>7 DEF GRPCRequest
    <2>2. IsBody(b) /\ Holds(b, intended)
      <3>1. b = r.body \/ b = body
        OBVIOUS
      <3> HIDE DEF b, r
      <3> QED BY <1>2, <3>1
    <2> HIDE DEF b, r
    <2>3. CASE \E v, s : o = [Outcome(v, s) EXCEPT !.body = b]
      <3>1. o.body = b /\ o.intended = intended
        BY <2>3 DEF Outcome
      <3> QED BY <2>2, <3>1
    <2>4. ASSUME NEW d \in Rewrites,
                 o = [Outcome("continue", 0) EXCEPT !.body = NewBufferedBodyFromBytes(d),
                                                    !.clen = Len(d), !.intended = d]
          PROVE  o.intended \in Seq(Tokens) /\ IsBody(o.body) /\ Holds(o.body, o.intended)
      <3>1. d \in Seq(Tokens)
        BY ExchangeConstants
      <3>2. o.body = NewBufferedBodyFromBytes(d) /\ o.intended = d
        BY <2>4 DEF Outcome
      <3> QED BY <3>1, <3>2, FromBytes
    <2> QED BY <2>1, <2>3, <2>4
  <1>8. CASE o \in SecretsRequest(t)
    <2>1. PICK up : o = SwapAll(t.entries, up)
      BY <1>8 DEF SecretsRequest
    <2>2. HasValues(t.entries)
      BY <1>1, ExchangeConstants DEF Range, HasValues
    <2>3. MatchesOnce(t.entries)
      BY <1>1 DEF OneMatchBody
    <2>4. IsOutcome(SwapAll(t.entries, up))
      BY <1>1, <1>4, <2>2, <2>3, Loop
    <2> QED BY <2>1, <2>4 DEF IsOutcome
  <1>9. t.kind \in {"oauth", "capture", "grpc", "secrets"}
    BY <1>1 DEF TransformType
  <1>10. \/ o \in OAuthRequest \/ o \in CaptureRequest
         \/ o \in GRPCRequest(t) \/ o \in SecretsRequest(t)
    BY <1>9 DEF TransformRequest
  <1> QED BY <1>5, <1>6, <1>7, <1>8, <1>10

\* What is built is what the body holds.
LEMMA Builds ==
    ASSUME req \in Requests, intended \in Seq(Tokens), IsBody(body), body.pos = 0,
           Holds(body, intended), Whole, Fits \/ ~body.once
    PROVE  StreamingReader(body).bytes = intended
  <1>1. CASE body.once
    <2>1. ~body.original /\ body.data = intended
      BY <1>1 DEF Holds
    <2>2. SubSeq(intended, 1, Len(intended)) = intended
      OBVIOUS
    <2>3. Unread(body) = intended
      BY <2>1, <2>2 DEF Unread
    <2> QED BY <2>1, <2>3 DEF StreamingReader
  <1>2. CASE ~body.once
    <2>1. body.original /\ body.rest = req.body /\ intended = req.body
      BY <1>2, RequestFacts DEF Holds
    <2> QED BY <2>1 DEF StreamingReader
  <1> QED BY <1>1, <1>2

\* A step before anything is sent, that does not reach the send.
LEMMA Before ==
    ASSUME req \in Requests, pl \in Pipelines, req' = req, pl' = pl, i' \in Nat \ {0},
           intended' \in Seq(Tokens), IsBody(body'), sends' = <<>>, pc' # "send",
           pc' \in {"arrive", "request", "gateway", "build"} =>
               body'.pos = 0 /\ Holds(body, intended)'
    PROVE  IntactInv'
  BY DEF IntactInv, IsBody

\* A step from the send on: what was built is sent, if anything is.
LEMMA After ==
    ASSUME IntactInv, pc = "send" \/ sends # <<>> \/ sends' = <<>>,
           UNCHANGED <<req, pl, out, intended>>, i' \in Nat \ {0},
           IsBody(body'), body'.once = body.once,
           pc' \notin {"arrive", "request", "gateway", "build", "send"}
    PROVE  IntactInv'
  BY DEF IntactInv, IsBody, Whole, Fits

\* One step per action.
LEMMA IntactStep ==
    ASSUME OneMatchBody, RetryInv, IntactInv, [Next]_vars
    PROVE  IntactInv'
  <1> USE DEF exchange, retry, world
  <1>1. /\ req \in Requests /\ pl \in Pipelines /\ i \in Nat \ {0}
        /\ intended \in Seq(Tokens) /\ IsBody(body)
    BY DEF IntactInv
  <1>2. pc \in {"arrive", "request", "gateway", "build"} =>
            sends = <<>> /\ body.pos = 0 /\ Holds(body, intended)
    BY DEF IntactInv, RetryInv
  <1>3. ASSUME UNCHANGED <<req, body, intended>> PROVE Holds(body, intended)' <=> Holds(body, intended)
    BY <1>3 DEF Holds, Whole, Fits
  <1>4. CASE Arrive
    <2>1. pc' \in {"done", "finish", "request"}
      BY <1>4, Ends DEF Arrive
    <2>2. /\ UNCHANGED <<req, pl, body, intended, i, sends>>
          /\ sends = <<>> /\ body.pos = 0 /\ Holds(body, intended)
      BY <1>2, <1>4 DEF Arrive
    <2> QED BY <1>1, <1>3, <2>1, <2>2, Before
  <1>5. CASE ProcessRequest
    <2>1. PICK o \in TransformRequest(pl[i]) :
              /\ body' = Reset(o.body) /\ intended' = o.intended
              /\ \/ Fail /\ UNCHANGED i
                 \/ ShortCircuit(o) /\ UNCHANGED i
                 \/ Goto("request") /\ i' = i + 1
      BY <1>5 DEF ProcessRequest
    <2>2. /\ pc = "request" /\ i <= Len(pl) /\ UNCHANGED <<req, pl, sends>>
      BY <1>5 DEF ProcessRequest
    <2>3. i \in 1 .. Len(pl)
      <3>1. pl \in Seq(TransformType)
        BY <1>1, ExchangeConstants
      <3> QED BY <1>1, <2>2, <3>1, LenProperties
    <2>4. o.intended \in Seq(Tokens) /\ IsBody(o.body) /\ Holds(o.body, o.intended)
      BY <1>1, <1>2, <2>2, <2>3, Transformed
    <2>5. IsBody(body') /\ body'.pos = 0 /\ Holds(body', intended')
      BY <2>1, <2>4, Rewinds
    <2>6. Holds(body, intended)'
      BY <2>2, <2>5 DEF Holds, Whole, Fits
    <2>7. pc' \in {"finish", "request"} /\ i' \in Nat \ {0}
      BY <1>1, <2>1, Ends DEF ShortCircuit
    <2> QED BY <1>1, <1>2, <2>1, <2>2, <2>4, <2>5, <2>6, <2>7, Before
  <1>6. CASE EvaluateMCP
    <2>1. /\ UNCHANGED <<req, pl, intended, i, sends>> /\ pc = "request"
      BY <1>6 DEF EvaluateMCP
    <2>2. CASE ~req.mcp
      <3>1. pc' = "build" /\ body' = body
        BY <1>6, <2>2, Ends DEF EvaluateMCP
      <3> QED BY <1>1, <1>2, <1>3, <2>1, <3>1, Before
    <2>3. CASE req.mcp
      <3> DEFINE r == ReadAll(body)
      <3>1. /\ body' = IF r.err THEN r.body ELSE Reset(r.body)
            /\ (r.err /\ pc' = "finish") \/ (~r.err /\ pc' \in {"finish", "gateway"})
        BY <1>6, <2>3, Ends DEF EvaluateMCP
      <3>2. IsBody(r.body) /\ Holds(r.body, intended)
        BY <1>1, <1>2, <2>1, Reads
      <3> HIDE DEF r
      <3>3. CASE r.err
        BY <1>1, <1>2, <2>1, <3>1, <3>2, <3>3, Before
      <3>4. CASE ~r.err
        <4>1. IsBody(body') /\ body'.pos = 0 /\ Holds(body', intended)
          BY <3>1, <3>2, <3>4, Rewinds
        <4>2. Holds(body, intended)'
          BY <2>1, <4>1 DEF Holds, Whole, Fits
        <4>3. pc' \in {"finish", "gateway"}
          BY <3>1, <3>4
        <4> QED BY <1>1, <1>2, <2>1, <4>1, <4>2, <4>3, Before
      <3> QED BY <3>3, <3>4
    <2> QED BY <2>2, <2>3
  <1>7. CASE ApplyGateway
    <2>1. pc' \in {"build", "finish"}
      BY <1>7, Ends DEF ApplyGateway
    <2>2. /\ UNCHANGED <<req, pl, body, intended, i, sends>>
          /\ sends = <<>> /\ body.pos = 0 /\ Holds(body, intended)
      BY <1>2, <1>7 DEF ApplyGateway
    <2> QED BY <1>1, <1>3, <2>1, <2>2, Before
  <1>8. CASE BuildUpstream
    <2> DEFINE r == StreamingReader(body)
    <2>1. /\ pc = "build" /\ UNCHANGED <<req, pl, intended, i, sends>>
          /\ body' = [body EXCEPT !.original = FALSE]
      BY <1>8 DEF BuildUpstream
    <2>2. \/ Respond("reject", 403) \/ Respond("continue", 502)
          \/ Goto("send") /\ out'.bytes = r.bytes
      <3>1. \/ Respond("reject", 403) \/ Respond("continue", 502)
            \/ \E a, b, c : Goto("send")
                 /\ out' = [bytes |-> r.bytes, fails |-> a, retry |-> b, replayable |-> c]
        BY <1>8, Zenon DEF BuildUpstream
      <3> HIDE DEF r
      <3> QED BY <3>1
    <2>3. IsBody(body') /\ body'.once = body.once
      <3> DEFINE w == [body EXCEPT !.original = FALSE]
      <3>1. w = [original |-> FALSE, rest |-> body.rest, fails |-> body.fails,
                 max |-> body.max, once |-> body.once, data |-> body.data, pos |-> body.pos]
        BY <1>1, Detached
      <3> HIDE DEF w
      <3>2. /\ w.original = FALSE /\ w.rest = body.rest /\ w.fails = body.fails
            /\ w.max = body.max /\ w.once = body.once /\ w.data = body.data
            /\ w.pos = body.pos
        BY <3>1
      <3>3. IsBody(w) /\ w.once = body.once
        BY <1>1, <3>1, <3>2 DEF IsBody
      <3> QED BY <2>1, <3>3 DEF w
    <2>4. CASE pc' = "finish"
      BY <1>1, <1>2, <2>1, <2>3, <2>4, Before
    <2>5. CASE pc' = "send" /\ out'.bytes = r.bytes
      <3>1. Whole /\ (Fits \/ ~body.once) => out'.bytes = intended
        BY <1>1, <1>2, <2>1, <2>5, Builds
      <3> HIDE DEF r
      <3>2. Whole' /\ (Fits' \/ ~body'.once) => out'.bytes = intended'
        BY <2>1, <2>3, <3>1 DEF Whole, Fits
      <3> QED BY <1>1, <2>1, <2>3, <2>5, <3>2 DEF IntactInv, IsBody
    <2> QED BY <2>2, <2>4, <2>5, Ends
  <1>9. CASE SendAnswered \/ SendFailed
    <2>1. /\ pc = "send" /\ UNCHANGED <<req, pl, out, intended, body>> /\ i' \in {i, 1}
          /\ pc' \in {"decide", "response", "finish"}
      BY <1>9, Ends DEF SendAnswered, SendFailed
    <2> QED BY <1>1, <2>1, After
  <1>10. CASE DecideNone \/ DecideReplay \/ ReplayAnswered \/ ReplayFailed
    <2>1. /\ UNCHANGED <<req, pl, out, intended, body, i>>
          /\ pc' \in {"response", "replay", "complete"} /\ pc \in {"decide", "replay"}
      BY <1>10, Ends DEF DecideNone, DecideReplay, ReplayAnswered, ReplayFailed
    <2>2. sends # <<>>
      BY <2>1, Tuples DEF RetryInv
    <2> QED BY <1>1, <2>1, <2>2, After
  <1>11. CASE PostCompletion \/ WriteResponse \/ Finish
    <2>1. /\ UNCHANGED <<req, pl, out, intended, body, i, sends>>
          /\ pc' \in {"complete", "response", "finish", "done"}
      BY <1>11, Ends DEF PostCompletion, WriteResponse, Finish
    <2> QED BY <1>1, <2>1, After
  <1>12. CASE ProcessResponse
    <2>1. /\ UNCHANGED <<req, pl, out, intended, sends>> /\ body' = Reset(body)
          /\ pc' \in {"response", "finish"} /\ i' \in {i, i + 1}
      BY <1>12, Ends DEF ProcessResponse, ShortCircuit
    <2>2. IsBody(body') /\ body'.once = body.once
      BY <1>1, <2>1, Rewinds
    <2> QED BY <1>1, <2>1, <2>2, After
  <1>13. CASE UNCHANGED <<exchange, pc, i, sends>>
    BY <1>1, <1>3, <1>13 DEF IntactInv, IsBody, Whole, Fits
  <1>14. ClientGone \/ Expire \/ UNCHANGED vars => UNCHANGED <<exchange, pc, i, sends>>
    BY DEF ClientGone, Expire, vars
  <1> QED BY <1>4, <1>5, <1>6, <1>7, <1>8, <1>9, <1>10, <1>11, <1>12, <1>13, <1>14
          DEF Next, Step

\* The body of a new request holds what the client sends.
LEMMA InitIntact == Init => IntactInv
  <1> SUFFICES ASSUME Init PROVE IntactInv
    OBVIOUS
  <1> DEFINE f == req.arrives < Len(req.body)
             s == SubSeq(req.body, 1, req.arrives)
  <1>1. /\ req \in Requests /\ pl \in Pipelines /\ i = 1 /\ pc = "arrive" /\ sends = <<>>
        /\ intended = req.body
    BY DEF Init
  <1>2. body = [original |-> TRUE, rest |-> s, fails |-> f, max |-> MaxRequestBody,
                once |-> FALSE, data |-> <<>>, pos |-> 0]
    BY Zenon DEF Init, NewBufferedBody
  <1>3. /\ f \in BOOLEAN /\ (Whole => ~f) /\ s \in Seq(Tokens) /\ req.body \in Seq(Tokens)
    BY <1>1, RequestFacts DEF Whole
  <1> HIDE DEF f
  <1> HIDE DEF s
  <1>4. /\ body.original = TRUE /\ body.rest = s /\ body.fails = f
        /\ body.max = MaxRequestBody /\ body.once = FALSE /\ body.data = <<>> /\ body.pos = 0
    BY <1>2, <1>3
  <1>5. IsBody(body)
    BY <1>2, <1>3, <1>4 DEF IsBody
  <1>6. Holds(body, intended)
    BY <1>1, <1>3, <1>4, Zenon DEF Holds, s
  <1>7. i \in Nat \ {0} /\ ~(pc = "send" \/ sends # <<>>) /\ intended \in Seq(Tokens)
    BY <1>1, <1>3
  <1> QED BY <1>1, <1>4, <1>5, <1>6, <1>7, Zenon DEF IntactInv

\* The fields of what was sent.
LEMMA SentFields == Sent.bytes = out.bytes /\ (Sent.whole => ~out.fails)
  <1> DEFINE f == ~out.fails
             b == out.bytes
  <1>1. Sent = [bytes |-> b, whole |-> f]
    BY Zenon DEF Sent
  <1> HIDE DEF f, b
  <1>2. Sent.whole = f /\ Sent.bytes = b
    BY <1>1
  <1> QED BY <1>2, Zenon DEF f, b

\* A body that arrived in full, and was not cut at the limit, reaches upstream as
\* the transforms left it, for pipelines whose secrets transforms have one
\* match_body entry at most.
THEOREM BodiesIntact == ASSUME OneMatchBody PROVE Spec => []BodyIntact
  <1>1. Init => IInv /\ IntactInv
    BY InitIInv, InitIntact
  <1>2. IInv /\ IntactInv /\ [Next]_vars => (IInv /\ IntactInv)'
    BY RetryStep, KeptStep, IntactStep DEF IInv
  <1>3. IInv /\ IntactInv => BodyIntact
    <2> SUFFICES ASSUME IInv, IntactInv, NEW k \in DOMAIN sends, sends[k].whole,
                        Whole, Fits \/ ~body.once
                 PROVE  sends[k].bytes = intended
      BY DEF BodyIntact, Whole, Fits
    <2>1. sends[k] = Sent
      <3>1. sends \in {<<>>, <<Sent>>, <<Sent, Sent>>}
        BY DEF IInv, RetryInv, Labels
      <3> QED BY <3>1
    <2>2. ~out.fails /\ sends[k].bytes = out.bytes
      BY <2>1, SentFields, Zenon
    <2>3. sends # <<>>
      OBVIOUS
    <2> QED BY <2>2, <2>3 DEF IntactInv
  <1> QED BY <1>1, <1>2, <1>3, PTL DEF Spec
=============================================================================

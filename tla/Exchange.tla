------------------------------ MODULE Exchange ------------------------------
(* One HTTP exchange: proxy.handleHTTP from the arrival of the request to its *)
(* audit record, with the pipeline's request and response phases, body        *)
(* buffering, secret swapping, the MCP policy and gateway, the send boundary  *)
(* that rechecks a canonical credential, and response retry. WebSocket        *)
(* upgrades leave handleHTTP and are not part of it.                          *)
(*                                                                            *)
(* The client's tokens, what upstream answers and every external service's    *)
(* verdict are chosen; the client may go away and the credential may expire   *)
(* at any moment.                                                             *)
EXTENDS BufferedBody, FiniteSets, SequencesExt

CONSTANTS
    Requests,       \* what clients may send, see RequestType
    Pipelines,      \* the pipelines that may be in force: sequences of TransformType
    MaxRequestBody, \* BodyLimits().MaxRequestBodyBytes
    Statuses,       \* the statuses upstream may answer
    RetryStatuses,  \* IRON_RESPONSE_RETRY_STATUSES
    RetryHandler,   \* TRUE iff a response retry handler is configured
    Rewrites,       \* bodies a gRPC transform may put in place of the request's
    Tokens,         \* the bytes of a body
    RealValue       \* RealValue[p]: what placeholder p stands for

\* wellFormed: Host, path and SNI pass. body: what the client means to send, of
\* which only the first `arrives` bytes do. lengthKnown: it sent Content-Length.
\* grpcType: a gRPC content type. mcp: a POST to a configured MCP server, which
\* a gateway route may redirect. carries: it presents the canonical placeholder.
RequestType ==
    [wellFormed : BOOLEAN, body : Seq(Tokens), arrives : Nat, lengthKnown : BOOLEAN,
     grpcType : BOOLEAN, mcp : BOOLEAN, routed : BOOLEAN, carries : BOOLEAN]

\* A transform is an oauth_token, body_capture, grpc (which may ask for the
\* body) or secrets transform; the latter has canonical and match_body entries.
EntryType == [canonical : BOOLEAN, placeholder : Tokens, require : BOOLEAN]
TransformType == [kind : {"oauth", "capture", "grpc", "secrets"}, reads : BOOLEAN,
                  entries : Seq(EntryType)]

ASSUME ExchangeConstants ==
    /\ Requests \subseteq RequestType
    /\ \A q \in Requests : q.arrives <= Len(q.body)
    /\ Pipelines \subseteq Seq(TransformType)
    /\ MaxRequestBody \in Nat
    /\ RetryStatuses \subseteq Statuses /\ 0 \notin Statuses
    /\ RetryHandler \in BOOLEAN
    /\ Rewrites \subseteq Seq(Tokens)
    /\ DOMAIN RealValue \subseteq Tokens
    /\ \A p \in DOMAIN RealValue : RealValue[p] \in Tokens \ DOMAIN RealValue
    /\ \A p \in Pipelines : \A k \in DOMAIN p : \A e \in Range(p[k].entries) :
            e.canonical \/ e.placeholder \in DOMAIN RealValue

VARIABLES
    req,       \* the request
    pl,        \* the pipeline it loaded
    pc,        \* where handleHTTP is
    i,         \* the transform a phase has reached
    body,      \* r.Body
    clen,      \* r.ContentLength
    cred,      \* the canonical credential is in the request (requestScrubs)
    rerouted,  \* the gateway's upstream is another authority than the request's
    out,       \* upstreamReq's body, responseRetryEnabled and replayable
    sends,     \* what reached upstream: bytes, and whether the body ended well
    resp,      \* the status of the response in hand, 0 if none
    accepted,  \* Decide returned replay = true
    posts,     \* the completions posted: the outcome told, and the answer
    result,    \* the PipelineResult
    wrote,     \* the status written to the client, 0 if none
    audits,    \* the records emitted
    canceled,  \* r.Context() is cancelled: the client is gone
    expired,   \* the canonical credential's expires_at has passed
    intended   \* history: the body upstream should receive

exchange == <<req, pl, body, clen, cred, rerouted, out, intended>>
retry == <<sends, resp, accepted, posts>>
answer == <<result, wrote, audits>>
world == <<canceled, expired>>
vars == <<exchange, pc, i, retry, answer, world>>

NoResult == [action |-> "continue", status |-> 0, canceled |-> FALSE]
NoOut == [bytes |-> <<>>, fails |-> FALSE, retry |-> FALSE, replayable |-> FALSE]

Init ==
    /\ req \in Requests /\ pl \in Pipelines
    /\ pc = "arrive" /\ i = 1
    /\ body = NewBufferedBody(SubSeq(req.body, 1, req.arrives),
                              req.arrives < Len(req.body), MaxRequestBody)
    /\ clen = IF req.lengthKnown THEN Len(req.body) ELSE -1
    /\ cred = FALSE /\ rerouted = FALSE
    /\ out = NoOut
    /\ sends = <<>> /\ resp = 0 /\ accepted = FALSE /\ posts = <<>>
    /\ result = NoResult /\ wrote = 0 /\ audits = <<>>
    /\ canceled = FALSE /\ expired = FALSE
    /\ intended = req.body

-----------------------------------------------------------------------------
(* How handleHTTP ends.                                                       *)

\* The response is written and handleHTTP returns.
Respond(action, status) ==
    /\ result' = [action |-> action, status |-> status, canceled |-> FALSE]
    /\ wrote' = status
    /\ pc' = "finish"
    /\ UNCHANGED audits

\* MUTANT: any error is taken for the client's cancellation.
FailAlwaysCanceled ==
    /\ result' = [action |-> "continue", status |-> 200, canceled |-> TRUE]
    /\ pc' = "finish"
    /\ UNCHANGED <<wrote, audits>>

\* An error: markIfClientCancel, else 502.
Fail ==
    IF canceled
    THEN /\ result' = [action |-> "continue", status |-> 200, canceled |-> TRUE]
         /\ pc' = "finish"
         /\ UNCHANGED <<wrote, audits>>
    ELSE Respond("continue", 502)

Goto(label) == pc' = label /\ UNCHANGED answer

\* The deferred finish: the audit record is emitted.
Finish ==
    /\ pc = "finish"
    /\ audits' = Append(audits, result)
    /\ pc' = "done"
    /\ UNCHANGED <<exchange, i, retry, result, wrote, world>>

-----------------------------------------------------------------------------
(* Arrival.                                                                   *)

\* The early 400s return before a pipeline run begins. Then the readiness gate.
Arrive ==
    /\ pc = "arrive"
    /\ IF ~req.wellFormed
       THEN wrote' = 400 /\ pc' = "done" /\ UNCHANGED <<result, audits>>
       ELSE \/ Respond("reject", 503)
            \/ Goto("request")
    /\ UNCHANGED <<exchange, i, retry, world>>

-----------------------------------------------------------------------------
(* The request phase. A transform's outcome: the verdict, the status of the   *)
(* response it serves, 0 if none, and what it leaves of the request. Of the   *)
(* secrets only the canonical ones set scrub_response here.                   *)

Outcome(verdict, status) ==
    [verdict |-> verdict, status |-> status, body |-> body, clen |-> clen,
     cred |-> cred, intended |-> intended]

\* A stubbed token endpoint, a token injected or skipped, or none to be had.
OAuthRequest == {Outcome("stub", 200), Outcome("reject", 502), Outcome("continue", 0)}

\* The body is read; a read error is annotated and swallowed.
CaptureRequest == {[Outcome("continue", 0) EXCEPT !.body = ReadAll(body).body]}

\* The service may reject, with or without a response of its own, or let the
\* request continue with a body of its choosing; it may also not answer.
GRPCRequest(t) ==
    LET r == IF t.reads THEN ReadAll(body) ELSE [err |-> FALSE, body |-> body]
        at(o) == [o EXCEPT !.body = r.body] IN
    IF r.err THEN {at(Outcome("error", 0))}
    ELSE {at(Outcome("error", 0)), at(Outcome("continue", 0))}
         \cup {at(Outcome("reject", s)) : s \in {0} \cup Statuses}
         \cup {[Outcome("continue", 0) EXCEPT !.body = NewBufferedBodyFromBytes(b),
                                              !.clen = Len(b), !.intended = b] : b \in Rewrites}

Substitute(bytes, p) == [k \in DOMAIN bytes |-> IF bytes[k] = p THEN RealValue[p] ELSE bytes[k]]

\* swapBody: the bytes from the body's position on; an error finds nothing.
SwapBody(b, p) ==
    LET r == ReadAll(b) IN
    IF r.err \/ p \notin Range(r.bytes) THEN [found |-> FALSE, body |-> r.body]
    ELSE [found |-> TRUE, body |-> NewBufferedBodyFromBytes(Substitute(r.bytes, p))]

\* One turn of the loop over the secrets. A canonical entry answers only for a
\* request that presents its placeholder, and refuses it when it has expired.
SwapEntry(o, e, available) ==
    IF o.verdict # "continue" THEN o
    ELSE IF e.canonical
    THEN IF ~req.carries THEN o
         ELSE IF expired \/ ~available
         THEN [o EXCEPT !.verdict = "reject"]
         ELSE [o EXCEPT !.cred = TRUE]
    ELSE IF ~available
    THEN IF e.require THEN [o EXCEPT !.verdict = "reject"] ELSE o
    ELSE LET s == SwapBody(o.body, e.placeholder)
             swapped == [o EXCEPT !.body = s.body,
                                  !.intended = Substitute(@, e.placeholder)] IN
         IF ~s.found /\ e.require
         THEN [swapped EXCEPT !.verdict = "reject"] ELSE swapped

\* The loop, when the sources of `up` can be read.
SwapAll(entries, up) ==
    LET after[k \in 0 .. Len(entries)] ==
            IF k = 0 THEN Outcome("continue", 0)
            ELSE SwapEntry(after[k - 1], entries[k], k \in up)
    IN after[Len(entries)]

SecretsRequest(t) == {SwapAll(t.entries, up) : up \in SUBSET DOMAIN t.entries}

TransformRequest(t) ==
    CASE t.kind = "oauth"   -> OAuthRequest
      [] t.kind = "capture" -> CaptureRequest
      [] t.kind = "grpc"    -> GRPCRequest(t)
      [] t.kind = "secrets" -> SecretsRequest(t)

\* A rejection without a response of its own is answered by forbiddenResponse.
ShortCircuit(o) == Respond(o.verdict, IF o.status = 0 THEN 403 ELSE o.status)

\* MUTANT: the body is not rewound for the next transform.
ProcessRequestNoReset ==
    /\ pc = "request" /\ i <= Len(pl)
    /\ \E o \in TransformRequest(pl[i]) :
          /\ body' = o.body
          /\ clen' = o.clen /\ cred' = o.cred /\ intended' = o.intended
          /\ \/ o.verdict = "error" /\ Fail /\ UNCHANGED i
             \/ o.verdict \in {"reject", "stub"} /\ ShortCircuit(o) /\ UNCHANGED i
             \/ o.verdict = "continue" /\ Goto("request") /\ i' = i + 1
    /\ UNCHANGED <<req, pl, rerouted, out, retry, world>>

\* One turn of ProcessRequest's loop, the body rewound after the transform.
ProcessRequest ==
    /\ pc = "request" /\ i <= Len(pl)
    /\ \E o \in TransformRequest(pl[i]) :
          /\ body' = Reset(o.body)
          /\ clen' = o.clen /\ cred' = o.cred /\ intended' = o.intended
          /\ \/ o.verdict = "error" /\ Fail /\ UNCHANGED i
             \/ o.verdict \in {"reject", "stub"} /\ ShortCircuit(o) /\ UNCHANGED i
             \/ o.verdict = "continue" /\ Goto("request") /\ i' = i + 1
    /\ UNCHANGED <<req, pl, rerouted, out, retry, world>>

-----------------------------------------------------------------------------
(* MCP policy and gateway.                                                    *)

\* EvaluateRequest reads the whole body and rewinds it. A body shorter than
\* Content-Length is denied as truncated; others are allowed or denied.
EvaluateMCP ==
    /\ pc = "request" /\ i > Len(pl)
    /\ IF ~req.mcp
       THEN Goto("build") /\ UNCHANGED body
       ELSE LET r == ReadAll(body) IN
            /\ body' = IF r.err THEN r.body ELSE Reset(r.body)
            /\ \/ r.err /\ Fail
               \/ ~r.err /\ Respond("reject", 200)
               \/ ~r.err /\ ~(clen > 0 /\ Len(r.bytes) < clen) /\ Goto("gateway")
    /\ UNCHANGED <<req, pl, clen, cred, rerouted, out, intended, i, retry, world>>

\* A matching route names the upstream, of the same authority or another, and its
\* credentials are injected; or a required one is missing.
ApplyGateway ==
    /\ pc = "gateway"
    /\ \/ ~req.routed /\ Goto("build") /\ UNCHANGED rerouted
       \/ req.routed /\ Goto("build") /\ rerouted' \in BOOLEAN
       \/ req.routed /\ Fail /\ UNCHANGED rerouted
    /\ UNCHANGED <<req, pl, body, clen, cred, out, intended, i, retry, world>>

-----------------------------------------------------------------------------
(* The upstream request.                                                      *)

ValidDestination == cred => ~expired /\ ~rerouted

\* The body's length is asked before its reader is taken.
UpstreamLength == IF Length(body) >= 0 THEN Length(body) ELSE clen

ResponseRetryEligible == RetryHandler /\ UpstreamLength >= 0 /\ ~req.grpcType

\* MUTANT: a body that did not fit is replayed as far as it was read.
PrepareReplayBodyCut(r) ==
    IF MaxRequestBody = 0 \/ UpstreamLength > MaxRequestBody + 1
    THEN [err |-> FALSE, replayable |-> FALSE]
    ELSE [err |-> r.fails, replayable |-> TRUE]

\* prepareReplayBody: up to the limit is kept for a replay; the read fails if
\* the client's body does within it.
PrepareReplayBody(r) ==
    IF MaxRequestBody = 0 \/ UpstreamLength > MaxRequestBody
    THEN [err |-> FALSE, replayable |-> FALSE]
    ELSE [err |-> r.fails /\ Len(r.bytes) <= MaxRequestBody,
          replayable |-> Len(r.bytes) <= MaxRequestBody]

BuildUpstream ==
    /\ pc = "build"
    /\ LET r == StreamingReader(body)
           p == IF ResponseRetryEligible THEN PrepareReplayBody(r)
                ELSE [err |-> FALSE, replayable |-> FALSE] IN
       /\ body' = [body EXCEPT !.original = FALSE]
       /\ IF ~ValidDestination THEN Respond("reject", 403) /\ UNCHANGED out
          ELSE IF p.err THEN Respond("continue", 502) /\ UNCHANGED out
          ELSE /\ out' = [bytes |-> r.bytes, fails |-> r.fails,
                          retry |-> ResponseRetryEligible, replayable |-> p.replayable]
               /\ Goto("send")
    /\ UNCHANGED <<req, pl, clen, cred, rerouted, intended, i, retry, world>>

-----------------------------------------------------------------------------
(* The send boundary. RoundTrip rechecks the destination on every send.       *)

Sent == [bytes |-> out.bytes, whole |-> ~out.fails]

\* MUTANT: the credential is checked when it is swapped in and not again.
RoundTripUnchecked(status) ==
    /\ sends' = Append(sends, Sent)
    /\ resp' = status

\* Upstream answers status.
RoundTripAnswers(status) ==
    /\ ValidDestination
    /\ sends' = Append(sends, Sent)
    /\ resp' = status

\* RoundTrip returns an error: the destination is refused and nothing leaves, or
\* the transport failed before or after the request left.
RoundTripFails ==
    /\ \/ UNCHANGED sends
       \/ ValidDestination /\ sends' = Append(sends, Sent)
    /\ resp' = 0

SendAnswered ==
    /\ pc = "send"
    /\ \E status \in Statuses :
          /\ RoundTripAnswers(status)
          /\ Goto(IF out.retry /\ status \in RetryStatuses THEN "decide" ELSE "response")
    /\ i' = 1
    /\ UNCHANGED <<exchange, accepted, posts, world>>

\* MUTANT: the upstream request is not bound to the client's context.
SendFailedDetached ==
    /\ pc = "send" /\ ~canceled
    /\ RoundTripFails
    /\ Fail
    /\ UNCHANGED <<exchange, i, accepted, posts, world>>

SendFailed ==
    /\ pc = "send"
    /\ RoundTripFails
    /\ Fail
    /\ UNCHANGED <<exchange, i, accepted, posts, world>>

-----------------------------------------------------------------------------
(* Response retry.                                                            *)

\* The handler declines, fails, or answers something Decide refuses: the
\* original response stands.
DecideNone ==
    /\ pc = "decide"
    /\ Goto("response")
    /\ UNCHANGED <<exchange, i, retry, world>>

\* One replay is authorised. Decide refuses it when the body was not kept.
DecideReplay ==
    /\ pc = "decide" /\ ~canceled /\ out.replayable
    /\ accepted' = TRUE
    /\ Goto("replay")
    /\ UNCHANGED <<exchange, i, sends, resp, posts, world>>

\* The replay's body is the kept copy of the first send's.
ReplayAnswered ==
    /\ pc = "replay"
    /\ \E status \in Statuses : RoundTripAnswers(status)
    /\ Goto("complete")
    /\ UNCHANGED <<exchange, i, accepted, posts, world>>

ReplayFailed ==
    /\ pc = "replay"
    /\ RoundTripFails
    /\ Goto("complete")
    /\ UNCHANGED <<exchange, i, accepted, posts, world>>

\* What a completion says of the replay: its status, or a transport error.
ReplayOutcome == resp

\* One turn of Complete's loop: acknowledged, refused for good, or to be tried
\* again (no answer, or a 5xx), twice at most. The context outlives the client.
PostCompletion ==
    /\ pc = "complete"
    /\ \E ack \in {"done", "refused", "again"} :
          /\ posts' = Append(posts, [outcome |-> ReplayOutcome, ack |-> ack])
          /\ IF ack = "again" /\ Len(posts) = 0 THEN Goto("complete")
             ELSE IF resp = 0 THEN Fail
             ELSE Goto("response")
    /\ UNCHANGED <<exchange, i, sends, resp, accepted, world>>

-----------------------------------------------------------------------------
(* The response phase.                                                        *)

\* Statuses a response transform may leave, by verdict. A gRPC service may
\* change the status, reject or fail; scrubbing refuses an unreadable encoding.
TransformResponse(t) ==
    CASE t.kind = "grpc" -> {[verdict |-> "error", status |-> 0],
                             [verdict |-> "reject", status |-> 0]}
                            \cup [verdict : {"continue", "reject"}, status : Statuses]
      [] t.kind = "secrets" /\ cred -> {[verdict |-> "continue", status |-> resp],
                                        [verdict |-> "reject", status |-> 502]}
      [] OTHER -> {[verdict |-> "continue", status |-> resp]}

ProcessResponse ==
    /\ pc = "response" /\ i <= Len(pl)
    /\ body' = Reset(body)
    /\ \E o \in TransformResponse(pl[i]) :
          \/ o.verdict = "error" /\ Fail /\ UNCHANGED <<i, resp>>
          \/ o.verdict = "reject" /\ ShortCircuit(o) /\ UNCHANGED <<i, resp>>
          \/ o.verdict = "continue" /\ Goto("response") /\ i' = i + 1 /\ resp' = o.status
    /\ UNCHANGED <<req, pl, clen, cred, rerouted, out, intended, sends, accepted, posts, world>>

\* writeResponse or streamSSE, to the end of the stream or of the client.
WriteResponse ==
    /\ pc = "response" /\ i > Len(pl)
    /\ Respond("continue", resp)
    /\ UNCHANGED <<exchange, i, retry, world>>

-----------------------------------------------------------------------------
(* The world.                                                                 *)

ClientGone ==
    /\ ~canceled /\ pc # "done"
    /\ canceled' = TRUE
    /\ UNCHANGED <<exchange, pc, i, retry, answer, expired>>

Expire ==
    /\ ~expired /\ pc # "done"
    /\ expired' = TRUE
    /\ UNCHANGED <<exchange, pc, i, retry, answer, canceled>>

\* Steps that need no answer from upstream, or end the wait for one.
Step ==
    \/ Arrive \/ ProcessRequest \/ EvaluateMCP \/ ApplyGateway \/ BuildUpstream
    \/ SendFailed \/ DecideNone \/ ReplayFailed \/ PostCompletion
    \/ ProcessResponse \/ WriteResponse \/ Finish

Next == Step \/ SendAnswered \/ DecideReplay \/ ReplayAnswered \/ ClientGone \/ Expire

\* Every wait of handleHTTP is bound to the client's context, except the
\* completion, which has a timeout: once the client is gone, none of them lasts.
Fairness == WF_vars(canceled /\ Step)

Spec == Init /\ [][Next]_vars /\ Fairness

-----------------------------------------------------------------------------
(* Properties.                                                                *)

Labels == {"arrive", "request", "gateway", "build", "send", "decide", "replay",
           "complete", "response", "finish", "done"}

\* Every request that began a pipeline run is audited exactly once, when it
\* ends, with the status the client was given; only a client that really went
\* away is recorded as cancelled, and then it was given nothing.
AuditTruthful ==
    /\ pc # "done" => audits = <<>>
    /\ pc = "done" /\ req.wellFormed =>
          /\ Len(audits) = 1
          /\ IF audits[1].canceled THEN canceled /\ wrote = 0
             ELSE wrote # 0 /\ audits[1].status = wrote

\* At most one replay leaves, only after it was authorised, and it carries
\* exactly the bytes of the first send, to their end.
ReplayExact ==
    /\ Len(sends) <= 2
    /\ Len(sends) = 2 =>
          /\ accepted
          /\ sends[1] = sends[2] /\ sends[2].whole
          /\ Len(sends[2].bytes) <= MaxRequestBody

\* An authorised replay is always reported, even if the client left meanwhile:
\* one post, or a second after one that was not answered, both telling the same
\* outcome; and nothing is reported that was not authorised.
CompletionReported ==
    /\ pc = "done" => (accepted <=> posts # <<>>)
    /\ Len(posts) <= 2
    /\ Len(posts) = 2 => posts[1].ack = "again" /\ posts[1].outcome = posts[2].outcome
    /\ \A k \in DOMAIN posts : posts[k].outcome # 0 => Len(sends) = 2

\* Nothing leaves with the canonical credential after it expired, or for another
\* authority the gateway chose; that it was valid when swapped in is not enough.
CredentialFresh == [][sends' # sends => ~(cred /\ (expired \/ rerouted))]_vars

\* A body that arrived in full, and was not cut at the limit, reaches upstream
\* as the transforms left it: nothing lost, repeated, or left unswapped.
BodyIntact ==
    \A k \in DOMAIN sends :
        sends[k].whole /\ req.arrives = Len(req.body)
        /\ (Len(req.body) <= MaxRequestBody \/ ~body.once)
            => sends[k].bytes = intended

\* A placeholder that a readable match_body entry names does not leave.
PlaceholdersSwapped ==
    \A k \in DOMAIN sends :
        Range(sends[k].bytes) \cap DOMAIN RealValue \subseteq Range(intended)

\* What lies beyond max_request_body_bytes is still forwarded.
TailForwarded ==
    \A k \in DOMAIN sends :
        sends[k].whole /\ req.arrives = Len(req.body) /\ intended = req.body
            => Len(sends[k].bytes) = Len(req.body)

\* Once the client is gone the exchange ends, whatever upstream does.
ClientGoneEnds == canceled ~> pc = "done"

-----------------------------------------------------------------------------
(* The inductive invariant behind ReplayExact and CompletionReported.         *)

\* A request that may be replayed was kept in full.
KeptInFull == out.replayable => ~out.fails /\ Len(out.bytes) <= MaxRequestBody

Post(outcome, ack) == [outcome |-> outcome, ack |-> ack]

\* What has been sent and reported at each point of handleHTTP.
RetryInv ==
    /\ pc \in Labels /\ accepted \in BOOLEAN
    /\ pc \in {"arrive", "request", "gateway", "build", "send"} =>
          sends = <<>> /\ ~accepted /\ posts = <<>>
    /\ pc = "decide" => sends = <<Sent>> /\ ~accepted /\ posts = <<>>
    /\ pc = "replay" => sends = <<Sent>> /\ accepted /\ posts = <<>>
    /\ pc = "complete" =>
          /\ accepted
          /\ sends \in {<<Sent>>, <<Sent, Sent>>}
          /\ resp # 0 => sends = <<Sent, Sent>>
          /\ posts = <<>> \/ posts = <<Post(resp, "again")>>
    /\ pc \in {"response", "finish", "done"} =>
          /\ sends \in {<<>>, <<Sent>>, <<Sent, Sent>>}
          /\ sends = <<Sent, Sent>> => accepted
          /\ \/ ~accepted /\ posts = <<>>
             \/ /\ accepted
                /\ \E o \in Statuses \cup {0}, a \in {"done", "refused", "again"} :
                      /\ posts = <<Post(o, a)>> \/ posts = <<Post(o, "again"), Post(o, a)>>
                      /\ o # 0 => sends = <<Sent, Sent>>
    /\ accepted => out.replayable
    /\ resp \in Statuses \cup {0}

IInv == KeptInFull /\ RetryInv
=============================================================================

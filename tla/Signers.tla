------------------------------- MODULE Signers -------------------------------
(* The transforms that put the proxy's own credential on a request:           *)
(* aws_auth, hmac_sign, gcp_auth and gcp_id_token, run by the pipeline in the *)
(* order it was configured with, over one shared request body.                *)
(*                                                                            *)
(* A request names the transforms whose rules match it, the token endpoint it *)
(* is for, and what its Authorization holds. Its body is a BufferedBody over  *)
(* the bytes 1..n; the client may stop sending (`fails`), and the buffer may  *)
(* end before the body does. A signature is the body it covers.               *)
EXTENDS BufferedBody, FiniteSets

CONSTANTS
    Pipelines,       \* orders of transforms a configuration may name
    MaxLength,       \* bound: bytes of a request
    MaxBytes,        \* max_request_body_bytes
    MaxTokenBody,    \* gcpjwt.MaxTokenRequestBodyBytes
    MaxRequests      \* bound: requests through one pipeline

ASSUME SignAssumption ==
    /\ MaxLength \in Nat /\ MaxTokenBody \in Nat /\ MaxRequests \in Nat
    /\ MaxBytes \in Nat

Minters == {"gcp_auth", "gcp_id_token"}

VARIABLES
    pipeline,     \* the transforms, in order
    options,      \* [unsigned, chunked]: unsigned_payload, allow_chunked_body
    source,       \* per minter: its token source, none or loaded
    up,           \* can credentials be had from their backend
    req,          \* the request in the pipeline
    turn,         \* index of the transform that has it
    signatures,   \* [by, body] for each signature on it
    fate,         \* [is, why]: open, sent, rejected, stubbed
    downSince,    \* has the backend been down since this request arrived
    begun         \* requests begun

signVars == <<pipeline, options, source, up, req, turn, signatures, fate, downSince, begun>>

BodyBytes(n) == [i \in 1..n |-> i]

\* What net/http hands to the pipeline: a client that declares a length (-1: it does
\* not) may stop sending before the end. Only a token request holds an assertion
\* with an audience. The synthetic request of the tunnel check is a CONNECT without
\* a body.
Request(ts, m, e, a, s, n, sent, d) ==
    [matched |-> ts, method |-> m, endpoint |-> e, audience |-> a, scope |-> s,
     auth |-> "client", content |-> BodyBytes(n), declared |-> d,
     body |-> NewBufferedBody(BodyBytes(sent), sent < n, MaxBytes)]

Arrivals(ts) ==
    {Request(ts, "CONNECT", "none", FALSE, "absent", 0, 0, 0)}
    \union UNION {UNION {
        {Request(ts, "POST", "none", FALSE, s, n, sent, d) : s \in {"absent", "refused", "allowed"}}
        \union {Request(ts, "POST", e, FALSE, "allowed", n, sent, d) :
                    e \in {"token", "metadata_token", "metadata_identity"}}
        \union {Request(ts, "POST", "token", n > 0, "allowed", n, sent, d)} :
            sent \in 0..n, d \in {-1, n}} : n \in 0..MaxLength}

NoRequest ==
    [matched |-> {}, method |-> "none", endpoint |-> "none", audience |-> FALSE,
     scope |-> "absent", auth |-> "none", content |-> <<>>, declared |-> 0,
     body |-> NewBufferedBodyFromBytes(<<>>)]

Idle == [is |-> "idle", why |-> "none"]
Open == [is |-> "open", why |-> "none"]

SignInit ==
    /\ pipeline \in Pipelines
    /\ options \in [unsigned : BOOLEAN, chunked : BOOLEAN]
    /\ source = [m \in Minters |-> "none"]
    /\ up \in BOOLEAN
    /\ req = NoRequest
    /\ turn = 1 /\ signatures = {} /\ fate = Idle /\ downSince = ~up
    /\ begun = 0

\* The backends of the credentials come and go.
BackendChanges ==
    /\ up' = ~up
    /\ downSince' = (downSince \/ ~up')
    /\ UNCHANGED <<pipeline, options, source, req, turn, signatures, fate, begun>>

Arrive ==
    /\ fate = Idle /\ begun < MaxRequests
    /\ \E ts \in SUBSET {pipeline[i] : i \in DOMAIN pipeline} :
        req' \in Arrivals(ts)
    /\ begun' = begun + 1
    /\ turn' = 1 /\ signatures' = {} /\ fate' = Open
    /\ downSince' = ~up
    /\ UNCHANGED <<pipeline, options, source, up>>

Turn(name) == fate.is = "open" /\ turn <= Len(pipeline) /\ pipeline[turn] = name

\* The pipeline rewinds the body after every transform, and goes on, or ends with
\* the response of the one that rejected or stubbed.
Continue(r) ==
    /\ req' = [r EXCEPT !.body = Reset(@)]
    /\ turn' = turn + 1
    /\ UNCHANGED fate

Ends(r, is, why) ==
    /\ req' = [r EXCEPT !.body = Reset(@)]
    /\ fate' = [is |-> is, why |-> why]
    /\ UNCHANGED turn

----------------------------------------------------------------------------
(* gcpjwt: is this the token request of an ID token? Reading it restores it.  *)

\* Above its limit, or of unknown length, a body is not looked at.
tokenRequestBody(r) ==
    IF r.declared < 0 \/ r.declared > MaxTokenBody
    THEN [ok |-> FALSE, bytes |-> <<>>, body |-> r.body]
    ELSE LET read == ReadAll(r.body) IN
         [ok |-> ~read.err /\ Len(read.bytes) <= MaxTokenBody,
          bytes |-> read.bytes, body |-> Reset(read.body)]

\* A cut assertion does not parse.
JWTBearerTargetAudience(r) ==
    LET read == tokenRequestBody(r) IN
    [ok |-> read.ok /\ r.audience /\ read.bytes = r.content, body |-> read.body]

----------------------------------------------------------------------------
(* The two minters. *)

loadTokenSourceOnce(m, ok) ==
    /\ source' = [source EXCEPT ![m] = IF @ # "none" THEN @ ELSE IF up THEN "loaded" ELSE "failed"]
    /\ ok = (source'[m] = "loaded")

\* The loaded source is kept; an error is not.
loadTokenSource(m, ok) ==
    \/ source[m] = "loaded" /\ ok /\ UNCHANGED source
    \/ source[m] = "none" /\ up /\ ok /\ source' = [source EXCEPT ![m] = "loaded"]
    \/ source[m] = "none" /\ ~up /\ ~ok /\ UNCHANGED source

\* Token() answers from its own cache, or asks the endpoint; it may fail while
\* the endpoint is away.
mintToken(m, ok) ==
    \E loaded \in BOOLEAN :
        /\ loadTokenSource(m, loaded)
        /\ ok => loaded
        /\ ~ok => ~loaded \/ ~up

isTokenEndpoint(r) ==
    LET jwt == JWTBearerTargetAudience(r) IN
    CASE r.endpoint = "token" -> [ok |-> ~jwt.ok, body |-> jwt.body]
      [] r.endpoint = "metadata_token" -> [ok |-> TRUE, body |-> r.body]
      [] OTHER -> [ok |-> FALSE, body |-> r.body]

stubRequest(r) ==
    LET jwt == JWTBearerTargetAudience(r) IN
    CASE r.endpoint = "metadata_identity" -> [ok |-> TRUE, body |-> r.body]
      [] r.endpoint = "token" -> [ok |-> jwt.ok, body |-> jwt.body]
      [] OTHER -> [ok |-> FALSE, body |-> r.body]

Stub(name) == IF name = "gcp_auth" THEN isTokenEndpoint(req) ELSE stubRequest(req)

\* TransformRequest of gcp_auth and of gcp_id_token: a token endpoint is stubbed
\* whatever the rules say; a request the rules match carries a minted token.
MinterTransform(name) ==
    LET stub == Stub(name)
        r == [req EXCEPT !.body = stub.body]
    IN
    /\ Turn(name)
    /\ \/ stub.ok /\ Ends(r, "stubbed", name) /\ UNCHANGED source
       \/ ~stub.ok /\ name \notin req.matched /\ Continue(r) /\ UNCHANGED source
       \/ /\ ~stub.ok /\ name \in req.matched
          /\ \E ok \in BOOLEAN :
                /\ mintToken(name, ok)
                /\ IF ok THEN Continue([r EXCEPT !.auth = name])
                         ELSE Ends(r, "rejected", "token_unavailable")
    /\ UNCHANGED <<pipeline, options, up, signatures, downSince, begun>>

gcpAuth == MinterTransform("gcp_auth")
gcpIDToken == MinterTransform("gcp_id_token")

----------------------------------------------------------------------------
(* The two signers. *)

readBodyUnchecked(r) ==
    LET read == ReadAll(r.body) IN
    [why |-> CASE read.err -> "body_read_failed"
               [] ~read.err /\ r.declared < 0 /\ ~options.chunked -> "chunked_body_not_allowed"
               [] OTHER -> "none",
     bytes |-> read.bytes, body |-> read.body]

\* The body to sign, or why not. A body shorter than declared was cut by the
\* buffer; without a length nobody can tell.
readBodyForSigning(r) ==
    LET read == ReadAll(r.body) IN
    [why |-> CASE read.err -> "body_read_failed"
               [] ~read.err /\ Len(read.bytes) < r.declared -> "body_truncated"
               [] ~read.err /\ r.declared < 0 /\ ~options.chunked -> "chunked_body_not_allowed"
               [] OTHER -> "none",
     bytes |-> read.bytes, body |-> read.body]

\* payloadHash of aws_auth: unsigned_payload leaves the body alone.
payloadHash(r) ==
    IF options.unsigned THEN [why |-> "none", bytes |-> <<>>, body |-> r.body]
    ELSE LET read == readBodyForSigning(r) IN
         [read EXCEPT !.body = IF read.why = "none"
                               THEN NewBufferedBodyFromBytes(read.bytes) ELSE @]

\* parseInboundScope and the allowed regions and services.
scopeError(r) ==
    CASE r.scope = "absent" -> "missing_sigv4"
      [] r.scope = "refused" -> "region_not_allowed"
      [] OTHER -> "none"

\* A credential is had while its backend is up; a cached one also while it is not.
Retrieves(ok) == ~ok => ~up

Sign(name, covers, bytes) ==
    signatures' = signatures \union {[by |-> name, covers |-> covers, body |-> bytes]}

awsAuth ==
    LET hash == payloadHash(req)
        r == [req EXCEPT !.body = hash.body]
    IN
    /\ Turn("aws_auth")
    /\ \/ /\ req.method = "CONNECT" \/ "aws_auth" \notin req.matched
          /\ Continue(req) /\ UNCHANGED signatures
       \/ /\ req.method # "CONNECT" /\ "aws_auth" \in req.matched
          /\ \/ /\ scopeError(req) # "none"
                /\ Ends(req, "rejected", scopeError(req)) /\ UNCHANGED signatures
             \/ /\ scopeError(req) = "none"
                /\ Retrieves(FALSE)
                /\ Ends(req, "rejected", "credential_unavailable") /\ UNCHANGED signatures
             \/ /\ scopeError(req) = "none" /\ hash.why # "none"
                /\ Ends(r, "rejected", hash.why) /\ UNCHANGED signatures
             \/ /\ scopeError(req) = "none" /\ hash.why = "none"
                /\ Ends([r EXCEPT !.auth = "none"], "rejected", "signing_failed")
                /\ UNCHANGED signatures
             \/ /\ scopeError(req) = "none" /\ hash.why = "none"
                /\ Continue([r EXCEPT !.auth = "aws_auth"])
                /\ Sign("aws_auth", ~options.unsigned, hash.bytes)
    /\ UNCHANGED <<pipeline, options, source, up, downSince, begun>>

\* The body is read first; a credential, the message, the key or a header template
\* may then fail, the last after some headers are set.
hmacSign ==
    LET read == readBodyForSigning(req)
        r == [req EXCEPT !.body = read.body]
    IN
    /\ Turn("hmac_sign")
    /\ \/ /\ "hmac_sign" \notin req.matched
          /\ Continue(req) /\ UNCHANGED signatures
       \/ /\ "hmac_sign" \in req.matched /\ read.why # "none"
          /\ Ends(r, "rejected", read.why) /\ UNCHANGED signatures
       \/ /\ "hmac_sign" \in req.matched /\ read.why = "none"
          /\ Retrieves(FALSE)
          /\ Ends(r, "rejected", "credential_unavailable") /\ UNCHANGED signatures
       \/ /\ "hmac_sign" \in req.matched /\ read.why = "none"
          /\ \E why \in {"message_template_failed", "key_decode_failed", "header_template_failed"} :
                Ends(r, "rejected", why)
          /\ UNCHANGED signatures
       \/ /\ "hmac_sign" \in req.matched /\ read.why = "none"
          /\ Continue([r EXCEPT !.body = NewBufferedBodyFromBytes(read.bytes)])
          /\ Sign("hmac_sign", TRUE, read.bytes)
    /\ UNCHANGED <<pipeline, options, source, up, downSince, begun>>

\* After the last transform the request goes upstream.
Forward ==
    /\ fate.is = "open" /\ turn > Len(pipeline)
    /\ fate' = [is |-> "sent", why |-> "none"]
    /\ UNCHANGED <<pipeline, options, source, up, req, turn, signatures, downSince, begun>>

\* The exchange is over, whatever became of it.
Over ==
    /\ fate.is \notin {"idle", "open"}
    /\ fate' = Idle /\ req' = NoRequest /\ signatures' = {} /\ turn' = 1 /\ downSince' = ~up
    /\ UNCHANGED <<pipeline, options, source, up, begun>>

SignNext ==
    \/ BackendChanges \/ Arrive \/ Forward \/ Over
    \/ gcpAuth \/ gcpIDToken \/ awsAuth \/ hmacSign

SignSpec == SignInit /\ [][SignNext]_signVars

----------------------------------------------------------------------------
(* Properties *)

\* Every signature on a request that leaves the proxy covers exactly the bytes the
\* upstream reads, and these are all the client's bytes, whichever transforms read
\* the body before: a body cut by the buffer, or by the client, is only signed
\* when it had no declared length, allow_chunked_body is set, and the buffer was
\* full (readBodyForSigning, payloadHash, NewBufferedBodyFromBytes).
SignedAsSent ==
    fate.is = "sent" =>
        \A s \in signatures :
            s.covers =>
                /\ s.body = StreamingReader(req.body).bytes
                /\ \/ s.body = req.content
                   \/ req.declared < 0 /\ options.chunked /\ Len(s.body) = MaxBytes

\* A request is refused for want of a token only if the backend was away at some
\* time since the request arrived: a failure to load a token source is not kept
\* for later requests (loadTokenSource).
RefusedOnlyWhileDown ==
    fate.why = "token_unavailable" => downSince
=============================================================================

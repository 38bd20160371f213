---------------------------- MODULE MCTransforms ----------------------------
(* What the transforms of a request keep and do: the secret cache, the oauth  *)
(* entry over its abstract source, the certificate cache, the response scrub, *)
(* the signing transforms, and the MCP policy with its gateway. They share no *)
(* state here, so each behaviour is one of them, the others at rest.          *)
EXTENDS SecretCache, TokenEntry, CertCache, Scrub, Signers, MCPFilter

(********************************* scrub ************************************)

\* A value, one it is a prefix of, and one that holds an escape byte itself.
MCNeedles == {<<"a", "b">>, <<"a", "b", "a">>, <<"p", "a">>}

\* A value that ends in two escape bytes.
MCOwnEscape == {<<"a", "p", "p">>}

(******************************** signers ***********************************)

\* A minter before and after a signer, two signers, two minters.
MCPipelines ==
    {<<"gcp_auth", "hmac_sign">>, <<"gcp_id_token", "aws_auth">>,
     <<"aws_auth", "hmac_sign">>, <<"hmac_sign", "gcp_auth">>,
     <<"gcp_auth", "gcp_id_token">>}

(********************************** mcp *************************************)

NoArgs == [x \in {} |-> ""]
Args(v) == [x \in {"path"} |-> v]
Msg(method, id, tool, args) == [method |-> method, id |-> id, tool |-> tool, args |-> args]
Ans(id, tools) == [id |-> id, tools |-> tools]

\* One that allows read; one that allows write too, with a condition on an argument.
MCPolicies ==
    {[t \in {"read"} |-> {}],
     [t \in {"read", "write"} |->
        IF t = "write" THEN {[path |-> "path", wants |-> {"ok"}]} ELSE {}]}

MCRoutes == {{}, {[name |-> "key", require |-> TRUE], [name |-> "opt", require |-> FALSE]}}

MCMessages ==
    {Msg("tools/list", "1", "", NoArgs), Msg("tools/list", NullId, "", NoArgs),
     Msg("tools/call", "2", "read", NoArgs), Msg("tools/call", "2", "write", Args("ok")),
     Msg("tools/call", "2", "write", Args("bad")), Msg("tools/call", "2", "", NoArgs),
     Msg("ping", "3", "", NoArgs)}

\* One message, cut short or whole; two in a batch; an empty batch; no body.
MCBodies ==
    {[method |-> "POST", cut |-> c, batch |-> FALSE, messages |-> <<m>>] :
        c \in BOOLEAN, m \in MCMessages}
    \cup {[method |-> "POST", cut |-> FALSE, batch |-> TRUE, messages |-> <<m, n>>] :
            m \in MCMessages, n \in MCMessages}
    \cup {[method |-> "POST", cut |-> FALSE, batch |-> TRUE, messages |-> <<>>],
          [method |-> "GET", cut |-> FALSE, batch |-> FALSE, messages |-> <<>>]}

MCAnswers == {Ans("1", {"read", "write", ""}), Ans("2", {"write"}), Ans(NullId, {"write"})}

MCItems ==
    {[batch |-> FALSE, messages |-> <<m>>] : m \in MCAnswers}
    \cup {[batch |-> TRUE, messages |-> p] :
            p \in { q \in MCAnswers \X MCAnswers : q[1] # q[2] }}

\* A JSON answer, a stream of two events, and another content type.
MCResponses ==
    {[kind |-> "json", items |-> <<i>>] : i \in MCItems}
    \cup {[kind |-> "sse", items |-> <<i, j>>] : i \in MCItems, j \in MCItems}
    \cup {[kind |-> "other", items |-> <<i>>] : i \in MCItems}

-----------------------------------------------------------------------------
VARIABLE part

MCvars == <<cacheVars, tokenVars, certVars, scrubVars, signVars, mcpVars, part>>

\* A component that the behaviour is not about stays in one initial state.
MCInit ==
    /\ part \in {"cache", "token", "cert", "scrub", "sign", "mcp"}
    /\ CacheInit /\ (part # "cache" => successTTL = 0)
    /\ TokenInit /\ (part # "token" => grant = "jwt_bearer" /\ require)
    /\ CertInit
    /\ ScrubInit /\ (part # "scrub" => body = <<>> /\ header = "plain")
    /\ SignInit /\ (part # "sign" => /\ up /\ ~options.unsigned /\ ~options.chunked
                                     /\ pipeline = <<"gcp_auth", "hmac_sign">>)
    /\ MCPInit /\ (part # "mcp" => holder = NoServer /\ gateway = {} /\ request.method = "GET")

MCNext ==
    /\ UNCHANGED part
    /\ \/ /\ part = "cache" /\ CacheNext
          /\ UNCHANGED <<tokenVars, certVars, scrubVars, signVars, mcpVars>>
       \/ /\ part = "token" /\ TokenNext
          /\ UNCHANGED <<cacheVars, certVars, scrubVars, signVars, mcpVars>>
       \/ /\ part = "cert" /\ CertNext
          /\ UNCHANGED <<cacheVars, tokenVars, scrubVars, signVars, mcpVars>>
       \/ /\ part = "scrub" /\ ScrubNext
          /\ UNCHANGED <<cacheVars, tokenVars, certVars, signVars, mcpVars>>
       \/ /\ part = "sign" /\ SignNext
          /\ UNCHANGED <<cacheVars, tokenVars, certVars, scrubVars, mcpVars>>
       \/ /\ part = "mcp" /\ MCPNext
          /\ UNCHANGED <<cacheVars, tokenVars, certVars, scrubVars, signVars>>

MCSpec == MCInit /\ [][MCNext]_MCvars
=============================================================================

----------------------------- MODULE TokenEntry -----------------------------
(* The oauth_token transform (oauth/oauth.go, oauth/grant.go) over a secret    *)
(* source: each request reads the credential, takes or rebuilds the entry's    *)
(* token source under its lock, and mints a token from it; the source keeps    *)
(* its token until that expires. The credential's several fields are one       *)
(* version here, as the fingerprint covers them all.                           *)
(*                                                                             *)
(* golang.org/x/oauth2 is external: ReuseTokenSource holds its own lock over   *)
(* an exchange, and every grant but jwt_bearer exchanges with the context its  *)
(* source was built with.                                                      *)
EXTENDS Naturals, Sequences

CONSTANTS
    Callers, MaxCredential,  \* of the credential's source
    Incomplete,  \* the versions that lack a field the grant needs
    TokenTTL,    \* how long an access token is valid
    MaxClock     \* bound on the clock

ASSUME TokenConstants ==
    TokenTTL \in Nat \ {0} /\ MaxClock \in Nat /\ MaxCredential \in Nat

VARIABLES
    grant, require,  \* of the entry
    held, read,      \* the credential's source, and what each request read from it
    at,              \* per request: where TransformRequest is
    context,         \* per request: "live" or "done"
    sources,         \* every oauth2.TokenSource built: [cred, owner, token, expires]
    entry,           \* e.tokenSource, an index of sources, 0 before the first
    mine,            \* per request: the source tokenSourceFor returned
    outcome,         \* per request: what became of it
    clock

credential == <<held, read>>
tokenVars == <<grant, require, credential, at, context, sources, entry, mine, outcome, clock>>

\* The credential's source, by what SecretCache is shown to implement.
Credential == INSTANCE SecretSource WITH Requests <- Callers, MaxVersion <- MaxCredential,
    latest <- held, answer <- read

Grants == {"refresh_token", "client_credentials", "password", "jwt_bearer"}
Pending == [kind |-> "pending", token |-> 0, why |-> "none"]

\* buildEntry: a valid grant with its sources, rules and endpoint.
TokenInit ==
    /\ Credential!Init
    /\ grant \in {"password", "jwt_bearer"} /\ require \in BOOLEAN
    /\ at = [r \in Callers |-> "idle"] /\ context = [r \in Callers |-> "live"]
    /\ sources = <<>> /\ entry = 0 /\ mine = [r \in Callers |-> 0]
    /\ outcome = [r \in Callers |-> Pending] /\ clock = 0

BindsContext(g) == g \in Grants \ {"jwt_bearer"}

\* The token endpoint itself is stubbed and an unmatched request goes on as it is;
\* for a matching entry, mint asks for the credential first.
TransformRequest(r) ==
    /\ at[r] = "idle"
    /\ \/ /\ at' = [at EXCEPT ![r] = "credentials"]
          /\ Credential!Ask(r) /\ UNCHANGED outcome
       \/ /\ at' = [at EXCEPT ![r] = "done"]
          /\ \E k \in {"stub", "unmatched"} : outcome' = [outcome EXCEPT ![r].kind = k]
          /\ UNCHANGED credential
    /\ UNCHANGED <<grant, require, context, sources, entry, mine, clock>>

\* A mint error ends in 502, or in forwarding the request as it came.
MintFails(r, why) ==
    /\ at' = [at EXCEPT ![r] = "done"]
    /\ outcome' = [outcome EXCEPT ![r] =
                     [kind |-> IF require THEN "rejected" ELSE "bare", token |-> 0, why |-> why]]

resolveCredentials(r) ==
    /\ at[r] = "credentials" /\ read[r].is # "asked"
    /\ IF read[r].is = "error" THEN MintFails(r, "credential")
       ELSE at' = [at EXCEPT ![r] = "entry"] /\ UNCHANGED outcome
    /\ UNCHANGED <<grant, require, credential, context, sources, entry, mine, clock>>

\* A source for the request's credential and context, or an error for a field that
\* is empty.
buildTokenSource(r) ==
    \/ /\ read[r].version \notin Incomplete
       /\ sources' = Append(sources, [cred |-> read[r].version, owner |-> r,
                                      token |-> 0, expires |-> 0])
       /\ entry' = Len(sources) + 1
       /\ mine' = [mine EXCEPT ![r] = entry']
       /\ at' = [at EXCEPT ![r] = "token"]
       /\ UNCHANGED outcome
    \/ /\ read[r].version \in Incomplete
       /\ MintFails(r, "credential")
       /\ UNCHANGED <<sources, entry, mine>>

TakeEntry(r) ==
    /\ mine' = [mine EXCEPT ![r] = entry]
    /\ at' = [at EXCEPT ![r] = "token"]
    /\ UNCHANGED <<sources, entry, outcome>>

tokenSourceForAny(r) ==
    /\ at[r] = "entry"
    /\ \/ entry # 0 /\ TakeEntry(r)
       \/ entry = 0 /\ buildTokenSource(r)
    /\ UNCHANGED <<grant, require, credential, context, clock>>

\* Under e.mu: the entry's source if it was built from the same credential, else a
\* new one, built with this request's context.
tokenSourceFor(r) ==
    /\ at[r] = "entry"
    /\ LET same == entry # 0 /\ sources[entry].cred = read[r].version
       IN (same /\ TakeEntry(r)) \/ (~same /\ buildTokenSource(r))
    /\ UNCHANGED <<grant, require, credential, context, clock>>

Minted(r, t) ==
    /\ at' = [at EXCEPT ![r] = "done"]
    /\ outcome' = [outcome EXCEPT ![r] = [kind |-> "injected", token |-> t, why |-> "none"]]

\* ts.Token: the source's token while it is valid, else an exchange, which the
\* endpoint may refuse and a context that is done ends.
Token(r) ==
    /\ at[r] = "token"
    /\ LET s == sources[mine[r]] IN
       \/ /\ s.token # 0 /\ clock < s.expires
          /\ Minted(r, s.token) /\ UNCHANGED sources
       \/ /\ ~(s.token # 0 /\ clock < s.expires)
          /\ \/ /\ BindsContext(grant) => context[s.owner] = "live"
                /\ sources' = [sources EXCEPT ![mine[r]].token = s.cred,
                                              ![mine[r]].expires = clock + TokenTTL]
                /\ Minted(r, s.cred)
             \/ MintFails(r, "endpoint") /\ UNCHANGED sources
             \/ /\ BindsContext(grant) /\ context[s.owner] = "done"
                /\ MintFails(r, "context") /\ UNCHANGED sources
    /\ UNCHANGED <<grant, require, credential, context, entry, mine, clock>>

sourceAnswers(r) ==
    /\ Credential!Answer(r) \/ Credential!Refuse(r)
    /\ UNCHANGED <<grant, require, at, context, sources, entry, mine, outcome, clock>>

\* A request's context ends with the request, or when its client goes.
ContextDone(r) ==
    /\ at[r] # "idle" /\ context[r] = "live"
    /\ context' = [context EXCEPT ![r] = "done"]
    /\ UNCHANGED <<grant, require, credential, at, sources, entry, mine, outcome, clock>>

Passes ==
    /\ clock < MaxClock /\ clock' = clock + 1
    /\ UNCHANGED <<grant, require, credential, at, context, sources, entry, mine, outcome>>

TokenNext ==
    \/ \E r \in Callers :
          \/ TransformRequest(r) \/ sourceAnswers(r) \/ resolveCredentials(r)
          \/ tokenSourceFor(r) \/ Token(r) \/ ContextDone(r)
    \/ Passes

TokenSpec == TokenInit /\ [][TokenNext]_tokenVars

-----------------------------------------------------------------------------
\* The token a request carries was minted from the credential value that this very
\* request read, however requests with older and newer values interleave around the
\* entry's lock; and with require set nothing is forwarded without one.
TokenMatchesCredential ==
    \A r \in Callers :
        /\ outcome[r].kind = "injected" => outcome[r].token = read[r].version
        /\ outcome[r].kind = "bare" => ~require

\* A mint fails for want of the credential, because of the endpoint, or because the
\* request itself was cancelled; never because of another request's end.
OwnContextOnly ==
    \A r \in Callers : outcome[r].why = "context" => context[r] = "done"
=============================================================================

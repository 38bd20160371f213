------------------------------ MODULE MCPFilter ------------------------------
(* The MCP policy (internal/mcp) and gateway (internal/mcpgateway) around one *)
(* exchange of the proxy: JSON-RPC messages of a POST are judged against the  *)
(* tools of the matched server, the gateway adds its credentials, and the     *)
(* tools/list answers in the response, JSON or a stream of events, are        *)
(* filtered. A reload may replace the policy and the gateway at any time.     *)
EXTENDS Naturals, Sequences, FiniteSets, SequencesExt

CONSTANTS
    Policies,     \* compiled servers: tool -> set of clauses [path, wants]
    Routes,       \* compiled gateways: set of credentials [name, require]
    Bodies,       \* request bodies: [method, cut, batch, messages]
    Responses,    \* upstream answers: [kind, items], an item [batch, messages]
    MaxReloads    \* bound: reloads during the exchange

ASSUME ResponsesAreItems ==
    \A a \in Responses :
        a.items \in Seq([batch : BOOLEAN, messages : Seq([id : STRING, tools : SUBSET STRING])])

NullId == "null"

VARIABLES
    holder,       \* PolicyHolder: the server matched by the current policy, if any
    gateway,      \* Holder of the gateway's route
    snapshot,     \* the server this exchange matched
    request,      \* its body
    recorded,     \* Trace.toolsListIDs
    injected,     \* gateway credentials put on the request
    response,     \* what the upstream answers
    relayed,      \* items of it read so far
    delivered,    \* items written to the client
    phase,        \* evaluate, route, upstream, denied, failed, relay, done
    reloads

mcpVars == <<holder, gateway, snapshot, request, recorded, injected, response, relayed,
             delivered, phase, reloads>>

NoServer == {}
Server(h) == CHOOSE s \in h : TRUE
NoResponse == [kind |-> "none", items |-> <<>>]

MCPInit ==
    /\ holder \in {NoServer} \union {{p} : p \in Policies}
    /\ gateway \in Routes
    /\ snapshot = NoServer /\ recorded = {} /\ injected = {}
    /\ request \in Bodies
    /\ response = NoResponse /\ relayed = 0 /\ delivered = <<>>
    /\ phase = "evaluate" /\ reloads = 0

\* PolicyHolder.Store and the gateway's Holder.Store, in the order of a reload.
Reload ==
    /\ reloads < MaxReloads
    /\ holder' \in {NoServer} \union {{p} : p \in Policies}
    /\ gateway' \in Routes
    /\ reloads' = reloads + 1
    /\ UNCHANGED <<snapshot, request, recorded, injected, response, relayed, delivered, phase>>

----------------------------------------------------------------------------
(* The request. *)

\* A path that is missing, or leads to another value, fails its clause.
evaluate(c, args) == c.path \in DOMAIN args /\ args[c.path] \in c.wants

EvaluateTool(server, m) ==
    m.tool \in DOMAIN server /\ \A c \in server[m.tool] : evaluate(c, m.args)

\* A call without a name is malformed.
DeniedCall(server, m) == m.method = "tools/call" /\ (m.tool = "" \/ ~EvaluateTool(server, m))

DeniedFirst(server, b) == DeniedCall(server, b.messages[1])

\* One denied call denies the batch.
DeniedAny(server, b) == \E i \in DOMAIN b.messages : DeniedCall(server, b.messages[i])

\* A body cut by the buffer, and one that does not parse or is an empty batch.
Unreadable(b) == b.cut \/ b.messages = <<>>

\* Notifications have no answer to wait for.
recordToolsListIDs(b) ==
    {b.messages[i].id : i \in {j \in DOMAIN b.messages : b.messages[j].method = "tools/list"}}
        \ {NullId}

\* The policy is loaded once; a request no server matches is none of its business.
\* A body that cannot be read to its end fails the request.
EvaluateRequest ==
    /\ phase = "evaluate"
    /\ snapshot' = holder
    /\ \/ holder = NoServer /\ phase' = "upstream" /\ UNCHANGED recorded
       \/ /\ holder # NoServer /\ request.method # "POST"
          /\ phase' = "route" /\ UNCHANGED recorded
       \/ /\ holder # NoServer /\ request.method = "POST"
          /\ \/ phase' = "failed" /\ UNCHANGED recorded
             \/ Unreadable(request) /\ phase' = "denied" /\ UNCHANGED recorded
             \/ /\ ~Unreadable(request)
                /\ recorded' = recordToolsListIDs(request)
                /\ phase' = IF DeniedAny(Server(holder), request) THEN "denied" ELSE "route"
    /\ UNCHANGED <<holder, gateway, request, injected, response, relayed, delivered, reloads>>

\* Route.Apply: a required credential that cannot be had, and any that cannot be
\* formatted, fails the request; another one is left out.
Apply ==
    /\ phase = "route"
    /\ \E had \in SUBSET gateway, formatted \in BOOLEAN :
        /\ injected' = had
        /\ phase' = IF formatted /\ {c \in gateway : c.require} \subseteq had
                    THEN "upstream" ELSE "failed"
    /\ UNCHANGED <<holder, gateway, snapshot, request, recorded, response, relayed, delivered, reloads>>

UpstreamAnswers ==
    /\ phase = "upstream"
    /\ response' \in Responses
    /\ phase' = "relay"
    /\ UNCHANGED <<holder, gateway, snapshot, request, recorded, injected, relayed, delivered, reloads>>

----------------------------------------------------------------------------
(* The response. *)

isToolsListResponse(id) == id # NullId /\ id \in recorded

\* A tool without a name is kept.
filterToolsListResult(tools, allowed) == {t \in tools : t = "" \/ t \in allowed}

filterMessage(m, allowed) ==
    IF isToolsListResponse(m.id)
    THEN [m EXCEPT !.tools = filterToolsListResult(@, allowed)] ELSE m

filterItem(item, allowed) ==
    [item EXCEPT !.messages = [i \in DOMAIN @ |-> filterMessage(@[i], allowed)]]

\* An event holds one message; a data payload that is an array is passed as it is.
rewriteEvent(item, allowed) == IF item.batch THEN item ELSE filterItem(item, allowed)

WrapResponseBodyLatest(item) ==
    IF holder = NoServer THEN item
    ELSE CASE response.kind = "json" -> filterItem(item, DOMAIN Server(holder))
           [] response.kind = "sse" -> rewriteEvent(item, DOMAIN Server(holder))
           [] OTHER -> item

\* The server is the one the request was judged by.
WrapResponseBody(item) ==
    IF snapshot = NoServer THEN item
    ELSE CASE response.kind = "json" -> filterItem(item, DOMAIN Server(snapshot))
           [] response.kind = "sse" -> rewriteEvent(item, DOMAIN Server(snapshot))
           [] OTHER -> item

\* A read of the wrapped body: the one JSON document, or the next event.
Relay ==
    /\ phase = "relay" /\ relayed < Len(response.items)
    /\ relayed' = relayed + 1
    /\ delivered' = Append(delivered, WrapResponseBody(response.items[relayed + 1]))
    /\ UNCHANGED <<holder, gateway, snapshot, request, recorded, injected, response, phase, reloads>>

Finish ==
    /\ phase = "relay" /\ relayed = Len(response.items)
    /\ phase' = "done"
    /\ UNCHANGED <<holder, gateway, snapshot, request, recorded, injected, response, relayed,
                   delivered, reloads>>

MCPNext == Reload \/ EvaluateRequest \/ Apply \/ UpstreamAnswers \/ Relay \/ Finish

MCPSpec == MCPInit /\ [][MCPNext]_mcpVars

----------------------------------------------------------------------------
(* Properties *)

Reached == phase \in {"upstream", "relay", "done"}

\* No request that reaches the upstream of a matched server holds a call, anywhere
\* in its batch, to a tool that server does not allow with these arguments, or a
\* body the policy could not read (EvaluateRequest). The server is the one loaded
\* when the request came, whatever was reloaded since.
CallsAllowed ==
    Reached /\ snapshot # NoServer /\ request.method = "POST" =>
        /\ ~request.cut
        /\ \A i \in DOMAIN request.messages :
            request.messages[i].method = "tools/call" =>
                /\ request.messages[i].tool \in DOMAIN Server(snapshot)
                /\ \A c \in Server(snapshot)[request.messages[i].tool] :
                        c.path \in DOMAIN request.messages[i].args
                        /\ request.messages[i].args[c.path] \in c.wants

ListIds ==
    {request.messages[i].id : i \in {j \in DOMAIN request.messages :
        request.messages[j].method = "tools/list"}} \ {NullId}

\* A client that lists the tools of a server sees only the ones it may call under
\* the policy that admitted its request, in every message of every answer, and
\* every other message reaches it as the upstream sent it (WrapResponseBody,
\* filterJSONResponseBody, rewriteEvent). A batch inside one event is left out:
\* rewriteEvent passes it.
ListsFiltered ==
    snapshot # NoServer /\ request.method = "POST" /\ response.kind \in {"json", "sse"} =>
        \A i \in DOMAIN delivered : \A j \in DOMAIN delivered[i].messages :
            LET got == delivered[i].messages[j]
                sent == response.items[i].messages[j]
            IN IF got.id \in ListIds
               THEN \/ got.tools \subseteq DOMAIN Server(snapshot) \union {""}
                    \/ response.kind = "sse" /\ response.items[i].batch
               ELSE got = sent
=============================================================================

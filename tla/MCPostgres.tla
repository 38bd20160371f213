----------------------------- MODULE MCPostgres -----------------------------
(* The postgres proxy: a session's messages, and the statement gate that all  *)
(* sessions share. They share no state, so each behaviour is one of them, the *)
(* other at rest.                                                             *)
(*                                                                            *)
(* Session: a setting and a role, and four pipelined messages, enough for a   *)
(* refused Parse, another Parse or an Execute of the same batch, its Sync,    *)
(* and a statement after it. Gate: configurations that pin settings in both   *)
(* cases and from both places, one of them refused at startup, and texts of   *)
(* every kind the classification tells apart; a cache of one text.            *)
EXTENDS PostgresSession, SQLGate

MCNames == {"", "role", "Role", "session_authorization", "p", "P", "q"}
MCLower == [n \in MCNames |-> CASE n = "Role" -> "role" [] n = "P" -> "p" [] OTHER -> n]

Up(db, s) == [database |-> db, settings |-> s]

MCConfigs ==
    {[file |-> <<Up("a", <<"P">>)>>, managed |-> <<Up("b", <<"q">>)>>],
     [file |-> <<Up("a", <<"q">>), Up("b", <<>>)>>,
      managed |-> <<Up("a", <<"p">>), Up("b", <<"Role">>)>>],
     [file |-> <<Up("a", <<"p", "P">>)>>, managed |-> <<>>]}

SetP == Plain({Node("set", "P")})
SetQ == Plain({Node("set", "q")})
Query == Plain({})
Walked(kind, name) == Plain({Node(kind, name)})

MCTexts ==
    {<<>>, SyntaxError, <<Query>>, <<Transaction, SetQ>>, <<SetP>>, <<SetQ, SetP>>,
     <<Walked("use", "")>>, <<Walked("set", "Role")>>,
     <<Query, Walked("reset", "session_authorization")>>,
     <<Query, Walked("reset_all", "")>>,
     <<Walked("discard_all", "")>>, <<Walked("discard_temp", "")>>,
     <<Walked("set_config", "q")>>, <<Walked("set_config_dynamic", "")>>,
     <<Walked("write_pg_settings", "")>>, <<Walked("view_pg_settings", "")>>,
     <<Walked("callback", "")>>, <<Do>>,
     <<Routine({}, "sql", "string", <<Query, SetP>>)>>,
     <<Routine({}, "sql", "parsed", <<SetQ>>)>>,
     <<Routine({}, "sql", "string", SyntaxError)>>,
     <<Routine({}, "plpgsql", "string", <<SetQ>>)>>,
     <<Routine({}, "plpgsql", "dynamic", <<Query>>)>>,
     <<Routine({}, "c", "string", <<Query>>)>>,
     <<Routine({Node("set", "P")}, "sql", "string", <<Query>>)>>}

VARIABLE part

MCvars == <<vars, gateVars, part>>

MCInit ==
    /\ part \in {"session", "gate"}
    /\ Init /\ GateInit
    /\ part # "gate" => "b" \in DOMAIN listener /\ listener["b"].pinned = {"q"}

MCNext ==
    /\ UNCHANGED part
    /\ \/ part = "session" /\ Next /\ UNCHANGED gateVars
       \/ part = "gate" /\ GateNext /\ UNCHANGED vars

\* The Fairness of PostgresSession, for the behaviours that are a session's.
MCFairness ==
    /\ WF_vars(part = "session" /\ Handshake) /\ WF_vars(part = "session" /\ run)
    /\ WF_vars(part = "session" /\ clientToServer)
    /\ WF_vars(part = "session" /\ serverToClient)

MCSpec == MCInit /\ [][MCNext]_MCvars /\ MCFairness

\* SessionEnds, of the behaviours of a session: it does not outlive either of its
\* connections, and every handshake is answered.
SessionsEnd == part = "session" => SessionEnds
=============================================================================

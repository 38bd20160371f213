-------------------------- MODULE MCConfiguration --------------------------
(* How a configuration comes into force: a managed proxy following its       *)
(* control plane, and reloads of a file proxy over the pending secrets. They  *)
(* share no state, so each behaviour is one of them, the other at rest.       *)
EXTENDS Reload, ManagedSync

(***************************** control plane ********************************)
CONSTANTS whole, badMCP, nulls, badPl

\* One config is whole, one has a pipeline and an MCP policy that does not compile,
\* one only an MCP policy and explicit nulls, one a pipeline that does not build.
MCPayload ==
    [c \in Versions |->
        CASE c = whole -> [k \in Components |-> "ok"]
          [] c = badMCP -> [k \in Components |-> IF k = "mcp" THEN "bad" ELSE "ok"]
          [] c = nulls -> [k \in Components |-> IF k = "mcp" THEN "ok" ELSE "null"]
          [] c = badPl -> [k \in Components |->
                         CASE k = "pipeline" -> "bad"
                           [] k = "mcp" -> "absent"
                           [] k = "postgres" -> "bad"]]

(******************************** reload ************************************)
CONSTANTS base, wait, inst, bad, half, v1

\* The configs of the pending window: base knows nothing of the placeholder, wait
\* declares it pending, inst installs it (and keeps the stale pending entry), bad
\* installs it and is refused by the postgres listener, half declares it and is
\* refused by a later pending entry.
MCFailStage ==
    [c \in Configs |-> CASE c = bad -> "postgres" [] c = half -> "pending" [] OTHER -> "none"]
MCInstalled == [c \in Configs |-> IF c \in {inst, bad} THEN {v1} ELSE {}]
MCPending == [c \in Configs |-> IF c \in {wait, inst, half} THEN {v1} ELSE {}]
MCScans == [c \in Configs |-> c # bad]
AllScan == [c \in Configs |-> TRUE]

-----------------------------------------------------------------------------
VARIABLE part

MCvars == <<vars, syncVars, part>>

MCInit ==
    /\ part \in {"sync", "reload"}
    /\ Init
    /\ SyncInit /\ (part # "sync" => cp = whole)

MCNext ==
    /\ UNCHANGED part
    /\ \/ part = "sync" /\ SyncNext /\ UNCHANGED vars
       \/ part = "reload" /\ Next /\ UNCHANGED syncVars

\* Each behaviour has the fairness of the component it is about.
MCFairness ==
    \/ part = "sync" /\ SyncFairness
    \/ part = "reload" /\ Fairness

MCSpec == MCInit /\ [][MCNext]_MCvars /\ MCFairness
=============================================================================

------------------------------ MODULE MCGuards ------------------------------
(* The two guards of the request path that outlive a request: the pipeline    *)
(* holder that fences upstream sockets, and the judge's breaker. They share   *)
(* no state, so each behaviour is one of them, the other at rest.             *)
(*                                                                            *)
(* Holder: two overlapping reloads, two sends, a public and two private       *)
(* addresses. Judge: three calls, two semaphore slots, a threshold of two.    *)
EXTENDS PipelineHolder, Judge

CONSTANTS p0, p1, p2, pub, priv1, priv2, r1, r2

\* p0 authorises priv1 and priv2 for r1; p1 has two allowlists that agree on
\* priv1 only (r1) and disagree on r2; p2 has one allowlist silent about r1.
MCAllowlists ==
    [p \in Pipelines |->
        CASE p = p0 -> {[r \in Requests |-> {priv1, priv2}]}
          [] p = p1 -> {[r \in Requests |-> {priv1, priv2}],
                        [r \in Requests |-> IF r = r1 THEN {priv1} ELSE {priv2}]}
          [] p = p2 -> {[r \in Requests |-> IF r = r1 THEN {} ELSE {priv2}]}]

VARIABLE part

MCvars == <<vars, judgeVars, part>>

MCInit ==
    /\ part \in {"holder", "judge"}
    /\ Init /\ JudgeInit
    /\ part # "holder" => \A c \in Conns : req[c] = r1 /\ addr[c] = pub

MCNext ==
    /\ UNCHANGED part
    /\ \/ part = "holder" /\ Next /\ UNCHANGED judgeVars
       \/ part = "judge" /\ JudgeNext /\ UNCHANGED vars

\* Each behaviour has the fairness of the component it is about.
MCFairness ==
    \/ part = "holder" /\ Fairness
    \/ part = "judge" /\ JudgeFairness

MCSpec == MCInit /\ [][MCNext]_MCvars /\ MCFairness
=============================================================================

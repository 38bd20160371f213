---------------------------- MODULE SecretSource ----------------------------
(* What a secret source promises its callers, whatever is behind it: a        *)
(* register that only moves forward. A Get that is under way answers with     *)
(* what the register holds, having moved it or not, and fails only while it   *)
(* holds nothing.                                                             *)
EXTENDS Naturals

CONSTANTS Requests, MaxVersion

VARIABLES
    latest,  \* the version held, 0 before the first
    answer   \* per request: [is |-> none, asked, error or value, version]

vars == <<latest, answer>>

Says(r, what, v) == answer' = [answer EXCEPT ![r] = [is |-> what, version |-> v]]

Init == latest = 0 /\ answer = [r \in Requests |-> [is |-> "none", version |-> 0]]

Ask(r) ==
    /\ answer[r].is # "asked"
    /\ Says(r, "asked", 0)
    /\ UNCHANGED latest

\* The answer is the version held once the call is over: the one it found, or a
\* later one it fetched.
Answer(r) ==
    /\ answer[r].is = "asked"
    /\ \E v \in 1..MaxVersion : v >= latest /\ latest' = v
    /\ Says(r, "value", latest')

Refuse(r) ==
    /\ answer[r].is = "asked" /\ latest = 0
    /\ Says(r, "error", 0)
    /\ UNCHANGED latest

Next == \E r \in Requests : Ask(r) \/ Answer(r) \/ Refuse(r)

Spec == Init /\ [][Next]_vars
=============================================================================

-------------------------------- MODULE Judge --------------------------------
(***************************************************************************)
(* The LLM judge transform: its circuit breaker (judge/resilience.go) and  *)
(* the calls that pass through it (judge/transform.go).                    *)
(*                                                                         *)
(* Calls are the goroutines of concurrent requests.  The breaker's mutex   *)
(* makes allow and a permit atomic; everything between them interleaves.   *)
(* The clock is the one bit the code asks of it: whether the cooldown has  *)
(* passed since openedAt.                                                  *)
(***************************************************************************)
EXTENDS Integers, FiniteSets

CONSTANTS
    Calls,          \* request goroutines
    Threshold,      \* consecutive_failures
    MaxConcurrent,  \* capacity of Judge.sem
    Fallback        \* "deny" or "skip"

ASSUME JudgeConstants ==
    /\ Threshold \in Nat \ {0}
    /\ MaxConcurrent \in Nat \ {0}
    /\ Fallback \in {"deny", "skip"}

VARIABLES
    state, failures, cooled, halfOpenInUse,  \* circuitBreaker
    pc,      \* where each call is in TransformRequest
    probe,   \* the halfOpen argument its permit was made with
    verdict, \* the decision parsed from the model's answer to this request
    action   \* what its last TransformRequest returned

judgeVars == <<state, failures, cooled, halfOpenInUse, pc, probe, verdict, action>>
breaker == <<state, failures, cooled, halfOpenInUse>>

States  == {"closed", "open", "halfOpen"}
PCs     == {"idle", "permitted", "working", "settled"}
Verdicts == {"none", "allow", "deny"}
Actions == {"none", "continue", "reject", "error"}

\* A permit that has not been settled.
Outstanding(c) == pc[c] \in {"permitted", "working"}

\* Holders of a slot of the semaphore channel.
InSem == {c \in Calls : pc[c] \in {"working", "settled"}}

-----------------------------------------------------------------------------
JudgeInit ==
    /\ state = "closed" /\ failures = 0
    /\ cooled = FALSE /\ halfOpenInUse = FALSE
    /\ pc = [c \in Calls |-> "idle"]
    /\ probe = [c \in Calls |-> FALSE]
    /\ verdict = [c \in Calls |-> "none"]
    /\ action = [c \in Calls |-> "none"]

\* applyFallback.
applyFallback == IF Fallback = "deny" THEN "reject" ELSE "continue"

\* TransformRequest returns the action how; v is the decision it parsed, if any.
Return(c, how, v) ==
    /\ action' = [action EXCEPT ![c] = how]
    /\ verdict' = [verdict EXCEPT ![c] = v]
Goto(c, where) == pc' = [pc EXCEPT ![c] = where]

\* circuitBreaker.allow returned ok: as a probe or not.
Admit(c, asProbe) ==
    /\ probe' = [probe EXCEPT ![c] = asProbe]
    /\ Goto(c, "permitted")
    /\ Return(c, "none", "none")

\* MUTANT: an open breaker admits every call once the cooldown has passed, and
\* only the call that finds it half-open claims the probe.
allowUnclaimed(c) ==
    /\ pc[c] = "idle"
    /\ \/ /\ state = "closed"
          /\ Admit(c, FALSE)
          /\ UNCHANGED breaker
       \/ /\ state = "open" /\ cooled
          /\ state' = "halfOpen"
          /\ Admit(c, FALSE)
          /\ UNCHANGED <<failures, cooled, halfOpenInUse>>
       \/ /\ state = "halfOpen" /\ ~halfOpenInUse
          /\ halfOpenInUse' = TRUE
          /\ Admit(c, TRUE)
          /\ UNCHANGED <<state, failures, cooled>>

\* circuitBreaker.allow, for a call whose request matches the judge's rules.
allow(c) ==
    /\ pc[c] = "idle"
    /\ IF state = "closed" THEN
            Admit(c, FALSE) /\ UNCHANGED breaker
       ELSE IF state = "open" /\ cooled THEN
            /\ state' = "halfOpen" /\ halfOpenInUse' = TRUE
            /\ Admit(c, TRUE)
            /\ UNCHANGED <<failures, cooled>>
       ELSE IF state = "halfOpen" /\ ~halfOpenInUse THEN
            /\ halfOpenInUse' = TRUE
            /\ Admit(c, TRUE)
            /\ UNCHANGED <<state, failures, cooled>>
       ELSE
            /\ Return(c, applyFallback, "none")
            /\ UNCHANGED <<breaker, pc, probe>>

\* The settle function makePermit returns; probe[c] is its halfOpen.
permit(c, success) ==
    /\ halfOpenInUse' = (halfOpenInUse /\ ~probe[c])
    /\ IF success THEN
            state' = "closed" /\ failures' = 0 /\ UNCHANGED cooled
       ELSE IF probe[c] THEN
            state' = "open" /\ cooled' = FALSE /\ UNCHANGED failures
       ELSE /\ failures' = failures + 1
            /\ IF failures + 1 >= Threshold
               THEN state' = "open" /\ cooled' = FALSE
               ELSE UNCHANGED <<state, cooled>>

\* A slot of the semaphore is free and the call takes it.
acquire(c) ==
    /\ pc[c] = "permitted" /\ Cardinality(InSem) < MaxConcurrent
    /\ Goto(c, "working")
    /\ UNCHANGED <<breaker, probe, verdict, action>>

\* MUTANT: the client went away; the permit is dropped unsettled.
cancelUnsettled(c) ==
    /\ pc[c] = "permitted"
    /\ Return(c, "error", "none")
    /\ Goto(c, "idle")
    /\ UNCHANGED <<breaker, probe>>

\* The request is cancelled while it waits for a slot: the permit is settled as
\* a failure and TransformRequest returns ctx.Err().
cancel(c) ==
    /\ pc[c] = "permitted"
    /\ permit(c, FALSE)
    /\ Return(c, "error", "none")
    /\ Goto(c, "idle")
    /\ UNCHANGED probe

\* Reading the body, building the envelope, the adapter's call (bounded by the
\* timeout) or parsing its decision failed.
fail(c) ==
    /\ pc[c] = "working"
    /\ permit(c, FALSE)
    /\ Return(c, applyFallback, "none")
    /\ Goto(c, "settled")
    /\ UNCHANGED probe

\* The adapter answered with a decision.
decide(c) ==
    /\ pc[c] = "working"
    /\ permit(c, TRUE)
    /\ \E v \in {"allow", "deny"} :
          Return(c, IF v = "deny" THEN "reject" ELSE "continue", v)
    /\ Goto(c, "settled")
    /\ UNCHANGED probe

\* The deferred receive from Judge.sem; the goroutine may judge another request.
release(c) ==
    /\ pc[c] = "settled"
    /\ Goto(c, "idle")
    /\ UNCHANGED <<breaker, probe, verdict, action>>

\* The cooldown since openedAt passes.
Elapse ==
    /\ state = "open" /\ ~cooled
    /\ cooled' = TRUE
    /\ UNCHANGED <<state, failures, halfOpenInUse, pc, probe, verdict, action>>

Step(c) == allow(c) \/ acquire(c) \/ cancel(c) \/ fail(c) \/ decide(c) \/ release(c)
JudgeNext == Elapse \/ \E c \in Calls : Step(c)

\* The adapter's call ends (j.timeout bounds it), deferred releases run, a
\* blocked sender on the semaphore channel is served in turn.  No client is
\* obliged to send a request, to cancel it, or to get a decision.
JudgeFairness ==
    \A c \in Calls :
        /\ SF_judgeVars(acquire(c))
        /\ WF_judgeVars(fail(c) \/ decide(c))
        /\ WF_judgeVars(release(c))

JudgeSpec == JudgeInit /\ [][JudgeNext]_judgeVars
JudgeFairSpec == JudgeSpec /\ JudgeFairness

-----------------------------------------------------------------------------
JudgeTypeOK ==
    /\ state \in States
    /\ failures \in Nat
    /\ cooled \in BOOLEAN /\ halfOpenInUse \in BOOLEAN
    /\ pc \in [Calls -> PCs]
    /\ probe \in [Calls -> BOOLEAN]
    /\ verdict \in [Calls -> Verdicts]
    /\ action \in [Calls -> Actions]

\* A half-open breaker always has its probe claimed and in flight, so it cannot
\* stay half-open with nobody left to settle it (allow, makePermit); and a
\* closed breaker is always short of the threshold, whatever late settlements
\* of calls admitted long before arrive while it is open or half-open.
NeverWedged ==
    /\ state = "halfOpen" =>
          halfOpenInUse /\ \E c \in Calls : Outstanding(c) /\ probe[c]
    /\ state = "closed" => failures < Threshold

\* With fallback "deny" a judged request goes on only on the judge's own word:
\* not through an open breaker, a failed call or an unreadable answer.
FailClosed ==
    Fallback = "deny" =>
        \A c \in Calls : action[c] = "continue" => verdict[c] = "allow"

\* A half-open breaker leaves that state again: the probe's permit is settled
\* on every path of TransformRequest, cancellation in the semaphore's queue
\* included.
ProbeResolves == state = "halfOpen" ~> state # "halfOpen"
=============================================================================

------------------------------- MODULE MCPacing -------------------------------
(***************************************************************************)
(* Pacing for TLC, in two scenarios of three tasks each:                   *)
(*   "permits"  one origin, whose most restrictive task may be cancelled,  *)
(*              and robots documents that allow everything;                *)
(*   "retire"   two origins that compete for one place in the registry and *)
(*              one in the robots cache, under the other robots policies.  *)
(***************************************************************************)
EXTENDS Pacing, TLC

CONSTANTS t1, t2, t3, t4, a, b

Robots(k, d) == [kind |-> k, delay |-> d, left |-> 0]

MCTasks       == {t1, t2, t3, t4}
MCTarget      == [t \in MCTasks |-> IF t = t4 THEN b ELSE a]
MCConcurrency == [t \in MCTasks |-> IF t \in {t1, t4} THEN 1 ELSE 2]
MCDelay       == [t \in MCTasks |-> IF t = t1 THEN 1 ELSE 0]
MCPolicies    == {Robots("allow_all", 0), Robots("deny_all", 0), Robots("allow", 1), Robots("disallow", 0)}

ASSUME PacingConstants

\* t2 and t3 are interchangeable: the same origin, concurrency and delay.
TaskSymmetry == Permutations({t2, t3})

Scenario == {"permits", "retire"}
Within(s) ==
    /\ s = "permits" =>
          /\ task[t4].pc = "new"
          /\ \A t \in Tasks : task[t].policy.kind \in {"none", "allow_all"}
          /\ \A o \in Registered : LET x == states[registry[o]] IN x.backoff <= 1 /\ x.retry = 0
    /\ s = "retire" =>
          /\ \E t \in {t2, t3} : task[t].pc = "new"
          /\ \A t \in Tasks : task[t].policy.kind # "allow_all"

\* The states explored: those of some scenario.
Bounded == \E s \in Scenario : Within(s)
=============================================================================

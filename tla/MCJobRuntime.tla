---------------------------- MODULE MCJobRuntime ----------------------------
(***************************************************************************)
(* JobRuntime for TLC, in three scenarios that bound what may happen:      *)
(*   "roots"    one Production job with retries of its own, storage        *)
(*              pressure, a schedule and crashes in every place;           *)
(*   "retry"    two Production jobs, the second a root of its own, a retry *)
(*              or a rerun of the first;                                   *)
(*   "actions"  a Quick Scrape job and its retry, resumption or restart.   *)
(***************************************************************************)
EXTENDS JobRuntime, TLC

Scenario == {"roots", "retry", "actions"}

ASSUME RuntimeConstants /\ RuntimeBounds

\* The two Production runs are interchangeable: no definition orders them.
RunSymmetry == Permutations(ProductionRun)

\* The runs of a scenario, and the kinds of jobs.
RunsOf(s)  == IF s = "actions" THEN Run \ ProductionRun ELSE ProductionRun
KindsOf(s) == {"ROOT"} \cup
    CASE s = "roots"  -> {}
      [] s = "retry"  -> {"RETRY", "RERUN_FULL_CRAWL"}
      [] s = "actions" -> {"RETRY_FAILED_PARTS", "RESUME_CHECKPOINT", "RESTART_FROM_BEGINNING"}
Within(s) ==
    /\ s = "roots" => state[2] = "ABSENT"
    /\ s # "roots" => /\ now <= 1 /\ pressure # "CRITICAL" /\ ~turn.pressured /\ ~shutdown
                      /\ Cardinality(requested \cup cancelling) <= 1
                      /\ \A j \in Job : Len(checkpoints[j]) <= 1
    /\ \A j \in Job : state[j] # "ABSENT" =>
          /\ runOf[j] \in RunsOf(s) /\ kind[j] \in KindsOf(s)
          /\ kind[j] = "ROOT" => budget[j] = 2
          /\ s = "retry" => sched[j] <= now

\* The states explored: those of some scenario.
Bounded == \E s \in Scenario : Within(s)
=============================================================================

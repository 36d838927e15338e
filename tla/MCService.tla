------------------------------ MODULE MCService ------------------------------
(***************************************************************************)
(* The parts of the service that others wait for, side by side for TLC.    *)
(* They share no state here: focus is the one that moves.                  *)
(*   "database"  the database actor under three callers;                   *)
(*   "process"   three builds that start and stop on one data directory;   *)
(*   "pacing"    two tasks at one origin, either of which may be cancelled;*)
(*   "progress"  an SSE client of a job, with a second job that only fills *)
(*               the hub.                                                  *)
(***************************************************************************)
EXTENDS DatabaseWorker, Process, ProgressStream, TLC

CONSTANTS old, new, patched, t1, t2, a, NoTask, j1, j2, c1

VARIABLES focus,
          registry, states, task, cache, flights, quiet

pacingVars   == <<registry, states, task, cache, flights, quiet>>
serviceVars  == <<focus, actorVars, processVars, pacingVars, progressVars>>

\* A first build, one with a migration more, and one whose first migration was
\* edited.
Builds == (old :> ("1" :> "a")) @@ (new :> ("1" :> "a" @@ "2" :> "b"))
             @@ (patched :> ("1" :> "c" @@ "2" :> "b"))

Robots(k, d) == [kind |-> k, delay |-> d, left |-> 0]
Tasks == {t1, t2}
Pacer == INSTANCE Pacing WITH
    Origins <- {a}, Target <- [t \in Tasks |-> a],
    Concurrency <- [t \in Tasks |-> 1], Delay <- [t \in Tasks |-> IF t = t1 THEN 1 ELSE 0],
    Override <- {t1}, Cancellable <- Tasks,
    Capacity <- 1, CacheCapacity <- 1, CacheTTL <- 1,
    MaxDelay <- 2, BackoffBase <- 1, MaxBackoff <- 2, RetryAfters <- {2},
    Policies <- {Robots("deny_all", 0), Robots("allow", 1), Robots("disallow", 0)}

Followed == c1 :> j1
EventBound == (j1 :> 3) @@ (j2 :> 1)

ASSUME ProcessConstants /\ Pacer!PacingConstants /\ ProgressConstants

Init ==
    /\ focus \in {"database", "process", "pacing", "progress"}
    /\ ActorInit /\ ProcessInit /\ Pacer!PacingInit /\ ProgressInit

Next ==
    /\ UNCHANGED focus
    /\ \/ /\ focus = "database" /\ ActorNext
          /\ UNCHANGED <<processVars, pacingVars, progressVars>>
       \/ /\ focus = "process" /\ ProcessNext
          /\ UNCHANGED <<actorVars, pacingVars, progressVars>>
       \/ /\ focus = "pacing" /\ Pacer!PacingNext
          /\ UNCHANGED <<actorVars, processVars, progressVars>>
       \/ /\ focus = "progress" /\ ProgressNext
          /\ UNCHANGED <<actorVars, processVars, pacingVars>>

\* The fairness of each part, as its module states it.
Fairness ==
    /\ WF_actorVars(focus = "database" /\ ThreadStep)
    /\ WF_actorVars(focus = "database" /\ CallerStep)
    /\ \A p \in Processes :
          /\ WF_processVars(focus = "process" /\ Starts(p))
          /\ WF_processVars(focus = "process" /\ Stops(p))
          /\ WF_processVars(focus = "process" /\ worker[p] = "dead" /\ ShutdownBegins(p))
    /\ WF_pacingVars(focus = "pacing" /\ Pacer!Tick)
    /\ \A t \in Tasks : WF_pacingVars(focus = "pacing" /\ Pacer!TaskStep(t))
    /\ WF_progressVars(focus = "progress" /\ StreamStep(c1))
    /\ \A j \in {j1, j2} : WF_progressVars(focus = "progress" /\ Publish(j))

Spec == Init /\ [][Next]_serviceVars /\ Fairness
-----------------------------------------------------------------------------
\* Every page request comes to an end: no wait for a permit, a deadline or
\* another task's robots fetch lasts for ever (execute_page).
EveryTaskEnds == \A t \in Tasks : focus = "pacing" ~> task[t].pc = "done"

\* What was sent to the hub reaches every client that stays connected, even if
\* the hub dropped it, and so does what was durable before the replay, however
\* many pages it takes (refill_from_durable).
EventsAreShown == SentIsShown /\ CommittedIsShown
=============================================================================

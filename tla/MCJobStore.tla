----------------------------- MODULE MCJobStore -----------------------------
(***************************************************************************)
(* JobStore for TLC, in two scenarios:                                     *)
(*   "one"      one job under two workers, whose leases expire and whose   *)
(*              checkpoints, run and stream go through every transaction;  *)
(*   "lineage"  three jobs of one run, created by every order of retries   *)
(*              and resumptions, under a clock that stands still.          *)
(***************************************************************************)
EXTENDS JobStore

CONSTANT w1    \* the worker of "lineage"

VARIABLE scenario

\* Job ids are time-ordered UUIDs, so jobs appear in the order of their numbers.
InOrder ==
    \A j \in Job : state[j] = "ABSENT" /\ state'[j] # "ABSENT" =>
        \A i \in Job : i < j => state[i] # "ABSENT"

One     == INSTANCE JobStore WITH Budget <- {2}, Requested <- {}
Lineage == INSTANCE JobStore WITH
    Worker <- {w1}, Budget <- {1}, MaxGen <- 1, MaxTime <- 0, MaxCheckpoints <- 0

OneNext == One!StoreNext /\ \A j \in Job \ {1} : state'[j] = "ABSENT"
LineageNext == Lineage!StoreNext /\ \A j \in Job : stream'[j] = "OPEN"

MCInit == scenario \in {"one", "lineage"} /\ StoreInit
MCNext ==
    /\ \/ scenario = "one" /\ OneNext
       \/ scenario = "lineage" /\ LineageNext
    /\ InOrder
    /\ UNCHANGED scenario
MCSpec == MCInit /\ [][MCNext]_<<scenario, storeVars>>
=============================================================================

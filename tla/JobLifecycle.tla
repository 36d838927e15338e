---------------------------- MODULE JobLifecycle ----------------------------
(***************************************************************************)
(* What the durable job queue promises about a job, whoever calls it and   *)
(* in whatever order: a job waits, is granted to one holder at a time      *)
(* under a generation that was never granted before, is given back or      *)
(* finished, and once finished never changes again.  It is granted at      *)
(* most as often as its budget allows.  JobStore implements this module.   *)
(***************************************************************************)
EXTENDS Naturals

CONSTANT Job

VARIABLES
    phase,    \* "ABSENT", "QUEUED", "RUNNING" or a terminal phase
    budget,   \* the grants the job was submitted with
    tries,    \* the grants it has had
    grant     \* the generation of the current grant, 0 when there is none

vars == <<phase, budget, tries, grant>>

Finished == {"SUCCEEDED", "FAILED", "CANCELLED"}

Init ==
    /\ phase = [j \in Job |-> "ABSENT"]
    /\ budget = [j \in Job |-> 0]
    /\ tries = [j \in Job |-> 0]
    /\ grant = [j \in Job |-> 0]

Same(j) ==
    /\ phase'[j] = phase[j] /\ budget'[j] = budget[j]
    /\ tries'[j] = tries[j] /\ grant'[j] = grant[j]

Submit(j) ==
    /\ phase[j] = "ABSENT" /\ phase'[j] = "QUEUED"
    /\ budget'[j] > 0
    /\ tries'[j] = 0 /\ grant'[j] = 0

Withdraw(j) ==
    /\ phase[j] = "QUEUED" /\ phase'[j] = "ABSENT"
    /\ tries[j] = 0 /\ tries'[j] = 0 /\ grant'[j] = 0

\* A grant under a new generation.  A job whose holder was lost may go through
\* the queue and to its next holder in one step.
Grant(j) ==
    /\ phase[j] \in {"QUEUED", "RUNNING"} /\ phase'[j] = "RUNNING"
    /\ tries[j] < budget[j] /\ budget'[j] = budget[j]
    /\ tries'[j] = tries[j] + 1 /\ grant'[j] = tries'[j]

GiveBack(j) ==
    /\ phase[j] = "RUNNING" /\ phase'[j] = "QUEUED"
    /\ tries[j] < budget[j] /\ budget'[j] = budget[j]
    /\ tries'[j] = tries[j] /\ grant'[j] = 0

Finish(j) ==
    /\ \/ phase[j] = "RUNNING" /\ phase'[j] \in Finished
       \/ phase[j] = "QUEUED" /\ phase'[j] = "CANCELLED"
    /\ budget'[j] = budget[j]
    /\ tries'[j] = tries[j] /\ grant'[j] = 0

\* One transaction may move several jobs (recovery of expired leases), each
\* along its own lifecycle.
Next ==
    \A j \in Job :
        Same(j) \/ Submit(j) \/ Withdraw(j) \/ Grant(j) \/ GiveBack(j) \/ Finish(j)

Spec == Init /\ [][Next]_vars
=============================================================================

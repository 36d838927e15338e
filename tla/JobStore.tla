------------------------------ MODULE JobStore ------------------------------
(***************************************************************************)
(* The durable job queue of erabi-db: the jobs, job_attempts,              *)
(* job_checkpoints and crawl_runs tables and the end of each job's         *)
(* progress stream, with one action per transaction of JobRepository,      *)
(* CheckpointRepository and CrawlRunRepository.                            *)
(*                                                                         *)
(* A transaction that returns an error rolls back, so it is no step of     *)
(* this module: the guard of an action is exactly the condition under      *)
(* which the transaction commits.  The callers are arbitrary here: any     *)
(* caller may present any lease at any time (JobRuntime restricts them to  *)
(* what the worker, its handlers, the API and startup really do).          *)
(***************************************************************************)
EXTENDS Naturals, Sequences, FiniteSets

CONSTANTS
    Job,            \* job identities; ORDER BY id is the order of the numbers
    Run,            \* crawl run identities
    ProductionRun,  \* the runs whose run_type is PRODUCTION_RUN
    Worker,         \* worker identities
    Priority,       \* job priorities
    Budget,         \* the values of max_attempts jobs are created with
    MaxGen,         \* bound on the generation of a lease that is presented
    LeaseDuration,  \* WorkerPolicy.lease_duration_seconds
    MaxTime,        \* bound on the clock
    MaxCheckpoints, \* bound on the checkpoints of one job
    Requested,      \* the recovery actions that are asked for
    NoRun, NoJob, NoLease

ASSUME StoreAssumption ==
    /\ Job \subseteq Nat
    /\ Priority \subseteq Nat
    /\ Budget \subseteq Nat \ {0}
    /\ MaxGen \in Nat
    /\ LeaseDuration \in Nat \ {0}
    /\ MaxTime \in Nat
    /\ MaxCheckpoints \in Nat
    /\ NoRun \notin Run
    /\ NoJob \notin Job
    /\ ProductionRun \subseteq Run

ContinuationKind ==
    {"RETRY", "RETRY_FAILED_PARTS", "RESUME_CHECKPOINT", "RESTART_FROM_BEGINNING"}
ActionKind   == ContinuationKind \cup {"RERUN_FULL_CRAWL"}
Kind         == ActionKind \cup {"ROOT"}
TerminalJob  == {"SUCCEEDED", "FAILED", "CANCELLED"}
ActiveJob    == {"QUEUED", "RUNNING"}
JobState     == TerminalJob \cup ActiveJob
Outcome      == {"RUNNING", "SUCCEEDED", "FAILED", "LEASE_EXPIRED"}
TerminalRun  == {"SUCCEEDED", "PARTIAL_RESULT", "FAILED", "CANCELLED"}
RunStatus    == TerminalRun \cup {"QUEUED", "RUNNING"}

\* A lease.  The lease id is a fresh UUID per acquisition; so is the pair of
\* a job and its generation, which stands for it.  heartbeat_at and expires_at
\* always move together, so only expires_at is kept.
Lease   == [owner : Worker, gen : Nat, expires : Nat]
Attempt == [outcome : Outcome, gen : Nat, owner : Worker]

ASSUME NoLeaseAssumption == NoLease \notin Lease
ASSUME RequestedAssumption == Requested \subseteq ActionKind

VARIABLES
    now,         \* the queue clock, in seconds
    state,       \* jobs.state, or "ABSENT" when there is no row
    kind, runOf, parent, budget,  \* kind, crawl_run_id, parent_job_id, max_attempts
    priority, sched,              \* priority, scheduled_at
    attempt,     \* current_attempt
    gen,         \* lease_generation
    lease,       \* the five nullable lease columns
    history,     \* job_attempts of a job, by attempt_number
    checkpoints, \* job_checkpoints of a job, by sequence: the owning attempt
    stream,      \* the terminal event of the job's progress stream, or "OPEN"
    runs         \* crawl_runs.status, or "NONE" when there is no row

linkVars  == <<kind, runOf, parent, budget>>
queueVars == <<state, priority, sched, attempt, gen, lease>>
storeVars == <<now, queueVars, linkVars, history, checkpoints, stream, runs>>

\* Type invariant: the columns of jobs, job_attempts, checkpoints and runs.
TypeOK ==
    /\ now \in Nat
    /\ state \in [Job -> JobState \cup {"ABSENT"}]
    /\ kind \in [Job -> Kind]
    /\ runOf \in [Job -> Run \cup {NoRun}]
    /\ parent \in [Job -> Job \cup {NoJob}]
    /\ budget \in [Job -> Nat]
    /\ priority \in [Job -> Nat]
    /\ sched \in [Job -> Nat]
    /\ attempt \in [Job -> Nat]
    /\ gen \in [Job -> Nat]
    /\ lease \in [Job -> Lease \cup {NoLease}]
    /\ history \in [Job -> Seq(Attempt)]
    /\ checkpoints \in [Job -> Seq(Nat)]
    /\ stream \in [Job -> TerminalJob \cup {"OPEN"}]
    /\ runs \in [Run -> RunStatus \cup {"NONE"}]

StoreInit ==
    /\ now = 0
    /\ state = [j \in Job |-> "ABSENT"]
    /\ kind = [j \in Job |-> "ROOT"]
    /\ runOf = [j \in Job |-> NoRun]
    /\ parent = [j \in Job |-> NoJob]
    /\ budget = [j \in Job |-> 0]
    /\ priority = [j \in Job |-> 0]
    /\ sched = [j \in Job |-> 0]
    /\ attempt = [j \in Job |-> 0]
    /\ gen = [j \in Job |-> 0]
    /\ lease = [j \in Job |-> NoLease]
    /\ history = [j \in Job |-> <<>>]
    /\ checkpoints = [j \in Job |-> <<>>]
    /\ stream = [j \in Job |-> "OPEN"]
    /\ runs = [r \in Run |-> "NONE"]
-----------------------------------------------------------------------------
\* Queries.

\* The five inconsistency queries of ensure_queue_invariants find no row.
LeaseConsistent(j) ==
    IF state[j] = "RUNNING"
    THEN lease[j] # NoLease /\ attempt[j] > 0 /\ gen[j] > 0
    ELSE lease[j] = NoLease
ActiveAttemptConsistent(j) ==
    state[j] = "RUNNING" =>
        /\ attempt[j] \in DOMAIN history[j]
        /\ history[j][attempt[j]].outcome = "RUNNING"
        /\ history[j][attempt[j]].gen = gen[j]
        /\ history[j][attempt[j]].owner = lease[j].owner
        /\ lease[j].gen = gen[j]
NoDanglingAttempt(j) ==
    state[j] # "RUNNING" =>
        \A n \in DOMAIN history[j] : history[j][n].outcome # "RUNNING"
AttemptCountConsistent(j) == attempt[j] = Len(history[j])
AttemptsWithinBudget(j) ==
    /\ Len(history[j]) <= budget[j]
    /\ state[j] = "ABSENT" => history[j] = <<>>

\* Every lease opens one attempt, so generations number the attempts, and only
\* the latest attempt can be running.
GenerationCounts(j) ==
    /\ gen[j] = attempt[j]
    /\ \A n \in DOMAIN history[j] : history[j][n].gen = n
    /\ \A n \in DOMAIN history[j] :
          n < Len(history[j]) => history[j][n].outcome # "RUNNING"

\* The queue is as ensure_queue_invariants wants it: of every job, the five
\* inconsistencies it looks for are absent and attempts are within the budget.
QueueConsistent ==
    \A j \in Job :
        /\ LeaseConsistent(j)
        /\ ActiveAttemptConsistent(j)
        /\ NoDanglingAttempt(j)
        /\ AttemptCountConsistent(j)
        /\ AttemptsWithinBudget(j)

\* Mutant of Owned: the lease is compared, its expiry is not.
OwnedPastExpiry(j, l) == state[j] = "RUNNING" /\ lease[j] = l

\* select_owned_running_job, ensure_owned_attempt and the WHERE clause of the
\* heartbeat: the caller's lease is the current one and has not expired.
Owned(j, l) == state[j] = "RUNNING" /\ lease[j] = l /\ l.expires > now

RunTerminal(j) == runOf[j] # NoRun /\ runs[runOf[j]] \in TerminalRun

\* The job state, and the attempt outcome, a terminal run stands for
\* (the first match of reconcile_terminal_job_in_transaction).
ReconciledState(s) ==
    CASE s \in {"SUCCEEDED", "PARTIAL_RESULT"} -> "SUCCEEDED"
      [] s = "FAILED"                          -> "FAILED"
      [] s = "CANCELLED"                       -> "CANCELLED"
ReconciledOutcome(s) ==
    IF s \in {"SUCCEEDED", "PARTIAL_RESULT"} THEN "SUCCEEDED" ELSE "FAILED"

\* Row n of job_attempts is still RUNNING under lease l.
ActiveAttempt(j, l, n) ==
    /\ history[j][n].outcome = "RUNNING"
    /\ history[j][n].gen = l.gen
    /\ history[j][n].owner = l.owner
HasActiveAttempt(j, l) == \E n \in DOMAIN history[j] : ActiveAttempt(j, l, n)

\* finish_attempt_in_transaction: the UPDATE closes the attempt of the lease.
Closed(a, o) == [outcome |-> o, gen |-> a.gen, owner |-> a.owner]
\* Mutant of ClosedHistory: the UPDATE names the job but not the attempt.
EveryAttemptClosed(j, l, o) ==
    [n \in DOMAIN history[j] |-> Closed(history[j][n], o)]
ClosedHistory(j, l, o) ==
    [n \in DOMAIN history[j] |->
        IF ActiveAttempt(j, l, n) THEN Closed(history[j][n], o) ELSE history[j][n]]

\* The job leaves RUNNING for st, its attempt is closed with outcome o and its
\* lease columns become NULL, in one transaction.
Close(j, l, st, o) ==
    /\ HasActiveAttempt(j, l)
    /\ state' = [state EXCEPT ![j] = st]
    /\ lease' = [lease EXCEPT ![j] = NoLease]
    /\ history' = [history EXCEPT ![j] = ClosedHistory(j, l, o)]
    /\ UNCHANGED <<now, linkVars, priority, attempt, gen, checkpoints>>

\* assess_one_stale_job: a job with a run or a checkpoint may be resumed only
\* from a checkpoint of its current attempt, and only with a run.
LatestCheckpoint(j) == checkpoints[j][Len(checkpoints[j])]
CheckpointInvalid(j) == checkpoints[j] # <<>> /\ LatestCheckpoint(j) # attempt[j]
CheckpointAllowsRecovery(j) ==
    \/ runOf[j] = NoRun /\ checkpoints[j] = <<>>
    \/ /\ runOf[j] # NoRun
       /\ checkpoints[j] # <<>>
       /\ LatestCheckpoint(j) = attempt[j]
-----------------------------------------------------------------------------
(***************************************************************************)
(* recover_expired_in_transaction.  It visits the expired jobs in the      *)
(* order of their ids, inside one transaction.  A job whose run is already *)
(* terminal follows its run; any other is requeued when its checkpoint and *)
(* its budget allow it, and fails otherwise, taking its run with it: a     *)
(* later expired job of the same run then finds the run FAILED.  The       *)
(* operators below give the tables as that loop leaves them.               *)
(***************************************************************************)
Expired == {j \in Job : state[j] = "RUNNING" /\ lease[j].expires <= now}
\* Mutant of Resumable: the attempt budget is forgotten.
ResumableWithoutBudget(j) == CheckpointAllowsRecovery(j)
Resumable(j) == CheckpointAllowsRecovery(j) /\ attempt[j] < budget[j]
Doomed(j) == j \in Expired /\ ~RunTerminal(j) /\ ~Resumable(j)
SiblingFailedBefore(j) ==
    runOf[j] # NoRun /\ \E k \in Job : k < j /\ runOf[k] = runOf[j] /\ Doomed(k)
\* The jobs for which the loop calls finalize_crawl_failure_in_transaction.
FailsRun(j) == Doomed(j) /\ runOf[j] # NoRun /\ ~SiblingFailedBefore(j)

\* Appending the terminal event fails on a stream that is already closed, and
\* that error abandons the whole transaction.
RecoveryCommits == QueueConsistent /\ \A j \in Job : FailsRun(j) => stream[j] = "OPEN"

\* Mutant of RecoveredState: a run that ended before the crash is not consulted.
RunNotConsulted(j) ==
    IF j \notin Expired THEN state[j]
    ELSE IF Resumable(j) /\ ~SiblingFailedBefore(j) THEN "QUEUED" ELSE "FAILED"
RecoveredState(j) ==
    IF j \notin Expired THEN state[j]
    ELSE IF RunTerminal(j) THEN ReconciledState(runs[runOf[j]])
    ELSE IF Resumable(j) /\ ~SiblingFailedBefore(j) THEN "QUEUED" ELSE "FAILED"
RecoveredOutcome(j) ==
    IF RunTerminal(j) THEN ReconciledOutcome(runs[runOf[j]])
    ELSE IF SiblingFailedBefore(j) THEN "FAILED" ELSE "LEASE_EXPIRED"

StateR == [j \in Job |-> RecoveredState(j)]
LeaseR == [j \in Job |-> IF j \in Expired THEN NoLease ELSE lease[j]]
SchedR ==
    [j \in Job |-> IF j \in Expired /\ ~RunTerminal(j) /\ ~SiblingFailedBefore(j)
                   THEN now ELSE sched[j]]
\* Mutant of HistoryR: the attempt of the lost holder stays open.
ExpiredAttemptStaysOpen == history
HistoryR ==
    [j \in Job |-> IF j \in Expired
                   THEN ClosedHistory(j, lease[j], RecoveredOutcome(j))
                   ELSE history[j]]
StreamR == [j \in Job |-> IF FailsRun(j) THEN "FAILED" ELSE stream[j]]
RunsR ==
    [r \in Run |-> IF \E j \in Job : FailsRun(j) /\ runOf[j] = r
                   THEN "FAILED" ELSE runs[r]]

\* select_eligible_job on the recovered tables: heavy admits jobs with a run.
\* created_at and id, which only break ties, are left open.
Eligible(heavy) ==
    {j \in Job : /\ StateR[j] = "QUEUED"
                 /\ SchedR[j] <= now
                 /\ heavy \/ runOf[j] = NoRun}
Before(i, j) ==
    \/ priority[i] > priority[j]
    \/ priority[i] = priority[j] /\ SchedR[i] < SchedR[j]
Selected(heavy) ==
    {j \in Eligible(heavy) : \A i \in Eligible(heavy) : ~Before(i, j)}

NewLease(w, j) == [owner |-> w, gen |-> gen[j] + 1, expires |-> now + LeaseDuration]

\* acquire_next_with_storage_admission that finds a job: recovery, selection
\* and lease_queued_job in one transaction.
Acquire(w, heavy, j) ==
    /\ RecoveryCommits
    /\ j \in Selected(heavy)
    /\ attempt[j] < budget[j]
    /\ state' = [StateR EXCEPT ![j] = "RUNNING"]
    /\ lease' = [LeaseR EXCEPT ![j] = NewLease(w, j)]
    /\ gen' = [gen EXCEPT ![j] = @ + 1]
    /\ attempt' = [attempt EXCEPT ![j] = @ + 1]
    /\ history' =
         [HistoryR EXCEPT ![j] =
            Append(@, [outcome |-> "RUNNING", gen |-> gen[j] + 1, owner |-> w])]
    /\ sched' = SchedR
    /\ stream' = StreamR
    /\ runs' = RunsR
    /\ UNCHANGED <<now, linkVars, priority, checkpoints>>

\* The same transaction when nothing is eligible, and the first transaction of
\* recover_stale_jobs: only the recovery is committed.
RecoverExpired ==
    /\ RecoveryCommits
    /\ state' = StateR
    /\ lease' = LeaseR
    /\ history' = HistoryR
    /\ sched' = SchedR
    /\ stream' = StreamR
    /\ runs' = RunsR
    /\ UNCHANGED <<now, linkVars, priority, attempt, gen, checkpoints>>
-----------------------------------------------------------------------------
\* Submission and queue edits.

Insert(j, k, r, p, m, src, t) ==
    /\ state[j] = "ABSENT"
    /\ state' = [state EXCEPT ![j] = "QUEUED"]
    /\ kind' = [kind EXCEPT ![j] = k]
    /\ runOf' = [runOf EXCEPT ![j] = r]
    /\ parent' = [parent EXCEPT ![j] = src]
    /\ budget' = [budget EXCEPT ![j] = m]
    /\ priority' = [priority EXCEPT ![j] = p]
    /\ sched' = [sched EXCEPT ![j] = t]
    /\ UNCHANGED <<now, attempt, gen, lease, history, checkpoints, stream>>

\* create_quick_scrape_run_with_root_job, create_production_run_with_root_job:
\* the run and its root job are inserted together.
CreateRun(j, r, p, m, t) ==
    /\ runs[r] = "NONE"
    /\ Insert(j, "ROOT", r, p, m, NoJob, t)
    /\ runs' = [runs EXCEPT ![r] = "QUEUED"]

\* enqueue, as its callers use it: a root job without a run.  The statement itself
\* would store any parent and run that NewJob carries, unchecked.
Enqueue(j, p, m, t) ==
    /\ Insert(j, "ROOT", NoRun, p, m, NoJob, t)
    /\ UNCHANGED runs

\* Mutant of LineageAllows: only an equivalent action is looked for.
OnlyEquivalentChecked(src, k) ==
    /\ state[src] \in TerminalJob
    /\ ~ \E c \in Job : parent[c] = src /\ kind[c] = k /\ state[c] \in ActiveJob

\* validate_action_child_lineage.
LineageAllows(src, k) ==
    /\ state[src] \in TerminalJob
    /\ ~ \E c \in Job : parent[c] = src /\ kind[c] = k /\ state[c] \in ActiveJob
    /\ k \in ContinuationKind =>
         ~ \E c \in Job : /\ parent[c] = src
                          /\ kind[c] \in ContinuationKind
                          /\ state[c] \in ActiveJob

\* Mutant of EnqueueSameRun: the run of the source stays as it ended.
RunStaysEnded(src, j, k, m) ==
    /\ LineageAllows(src, k)
    /\ runOf[src] # NoRun
    /\ runs[runOf[src]] \in TerminalRun \cup {"QUEUED"}
    /\ Insert(j, k, runOf[src], priority[src], m, src, now)
    /\ UNCHANGED runs

\* enqueue_action_child, by run association: SameSourceRun requeues the run of
\* the source, NewIndependentRun inserts one, None has neither.
EnqueueSameRun(src, j, k, m) ==
    /\ LineageAllows(src, k)
    /\ runOf[src] # NoRun
    /\ runs[runOf[src]] \in TerminalRun \cup {"QUEUED"}
    /\ Insert(j, k, runOf[src], priority[src], m, src, now)
    /\ runs' = [runs EXCEPT ![runOf[src]] = "QUEUED"]
EnqueueNewRun(src, j, k, m, r) ==
    /\ LineageAllows(src, k)
    /\ runs[r] = "NONE"
    /\ Insert(j, k, r, priority[src], m, src, now)
    /\ runs' = [runs EXCEPT ![r] = "QUEUED"]
EnqueueNoRun(src, j, k, m) ==
    /\ LineageAllows(src, k)
    /\ Insert(j, k, NoRun, priority[src], m, src, now)
    /\ UNCHANGED runs

\* cancel_related_run on the run of j.
CancelledRuns(j) ==
    [r \in Run |-> IF r = runOf[j] /\ runs[r] \in {"QUEUED", "RUNNING"}
                   THEN "CANCELLED" ELSE runs[r]]

CancelQueued(j) ==
    /\ state[j] = "QUEUED"
    /\ state' = [state EXCEPT ![j] = "CANCELLED"]
    /\ runs' = CancelledRuns(j)
    /\ UNCHANGED <<now, linkVars, priority, sched, attempt, gen, lease, history,
                   checkpoints, stream>>

Reprioritize(j, p, t) ==
    /\ state[j] = "QUEUED"
    /\ priority' = [priority EXCEPT ![j] = p]
    /\ sched' = [sched EXCEPT ![j] = t]
    /\ UNCHANGED <<now, linkVars, state, attempt, gen, lease, history,
                   checkpoints, stream, runs>>

\* Only a row that nothing else refers to may be deleted.
RemoveIfSafe(j) ==
    /\ state[j] = "QUEUED" /\ attempt[j] = 0
    /\ runOf[j] = NoRun /\ parent[j] = NoJob
    /\ history[j] = <<>> /\ checkpoints[j] = <<>> /\ stream[j] = "OPEN"
    /\ \A c \in Job : parent[c] # j
    /\ state' = [state EXCEPT ![j] = "ABSENT"]
    /\ UNCHANGED <<now, linkVars, priority, sched, attempt, gen, lease, history,
                   checkpoints, stream, runs>>
-----------------------------------------------------------------------------
\* Transactions of a lease holder.

Renewed(l) == [owner |-> l.owner, gen |-> l.gen, expires |-> now + LeaseDuration]
Heartbeat(j, l) ==
    /\ Owned(j, l)
    /\ lease' = [lease EXCEPT ![j] = Renewed(l)]
    /\ UNCHANGED <<now, linkVars, state, priority, sched, attempt, gen, history,
                   checkpoints, stream, runs>>

\* append_checkpoint for attempt n of the caller.  ensure_owned_attempt compares
\* the lease but not its expiry time, so a renewal does not invalidate the copy
\* a handler holds.
AppendCheckpoint(j, l, n) ==
    /\ state[j] = "RUNNING"
    /\ lease[j].owner = l.owner /\ lease[j].gen = l.gen
    /\ lease[j].expires > now
    /\ ActiveAttempt(j, l, n)
    /\ Len(checkpoints[j]) < MaxCheckpoints
    /\ checkpoints' = [checkpoints EXCEPT ![j] = Append(@, n)]
    /\ UNCHANGED <<now, queueVars, linkVars, history, stream, runs>>

Succeed(j, l) ==
    /\ Owned(j, l)
    /\ Close(j, l, "SUCCEEDED", "SUCCEEDED")
    /\ UNCHANGED <<sched, stream, runs>>

\* fail_with_disposition; the run is left alone.
Fail(j, l, terminal, retryAt) ==
    LET retry == ~terminal /\ attempt[j] < budget[j]
    IN  /\ Owned(j, l)
        /\ Close(j, l, IF retry THEN "QUEUED" ELSE "FAILED", "FAILED")
        /\ sched' = [sched EXCEPT ![j] = IF retry THEN retryAt ELSE @]
        /\ UNCHANGED <<stream, runs>>

\* finalize_crawl_failure_in_transaction.
FinalizeCrawlFailure(j) ==
    /\ runs[runOf[j]] \in {"QUEUED", "RUNNING", "FAILED"}
    /\ stream[j] = "OPEN"
    /\ runs' = [runs EXCEPT ![runOf[j]] = "FAILED"]
    /\ stream' = [stream EXCEPT ![j] = "FAILED"]

FailProduction(j, l) ==
    /\ Owned(j, l)
    /\ runOf[j] \in ProductionRun
    /\ Close(j, l, "FAILED", "FAILED")
    /\ FinalizeCrawlFailure(j)
    /\ UNCHANGED sched

\* cancel: a run that already ended decides; otherwise job and run are cancelled.
Cancel(j, l) ==
    LET s == IF RunTerminal(j) THEN runs[runOf[j]] ELSE "CANCELLED"
    IN  /\ Owned(j, l)
        /\ Close(j, l, ReconciledState(s), ReconciledOutcome(s))
        /\ runs' = CancelledRuns(j)
        /\ UNCHANGED <<sched, stream>>

\* requeue_after_storage_pressure; the terminal event that follows a
\* reconciliation is a transaction of its own (AppendTerminal).
HasCheckpointForAttempt(j) == \E n \in DOMAIN checkpoints[j] : checkpoints[j][n] = attempt[j]
PressureDecision(j) ==
    IF RunTerminal(j) THEN ReconciledState(runs[runOf[j]])
    ELSE IF HasCheckpointForAttempt(j) /\ attempt[j] < budget[j] THEN "QUEUED"
    ELSE "FAILED"
RequeueAfterPressure(j, l) ==
    LET st == PressureDecision(j)
        o  == IF RunTerminal(j) THEN ReconciledOutcome(runs[runOf[j]]) ELSE "FAILED"
    IN  /\ Owned(j, l)
        /\ Close(j, l, st, o)
        /\ sched' = [sched EXCEPT ![j] = IF RunTerminal(j) THEN @ ELSE now]
        /\ IF st = "FAILED" /\ runOf[j] # NoRun /\ ~RunTerminal(j)
           THEN FinalizeCrawlFailure(j)
           ELSE UNCHANGED <<stream, runs>>
-----------------------------------------------------------------------------
\* Reconciliation with terminal runs.

\* reconcile_terminal_job_in_transaction accepts j: it is still RUNNING, or it
\* already has the state its run stands for.
Reconcilable(j) ==
    state[j] = "RUNNING" \/ state[j] = ReconciledState(runs[runOf[j]])

\* reconcile_terminal_crawl_run, after a handler has finalized its run.  The
\* lease is compared, its expiry is not.
ReconcileRun(j, l) ==
    /\ RunTerminal(j)
    /\ Reconcilable(j)
    /\ IF state[j] = "RUNNING"
       THEN /\ lease[j] = l
            /\ Close(j, l, ReconciledState(runs[runOf[j]]),
                           ReconciledOutcome(runs[runOf[j]]))
            /\ UNCHANGED <<sched, stream, runs>>
       ELSE UNCHANGED storeVars

\* reconcile_terminal_crawl_runs: every job of every terminal run, or none.
Settled == {j \in Job : state[j] # "ABSENT" /\ RunTerminal(j)}
ReconcileAll ==
    LET closing == {j \in Settled : state[j] = "RUNNING"}
    IN  /\ \A j \in Settled : Reconcilable(j)
        /\ state' = [j \in Job |-> IF j \in closing THEN ReconciledState(runs[runOf[j]])
                                   ELSE state[j]]
        /\ lease' = [j \in Job |-> IF j \in closing THEN NoLease ELSE lease[j]]
        /\ history' =
             [j \in Job |-> IF j \in closing
                            THEN ClosedHistory(j, lease[j], ReconciledOutcome(runs[runOf[j]]))
                            ELSE history[j]]
        /\ UNCHANGED <<now, linkVars, priority, sched, attempt, gen, checkpoints,
                       stream, runs>>

\* append_terminal_progress_if_missing, and a handler's own terminal event: the
\* stream takes one terminal event and then no other.
AppendTerminal(j, t) ==
    /\ state[j] # "ABSENT"
    /\ stream[j] = "OPEN"
    /\ stream' = [stream EXCEPT ![j] = t]
    /\ UNCHANGED <<now, queueVars, linkVars, history, checkpoints, runs>>
-----------------------------------------------------------------------------
\* Run transitions committed by handlers; none of them checks a lease.

\* transition_execution_status(RUNNING), transition_recovery_status and
\* transition_restart_status differ in the statuses they start from.
StartRun(r, from) ==
    /\ runs[r] \in from
    /\ runs' = [runs EXCEPT ![r] = "RUNNING"]
    /\ UNCHANGED <<now, queueVars, linkVars, history, checkpoints, stream>>
ExecutionFrom == {"QUEUED", "RUNNING"}
RecoveryFrom  == ExecutionFrom \cup {"FAILED", "CANCELLED", "PARTIAL_RESULT"}
RestartFrom   == RecoveryFrom \cup {"SUCCEEDED"}

\* CrawlExecutionRepository finalize.
FinalizeRun(r, s) ==
    /\ runs[r] \in {"QUEUED", "RUNNING", s}
    /\ runs' = [runs EXCEPT ![r] = s]
    /\ UNCHANGED <<now, queueVars, linkVars, history, checkpoints, stream>>

Tick ==
    /\ now < MaxTime
    /\ now' = now + 1
    /\ UNCHANGED <<queueVars, linkVars, history, checkpoints, stream, runs>>
-----------------------------------------------------------------------------
\* The leases a caller can present: any owner, generation and expiry that
\* could have been issued.  Horizon bounds the times a lease or a retry names.
Horizon  == MaxTime + LeaseDuration
AnyLease == [owner : Worker, gen : 0..MaxGen, expires : 0..Horizon]

HolderStep(j, l) ==
    \/ Heartbeat(j, l)
    \/ \E n \in DOMAIN history[j] : AppendCheckpoint(j, l, n)
    \/ Succeed(j, l)
    \/ \E terminal \in BOOLEAN, t \in now..Horizon : Fail(j, l, terminal, t)
    \/ FailProduction(j, l)
    \/ Cancel(j, l)
    \/ RequeueAfterPressure(j, l)
    \/ ReconcileRun(j, l)

QueueStep(j) ==
    \/ CancelQueued(j)
    \/ RemoveIfSafe(j)
    \/ \E p \in Priority, t \in 0..MaxTime : Reprioritize(j, p, t)
    \/ \E p \in Priority, m \in Budget, t \in 0..MaxTime :
          Enqueue(j, p, m, t) \/ \E r \in Run : CreateRun(j, r, p, m, t)
    \/ \E src \in Job, k \in Requested, m \in Budget :
          \/ EnqueueSameRun(src, j, k, m)
          \/ EnqueueNoRun(src, j, k, m)
          \/ \E r \in Run : EnqueueNewRun(src, j, k, m, r)
    \/ \E t \in TerminalJob : AppendTerminal(j, t)

RunStep(r) ==
    \/ \E from \in {ExecutionFrom, RecoveryFrom, RestartFrom} : StartRun(r, from)
    \/ \E s \in TerminalRun : FinalizeRun(r, s)

StoreNext ==
    \/ Tick
    \/ \E w \in Worker, heavy \in BOOLEAN, j \in Job : Acquire(w, heavy, j)
    \/ RecoverExpired
    \/ ReconcileAll
    \/ \E j \in Job : QueueStep(j)
    \/ \E j \in Job, l \in AnyLease : HolderStep(j, l)
    \/ \E r \in Run : RunStep(r)

StoreSpec == StoreInit /\ [][StoreNext]_storeVars
-----------------------------------------------------------------------------
\* Properties.

\* A finished attempt is evidence: no later transaction of any caller changes
\* or drops its row of job_attempts (job.rs: "The attempt becomes immutable in
\* the same transaction").
AttemptHistoryImmutable ==
    [][\A j \in Job :
          /\ Len(history'[j]) >= Len(history[j])
          /\ \A n \in DOMAIN history[j] :
                history[j][n].outcome # "RUNNING" => history'[j][n] = history[j][n]
      ]_storeVars

\* Authority over a job is never regained: a lease appears only with a
\* generation above that of every attempt so far, and is extended only for the
\* holder it has, before it expires (the lease_generation doc of job.rs: "stale
\* owners never retain authority through an ABA-style re-lease").
AuthorityNeverRegained ==
    [][\A j \in Job :
          lease'[j] \notin {NoLease, lease[j]} =>
             \/ \A n \in DOMAIN history[j] : history[j][n].gen < lease'[j].gen
             \/ /\ lease[j] # NoLease
                /\ lease[j].expires > now
                /\ lease'[j].owner = lease[j].owner
                /\ lease'[j].gen = lease[j].gen
      ]_storeVars

\* The checkpoints of a job follow its attempts: each belongs to an attempt
\* that was really made, in the order of the attempts, so the last one decides
\* whether an expired attempt can be resumed (assess_one_stale_job).
CheckpointsFollowAttempts ==
    \A j \in Job :
        /\ \A n \in DOMAIN checkpoints[j] : checkpoints[j][n] \in DOMAIN history[j]
        /\ \A m, n \in DOMAIN checkpoints[j] :
              m < n => checkpoints[j][m] <= checkpoints[j][n]

\* A terminal source job has at most one continuation that is still waiting or
\* running, whatever mix of retry, resume and restart was asked for
\* (validate_action_child_lineage).
OneActiveContinuation ==
    \A src \in Job :
        \A c, d \in {k \in Job : /\ parent[k] = src
                                 /\ kind[k] \in ContinuationKind
                                 /\ state[k] \in ActiveJob} : c = d

\* The histories of a job agree with its present: its checkpoints belong to the
\* attempts that were made, in their order, and at most one continuation of a
\* finished job is waiting or running, whatever mix of retry, resume and restart
\* was asked for (assess_one_stale_job, validate_action_child_lineage).
LineageConsistent == CheckpointsFollowAttempts /\ OneActiveContinuation

Lifecycle == INSTANCE JobLifecycle WITH
    phase <- state,
    tries <- attempt,
    grant <- [j \in Job |-> IF lease[j] = NoLease THEN 0 ELSE lease[j].gen]

\* Every transaction moves each job along the lifecycle of JobLifecycle: one
\* holder at a time, a fresh generation per grant, grants within the budget,
\* terminal states final.
ImplementsLifecycle == Lifecycle!Spec
=============================================================================

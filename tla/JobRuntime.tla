----------------------------- MODULE JobRuntime -----------------------------
(***************************************************************************)
(* The process around the job store: startup recovery, the one worker      *)
(* ("crawl-root-worker") with its lease heartbeat, the crawl handlers it   *)
(* runs, the in-memory CancellationController and StoragePressure          *)
(* controller, and the job actions of the API.                             *)
(*                                                                         *)
(* Every database call of the code is one transaction of JobStore, and     *)
(* everything between two calls (an await) may be interleaved with the     *)
(* other tasks.  A crash, or the end of a shutdown, loses the variables    *)
(* declared here and keeps those of JobStore.                              *)
(***************************************************************************)
EXTENDS JobStore

CONSTANTS
    RetryDelay,   \* WorkerPolicy.retry_delay_seconds
    Level,        \* the storage pressure levels the probe may observe
    Schedule      \* the times an API caller moves queued jobs to

\* What the constants may be.
RuntimeConstants ==
    /\ RetryDelay \in 0..LeaseDuration
    /\ Level \subseteq {"OK", "CRITICAL", "UNAVAILABLE"}
    /\ "OK" \in Level
    /\ Schedule \subseteq Nat

\* What the bounds may be for the store's bounds to cover the runtime: leases
\* of every attempt, the schedule, and the rest of a budget that a retry of a
\* Quick Scrape passes on.
RuntimeBounds ==
    /\ Budget \subseteq 1..MaxGen
    /\ Schedule \subseteq 0..MaxTime
    /\ Requested \cap {"RETRY", "RETRY_FAILED_PARTS"} # {} /\ ProductionRun # Run =>
          \A m \in Budget : 1..m \subseteq Budget

VARIABLES
    mode,        \* where the process is: see Mode
    turn,        \* the worker's current turn: see Turn
    requested,   \* ControllerState.requested: jobs whose cancellation was asked for
    cancelling,  \* API calls between request() and cancel_queued()
    shutdown,    \* ControllerState.shutdown_requested
    pressure,    \* the last published storage observation
    repairs,     \* startup: jobs whose terminal event is still to be repaired
    invalid      \* startup: StaleJobRecovery.invalid_checkpoints > 0

memVars == <<mode, turn, requested, cancelling, shutdown, pressure, repairs, invalid>>
vars    == <<storeVars, memVars>>

Mode  == {"DOWN", "RECOVERING", "RECONCILING", "REPAIRING", "SERVING", "RECOVERY_MODE"}
Stage == {"idle", "admitted", "acquired", "running", "working", "saved",
          "finalized", "returned", "decided", "repairing", "ending", "dead"}
Plan  == {"none", "reconcile", "cancel", "requeue", "fail",
          "retire", "keep", "fatal"}

\* One call of execute_next_at.  heavy is the admission it acquired under, lost
\* that a heartbeat failed, commit the status its handler finalized the run
\* with, told that the handler's own terminal event is durable, and plan what
\* the runtime has decided to do next.
Turn == [stage : Stage, heavy : BOOLEAN, job : Job \cup {NoJob},
         lease : Lease \cup {NoLease}, cancelled : BOOLEAN, pressured : BOOLEAN,
         lost : BOOLEAN, commit : TerminalRun \cup {"NONE"}, told : BOOLEAN,
         plan : Plan]
NoTurn == [stage |-> "idle", heavy |-> FALSE, job |-> NoJob, lease |-> NoLease,
           cancelled |-> FALSE, pressured |-> FALSE, lost |-> FALSE,
           commit |-> "NONE", told |-> FALSE, plan |-> "none"]

RuntimeInit ==
    /\ StoreInit
    /\ mode = "DOWN" /\ turn = NoTurn
    /\ requested = {} /\ cancelling = {} /\ repairs = {}
    /\ shutdown = FALSE /\ invalid = FALSE /\ pressure = "UNAVAILABLE"

\* The handler's future is being polled; its tokens are registered from then
\* until the turn releases them.
InHandler  == turn.stage \in {"running", "working", "saved", "finalized"}
Registered == turn.stage \notin {"idle", "admitted", "acquired", "dead"}
Heavy(j)   == runOf[j] # NoRun
-----------------------------------------------------------------------------
\* Startup: run_plan_four_startup_hooks, one transaction at a time.

Boot ==
    /\ mode = "DOWN"
    /\ mode' = "RECOVERING"
    /\ UNCHANGED <<storeVars, turn, requested, cancelling, shutdown, pressure,
                   repairs, invalid>>

\* The first transaction of recover_stale_jobs.
CheckpointViolations ==
    {j \in Expired : ~RunTerminal(j) /\ ~SiblingFailedBefore(j) /\ CheckpointInvalid(j)}
StartupRecover ==
    /\ mode = "RECOVERING"
    /\ IF RecoveryCommits
       THEN /\ RecoverExpired
            /\ mode' = "RECONCILING"
            /\ invalid' = (CheckpointViolations # {})
       ELSE UNCHANGED storeVars /\ mode' = "RECOVERY_MODE" /\ UNCHANGED invalid
    /\ UNCHANGED <<turn, requested, cancelling, shutdown, pressure, repairs>>

StartupReconcile ==
    /\ mode = "RECONCILING"
    /\ IF \A j \in Settled : Reconcilable(j)
       THEN ReconcileAll /\ mode' = "REPAIRING" /\ repairs' = Settled
       ELSE UNCHANGED <<storeVars, repairs>> /\ mode' = "RECOVERY_MODE"
    /\ UNCHANGED <<turn, requested, cancelling, shutdown, pressure, invalid>>

\* append_terminal_progress_if_missing: an event that is there already must be
\* the same one.
RepairStream(j, t) ==
    IF stream[j] = "OPEN" THEN AppendTerminal(j, t) ELSE UNCHANGED storeVars
StartupRepair(j) ==
    /\ mode = "REPAIRING"
    /\ j \in repairs
    /\ repairs' = repairs \ {j}
    /\ RepairStream(j, state[j])
    /\ mode' = IF stream[j] \in {"OPEN", state[j]} THEN mode ELSE "RECOVERY_MODE"
    /\ UNCHANGED <<turn, requested, cancelling, shutdown, pressure, invalid>>

\* rebuild_concurrency_state only reads; then the outcome is decided.
StartupServe ==
    /\ mode = "REPAIRING" /\ repairs = {}
    /\ mode' = IF invalid \/ ~QueueConsistent THEN "RECOVERY_MODE" ELSE "SERVING"
    /\ UNCHANGED <<storeVars, turn, requested, cancelling, shutdown, pressure,
                   repairs, invalid>>

\* The process disappears: a crash, or the 3 s deadline of a shutdown.
Crash ==
    /\ mode # "DOWN"
    /\ mode' = "DOWN" /\ turn' = NoTurn
    /\ requested' = {} /\ cancelling' = {} /\ repairs' = {}
    /\ shutdown' = FALSE /\ invalid' = FALSE /\ pressure' = "UNAVAILABLE"
    /\ UNCHANGED storeVars

\* CancellationController::cancel_all.
Shutdown ==
    /\ mode = "SERVING" /\ ~shutdown
    /\ shutdown' = TRUE
    /\ turn' = [turn EXCEPT !.cancelled = @ \/ Registered]
    /\ UNCHANGED <<storeVars, mode, requested, cancelling, pressure, repairs, invalid>>

\* StoragePressureMonitor::refresh: the observation is published, and a
\* critical one signals the active heavy turn.
Observe(level) ==
    /\ pressure' = level
    /\ turn' = [turn EXCEPT !.pressured =
                   @ \/ (level = "CRITICAL" /\ Registered /\ Heavy(turn.job))]
RefreshPressure(level) ==
    /\ mode = "SERVING"
    /\ Observe(level)
    /\ UNCHANGED <<storeVars, mode, requested, cancelling, shutdown, repairs, invalid>>
-----------------------------------------------------------------------------
\* execute_next_at, from the poll to the registered tokens.

OtherMem == <<mode, cancelling, shutdown, repairs, invalid>>

Poll(level) ==
    /\ mode = "SERVING" /\ turn.stage = "idle" /\ ~shutdown
    /\ pressure' = level
    /\ turn' = [turn EXCEPT !.stage = "admitted", !.heavy = (level = "OK")]
    /\ UNCHANGED <<storeVars, OtherMem, requested>>

TakeJob(w, j) ==
    /\ turn.stage = "admitted"
    /\ Acquire(w, turn.heavy, j)
    /\ turn' = [turn EXCEPT !.stage = "acquired", !.job = j, !.lease = NewLease(w, j)]
    /\ UNCHANGED <<OtherMem, requested, pressure>>

\* Mutant of TakeNothing: an empty poll does not commit the recovery.
EmptyPollRecoversNothing ==
    /\ turn.stage = "admitted"
    /\ Selected(turn.heavy) = {}
    /\ turn' = NoTurn
    /\ UNCHANGED <<storeVars, OtherMem, requested, pressure>>

\* Nothing to take, or a queue error, which is fatal to the worker.
TakeNothing ==
    /\ turn.stage = "admitted"
    /\ Selected(turn.heavy) = {} \/ ~RecoveryCommits
    /\ IF RecoveryCommits
       THEN RecoverExpired /\ turn' = NoTurn
       ELSE UNCHANGED storeVars /\ turn' = [turn EXCEPT !.stage = "dead"]
    /\ UNCHANGED <<OtherMem, requested, pressure>>

\* Mutant of Register: the token does not look at earlier requests.
RegisterForgetsRequests ==
    /\ turn.stage = "acquired"
    /\ turn' = [turn EXCEPT !.stage = "running",
                            !.cancelled = shutdown,
                            !.pressured = Heavy(turn.job) /\ pressure = "CRITICAL"]
    /\ UNCHANGED <<storeVars, OtherMem, requested, pressure>>

\* CancellationController::register and StoragePressureController::register.
Register ==
    /\ turn.stage = "acquired"
    /\ turn' = [turn EXCEPT !.stage = "running",
                            !.cancelled = shutdown \/ turn.job \in requested,
                            !.pressured = Heavy(turn.job) /\ pressure = "CRITICAL"]
    /\ UNCHANGED <<storeVars, OtherMem, requested, pressure>>
-----------------------------------------------------------------------------
\* The heartbeat branch of execute_acquired, while the handler is polled.

HeartbeatOk(level) ==
    /\ InHandler /\ ~turn.lost
    /\ Heartbeat(turn.job, turn.lease)
    /\ pressure' = level
    /\ turn' = [turn EXCEPT !.lease = Renewed(@),
                            !.pressured = @ \/ (level = "CRITICAL" /\ Heavy(turn.job))]
    /\ UNCHANGED <<OtherMem, requested>>

\* The lease expired or is someone else's: the token is cancelled and the turn
\* waits for its handler.  (The code does the same for a failing database.)
HeartbeatLost ==
    /\ InHandler /\ ~turn.lost
    /\ ~Owned(turn.job, turn.lease)
    /\ turn' = [turn EXCEPT !.lost = TRUE, !.cancelled = TRUE]
    /\ UNCHANGED <<storeVars, OtherMem, requested, pressure>>
-----------------------------------------------------------------------------
\* The Quick Scrape and Production handlers, by what they commit.

\* latest_checkpoint_for_lineage finds a checkpoint of the job or an ancestor.
LineageCheckpointed[j \in Job] ==
    checkpoints[j] # <<>> \/ (parent[j] # NoJob /\ LineageCheckpointed[parent[j]])

Production(j) == runOf[j] \in ProductionRun
NeedsCheckpoint(j) == kind[j] \in {"RETRY", "RETRY_FAILED_PARTS", "RESUME_CHECKPOINT"}
\* A recovery action of a Quick Scrape persists a marker before it starts.
Marks(j) ==
    /\ ~Production(j)
    /\ kind[j] \in {"RETRY", "RETRY_FAILED_PARTS", "RESTART_FROM_BEGINNING"}
Marked(j) == Marks(j) => HasCheckpointForAttempt(j)
\* A Production rerun never reads a checkpoint, and fails closed when its run
\* has discovery already, which a checkpoint of its own implies.
MayStart(j) ==
    /\ Marked(j)
    /\ NeedsCheckpoint(j) => LineageCheckpointed[j]
    /\ Production(j) /\ kind[j] = "RERUN_FULL_CRAWL" => checkpoints[j] = <<>>

\* The statuses the run is moved to RUNNING from.
StartFrom(j) ==
    IF kind[j] \in {"RETRY", "RETRY_FAILED_PARTS"}
       \/ (kind[j] = "RESUME_CHECKPOINT" /\ Production(j)) THEN RecoveryFrom
    ELSE IF kind[j] = "RESTART_FROM_BEGINNING" THEN RestartFrom ELSE ExecutionFrom

HandlerMark ==
    /\ turn.stage = "running" /\ ~Marked(turn.job)
    /\ NeedsCheckpoint(turn.job) => LineageCheckpointed[turn.job]
    /\ AppendCheckpoint(turn.job, turn.lease, turn.lease.gen)
    /\ UNCHANGED memVars

\* The run is started; a handler whose STARTED event is refused fails.
HandlerStart ==
    /\ turn.stage = "running" /\ MayStart(turn.job)
    /\ StartRun(runOf[turn.job], StartFrom(turn.job))
    /\ turn' = [turn EXCEPT !.stage =
                   IF stream[turn.job] = "OPEN" THEN "working" ELSE "returned"]
    /\ UNCHANGED <<OtherMem, requested, pressure>>

\* Mutant of HandlerCheckpoint: the handler writes without a look at its lease.
CheckpointAfterExpiry(last) ==
    /\ turn.stage = "working"
    /\ Len(checkpoints[turn.job]) < MaxCheckpoints
    /\ checkpoints' = [checkpoints EXCEPT ![turn.job] = Append(@, turn.lease.gen)]
    /\ turn' = [turn EXCEPT !.stage = IF last THEN "saved" ELSE "working"]
    /\ UNCHANGED <<now, queueVars, linkVars, history, stream, runs, OtherMem, requested, pressure>>

\* A checkpoint between two pieces of work, or the last one before the run is
\* finalized or the work is put off.
HandlerCheckpoint(last) ==
    /\ turn.stage = "working"
    /\ AppendCheckpoint(turn.job, turn.lease, turn.lease.gen)
    /\ turn' = [turn EXCEPT !.stage = IF last THEN "saved" ELSE "working"]
    /\ UNCHANGED <<OtherMem, requested, pressure>>

\* Quick Scrape reaches its boundaries without a checkpoint of this attempt
\* when it started from an older one.
AtBoundary ==
    \/ turn.stage = "saved"
    \/ /\ turn.stage = "working" /\ ~Production(turn.job)
       /\ \/ kind[turn.job] \notin {"RERUN_FULL_CRAWL", "RESTART_FROM_BEGINNING"}
          \/ checkpoints[turn.job] # <<>>
       /\ LineageCheckpointed[turn.job]
\* The handler finds the work complete from an earlier attempt.
FinishedEarlier(j) ==
    IF Production(j) THEN kind[j] = "RERUN_FULL_CRAWL" /\ checkpoints[j] # <<>>
    ELSE kind[j] # "RESTART_FROM_BEGINNING" /\ LineageCheckpointed[j] /\ Marked(j)

\* finish_recovered_execution, finalize_durable_evidence: the run ends, and the
\* commit is marked, without a look at the lease.
HandlerFinalize(s) ==
    /\ \/ s = "CANCELLED" /\ turn.cancelled /\ AtBoundary
       \/ s # "CANCELLED" /\ turn.stage = "saved"
       \/ /\ s \in {"SUCCEEDED", "PARTIAL_RESULT"}
          /\ turn.stage = "running" /\ FinishedEarlier(turn.job)
    /\ FinalizeRun(runOf[turn.job], s)
    /\ turn' = [turn EXCEPT !.stage = "finalized", !.commit = s]
    /\ UNCHANGED <<OtherMem, requested, pressure>>

\* Mutant of HandlerTerminal: the event says what the token says instead of what
\* was committed.
TerminalEventOfToken ==
    /\ turn.stage = "finalized" /\ ~turn.told
    /\ AppendTerminal(turn.job, IF turn.cancelled THEN "CANCELLED"
                                ELSE ReconciledState(turn.commit))
    /\ turn' = [turn EXCEPT !.told = TRUE]
    /\ UNCHANGED <<OtherMem, requested, pressure>>

\* The handler's own terminal event; it may also fail and be repaired later.
HandlerTerminal ==
    /\ turn.stage = "finalized" /\ ~turn.told
    /\ AppendTerminal(turn.job, ReconciledState(turn.commit))
    /\ turn' = [turn EXCEPT !.told = TRUE]
    /\ UNCHANGED <<OtherMem, requested, pressure>>

\* The handler returns or panics.  Its result decides nothing else than
\* "fail": without a commit, a cancellation or a storage signal the handlers
\* only return errors.  A turn that lost its lease ends here.
HandlerReturn ==
    /\ InHandler
    /\ turn' = [turn EXCEPT !.stage = IF turn.lost THEN "ending" ELSE "returned",
                            !.plan = IF turn.lost THEN "keep" ELSE @]
    /\ UNCHANGED <<storeVars, OtherMem, requested, pressure>>
-----------------------------------------------------------------------------
\* execute_acquired after the handler, reconcile_terminal_commit, record_failure.

Decide ==
    /\ turn.stage = "returned"
    /\ turn' = [turn EXCEPT !.stage = "decided",
                            !.plan = IF turn.commit # "NONE" THEN "reconcile"
                                     ELSE IF turn.cancelled THEN "cancel"
                                     ELSE IF turn.pressured THEN "requeue" ELSE "fail"]
    /\ UNCHANGED <<storeVars, OtherMem, requested, pressure>>

Ending(p) == [turn EXCEPT !.stage = "ending", !.plan = p]

\* The transaction of a plan: tx when the store accepts it, else an error that
\* ends the turn and, unless the lease was lost, the worker.
Settle(p, lost, accepts, tx, next) ==
    /\ turn.stage = "decided" /\ turn.plan = p
    /\ IF ~lost /\ accepts THEN tx /\ turn' = next
       ELSE /\ UNCHANGED storeVars
            /\ turn' = Ending(IF lost THEN "keep" ELSE "fatal")
    /\ UNCHANGED <<OtherMem, requested, pressure>>
Repairing(p) == [turn EXCEPT !.stage = "repairing", !.plan = p]

LeaseLost == ~Owned(turn.job, turn.lease)

SettleReconcile ==
    Settle("reconcile",
           state[turn.job] = "RUNNING" /\ lease[turn.job] # turn.lease,
           RunTerminal(turn.job) /\ Reconcilable(turn.job),
           ReconcileRun(turn.job, turn.lease),
           IF turn.told THEN Ending("retire") ELSE Repairing("retire"))
SettleCancel ==
    Settle("cancel", LeaseLost, TRUE, Cancel(turn.job, turn.lease), Ending("retire"))
SettleRequeue ==
    Settle("requeue", LeaseLost,
           PressureDecision(turn.job) = "FAILED" /\ ~RunTerminal(turn.job)
              => stream[turn.job] = "OPEN",
           RequeueAfterPressure(turn.job, turn.lease),
           IF RunTerminal(turn.job) THEN Repairing("keep") ELSE Ending("keep"))

\* record_failure; a Production run fails with its job, a Quick Scrape job is
\* retried while its budget lasts.  (Neither handler asks for fail_terminal
\* without a commit, and neither succeeds without one.)
SettleProductionFailure ==
    /\ turn.stage = "decided" /\ Production(turn.job)
    /\ Settle("fail", LeaseLost,
              /\ runs[runOf[turn.job]] \in {"QUEUED", "RUNNING", "FAILED"}
              /\ stream[turn.job] = "OPEN",
              FailProduction(turn.job, turn.lease), Ending("retire"))
SettleQuickFailure ==
    /\ turn.stage = "decided" /\ ~Production(turn.job)
    /\ Settle("fail", LeaseLost, TRUE,
              Fail(turn.job, turn.lease, FALSE, now + RetryDelay),
              Ending(IF attempt[turn.job] < budget[turn.job] THEN "keep" ELSE "retire"))

\* append_terminal_progress_if_missing after a reconciliation; a contradiction
\* is fatal.
RepairTurn ==
    /\ turn.stage = "repairing"
    /\ RepairStream(turn.job, state[turn.job])
    /\ turn' = Ending(IF stream[turn.job] \in {"OPEN", state[turn.job]}
                      THEN turn.plan ELSE "fatal")
    /\ UNCHANGED <<OtherMem, requested, pressure>>

\* Mutant of Release: the request is retired with every turn.
EveryTurnRetires ==
    /\ turn.stage = "ending"
    /\ requested' = requested \ {turn.job}
    /\ turn' = IF turn.plan = "fatal" THEN [NoTurn EXCEPT !.stage = "dead"] ELSE NoTurn
    /\ UNCHANGED <<storeVars, OtherMem, pressure>>

\* CancellationController::release, StoragePressureController::release, and the
\* worker loop's reading of the result.
Release ==
    /\ turn.stage = "ending"
    /\ requested' = IF turn.plan = "retire" THEN requested \ {turn.job} ELSE requested
    /\ turn' = IF turn.plan = "fatal" THEN [NoTurn EXCEPT !.stage = "dead"] ELSE NoTurn
    /\ UNCHANGED <<storeVars, OtherMem, pressure>>
-----------------------------------------------------------------------------
\* The API.

Open == mode = "SERVING" /\ ~shutdown

Submit(j, r, p, m) ==
    /\ Open
    /\ CreateRun(j, r, p, m, now)
    /\ UNCHANGED memVars

\* request_job_cancellation: the request is recorded and signalled, and then,
\* in a later step, the queued job is cancelled in the store.
RequestCancel(j) ==
    /\ Open
    /\ state[j] # "ABSENT"
    /\ requested' = requested \cup {j}
    /\ cancelling' = cancelling \cup {j}
    /\ turn' = [turn EXCEPT !.cancelled = @ \/ (Registered /\ turn.job = j)]
    /\ UNCHANGED <<storeVars, mode, shutdown, pressure, repairs, invalid>>

FinishCancel(j) ==
    /\ j \in cancelling
    /\ cancelling' = cancelling \ {j}
    /\ IF state[j] = "QUEUED" THEN CancelQueued(j) ELSE UNCHANGED storeVars
    /\ requested' = IF state[j] = "RUNNING" THEN requested ELSE requested \ {j}
    /\ UNCHANGED <<mode, turn, shutdown, pressure, repairs, invalid>>

\* JobActionService, by action.  Every job the API creates has a run, so the
\* branches for jobs without one (and remove) never apply.
Recoverable(src) == state[src] \in {"FAILED", "CANCELLED"}
RemainingBudget(src) ==
    IF Production(src) THEN budget[src] ELSE budget[src] - attempt[src]
\* retry and retry_failed_parts; failed parts exist only with a checkpoint.
Retry(src, j, k) ==
    /\ Recoverable(src) /\ LineageCheckpointed[src]
    /\ k = "RETRY" => attempt[src] > 0
    /\ RemainingBudget(src) > 0
    /\ EnqueueSameRun(src, j, k, RemainingBudget(src))
Resume(src, j) ==
    /\ Recoverable(src) /\ LineageCheckpointed[src]
    /\ EnqueueSameRun(src, j, "RESUME_CHECKPOINT", budget[src])
RestartFromBeginning(src, j) ==
    /\ ~Production(src)
    /\ Recoverable(src) \/ kind[src] = "ROOT"
    /\ EnqueueSameRun(src, j, "RESTART_FROM_BEGINNING", budget[src])
RerunFullCrawl(src, j, r) ==
    /\ r \in ProductionRun <=> runOf[src] \in ProductionRun
    /\ EnqueueNewRun(src, j, "RERUN_FULL_CRAWL", budget[src], r)
RecoverJob(src, j) ==
    /\ Open
    /\ \/ \E k \in Requested \cap {"RETRY", "RETRY_FAILED_PARTS"} : Retry(src, j, k)
       \/ "RESUME_CHECKPOINT" \in Requested /\ Resume(src, j)
       \/ "RESTART_FROM_BEGINNING" \in Requested /\ RestartFromBeginning(src, j)
       \/ "RERUN_FULL_CRAWL" \in Requested /\ \E r \in Run : RerunFullCrawl(src, j, r)
    /\ UNCHANGED memVars

ChangePriority(j, p, t) ==
    /\ Open
    /\ Reprioritize(j, p, t)
    /\ UNCHANGED memVars

TimePasses == Tick /\ UNCHANGED memVars
-----------------------------------------------------------------------------
StartupStep ==
    \/ Boot \/ StartupRecover \/ StartupReconcile \/ StartupServe
    \/ \E j \in Job : StartupRepair(j)

\* The steps the worker takes by itself once it has polled.
WorkerStep ==
    \/ \E w \in Worker, j \in Job : TakeJob(w, j)
    \/ TakeNothing \/ Register \/ Decide
    \/ SettleReconcile \/ SettleCancel \/ SettleRequeue
    \/ SettleProductionFailure \/ SettleQuickFailure
    \/ RepairTurn \/ Release

HandlerStep ==
    \/ HandlerMark \/ HandlerStart \/ HandlerTerminal
    \/ \E last \in BOOLEAN : HandlerCheckpoint(last)
    \/ \E s \in TerminalRun : HandlerFinalize(s)

ApiStep(j) ==
    \/ \E r \in Run, p \in Priority, m \in Budget : Submit(j, r, p, m)
    \/ RequestCancel(j) \/ FinishCancel(j)
    \/ \E src \in Job : RecoverJob(src, j)
    \/ \E p \in Priority, t \in Schedule : ChangePriority(j, p, t)

RuntimeNext ==
    \/ StartupStep
    \/ \E level \in Level : Poll(level) \/ RefreshPressure(level) \/ HeartbeatOk(level)
    \/ WorkerStep
    \/ HandlerStep
    \/ HandlerReturn \/ HeartbeatLost
    \/ \E j \in Job : ApiStep(j)
    \/ Shutdown \/ Crash \/ TimePasses

RuntimeSpec == RuntimeInit /\ [][RuntimeNext]_vars

\* Tokio keeps polling the worker task (every 100 ms), its heartbeat ticker, the
\* API tasks and the startup code, and time passes.  A handler whose token is
\* cancelled returns: both handlers watch it at every boundary.  One that is not
\* cancelled may run for as long as its crawl takes, and nothing is assumed of
\* the other handler steps, of the users or of the storage.
Fairness ==
    /\ WF_vars(StartupStep)
    /\ WF_vars(\E level \in Level : Poll(level))
    /\ WF_vars(WorkerStep)
    /\ WF_vars(HeartbeatLost)
    /\ WF_vars(turn.cancelled /\ HandlerReturn)
    /\ \A j \in Job : WF_vars(FinishCancel(j))
    /\ WF_vars(TimePasses)
FairSpec == RuntimeSpec /\ Fairness
-----------------------------------------------------------------------------
\* Properties.

\* Type invariant of the process around the tables.
RuntimeTypeOK ==
    /\ mode \in Mode
    /\ turn \in Turn
    /\ requested \subseteq Job /\ cancelling \subseteq Job /\ repairs \subseteq Job
    /\ shutdown \in BOOLEAN /\ invalid \in BOOLEAN
    /\ pressure \in Level \cup {"UNAVAILABLE"}

\* A Production run that has not ended still has a job that will end it: no
\* interleaving of crash, lease loss, cancellation, storage pressure and retry
\* leaves a QUEUED or RUNNING run that nobody works on.
RunSettled ==
    \A r \in ProductionRun :
        runs[r] \in {"QUEUED", "RUNNING"} =>
            \E j \in Job : runOf[j] = r /\ state[j] \in ActiveJob

\* A client that was told how a job ended was told the truth: once the job is
\* terminal, its stream is still open or was closed with that outcome.
StreamAgrees ==
    \A j \in Job :
        state[j] \in TerminalJob => stream[j] \in {"OPEN", state[j]}

\* The event is never ahead of the queue by more than the handler's turn: a
\* closed stream belongs to a job that ended, or whose run ended the same way.
StreamNotAhead ==
    \A j \in Job :
        stream[j] # "OPEN" /\ state[j] \in ActiveJob =>
            RunTerminal(j) /\ ReconciledState(runs[runOf[j]]) = stream[j]

\* No race leaves a requested cancellation behind: the active turn of a job
\* whose cancellation was requested carries a cancelled token, whatever the
\* order of request() and register() was.
RequestReachesTurn ==
    Registered /\ turn.job \in requested => turn.cancelled

\* Nobody takes a job from the turn that works on it: from the acquisition to
\* the transaction that ends the turn the job is RUNNING under the turn's lease,
\* even when that lease has expired, since only the worker itself and a startup
\* recover expired jobs (execute_next_at).
TurnOwnsJob ==
    turn.stage \in {"acquired", "running", "working", "saved", "finalized",
                    "returned", "decided"} =>
        /\ turn.job \in Job
        /\ state[turn.job] = "RUNNING"
        /\ lease[turn.job] = turn.lease

\* The turn, its job, the requests and the runs agree, over every interleaving
\* of worker, handler, heartbeat, API, storage probe, shutdown and crash: the
\* turn keeps the job it acquired, a requested cancellation reaches it, and no
\* Production run is left open without a job that will end it (execute_acquired,
\* CancellationController::register, finalize_crawl_failure_in_transaction).
RuntimeSafe ==
    /\ RuntimeTypeOK
    /\ TurnOwnsJob
    /\ RequestReachesTurn
    /\ RunSettled

\* The worker never meets a queue error that stops it.
WorkerSurvives == turn.stage # "dead"

\* Startup ends in Recovery Mode for inconsistent checkpoints only: jobs and
\* terminal runs can always be reconciled (reconcile_terminal_crawl_runs
\* "Reconciles every durable Job linked to a terminal `CrawlRun`").
StartupReconciles == mode = "RECOVERY_MODE" => invalid

\* Every run has the one job it was created with: no recovery action has put the
\* run of its source back into the queue.
OneJobPerRun ==
    \A i, j \in Job :
        state[i] # "ABSENT" /\ state[j] # "ABSENT" /\ runOf[i] = runOf[j] => i = j

\* Job, run and stream never contradict each other while every run has one job:
\* a client that was told how a job ended was told the truth and not too early,
\* no queue error stops the worker, and no inconsistency but one of checkpoints
\* keeps startup from serving (worker_loop, run_plan_four_startup_hooks).
NeverContradicted ==
    OneJobPerRun =>
        /\ StreamAgrees
        /\ StreamNotAhead
        /\ WorkerSurvives
        /\ StartupReconciles

\* No job of a run was continued twice: the recovery actions on a run form a
\* chain.  Where they branch, two jobs of a run may be active at once: each
\* action looks at the children of its own source only
\* (validate_action_child_lineage), and the first job to finish then ends the
\* run under the other.
ContinuedOnce ==
    \A i, j \in Job :
        /\ state[i] # "ABSENT" /\ state[j] # "ABSENT"
        /\ runOf[i] = runOf[j] /\ parent[i] = parent[j]
        => i = j

\* A recovery action put the run of j back into the queue.
Continued(j) == \E c \in Job : state[c] # "ABSENT" /\ parent[c] = j /\ runOf[c] = runOf[j]

\* The run of j was continued and ended otherwise than j had.
EndedOtherwise(j) ==
    /\ state[j] \in TerminalJob /\ Continued(j) /\ RunTerminal(j)
    /\ state[j] # ReconciledState(runs[runOf[j]])

\* Retries, resumptions and restarts that reopen a run contradict nothing that
\* was said before, as long as none of its jobs is continued twice: every stream
\* tells how its job ended, none too early, and the worker survives.  They may
\* stop startup, but only in one way: a job whose run was continued ended
\* otherwise than the run does now (enqueue_action_child, worker_loop,
\* reconcile_terminal_job_in_transaction).
RetriesContradictNothing ==
    ContinuedOnce =>
        /\ StreamAgrees
        /\ StreamNotAhead
        /\ WorkerSurvives
        /\ mode = "RECOVERY_MODE" => invalid \/ \E j \in Job : EndedOtherwise(j)

\* The runtime only does to the store what JobStore allows to any caller, so
\* what is proved of StoreSpec holds for the running system.  (This is StoreSpec,
\* with the steps that leave the tables alone named first.)
RefinesStore == StoreInit /\ [][UNCHANGED storeVars \/ StoreNext]_storeVars

\* The job waits for a time that the bounded clock does not reach: the end of
\* a lost holder's lease, or its own schedule.
BeyondClock(j) ==
    \/ state[j] = "RUNNING" /\ turn.job # j /\ lease[j].expires > MaxTime
    \/ state[j] = "QUEUED" /\ sched[j] > MaxTime

\* A requested cancellation takes effect while the process keeps serving: the
\* job ends, even when the request raced with the poll, the registration, a
\* retry or the loss of the lease, or met a job whose holder had crashed.
CancellationTakesEffect ==
    \A j \in Job :
        j \in requested /\ Open ~> state[j] \in TerminalJob \/ ~Open \/ BeyondClock(j)

\* A job whose holder is gone does not stay RUNNING: once its lease has expired
\* the polling worker recovers it.
ExpiredLeaseIsRecovered ==
    \A j \in Job :
        j \in Expired /\ turn.job # j /\ Open ~> j \notin Expired \/ ~Open

=============================================================================

-------------------------- MODULE JobRuntimeProofs --------------------------
(***************************************************************************)
(* Proofs about the process around the job store, for every set of jobs,   *)
(* runs and workers and every bound that covers its budgets: each step of  *)
(* startup, worker, handler and API is a transaction of the store, so the  *)
(* theorems of JobStoreProofs hold for the running system, RuntimeSafe is  *)
(* an invariant, and so is RetriesContradictNothing, of which              *)
(* NeverContradicted is the case in which no two jobs share a run.         *)
(***************************************************************************)
EXTENDS JobRuntime, JobStoreProofs, WellFoundedInduction

\* The turn holds its job: the stages TurnOwnsJob speaks of.
Holding ==
    turn.stage \in {"acquired", "running", "working", "saved", "finalized",
                    "returned", "decided"}

\* A turn exists only while the process serves; a turn that repairs a stream,
\* and startup's list of repairs, name jobs that have ended; a finalized turn
\* knows how it ended its run.
TurnShape ==
    /\ turn.stage # "idle" => mode = "SERVING"
    /\ turn.stage \in {"repairing", "ending"} => turn.job \in Job
    /\ turn.stage = "repairing" => state[turn.job] \in TerminalJob
    /\ turn.stage = "finalized" => turn.commit \in TerminalRun
    /\ \A j \in repairs : state[j] \in TerminalJob

\* Every job has a run and one of the budgets.
Submitted == \A j \in Job : state[j] # "ABSENT" => runOf[j] \in Run /\ budget[j] \in Budget

\* The clock and the leases stay within the bounds.
Clocked ==
    /\ now <= MaxTime
    /\ \A j \in Job : lease[j] # NoLease => lease[j].expires <= Horizon

\* The part of the inductive invariant about the variables of the process, and
\* all of it.
MemoryInv == RuntimeTypeOK /\ TurnShape /\ TurnOwnsJob /\ RequestReachesTurn
RuntimeInv == StoreInv /\ MemoryInv /\ Submitted /\ Clocked /\ RunSettled

\* What the process does to the store in one step, by caller.
TurnCall ==
    \/ Heartbeat(turn.job, turn.lease)
    \/ AppendCheckpoint(turn.job, turn.lease, turn.lease.gen)
    \/ Cancel(turn.job, turn.lease)
    \/ RequeueAfterPressure(turn.job, turn.lease)
    \/ FailProduction(turn.job, turn.lease)
    \/ ReconcileRun(turn.job, turn.lease)
    \/ /\ ~Production(turn.job) /\ turn.stage = "decided" /\ turn.plan = "fail"
       /\ Fail(turn.job, turn.lease, FALSE, now + RetryDelay)
    \/ turn.stage = "running" /\ StartRun(runOf[turn.job], StartFrom(turn.job))
    \/ /\ turn.stage \in {"running", "working", "saved"}
       /\ \E s \in TerminalRun : FinalizeRun(runOf[turn.job], s)
ApiCall ==
    \E j \in Job :
        \/ CancelQueued(j)
        \/ \E p \in Priority, t \in Schedule : Reprioritize(j, p, t)
        \/ \E r \in Run, p \in Priority, m \in Budget : CreateRun(j, r, p, m, now)
        \/ \E src \in Job, k \in Requested \cap ContinuationKind, m \in Budget :
              EnqueueSameRun(src, j, k, m)
        \/ /\ "RERUN_FULL_CRAWL" \in Requested
           /\ \E src \in Job, m \in Budget, r \in Run :
                 EnqueueNewRun(src, j, "RERUN_FULL_CRAWL", m, r)
StoreCall ==
    \/ UNCHANGED storeVars
    \/ Tick
    \/ /\ turn.stage = "admitted"
       /\ \E w \in Worker, j \in Job : Acquire(w, turn.heavy, j)
    \/ (turn.stage = "admitted" \/ mode = "RECOVERING") /\ RecoverExpired
    \/ mode = "RECONCILING" /\ ReconcileAll
    \/ \E j \in Job, t \in TerminalJob :
          /\ AppendTerminal(j, t)
          /\ \/ t = state[j]
             \/ /\ turn.stage = "finalized" /\ turn.job = j
                /\ t = ReconciledState(turn.commit)
    \/ ApiCall
    \/ Holding /\ TurnCall

\* A repair writes the end of a job that has ended.
LEMMA RepairIsCall ==
    ASSUME NEW j \in Job, state[j] \in TerminalJob, RepairStream(j, state[j])
    PROVE  StoreCall
BY DEF RepairStream, StoreCall

\* The budget a recovery action passes on is one a job may have.
LEMMA PassedBudget ==
    ASSUME StoreInv, Submitted, RuntimeBounds, NEW src \in Job, Recoverable(src),
           Requested \cap {"RETRY", "RETRY_FAILED_PARTS"} # {},
           RemainingBudget(src) > 0
    PROVE  RemainingBudget(src) \in Budget
<1>1. runOf[src] \in Run /\ budget[src] \in Budget
  BY DEF Submitted, Recoverable
<1>2. CASE Production(src)
  BY <1>1, <1>2 DEF RemainingBudget
<1>3. CASE ~Production(src)
  <2>1. ProductionRun # Run
    BY <1>1, <1>3 DEF Production
  <2>2. 1..budget[src] \subseteq Budget
    BY <1>1, <2>1 DEF RuntimeBounds
  <2>3. budget[src] \in Nat /\ attempt[src] \in Nat
    BY DEF StoreInv, TypeOK
  <2>4. RemainingBudget(src) = budget[src] - attempt[src]
    BY <1>3 DEF RemainingBudget
  <2>5. RemainingBudget(src) \in 1..budget[src]
    BY <2>3, <2>4
  <2> QED
    BY <2>2, <2>5
<1> QED
  BY <1>2, <1>3

\* Each recovery action of the API enqueues a child of the source.
LEMMA RecoverIsApiCall ==
    ASSUME StoreInv, Submitted, RuntimeBounds, NEW src \in Job, NEW j \in Job,
           RecoverJob(src, j)
    PROVE  ApiCall
<1>1. ASSUME NEW k \in Requested \cap ContinuationKind, NEW m \in Budget,
             EnqueueSameRun(src, j, k, m)
      PROVE  ApiCall
  BY <1>1 DEF ApiCall
<1>2. ASSUME NEW k \in Requested \cap {"RETRY", "RETRY_FAILED_PARTS"}, Retry(src, j, k)
      PROVE  ApiCall
  <2>1. RemainingBudget(src) \in Budget
    BY <1>2, PassedBudget DEF Retry
  <2> QED
    BY <1>1, <1>2, <2>1 DEF Retry, ContinuationKind
<1>3. state[src] # "ABSENT" => budget[src] \in Budget
  BY DEF Submitted
<1>4. ASSUME NEW k, NEW m, EnqueueSameRun(src, j, k, m) \/ \E r \in Run : EnqueueNewRun(src, j, k, m, r)
      PROVE  state[src] # "ABSENT"
  BY <1>4 DEF EnqueueSameRun, EnqueueNewRun, LineageAllows, TerminalJob
<1>5. ASSUME "RESUME_CHECKPOINT" \in Requested, Resume(src, j)
      PROVE  ApiCall
  BY <1>1, <1>3, <1>4, <1>5 DEF Resume, ContinuationKind
<1>6. ASSUME "RESTART_FROM_BEGINNING" \in Requested, RestartFromBeginning(src, j)
      PROVE  ApiCall
  BY <1>1, <1>3, <1>4, <1>6 DEF RestartFromBeginning, ContinuationKind
<1>7. ASSUME "RERUN_FULL_CRAWL" \in Requested, NEW r \in Run, RerunFullCrawl(src, j, r)
      PROVE  ApiCall
  <2>1. budget[src] \in Budget /\ EnqueueNewRun(src, j, "RERUN_FULL_CRAWL", budget[src], r)
    BY <1>3, <1>4, <1>7 DEF RerunFullCrawl
  <2> QED
    BY <1>7, <2>1 DEF ApiCall
<1> QED
  BY <1>2, <1>5, <1>6, <1>7 DEF RecoverJob

\* The transaction that settles a turn is a call of the turn.
LEMMA SettleIsCall ==
    ASSUME NEW p, NEW lost, NEW accepts, NEW tx, NEW next,
           Settle(p, lost, accepts, tx, next),
           tx /\ turn.stage = "decided" /\ turn.plan = p => TurnCall
    PROVE  StoreCall
BY DEF Settle, StoreCall, Holding

\* Every step of the process is a call of the store or leaves it alone.
LEMMA StepIsCall ==
    ASSUME RuntimeConstants, RuntimeBounds, RuntimeInv, [RuntimeNext]_vars
    PROVE  StoreCall
<1> USE DEF StoreCall
<1>1. CASE UNCHANGED vars
  BY <1>1 DEF vars
<1>2. CASE StartupStep
  <2>1. CASE Boot \/ StartupServe
    BY <2>1 DEF Boot, StartupServe
  <2>2. CASE StartupRecover
    BY <2>2 DEF StartupRecover
  <2>3. CASE StartupReconcile
    BY <2>3 DEF StartupReconcile
  <2>4. ASSUME NEW j \in Job, StartupRepair(j)
        PROVE  StoreCall
    <3>1. state[j] \in TerminalJob
      BY <2>4 DEF StartupRepair, RuntimeInv, MemoryInv, TurnShape
    <3> QED
      BY <2>4, <3>1, RepairIsCall DEF StartupRepair
  <2> QED
    BY <1>2, <2>1, <2>2, <2>3, <2>4 DEF StartupStep
<1>3. ASSUME NEW level \in Level, Poll(level) \/ RefreshPressure(level)
      PROVE  StoreCall
  BY <1>3 DEF Poll, RefreshPressure
<1>4. ASSUME NEW level \in Level, HeartbeatOk(level)
      PROVE  StoreCall
  BY <1>4 DEF HeartbeatOk, InHandler, Holding, TurnCall
<1>5. CASE WorkerStep
  <2>1. ASSUME NEW w \in Worker, NEW j \in Job, TakeJob(w, j)
        PROVE  StoreCall
    BY <2>1 DEF TakeJob
  <2>2. CASE TakeNothing
    BY <2>2 DEF TakeNothing
  <2>3. CASE Register \/ Decide \/ Release
    BY <2>3 DEF Register, Decide, Release
  <2>4. CASE SettleReconcile
    BY <2>4, SettleIsCall DEF SettleReconcile, TurnCall
  <2>5. CASE SettleCancel
    BY <2>5, SettleIsCall DEF SettleCancel, TurnCall
  <2>6. CASE SettleRequeue
    BY <2>6, SettleIsCall DEF SettleRequeue, TurnCall
  <2>7. CASE SettleProductionFailure
    BY <2>7, SettleIsCall DEF SettleProductionFailure, TurnCall
  <2>8. CASE SettleQuickFailure
    BY <2>8, SettleIsCall DEF SettleQuickFailure, TurnCall
  <2>9. CASE RepairTurn
    BY <2>9, RepairIsCall DEF RepairTurn, RuntimeInv, MemoryInv, TurnShape
  <2> QED
    BY <1>5, <2>1, <2>2, <2>3, <2>4, <2>5, <2>6, <2>7, <2>8, <2>9 DEF WorkerStep
<1>6. CASE HandlerStep
  <2>1. CASE HandlerMark
    BY <2>1 DEF HandlerMark, Holding, TurnCall
  <2>2. CASE HandlerStart
    BY <2>2 DEF HandlerStart, Holding, TurnCall
  <2>3. CASE HandlerTerminal
    <3>1. turn.job \in Job /\ turn.commit \in TerminalRun
      BY <2>3 DEF HandlerTerminal, RuntimeInv, MemoryInv, TurnOwnsJob, TurnShape
    <3> QED
      BY <2>3, <3>1, ReconciledType DEF HandlerTerminal
  <2>4. ASSUME NEW last \in BOOLEAN, HandlerCheckpoint(last)
        PROVE  StoreCall
    BY <2>4 DEF HandlerCheckpoint, Holding, TurnCall
  <2>5. ASSUME NEW s \in TerminalRun, HandlerFinalize(s)
        PROVE  StoreCall
    BY <2>5 DEF HandlerFinalize, AtBoundary, Holding, TurnCall
  <2> QED
    BY <1>6, <2>1, <2>2, <2>3, <2>4, <2>5 DEF HandlerStep
<1>7. CASE HandlerReturn \/ HeartbeatLost \/ Shutdown \/ Crash \/ TimePasses
  BY <1>7 DEF HandlerReturn, HeartbeatLost, Shutdown, Crash, TimePasses
<1>8. ASSUME NEW j \in Job, ApiStep(j)
      PROVE  StoreCall
  <2>1. ASSUME NEW r \in Run, NEW p \in Priority, NEW m \in Budget, Submit(j, r, p, m)
        PROVE  StoreCall
    BY <2>1 DEF Submit, ApiCall
  <2>2. CASE RequestCancel(j) \/ FinishCancel(j)
    BY <2>2 DEF RequestCancel, FinishCancel, ApiCall
  <2>3. ASSUME NEW src \in Job, RecoverJob(src, j)
        PROVE  StoreCall
    BY <2>3, RecoverIsApiCall DEF RuntimeInv
  <2>4. ASSUME NEW p \in Priority, NEW t \in Schedule, ChangePriority(j, p, t)
        PROVE  StoreCall
    BY <2>4 DEF ChangePriority, ApiCall
  <2> QED
    BY <1>8, <2>1, <2>2, <2>3, <2>4 DEF ApiStep
<1> HIDE DEF StoreCall
<1> QED
  BY <1>1, <1>2, <1>3, <1>4, <1>5, <1>6, <1>7, <1>8 DEF RuntimeNext

\* A run is started from one of the three sets of statuses.
LEMMA StartsFrom ==
    ASSUME NEW j
    PROVE  StartFrom(j) \in {ExecutionFrom, RecoveryFrom, RestartFrom}
BY DEF StartFrom

\* The lease of a turn is one the store has issued, of its last attempt.
LEMMA TurnLease ==
    ASSUME RuntimeBounds, RuntimeInv, Holding
    PROVE  /\ turn.job \in Job /\ state[turn.job] = "RUNNING"
           /\ turn.lease = lease[turn.job]
           /\ turn.lease \in AnyLease
           /\ turn.lease.gen \in DOMAIN history[turn.job]
           /\ runOf[turn.job] \in Run
<1> DEFINE j == turn.job
<1>1. j \in Job /\ state[j] = "RUNNING" /\ lease[j] = turn.lease
  BY DEF Holding, RuntimeInv, MemoryInv, TurnOwnsJob
<1>2. /\ lease[j] # NoLease /\ lease[j] \in Lease
      /\ lease[j].gen = attempt[j] /\ attempt[j] \in DOMAIN history[j]
      /\ attempt[j] <= budget[j] /\ attempt[j] \in Nat
  BY <1>1
  DEF RuntimeInv, StoreInv, TypeOK, RowConsistent, LeaseConsistent, GenerationCounts,
      ActiveAttemptConsistent, AttemptCountConsistent, AttemptsWithinBudget
<1>3. runOf[j] \in Run /\ budget[j] \in 1..MaxGen
  BY <1>1 DEF RuntimeInv, Submitted, RuntimeBounds
<1>4. turn.lease.expires <= Horizon
  BY <1>1, <1>2 DEF RuntimeInv, Clocked
<1>5. turn.lease \in AnyLease
  <2> DEFINE l == turn.lease
  <2>1. l \in Lease /\ l.gen = attempt[j]
    BY <1>1, <1>2
  <2>2. Horizon \in Nat /\ MaxGen \in Nat
    BY StoreAssumption DEF Horizon
  <2>3. l.gen \in 0..MaxGen
    BY <1>2, <1>3, <2>1, <2>2
  <2>4. l.expires \in 0..Horizon /\ l.owner \in Worker
    BY <1>4, <2>1, <2>2 DEF Lease
  <2>5. \A x : x \in Lease /\ x.gen \in 0..MaxGen /\ x.expires \in 0..Horizon => x \in AnyLease
    BY DEF Lease, AnyLease
  <2> QED
    BY <2>1, <2>3, <2>4, <2>5
<1> QED
  BY <1>1, <1>2, <1>3, <1>5

\* Every call is a step JobStore allows.
LEMMA CallIsStoreStep ==
    ASSUME RuntimeConstants, RuntimeBounds, RuntimeInv, StoreCall
    PROVE  [StoreNext]_storeVars
<1>1. now \in 0..MaxTime /\ Schedule \subseteq 0..MaxTime /\ turn.heavy \in BOOLEAN
  BY DEF RuntimeInv, StoreInv, TypeOK, Clocked, RuntimeBounds, MemoryInv, RuntimeTypeOK, Turn
<1>2. now + RetryDelay \in now..Horizon
  <2>1. RetryDelay \in 0..LeaseDuration /\ LeaseDuration \in Nat /\ MaxTime \in Nat
    BY StoreAssumption DEF RuntimeConstants
  <2> QED
    BY <1>1, <2>1 DEF Horizon
<1>3. CASE UNCHANGED storeVars \/ Tick \/ RecoverExpired \/ ReconcileAll
  BY <1>3 DEF StoreNext
<1>4. ASSUME NEW w \in Worker, NEW j \in Job, Acquire(w, turn.heavy, j)
      PROVE  StoreNext
  BY <1>1, <1>4 DEF StoreNext
<1>5. ASSUME NEW j \in Job, NEW t \in TerminalJob, AppendTerminal(j, t)
      PROVE  StoreNext
  BY <1>5 DEF StoreNext, QueueStep
<1>6. CASE ApiCall
  BY <1>1, <1>6 DEF ApiCall, StoreNext, QueueStep
<1>7. CASE Holding /\ TurnCall
  <2>1. /\ turn.job \in Job /\ turn.lease \in AnyLease
        /\ turn.lease.gen \in DOMAIN history[turn.job]
        /\ runOf[turn.job] \in Run
    BY <1>7, TurnLease
  <2>2. CASE StartRun(runOf[turn.job], StartFrom(turn.job))
    <3>1. RunStep(runOf[turn.job])
      BY <2>2, StartsFrom DEF RunStep
    <3> QED
      BY <2>1, <3>1 DEF StoreNext
  <2>3. CASE \E s \in TerminalRun : FinalizeRun(runOf[turn.job], s)
    BY <2>1, <2>3 DEF StoreNext, RunStep
  <2>4. CASE Fail(turn.job, turn.lease, FALSE, now + RetryDelay)
    <3>1. HolderStep(turn.job, turn.lease)
      BY <1>2, <2>4 DEF HolderStep
    <3> QED
      BY <2>1, <3>1 DEF StoreNext
  <2>5. CASE AppendCheckpoint(turn.job, turn.lease, turn.lease.gen)
    <3>1. HolderStep(turn.job, turn.lease)
      BY <2>1, <2>5 DEF HolderStep
    <3> QED
      BY <2>1, <3>1 DEF StoreNext
  <2>6. CASE \/ Heartbeat(turn.job, turn.lease)
             \/ Cancel(turn.job, turn.lease)
             \/ RequeueAfterPressure(turn.job, turn.lease)
             \/ FailProduction(turn.job, turn.lease)
             \/ ReconcileRun(turn.job, turn.lease)
    <3>1. HolderStep(turn.job, turn.lease)
      BY <2>6 DEF HolderStep
    <3> QED
      BY <2>1, <3>1 DEF StoreNext
  <2> QED
    BY <1>7, <2>2, <2>3, <2>4, <2>5, <2>6 DEF TurnCall
<1> QED
  BY <1>3, <1>4, <1>5, <1>6, <1>7 DEF StoreCall
-----------------------------------------------------------------------------
(***************************************************************************)
(* The tables: budgets, clock and runs.                                    *)
(***************************************************************************)
\* Insert brings in one job; every other keeps its state and its links.
LEMMA InsertRows ==
    ASSUME TypeOK, NEW j \in Job, NEW k, NEW r, NEW p, NEW m, NEW src, NEW t,
           Insert(j, k, r, p, m, src, t)
    PROVE  /\ state[j] = "ABSENT" /\ state'[j] = "QUEUED"
           /\ runOf'[j] = r /\ budget'[j] = m /\ parent'[j] = src
           /\ \A i \in Job \ {j} : /\ state'[i] = state[i] /\ runOf'[i] = runOf[i]
                                   /\ budget'[i] = budget[i] /\ parent'[i] = parent[i]
           /\ lease' = lease /\ now' = now
BY DEF TypeOK, Insert

\* A close is of a running job and moves no other.
LEMMA CloseRow ==
    ASSUME TypeOK, NEW j \in Job, NEW l, NEW st, NEW o, Close(j, l, st, o)
    PROVE  /\ state'[j] = st /\ lease'[j] = NoLease
           /\ \A i \in Job \ {j} : state'[i] = state[i] /\ lease'[i] = lease[i]
           /\ runOf' = runOf /\ budget' = budget /\ parent' = parent /\ now' = now
BY DEF TypeOK, Close, linkVars

\* Each call that ends a turn's hold on its job closes that job.
LEMMA TurnCallRow ==
    ASSUME TypeOK, NEW j \in Job, NEW l, NEW retryAt, state[j] = "RUNNING",
           \/ Cancel(j, l) \/ RequeueAfterPressure(j, l) \/ FailProduction(j, l)
           \/ Fail(j, l, FALSE, retryAt) \/ ReconcileRun(j, l)
    PROVE  \E st, o : Close(j, l, st, o)
BY DEF Cancel, RequeueAfterPressure, FailProduction, Fail, ReconcileRun

\* Calls that leave the states, the leases and the links of all jobs alone.
LEMMA QuietCall ==
    ASSUME \/ UNCHANGED storeVars \/ Tick
           \/ \E j \in Job, t \in TerminalJob : AppendTerminal(j, t)
           \/ \E j \in Job, p \in Priority, t \in Schedule : Reprioritize(j, p, t)
           \/ AppendCheckpoint(turn.job, turn.lease, turn.lease.gen)
           \/ \E r \in Run, from \in {ExecutionFrom, RecoveryFrom, RestartFrom} :
                 StartRun(r, from)
           \/ \E r \in Run, s \in TerminalRun : FinalizeRun(r, s)
    PROVE  UNCHANGED <<state, lease, runOf, budget, parent, kind>>
BY DEF storeVars, queueVars, linkVars, Tick, AppendTerminal, Reprioritize,
       AppendCheckpoint, StartRun, FinalizeRun

\* Submissions and recovery actions as insertions with a run and a budget.
LEMMA InsertCall ==
    ASSUME StoreInv, Submitted, NEW j \in Job,
           \/ \E r \in Run, p \in Priority, m \in Budget : CreateRun(j, r, p, m, now)
           \/ \E src \in Job, k \in Requested, m \in Budget :
                 \/ EnqueueSameRun(src, j, k, m)
                 \/ \E r \in Run : EnqueueNewRun(src, j, k, m, r)
    PROVE  \E r \in Run, m \in Budget : \E k, p, src, t :
              /\ Insert(j, k, r, p, m, src, t)
              /\ runs' = [runs EXCEPT ![r] = "QUEUED"]
<1>1. ASSUME NEW r \in Run, NEW p \in Priority, NEW m \in Budget, CreateRun(j, r, p, m, now)
      PROVE  /\ Insert(j, "ROOT", r, p, m, NoJob, now)
             /\ runs' = [runs EXCEPT ![r] = "QUEUED"]
  BY <1>1 DEF CreateRun
<1>2. ASSUME NEW src \in Job, NEW k \in Requested, NEW m \in Budget,
             EnqueueSameRun(src, j, k, m)
      PROVE  /\ runOf[src] \in Run
             /\ Insert(j, k, runOf[src], priority[src], m, src, now)
             /\ runs' = [runs EXCEPT ![runOf[src]] = "QUEUED"]
  BY <1>2 DEF EnqueueSameRun, StoreInv, TypeOK
<1>3. ASSUME NEW src \in Job, NEW k \in Requested, NEW m \in Budget, NEW r \in Run,
             EnqueueNewRun(src, j, k, m, r)
      PROVE  /\ Insert(j, k, r, priority[src], m, src, now)
             /\ runs' = [runs EXCEPT ![r] = "QUEUED"]
  BY <1>3 DEF EnqueueNewRun
<1>4. CASE \E r \in Run, p \in Priority, m \in Budget : CreateRun(j, r, p, m, now)
  BY <1>1, <1>4
<1>5. CASE \E src \in Job, k \in Requested, m \in Budget : EnqueueSameRun(src, j, k, m)
  BY <1>2, <1>5
<1>6. CASE \E src \in Job, k \in Requested, m \in Budget, r \in Run :
              EnqueueNewRun(src, j, k, m, r)
  BY <1>3, <1>6
<1> QED
  BY <1>4, <1>5, <1>6

\* Every job keeps a run and a budget.
LEMMA SubmittedStep ==
    ASSUME RuntimeConstants, RuntimeBounds, RuntimeInv, StoreCall
    PROVE  Submitted'
<1> USE DEF RuntimeInv, StoreInv
<1>1. ASSUME LinksKept
      PROVE  Submitted'
  BY <1>1 DEF LinksKept, linkVars, Submitted
<1>2. CASE ApiCall
  <2>1. ASSUME NEW j \in Job, NEW k, NEW p, NEW src, NEW t, NEW r \in Run, NEW m \in Budget,
               Insert(j, k, r, p, m, src, t)
        PROVE  Submitted'
    <3>1. /\ runOf'[j] = r /\ budget'[j] = m
          /\ \A i \in Job \ {j} : /\ state'[i] = state[i] /\ runOf'[i] = runOf[i]
                                  /\ budget'[i] = budget[i]
      BY <2>1, InsertRows
    <3> QED
      BY <3>1 DEF Submitted
  <2>2. ASSUME NEW j \in Job, CancelQueued(j)
        PROVE  LinksKept
    BY <2>2 DEF CancelQueued, LinksKept, TypeOK
  <2>3. ASSUME NEW j \in Job, NEW p \in Priority, NEW t \in Schedule, Reprioritize(j, p, t)
        PROVE  LinksKept
    BY <2>3 DEF Reprioritize, LinksKept
  <2> QED
    BY <1>1, <1>2, <2>1, <2>2, <2>3, InsertCall DEF ApiCall
<1>3. CASE ~ApiCall
  <2>1. StoreCall /\ TypeOK /\ ~ApiCall
    BY <1>3
  <2>2. LinksKept
    <3>1. ASSUME UNCHANGED <<state, linkVars>>
          PROVE  LinksKept
      BY <3>1 DEF LinksKept
    <3>2. ASSUME NEW w \in Worker, NEW j \in Job, Acquire(w, turn.heavy, j)
          PROVE  LinksKept
      <4>1. state[j] # "ABSENT"
        BY <3>2, RecoveryKeepsAbsent DEF Acquire, Selected, Eligible
      <4>2. UNCHANGED linkVars /\ state' = [StateR EXCEPT ![j] = "RUNNING"]
        BY <3>2 DEF Acquire
      <4> QED
        BY <4>1, <4>2, RecoveryKeepsAbsent, RecoveryType DEF LinksKept
    <3>3. CASE RecoverExpired
      BY <3>3, RecoveryKeepsAbsent DEF RecoverExpired, LinksKept
    <3>4. CASE ReconcileAll
      BY <3>4 DEF ReconcileAll, Settled, LinksKept
    <3>5. CASE UNCHANGED storeVars \/ Tick
      BY <3>1, <3>5 DEF Tick, storeVars, queueVars
    <3>6. ASSUME NEW j \in Job, NEW t \in TerminalJob, AppendTerminal(j, t)
          PROVE  LinksKept
      BY <3>1, <3>6 DEF AppendTerminal, queueVars
    <3>7. CASE Holding /\ TurnCall
      <4>1. turn.job \in Job /\ state[turn.job] = "RUNNING"
        BY <3>7, TurnLease
      <4>2. ASSUME NEW st, NEW o, Close(turn.job, turn.lease, st, o)
            PROVE  LinksKept
        BY <4>1, <4>2 DEF TypeOK, Close, LinksKept
      <4>3. CASE \/ Cancel(turn.job, turn.lease)
                 \/ RequeueAfterPressure(turn.job, turn.lease)
                 \/ FailProduction(turn.job, turn.lease)
                 \/ Fail(turn.job, turn.lease, FALSE, now + RetryDelay)
                 \/ ReconcileRun(turn.job, turn.lease)
        BY <4>1, <4>2, <4>3, TurnCallRow
      <4>4. CASE \/ Heartbeat(turn.job, turn.lease)
                 \/ AppendCheckpoint(turn.job, turn.lease, turn.lease.gen)
                 \/ StartRun(runOf[turn.job], StartFrom(turn.job))
                 \/ \E s \in TerminalRun : FinalizeRun(runOf[turn.job], s)
        BY <3>1, <4>4 DEF Heartbeat, AppendCheckpoint, StartRun, FinalizeRun, queueVars
      <4> QED
        BY <3>7, <4>3, <4>4 DEF TurnCall
    <3> QED
      BY <2>1, <3>2, <3>3, <3>4, <3>5, <3>6, <3>7 DEF StoreCall
  <2> QED
    BY <1>1, <2>2
<1> QED
  BY <1>2, <1>3

\* A row step leaves the lease alone, drops it, or sets it to end one duration
\* from now.
LEMMA RowStepLease ==
    ASSUME TypeOK, NEW j \in Job, RowConsistent(j), RowStep(j), lease'[j] # NoLease
    PROVE  lease'[j] = lease[j] \/ lease'[j].expires = now + LeaseDuration
<1>1. CASE RowRenewed(j)
  BY <1>1 DEF RowRenewed, Renewed
<1>2. CASE RowGranted(j)
  BY <1>2 DEF RowGranted, NewLease
<1> QED
  BY <1>1, <1>2 DEF RowStep, RowKept, RowMoved, RowClosed

\* The clock is bounded, and so is what is granted under it.
LEMMA ClockedStep ==
    ASSUME StoreInv, Clocked, [StoreNext]_storeVars
    PROVE  Clocked'
<1>1. MaxTime \in Nat /\ LeaseDuration \in Nat /\ now \in Nat /\ TypeOK
  BY StoreAssumption DEF StoreInv, TypeOK
<1>2. now' = now \/ Tick
  <2>1. ASSUME NEW j \in Job, QueueStep(j) PROVE now' = now
    BY <2>1
    DEF QueueStep, CancelQueued, RemoveIfSafe, Reprioritize, Enqueue, CreateRun, Insert,
        EnqueueSameRun, EnqueueNoRun, EnqueueNewRun, AppendTerminal
  <2>2. ASSUME NEW j \in Job, NEW l \in AnyLease, HolderStep(j, l) PROVE now' = now
    BY <2>2
    DEF HolderStep, Heartbeat, AppendCheckpoint, Succeed, Fail, FailProduction, Cancel,
        RequeueAfterPressure, ReconcileRun, Close, storeVars
  <2>3. ASSUME NEW r \in Run, RunStep(r) PROVE now' = now
    BY <2>3 DEF RunStep, StartRun, FinalizeRun
  <2> QED
    BY <2>1, <2>2, <2>3 DEF StoreNext, Acquire, RecoverExpired, ReconcileAll, storeVars
<1>3. now' <= MaxTime
  BY <1>1, <1>2 DEF Clocked, Tick
<1>4. ASSUME NEW j \in Job, lease'[j] # NoLease
      PROVE  lease'[j].expires <= Horizon
  <2>1. lease'[j] = lease[j] \/ lease'[j].expires = now + LeaseDuration
    BY <1>1, <1>4, StepIsRowSteps, RowStepLease DEF StoreInv
  <2>2. now + LeaseDuration <= Horizon
    BY <1>1 DEF Clocked, Horizon
  <2> QED
    BY <1>4, <2>1, <2>2 DEF Clocked
<1> QED
  BY <1>3, <1>4 DEF Clocked

\* Among the expired jobs of a run that recovery cannot requeue there is a first
\* one, and it ends the run.
LEMMA FirstDoomed ==
    ASSUME TypeOK, NEW j \in Job, Doomed(j), runOf[j] # NoRun
    PROVE  \E k \in Job : FailsRun(k) /\ runOf[k] = runOf[j]
<1> DEFINE T == {k \in Job : Doomed(k) /\ runOf[k] = runOf[j]}
<1>1. T \subseteq Nat /\ T # {}
  BY StoreAssumption
<1>2. PICK k \in T : \A i \in T : ~(<<i, k>> \in OpToRel(<, Nat))
  BY <1>1, NatLessThanWellFounded, WFMin
<1>3. \A i \in T : ~(i < k)
  BY <1>1, <1>2 DEF OpToRel
<1>4. ~SiblingFailedBefore(k)
  BY <1>3 DEF SiblingFailedBefore
<1> QED
  BY <1>4 DEF FailsRun

\* Recovery leaves no Production run open without an active job: a job it fails
\* takes its run along, first or after a sibling.
LEMMA RecoverySettles ==
    ASSUME StoreInv, RunSettled, NEW r \in ProductionRun,
           RunsR[r] \in {"QUEUED", "RUNNING"}
    PROVE  \E j \in Job : runOf[j] = r /\ StateR[j] \in ActiveJob
<1>1. r \in Run /\ r # NoRun
  BY StoreAssumption
<1>2. /\ ~ \E k \in Job : FailsRun(k) /\ runOf[k] = r
      /\ runs[r] \in {"QUEUED", "RUNNING"}
  BY <1>1 DEF RunsR
<1>3. PICK j \in Job : runOf[j] = r /\ state[j] \in ActiveJob
  BY <1>2 DEF RunSettled
<1>4. ~RunTerminal(j)
  BY <1>2, <1>3 DEF RunTerminal, TerminalRun
<1>5. \A k \in Job : runOf[k] = r => ~Doomed(k)
  BY <1>1, <1>2, FirstDoomed DEF StoreInv
<1>6. ~SiblingFailedBefore(j)
  BY <1>3, <1>5 DEF SiblingFailedBefore
<1>7. StateR[j] \in ActiveJob
  BY <1>3, <1>4, <1>5, <1>6 DEF StateR, RecoveredState, Doomed, ActiveJob
<1> QED
  BY <1>3, <1>7

\* The job of a turn, and its run, after the transaction that ends the turn: the
\* job stays active, or its run has ended, unless it failed as a Quick Scrape.
LEMMA TurnEndsRun ==
    ASSUME StoreInv, NEW j \in Job, NEW l, NEW retryAt, state[j] = "RUNNING",
           runOf[j] \in Run,
           \/ Cancel(j, l) \/ RequeueAfterPressure(j, l) \/ FailProduction(j, l)
           \/ ReconcileRun(j, l)
           \/ ~Production(j) /\ Fail(j, l, FALSE, retryAt)
    PROVE  /\ \A i \in Job \ {j} : state'[i] = state[i]
           /\ runOf' = runOf
           /\ \A r \in Run \ {runOf[j]} : runs'[r] = runs[r]
           /\ \/ state'[j] \in ActiveJob
              \/ runs'[runOf[j]] \notin {"QUEUED", "RUNNING"}
              \/ runOf[j] \notin ProductionRun
<1> DEFINE r == runOf[j]
<1>0. TypeOK /\ r # NoRun
  BY StoreAssumption DEF StoreInv
<1>1. ASSUME NEW st, NEW o, Close(j, l, st, o)
      PROVE  /\ \A i \in Job \ {j} : state'[i] = state[i]
             /\ runOf' = runOf /\ state'[j] = st
  BY <1>0, <1>1, CloseRow
<1>2. CASE Cancel(j, l)
  <2>1. runs' = CancelledRuns(j)
    BY <1>2 DEF Cancel
  <2>2. /\ \A q \in Run \ {r} : runs'[q] = runs[q]
        /\ runs'[r] \notin {"QUEUED", "RUNNING"}
    BY <2>1 DEF CancelledRuns
  <2>3. \E st, o : Close(j, l, st, o)
    BY <1>0, <1>2, TurnCallRow
  <2> QED
    BY <1>1, <2>2, <2>3
<1>3. CASE RequeueAfterPressure(j, l)
  <2> DEFINE st == PressureDecision(j)
             o == IF RunTerminal(j) THEN ReconciledOutcome(runs[runOf[j]]) ELSE "FAILED"
  <2>1. /\ Close(j, l, st, o)
        /\ IF st = "FAILED" /\ ~RunTerminal(j) THEN FinalizeCrawlFailure(j)
                                               ELSE UNCHANGED <<stream, runs>>
    BY <1>0, <1>3 DEF RequeueAfterPressure
  <2>2. \A i \in Job \ {j} : state'[i] = state[i]
    BY <1>1, <2>1
  <2>3. runOf' = runOf /\ state'[j] = st
    BY <1>1, <2>1
  <2>4. CASE RunTerminal(j)
    BY <2>1, <2>2, <2>3, <2>4 DEF RunTerminal, TerminalRun
  <2>5. CASE ~RunTerminal(j) /\ st = "FAILED"
    <3>1. runs' = [runs EXCEPT ![r] = "FAILED"]
      BY <2>1, <2>5 DEF FinalizeCrawlFailure
    <3> QED
      BY <1>0, <2>2, <2>3, <3>1 DEF TypeOK
  <2>6. CASE ~RunTerminal(j) /\ st # "FAILED"
    <3>1. st = "QUEUED" /\ runs' = runs
      BY <2>1, <2>6 DEF PressureDecision
    <3> QED
      BY <2>2, <2>3, <3>1 DEF ActiveJob
  <2> QED
    BY <2>4, <2>5, <2>6
<1>4. CASE FailProduction(j, l)
  <2>1. /\ Close(j, l, "FAILED", "FAILED")
        /\ runs' = [runs EXCEPT ![r] = "FAILED"]
    BY <1>4 DEF FailProduction, FinalizeCrawlFailure
  <2> QED
    BY <1>0, <1>1, <2>1 DEF TypeOK
<1>5. CASE ReconcileRun(j, l)
  <2>1. RunTerminal(j) /\ runs' = runs /\ \E st, o : Close(j, l, st, o)
    BY <1>5 DEF ReconcileRun
  <2>2. runs'[r] \notin {"QUEUED", "RUNNING"}
    BY <2>1 DEF RunTerminal, TerminalRun
  <2> QED
    BY <1>1, <2>1, <2>2
<1>6. CASE ~Production(j) /\ Fail(j, l, FALSE, retryAt)
  <2>1. runs' = runs /\ \E st, o : Close(j, l, st, o)
    BY <1>6 DEF Fail
  <2> QED
    BY <1>1, <1>6, <2>1 DEF Production
<1> QED
  BY <1>2, <1>3, <1>4, <1>5, <1>6

\* No call leaves a Production run open without a job that will end it.
LEMMA SettledStep ==
    ASSUME RuntimeConstants, RuntimeBounds, RuntimeInv, StoreCall
    PROVE  RunSettled'
<1>0. TypeOK /\ RunSettled /\ StoreInv /\ Submitted
  BY DEF RuntimeInv, StoreInv
<1> DEFINE Live(r) == \E i \in Job : runOf[i] = r /\ state[i] \in ActiveJob
<1> SUFFICES ASSUME NEW r \in ProductionRun, runs'[r] \in {"QUEUED", "RUNNING"}
             PROVE  Live(r)'
  BY DEF RunSettled
<1>1. r \in Run /\ r # NoRun /\ ProductionRun' = ProductionRun
  BY StoreAssumption
<1>2. runs[r] \in {"QUEUED", "RUNNING"} => Live(r)
  BY <1>0 DEF RunSettled
<1> HIDE DEF Live
<1>3. ASSUME UNCHANGED <<state, runOf>>, Live(r)
      PROVE  Live(r)'
  BY <1>3 DEF Live
<1>4. CASE UNCHANGED storeVars \/ Tick
  BY <1>2, <1>3, <1>4 DEF storeVars, queueVars, linkVars, Tick
<1>5. ASSUME NEW w \in Worker, NEW j \in Job, Acquire(w, turn.heavy, j)
      PROVE  Live(r)'
  <2>1. /\ runs' = RunsR /\ runOf' = runOf /\ state' = [StateR EXCEPT ![j] = "RUNNING"]
    BY <1>5 DEF Acquire, linkVars
  <2>2. PICK i \in Job : runOf[i] = r /\ StateR[i] \in ActiveJob
    BY <1>0, <2>1, RecoverySettles
  <2>3. StateR \in [Job -> JobState \cup {"ABSENT"}]
    BY <1>0, RecoveryType
  <2>4. state'[i] \in ActiveJob
    BY <2>1, <2>2, <2>3 DEF ActiveJob
  <2> QED
    BY <2>1, <2>2, <2>4 DEF Live
<1>6. CASE RecoverExpired
  <2>1. runs' = RunsR /\ runOf' = runOf /\ state' = StateR
    BY <1>6 DEF RecoverExpired, linkVars
  <2> QED
    BY <1>0, <2>1, RecoverySettles DEF Live
<1>7. CASE ReconcileAll
  <2>1. /\ runs' = runs /\ runOf' = runOf
        /\ \A i \in Job : ~RunTerminal(i) => state'[i] = state[i]
    BY <1>7 DEF ReconcileAll, Settled, linkVars
  <2>2. PICK i \in Job : runOf[i] = r /\ state[i] \in ActiveJob
    BY <1>2, <2>1 DEF Live
  <2>3. ~RunTerminal(i)
    BY <2>1, <2>2 DEF RunTerminal, TerminalRun
  <2> QED
    BY <2>1, <2>2, <2>3 DEF Live
<1>8. ASSUME NEW j \in Job, NEW t \in TerminalJob, AppendTerminal(j, t)
      PROVE  Live(r)'
  BY <1>2, <1>3, <1>8 DEF AppendTerminal, queueVars, linkVars
<1>9. CASE ApiCall
  <2>1. ASSUME NEW j \in Job, CancelQueued(j)
        PROVE  Live(r)'
    <3>1. /\ runs' = CancelledRuns(j) /\ runOf' = runOf
          /\ \A i \in Job \ {j} : state'[i] = state[i]
      BY <1>0, <2>1 DEF CancelQueued, linkVars, TypeOK
    <3>2. runOf[j] # r /\ runs[r] \in {"QUEUED", "RUNNING"}
      BY <1>1, <3>1 DEF CancelledRuns
    <3> QED
      BY <1>2, <3>1, <3>2 DEF Live
  <2>2. ASSUME NEW j \in Job, NEW p \in Priority, NEW t \in Schedule, Reprioritize(j, p, t)
        PROVE  Live(r)'
    BY <1>2, <1>3, <2>2 DEF Reprioritize, linkVars
  <2>3. ASSUME NEW j \in Job, NEW k, NEW p, NEW src, NEW t, NEW q \in Run, NEW m \in Budget,
               Insert(j, k, q, p, m, src, t), runs' = [runs EXCEPT ![q] = "QUEUED"]
        PROVE  Live(r)'
    <3>1. /\ state[j] = "ABSENT" /\ state'[j] = "QUEUED" /\ runOf'[j] = q
          /\ \A i \in Job \ {j} : state'[i] = state[i] /\ runOf'[i] = runOf[i]
      BY <1>0, <2>3, InsertRows
    <3>2. CASE q = r
      BY <3>1, <3>2 DEF Live, ActiveJob
    <3>3. CASE q # r
      <4>1. runs'[r] = runs[r]
        BY <1>0, <1>1, <2>3, <3>3 DEF TypeOK
      <4>2. PICK i \in Job : runOf[i] = r /\ state[i] \in ActiveJob
        BY <1>2, <4>1 DEF Live
      <4>3. i # j
        BY <3>1, <4>2 DEF ActiveJob
      <4> QED
        BY <3>1, <4>2, <4>3 DEF Live
    <3> QED
      BY <3>2, <3>3
  <2> QED
    BY <1>0, <1>9, <2>1, <2>2, <2>3, InsertCall DEF ApiCall
<1>10. CASE Holding /\ TurnCall
  <2> DEFINE j == turn.job
  <2>1. j \in Job /\ state[j] = "RUNNING" /\ runOf[j] \in Run
    BY <1>10, TurnLease
  <2>2. CASE \/ Cancel(j, turn.lease) \/ RequeueAfterPressure(j, turn.lease)
             \/ FailProduction(j, turn.lease) \/ ReconcileRun(j, turn.lease)
             \/ ~Production(j) /\ Fail(j, turn.lease, FALSE, now + RetryDelay)
    <3>1. /\ \A i \in Job \ {j} : state'[i] = state[i]
          /\ runOf' = runOf
          /\ \A q \in Run \ {runOf[j]} : runs'[q] = runs[q]
          /\ \/ state'[j] \in ActiveJob
             \/ runs'[runOf[j]] \notin {"QUEUED", "RUNNING"}
             \/ runOf[j] \notin ProductionRun
      BY <1>0, <2>1, <2>2, TurnEndsRun
    <3>2. CASE runOf[j] = r
      BY <2>1, <3>1, <3>2 DEF Live
    <3>3. CASE runOf[j] # r
      BY <1>1, <1>2, <3>1, <3>3 DEF Live
    <3> QED
      BY <3>2, <3>3
  <2>3. CASE Heartbeat(j, turn.lease) \/ AppendCheckpoint(j, turn.lease, turn.lease.gen)
    BY <1>2, <1>3, <2>3 DEF Heartbeat, AppendCheckpoint, queueVars, linkVars
  <2>4. ASSUME NEW from, StartRun(runOf[j], from)
        PROVE  Live(r)'
    <3>1. /\ runs' = [runs EXCEPT ![runOf[j]] = "RUNNING"]
          /\ state' = state /\ runOf' = runOf
      BY <2>4 DEF StartRun, queueVars, linkVars
    <3>2. CASE runOf[j] = r
      BY <2>1, <3>1, <3>2 DEF Live, ActiveJob
    <3>3. CASE runOf[j] # r
      <4>1. runs'[r] = runs[r]
        BY <1>0, <1>1, <2>1, <3>1, <3>3 DEF TypeOK
      <4> QED
        BY <1>2, <1>3, <3>1, <4>1
    <3> QED
      BY <3>2, <3>3
  <2>5. ASSUME NEW s \in TerminalRun, FinalizeRun(runOf[j], s)
        PROVE  Live(r)'
    <3>1. /\ runs' = [runs EXCEPT ![runOf[j]] = s]
          /\ state' = state /\ runOf' = runOf
      BY <2>5 DEF FinalizeRun, queueVars, linkVars
    <3>2. runOf[j] # r /\ runs'[r] = runs[r]
      BY <1>0, <1>1, <2>1, <3>1 DEF TypeOK, TerminalRun
    <3> QED
      BY <1>2, <1>3, <3>1, <3>2
  <2> QED
    BY <1>10, <2>2, <2>3, <2>4, <2>5 DEF TurnCall
<1> QED
  BY <1>4, <1>5, <1>6, <1>7, <1>8, <1>9, <1>10 DEF StoreCall
-----------------------------------------------------------------------------
(***************************************************************************)
(* The memory of the process.  EnvKept is what the other tasks leave the   *)
(* turn: a running job keeps its state and lease under every call that is  *)
(* not the turn's own, and ended jobs stay ended.                          *)
(***************************************************************************)
EnvKept ==
    \A j \in Job : state[j] = "RUNNING" => state'[j] = state[j] /\ lease'[j] = lease[j]
EndedStay == \A j \in Job : state[j] \in TerminalJob => state'[j] = state[j]

LEMMA EndedJobsStay ==
    ASSUME TypeOK, [StoreNext]_storeVars
    PROVE  EndedStay
<1> SUFFICES ASSUME NEW j \in Job, state[j] \in TerminalJob
             PROVE  state'[j] = state[j]
  BY DEF EndedStay
<1>1. RowStep(j)
  BY StepIsRowSteps
<1> QED
  BY <1>1 DEF RowStep, RowKept, RowMoved, RowRenewed, RowClosed, RowGranted, TerminalJob

\* Calls of the API, of the clock and of stream repairs leave running jobs alone.
LEMMA EnvCalls ==
    ASSUME StoreInv, Submitted,
           \/ UNCHANGED storeVars \/ Tick
           \/ \E j \in Job, t \in TerminalJob : AppendTerminal(j, t)
           \/ ApiCall
           \/ AppendCheckpoint(turn.job, turn.lease, turn.lease.gen)
           \/ \E r \in Run, from \in {ExecutionFrom, RecoveryFrom, RestartFrom} :
                 StartRun(r, from)
           \/ \E r \in Run, s \in TerminalRun : FinalizeRun(r, s)
    PROVE  EnvKept
<1>0. TypeOK
  BY DEF StoreInv
<1>1. CASE ApiCall
  <2>1. ASSUME NEW j \in Job, CancelQueued(j)
        PROVE  EnvKept
    BY <1>0, <2>1 DEF TypeOK, CancelQueued, EnvKept
  <2>2. ASSUME NEW j \in Job, NEW p \in Priority, NEW t \in Schedule, Reprioritize(j, p, t)
        PROVE  EnvKept
    BY <2>2 DEF Reprioritize, EnvKept
  <2>3. ASSUME NEW j \in Job, NEW k, NEW p, NEW src, NEW t, NEW r, NEW m,
               Insert(j, k, r, p, m, src, t)
        PROVE  EnvKept
    BY <1>0, <2>3 DEF TypeOK, Insert, EnvKept
  <2> QED
    BY <1>1, <2>1, <2>2, <2>3, InsertCall DEF ApiCall
<1>2. CASE ~ApiCall
  BY <1>2, QuietCall DEF EnvKept
<1> QED
  BY <1>1, <1>2

\* The turn after a settling transaction: it ends, or repairs the stream of a job
\* that has ended.
LEMMA SettledMemory ==
    ASSUME StoreInv, MemoryInv, EndedStay, turn.stage = "decided",
           NEW st \in {"ending", "repairing"}, NEW pl \in Plan,
           turn' = [turn EXCEPT !.stage = st, !.plan = pl],
           st = "repairing" => state'[turn.job] \in TerminalJob,
           UNCHANGED <<OtherMem, requested, pressure>>
    PROVE  MemoryInv'
<1> USE DEF MemoryInv, OtherMem
<1>0. turn \in Turn /\ turn.job \in Job
  BY DEF RuntimeTypeOK, TurnOwnsJob
<1>1. /\ turn' \in Turn /\ turn'.stage = st /\ turn'.job = turn.job
      /\ turn'.cancelled = turn.cancelled
  BY <1>0 DEF Turn, Stage
<1>2. RuntimeTypeOK'
  BY <1>1 DEF RuntimeTypeOK
<1>3. TurnShape'
  BY <1>0, <1>1 DEF TurnShape, RuntimeTypeOK, EndedStay
<1>4. TurnOwnsJob'
  BY <1>1 DEF TurnOwnsJob
<1>5. RequestReachesTurn'
  BY <1>1 DEF RequestReachesTurn, Registered
<1> QED
  BY <1>2, <1>3, <1>4, <1>5

\* Every step keeps the memory of the process as it should be; EnvKept is asked
\* of the steps whose call of the store is not about the turn.
LEMMA MemoryStep ==
    ASSUME RuntimeConstants, StoreInv, MemoryInv, EndedStay, [RuntimeNext]_vars,
           \/ EnvKept \/ StartupRecover \/ StartupReconcile \/ TakeNothing
           \/ SettleReconcile \/ SettleCancel \/ SettleRequeue
           \/ SettleProductionFailure \/ SettleQuickFailure
           \/ \E w \in Worker, j \in Job : TakeJob(w, j)
           \/ \E level \in Level : HeartbeatOk(level)
    PROVE  MemoryInv'
<1> USE DEF MemoryInv
<1>1. turn \in Turn /\ mode \in Mode
  BY DEF RuntimeTypeOK
<1>2. ASSUME Boot, EnvKept
      PROVE  MemoryInv'
  <2>1. RuntimeTypeOK'
    BY <1>1, <1>2
    DEF Boot, RuntimeTypeOK, TurnOwnsJob, TurnShape, Turn, Mode, Stage, Plan,
        RuntimeConstants
  <2>2. TurnShape'
    BY <1>1, <1>2
    DEF Boot, TurnShape, TurnOwnsJob, RuntimeTypeOK, Turn, EndedStay
  <2>3. TurnOwnsJob'
    BY <1>1, <1>2
    DEF Boot, TurnOwnsJob, TurnShape, Turn, EnvKept
  <2>4. RequestReachesTurn'
    BY <1>1, <1>2
    DEF Boot, Registered, RequestReachesTurn, Turn
  <2> QED
    BY <2>1, <2>2, <2>3, <2>4
<1>3. ASSUME StartupRecover
      PROVE  MemoryInv'
  <2>1. RuntimeTypeOK'
    <3>1. invalid' \in BOOLEAN /\ mode' \in Mode
      <4>1. CASE RecoveryCommits
        <5>1. invalid' = (CheckpointViolations # {}) /\ mode' = "RECONCILING"
          BY <1>3, <4>1 DEF StartupRecover
        <5> QED
          BY <5>1 DEF Mode
      <4>2. CASE ~RecoveryCommits
        <5>1. invalid' = invalid /\ mode' = "RECOVERY_MODE"
          BY <1>3, <4>2 DEF StartupRecover
        <5> QED
          BY <5>1 DEF Mode, RuntimeTypeOK
      <4> QED
        BY <4>1, <4>2
    <3> QED
      BY <1>3, <3>1 DEF StartupRecover, RuntimeTypeOK
  <2>2. TurnShape'
    BY <1>1, <1>3
    DEF StartupRecover, TurnShape, TurnOwnsJob, RuntimeTypeOK, Turn, EndedStay
  <2>3. TurnOwnsJob'
    BY <1>1, <1>3
    DEF StartupRecover, TurnOwnsJob, TurnShape, Turn
  <2>4. RequestReachesTurn'
    BY <1>1, <1>3
    DEF StartupRecover, Registered, RequestReachesTurn, Turn
  <2> QED
    BY <2>1, <2>2, <2>3, <2>4
<1>4. ASSUME StartupReconcile
      PROVE  MemoryInv'
  <2>1. RuntimeTypeOK'
    <3>1. /\ repairs' = Settled \/ repairs' = repairs
          /\ mode' = "REPAIRING" \/ mode' = "RECOVERY_MODE"
          /\ UNCHANGED <<turn, requested, cancelling, shutdown, pressure, invalid>>
      BY <1>4 DEF StartupReconcile
    <3> QED
      BY <3>1 DEF RuntimeTypeOK, Mode, Settled
  <2>2. TurnShape'
    <3>1. turn' = turn /\ turn.stage = "idle"
      BY <1>4 DEF StartupReconcile, TurnShape
    <3>2. \A j \in repairs' : state'[j] \in TerminalJob
      <4>1. CASE \A j \in Settled : Reconcilable(j)
        <5>1. repairs' = Settled /\ ReconcileAll
          BY <1>4, <4>1 DEF StartupReconcile
        <5>2. ASSUME NEW j \in Settled
              PROVE  state'[j] \in TerminalJob
          <6>1. j \in Job /\ ReconciledState(runs[runOf[j]]) \in TerminalJob
            BY ReconciledType DEF Settled, RunTerminal
          <6> QED
            BY <4>1, <5>1, <6>1 DEF ReconcileAll, Reconcilable
        <5> QED
          BY <5>1, <5>2
      <4>2. CASE ~ \A j \in Settled : Reconcilable(j)
        <5>1. repairs' = repairs /\ state' = state
          BY <1>4, <4>2 DEF StartupReconcile, storeVars, queueVars
        <5> QED
          BY <5>1 DEF TurnShape
      <4> QED
        BY <4>1, <4>2
    <3> QED
      BY <3>1, <3>2 DEF TurnShape
  <2>3. TurnOwnsJob'
    BY <1>1, <1>4
    DEF StartupReconcile, TurnOwnsJob, TurnShape, Turn
  <2>4. RequestReachesTurn'
    BY <1>1, <1>4
    DEF StartupReconcile, Registered, RequestReachesTurn, Turn
  <2> QED
    BY <2>1, <2>2, <2>3, <2>4
<1>5. ASSUME StartupServe, EnvKept
      PROVE  MemoryInv'
  <2>1. RuntimeTypeOK'
    BY <1>1, <1>5
    DEF StartupServe, RuntimeTypeOK, TurnOwnsJob, TurnShape, Turn, Mode, Stage,
        Plan, RuntimeConstants
  <2>2. TurnShape'
    BY <1>1, <1>5
    DEF StartupServe, TurnShape, TurnOwnsJob, RuntimeTypeOK, Turn, EndedStay
  <2>3. TurnOwnsJob'
    BY <1>1, <1>5
    DEF StartupServe, TurnOwnsJob, TurnShape, Turn, EnvKept
  <2>4. RequestReachesTurn'
    BY <1>1, <1>5
    DEF StartupServe, Registered, RequestReachesTurn, Turn
  <2> QED
    BY <2>1, <2>2, <2>3, <2>4
<1>6. ASSUME NEW j \in Job, StartupRepair(j), EnvKept
      PROVE  MemoryInv'
  <2>1. RuntimeTypeOK'
    BY <1>1, <1>6
    DEF StartupRepair, RuntimeTypeOK, TurnOwnsJob, TurnShape, Turn, Mode, Stage,
        Plan, RuntimeConstants
  <2>2. TurnShape'
    BY <1>1, <1>6
    DEF StartupRepair, TurnShape, TurnOwnsJob, RuntimeTypeOK, Turn, EndedStay
  <2>3. TurnOwnsJob'
    BY <1>1, <1>6
    DEF StartupRepair, TurnOwnsJob, TurnShape, Turn, EnvKept
  <2>4. RequestReachesTurn'
    BY <1>1, <1>6
    DEF StartupRepair, Registered, RequestReachesTurn, Turn
  <2> QED
    BY <2>1, <2>2, <2>3, <2>4
<1>7. ASSUME NEW level \in Level, Poll(level), EnvKept
      PROVE  MemoryInv'
  <2>1. RuntimeTypeOK'
    BY <1>1, <1>7
    DEF Poll, OtherMem, RuntimeTypeOK, TurnOwnsJob, TurnShape, Turn, Mode, Stage,
        Plan, RuntimeConstants
  <2>2. TurnShape'
    BY <1>1, <1>7
    DEF Poll, OtherMem, TurnShape, TurnOwnsJob, RuntimeTypeOK, Turn, EndedStay
  <2>3. TurnOwnsJob'
    BY <1>1, <1>7
    DEF Poll, OtherMem, TurnOwnsJob, TurnShape, Turn, EnvKept
  <2>4. RequestReachesTurn'
    BY <1>1, <1>7
    DEF Poll, OtherMem, Registered, RequestReachesTurn, Turn
  <2> QED
    BY <2>1, <2>2, <2>3, <2>4
<1>8. ASSUME NEW level \in Level, RefreshPressure(level), EnvKept
      PROVE  MemoryInv'
  <2>1. RuntimeTypeOK'
    BY <1>1, <1>8
    DEF RefreshPressure, Observe, Registered, RuntimeTypeOK, TurnOwnsJob,
        TurnShape, Turn, Mode, Stage, Plan, RuntimeConstants
  <2>2. TurnShape'
    BY <1>1, <1>8
    DEF RefreshPressure, Observe, Registered, TurnShape, TurnOwnsJob,
        RuntimeTypeOK, Turn, EndedStay
  <2>3. TurnOwnsJob'
    BY <1>1, <1>8
    DEF RefreshPressure, Observe, Registered, TurnOwnsJob, TurnShape, Turn,
        EnvKept
  <2>4. RequestReachesTurn'
    BY <1>1, <1>8
    DEF RefreshPressure, Observe, Registered, RequestReachesTurn, Turn
  <2> QED
    BY <2>1, <2>2, <2>3, <2>4
<1>9. ASSUME NEW level \in Level, HeartbeatOk(level)
      PROVE  MemoryInv'
  <2>1. RuntimeTypeOK'
    <3>1. turn.job \in Job /\ turn.lease \in Lease
      BY <1>9
      DEF HeartbeatOk, InHandler, TurnOwnsJob, StoreInv, TypeOK, RowConsistent, LeaseConsistent
    <3>2. Renewed(turn.lease) \in Lease
      BY <3>1, StoreAssumption DEF Lease, Renewed, StoreInv, TypeOK
    <3>3. turn' \in Turn
      BY <1>1, <1>9, <3>2 DEF HeartbeatOk, Turn
    <3> QED
      BY <1>9, <3>3 DEF HeartbeatOk, OtherMem, RuntimeTypeOK
  <2>2. TurnShape'
    BY <1>1, <1>9
    DEF HeartbeatOk, OtherMem, InHandler, TurnShape, TurnOwnsJob, RuntimeTypeOK,
        Turn, EndedStay
  <2>3. TurnOwnsJob'
    <3>1. turn.job \in Job /\ state[turn.job] = "RUNNING"
      BY <1>9 DEF HeartbeatOk, InHandler, TurnOwnsJob
    <3>2. /\ turn'.job = turn.job /\ turn'.stage = turn.stage
          /\ turn'.lease = Renewed(turn.lease)
      BY <1>1, <1>9 DEF HeartbeatOk, Turn
    <3>3. state'[turn.job] = "RUNNING" /\ lease'[turn.job] = Renewed(turn.lease)
      BY <1>9, <3>1 DEF HeartbeatOk, Heartbeat, StoreInv, TypeOK
    <3> QED
      BY <3>1, <3>2, <3>3 DEF TurnOwnsJob
  <2>4. RequestReachesTurn'
    BY <1>1, <1>9
    DEF HeartbeatOk, OtherMem, InHandler, Registered, RequestReachesTurn, Turn
  <2> QED
    BY <2>1, <2>2, <2>3, <2>4
<1>10. ASSUME HeartbeatLost, EnvKept
      PROVE  MemoryInv'
  <2>1. RuntimeTypeOK'
    BY <1>1, <1>10
    DEF HeartbeatLost, OtherMem, InHandler, RuntimeTypeOK, TurnOwnsJob, TurnShape,
        Turn, Mode, Stage, Plan, RuntimeConstants
  <2>2. TurnShape'
    BY <1>1, <1>10
    DEF HeartbeatLost, OtherMem, InHandler, TurnShape, TurnOwnsJob, RuntimeTypeOK,
        Turn, EndedStay
  <2>3. TurnOwnsJob'
    BY <1>1, <1>10
    DEF HeartbeatLost, OtherMem, InHandler, TurnOwnsJob, TurnShape, Turn, EnvKept
  <2>4. RequestReachesTurn'
    BY <1>1, <1>10
    DEF HeartbeatLost, OtherMem, InHandler, Registered, RequestReachesTurn, Turn
  <2> QED
    BY <2>1, <2>2, <2>3, <2>4
<1>11. ASSUME NEW w \in Worker, NEW j \in Job, TakeJob(w, j)
      PROVE  MemoryInv'
  <2>1. RuntimeTypeOK'
    <3>1. NewLease(w, j) \in Lease
      BY StoreAssumption DEF NewLease, Lease, StoreInv, TypeOK
    <3>2. turn' \in Turn
      BY <1>1, <1>11, <3>1 DEF TakeJob, Turn, Stage
    <3> QED
      BY <1>11, <3>2 DEF TakeJob, OtherMem, RuntimeTypeOK
  <2>2. TurnShape'
    BY <1>1, <1>11
    DEF TakeJob, OtherMem, TurnShape, TurnOwnsJob, RuntimeTypeOK, Turn, EndedStay
  <2>3. TurnOwnsJob'
    <3>1. turn'.job = j /\ turn'.lease = NewLease(w, j)
      BY <1>1, <1>11 DEF TakeJob, Turn
    <3>2. state'[j] = "RUNNING" /\ lease'[j] = NewLease(w, j)
      BY <1>11, RecoveryType DEF TakeJob, Acquire, StoreInv
    <3> QED
      BY <3>1, <3>2 DEF TurnOwnsJob
  <2>4. RequestReachesTurn'
    BY <1>1, <1>11
    DEF TakeJob, OtherMem, Registered, RequestReachesTurn, Turn
  <2> QED
    BY <2>1, <2>2, <2>3, <2>4
<1>12. ASSUME TakeNothing
      PROVE  MemoryInv'
  <2>1. RuntimeTypeOK'
    <3>1. turn' = NoTurn \/ turn' = [turn EXCEPT !.stage = "dead"]
      BY <1>12 DEF TakeNothing
    <3>2. NoTurn \in Turn
      BY DEF NoTurn, Turn, Stage, Plan
    <3>3. [turn EXCEPT !.stage = "dead"] \in Turn
      BY <1>1 DEF Turn, Stage
    <3> QED
      BY <1>12, <3>1, <3>2, <3>3 DEF TakeNothing, OtherMem, RuntimeTypeOK
  <2>2. TurnShape'
    BY <1>1, <1>12
    DEF TakeNothing, OtherMem, NoTurn, TurnShape, TurnOwnsJob, RuntimeTypeOK,
        Turn, EndedStay
  <2>3. TurnOwnsJob'
    BY <1>1, <1>12
    DEF TakeNothing, OtherMem, NoTurn, TurnOwnsJob, TurnShape, Turn
  <2>4. RequestReachesTurn'
    BY <1>1, <1>12
    DEF TakeNothing, OtherMem, NoTurn, Registered, RequestReachesTurn, Turn
  <2> QED
    BY <2>1, <2>2, <2>3, <2>4
<1>13. ASSUME Register, EnvKept
      PROVE  MemoryInv'
  <2>1. RuntimeTypeOK'
    BY <1>1, <1>13
    DEF Register, OtherMem, RuntimeTypeOK, TurnOwnsJob, TurnShape, Turn, Mode,
        Stage, Plan, RuntimeConstants
  <2>2. TurnShape'
    BY <1>1, <1>13
    DEF Register, OtherMem, TurnShape, TurnOwnsJob, RuntimeTypeOK, Turn, EndedStay
  <2>3. TurnOwnsJob'
    BY <1>1, <1>13
    DEF Register, OtherMem, TurnOwnsJob, TurnShape, Turn, EnvKept
  <2>4. RequestReachesTurn'
    BY <1>1, <1>13
    DEF Register, OtherMem, Registered, RequestReachesTurn, Turn
  <2> QED
    BY <2>1, <2>2, <2>3, <2>4
<1>14. ASSUME Decide, EnvKept
      PROVE  MemoryInv'
  <2>1. RuntimeTypeOK'
    BY <1>1, <1>14
    DEF Decide, OtherMem, RuntimeTypeOK, TurnOwnsJob, TurnShape, Turn, Mode,
        Stage, Plan, RuntimeConstants
  <2>2. TurnShape'
    BY <1>1, <1>14
    DEF Decide, OtherMem, TurnShape, TurnOwnsJob, RuntimeTypeOK, Turn, EndedStay
  <2>3. TurnOwnsJob'
    BY <1>1, <1>14
    DEF Decide, OtherMem, TurnOwnsJob, TurnShape, Turn, EnvKept
  <2>4. RequestReachesTurn'
    BY <1>1, <1>14
    DEF Decide, OtherMem, Registered, RequestReachesTurn, Turn
  <2> QED
    BY <2>1, <2>2, <2>3, <2>4
<1>15. ASSUME Release, EnvKept
      PROVE  MemoryInv'
  <2>1. RuntimeTypeOK'
    BY <1>1, <1>15
    DEF Release, OtherMem, NoTurn, RuntimeTypeOK, TurnOwnsJob, TurnShape, Turn,
        Mode, Stage, Plan, RuntimeConstants
  <2>2. TurnShape'
    BY <1>1, <1>15
    DEF Release, OtherMem, NoTurn, TurnShape, TurnOwnsJob, RuntimeTypeOK, Turn,
        EndedStay
  <2>3. TurnOwnsJob'
    BY <1>1, <1>15
    DEF Release, OtherMem, NoTurn, TurnOwnsJob, TurnShape, Turn, EnvKept
  <2>4. RequestReachesTurn'
    BY <1>1, <1>15
    DEF Release, OtherMem, NoTurn, Registered, RequestReachesTurn, Turn
  <2> QED
    BY <2>1, <2>2, <2>3, <2>4
<1>16. ASSUME HandlerMark, EnvKept
      PROVE  MemoryInv'
  <2>1. RuntimeTypeOK'
    BY <1>1, <1>16
    DEF HandlerMark, memVars, RuntimeTypeOK, TurnOwnsJob, TurnShape, Turn, Mode,
        Stage, Plan, RuntimeConstants
  <2>2. TurnShape'
    BY <1>1, <1>16
    DEF HandlerMark, memVars, TurnShape, TurnOwnsJob, RuntimeTypeOK, Turn,
        EndedStay
  <2>3. TurnOwnsJob'
    BY <1>1, <1>16
    DEF HandlerMark, memVars, TurnOwnsJob, TurnShape, Turn, EnvKept
  <2>4. RequestReachesTurn'
    BY <1>1, <1>16
    DEF HandlerMark, memVars, Registered, RequestReachesTurn, Turn
  <2> QED
    BY <2>1, <2>2, <2>3, <2>4
<1>17. ASSUME HandlerStart, EnvKept
      PROVE  MemoryInv'
  <2>1. RuntimeTypeOK'
    BY <1>1, <1>17
    DEF HandlerStart, OtherMem, RuntimeTypeOK, TurnOwnsJob, TurnShape, Turn, Mode,
        Stage, Plan, RuntimeConstants
  <2>2. TurnShape'
    BY <1>1, <1>17
    DEF HandlerStart, OtherMem, TurnShape, TurnOwnsJob, RuntimeTypeOK, Turn,
        EndedStay
  <2>3. TurnOwnsJob'
    BY <1>1, <1>17
    DEF HandlerStart, OtherMem, TurnOwnsJob, TurnShape, Turn, EnvKept
  <2>4. RequestReachesTurn'
    BY <1>1, <1>17
    DEF HandlerStart, OtherMem, Registered, RequestReachesTurn, Turn
  <2> QED
    BY <2>1, <2>2, <2>3, <2>4
<1>18. ASSUME HandlerTerminal, EnvKept
      PROVE  MemoryInv'
  <2>1. RuntimeTypeOK'
    BY <1>1, <1>18
    DEF HandlerTerminal, OtherMem, RuntimeTypeOK, TurnOwnsJob, TurnShape, Turn,
        Mode, Stage, Plan, RuntimeConstants
  <2>2. TurnShape'
    BY <1>1, <1>18
    DEF HandlerTerminal, OtherMem, TurnShape, TurnOwnsJob, RuntimeTypeOK, Turn,
        EndedStay
  <2>3. TurnOwnsJob'
    BY <1>1, <1>18
    DEF HandlerTerminal, OtherMem, TurnOwnsJob, TurnShape, Turn, EnvKept
  <2>4. RequestReachesTurn'
    BY <1>1, <1>18
    DEF HandlerTerminal, OtherMem, Registered, RequestReachesTurn, Turn
  <2> QED
    BY <2>1, <2>2, <2>3, <2>4
<1>19. ASSUME NEW last \in BOOLEAN, HandlerCheckpoint(last), EnvKept
      PROVE  MemoryInv'
  <2>1. RuntimeTypeOK'
    BY <1>1, <1>19
    DEF HandlerCheckpoint, OtherMem, RuntimeTypeOK, TurnOwnsJob, TurnShape, Turn,
        Mode, Stage, Plan, RuntimeConstants
  <2>2. TurnShape'
    BY <1>1, <1>19
    DEF HandlerCheckpoint, OtherMem, TurnShape, TurnOwnsJob, RuntimeTypeOK, Turn,
        EndedStay
  <2>3. TurnOwnsJob'
    BY <1>1, <1>19
    DEF HandlerCheckpoint, OtherMem, TurnOwnsJob, TurnShape, Turn, EnvKept
  <2>4. RequestReachesTurn'
    BY <1>1, <1>19
    DEF HandlerCheckpoint, OtherMem, Registered, RequestReachesTurn, Turn
  <2> QED
    BY <2>1, <2>2, <2>3, <2>4
<1>20. ASSUME NEW s \in TerminalRun, HandlerFinalize(s), EnvKept
      PROVE  MemoryInv'
  <2>1. RuntimeTypeOK'
    BY <1>1, <1>20
    DEF HandlerFinalize, OtherMem, AtBoundary, RuntimeTypeOK, TurnOwnsJob,
        TurnShape, Turn, Mode, Stage, Plan, RuntimeConstants
  <2>2. TurnShape'
    BY <1>1, <1>20
    DEF HandlerFinalize, OtherMem, AtBoundary, TurnShape, TurnOwnsJob,
        RuntimeTypeOK, Turn, EndedStay
  <2>3. TurnOwnsJob'
    BY <1>1, <1>20
    DEF HandlerFinalize, OtherMem, AtBoundary, TurnOwnsJob, TurnShape, Turn,
        EnvKept
  <2>4. RequestReachesTurn'
    BY <1>1, <1>20
    DEF HandlerFinalize, OtherMem, AtBoundary, Registered, RequestReachesTurn,
        Turn
  <2> QED
    BY <2>1, <2>2, <2>3, <2>4
<1>21. ASSUME HandlerReturn, EnvKept
      PROVE  MemoryInv'
  <2>1. RuntimeTypeOK'
    BY <1>1, <1>21
    DEF HandlerReturn, OtherMem, InHandler, RuntimeTypeOK, TurnOwnsJob, TurnShape,
        Turn, Mode, Stage, Plan, RuntimeConstants
  <2>2. TurnShape'
    BY <1>1, <1>21
    DEF HandlerReturn, OtherMem, InHandler, TurnShape, TurnOwnsJob, RuntimeTypeOK,
        Turn, EndedStay
  <2>3. TurnOwnsJob'
    BY <1>1, <1>21
    DEF HandlerReturn, OtherMem, InHandler, TurnOwnsJob, TurnShape, Turn, EnvKept
  <2>4. RequestReachesTurn'
    BY <1>1, <1>21
    DEF HandlerReturn, OtherMem, InHandler, Registered, RequestReachesTurn, Turn
  <2> QED
    BY <2>1, <2>2, <2>3, <2>4
<1>22. ASSUME RepairTurn, EnvKept
      PROVE  MemoryInv'
  <2>1. RuntimeTypeOK'
    BY <1>1, <1>22
    DEF RepairTurn, OtherMem, Ending, RuntimeTypeOK, TurnOwnsJob, TurnShape, Turn,
        Mode, Stage, Plan, RuntimeConstants
  <2>2. TurnShape'
    BY <1>1, <1>22
    DEF RepairTurn, OtherMem, Ending, TurnShape, TurnOwnsJob, RuntimeTypeOK, Turn,
        EndedStay
  <2>3. TurnOwnsJob'
    BY <1>1, <1>22
    DEF RepairTurn, OtherMem, Ending, TurnOwnsJob, TurnShape, Turn, EnvKept
  <2>4. RequestReachesTurn'
    BY <1>1, <1>22
    DEF RepairTurn, OtherMem, Ending, Registered, RequestReachesTurn, Turn
  <2> QED
    BY <2>1, <2>2, <2>3, <2>4
<1>23. ASSUME Shutdown, EnvKept
      PROVE  MemoryInv'
  <2>1. RuntimeTypeOK'
    BY <1>1, <1>23
    DEF Shutdown, Registered, RuntimeTypeOK, TurnOwnsJob, TurnShape, Turn, Mode,
        Stage, Plan, RuntimeConstants
  <2>2. TurnShape'
    BY <1>1, <1>23
    DEF Shutdown, Registered, TurnShape, TurnOwnsJob, RuntimeTypeOK, Turn,
        EndedStay
  <2>3. TurnOwnsJob'
    BY <1>1, <1>23
    DEF Shutdown, Registered, TurnOwnsJob, TurnShape, Turn, EnvKept
  <2>4. RequestReachesTurn'
    BY <1>1, <1>23
    DEF Shutdown, Registered, RequestReachesTurn, Turn
  <2> QED
    BY <2>1, <2>2, <2>3, <2>4
<1>24. ASSUME Crash, EnvKept
      PROVE  MemoryInv'
  <2>1. RuntimeTypeOK'
    BY <1>1, <1>24
    DEF Crash, NoTurn, RuntimeTypeOK, TurnOwnsJob, TurnShape, Turn, Mode, Stage,
        Plan, RuntimeConstants
  <2>2. TurnShape'
    BY <1>1, <1>24
    DEF Crash, NoTurn, TurnShape, TurnOwnsJob, RuntimeTypeOK, Turn, EndedStay
  <2>3. TurnOwnsJob'
    BY <1>1, <1>24
    DEF Crash, NoTurn, TurnOwnsJob, TurnShape, Turn, EnvKept
  <2>4. RequestReachesTurn'
    BY <1>1, <1>24
    DEF Crash, NoTurn, Registered, RequestReachesTurn, Turn
  <2> QED
    BY <2>1, <2>2, <2>3, <2>4
<1>25. ASSUME NEW j \in Job, NEW r \in Run, NEW p \in Priority, NEW m \in Budget, Submit(j, r, p, m), EnvKept
      PROVE  MemoryInv'
  <2>1. RuntimeTypeOK'
    BY <1>1, <1>25
    DEF Submit, memVars, RuntimeTypeOK, TurnOwnsJob, TurnShape, Turn, Mode, Stage,
        Plan, RuntimeConstants
  <2>2. TurnShape'
    BY <1>1, <1>25
    DEF Submit, memVars, TurnShape, TurnOwnsJob, RuntimeTypeOK, Turn, EndedStay
  <2>3. TurnOwnsJob'
    BY <1>1, <1>25
    DEF Submit, memVars, TurnOwnsJob, TurnShape, Turn, EnvKept
  <2>4. RequestReachesTurn'
    BY <1>1, <1>25
    DEF Submit, memVars, Registered, RequestReachesTurn, Turn
  <2> QED
    BY <2>1, <2>2, <2>3, <2>4
<1>26. ASSUME NEW j \in Job, RequestCancel(j), EnvKept
      PROVE  MemoryInv'
  <2>1. RuntimeTypeOK'
    BY <1>1, <1>26
    DEF RequestCancel, Registered, RuntimeTypeOK, TurnOwnsJob, TurnShape, Turn,
        Mode, Stage, Plan, RuntimeConstants
  <2>2. TurnShape'
    BY <1>1, <1>26
    DEF RequestCancel, Registered, TurnShape, TurnOwnsJob, RuntimeTypeOK, Turn,
        EndedStay
  <2>3. TurnOwnsJob'
    BY <1>1, <1>26
    DEF RequestCancel, Registered, TurnOwnsJob, TurnShape, Turn, EnvKept
  <2>4. RequestReachesTurn'
    BY <1>1, <1>26
    DEF RequestCancel, Registered, RequestReachesTurn, Turn
  <2> QED
    BY <2>1, <2>2, <2>3, <2>4
<1>27. ASSUME NEW j \in Job, FinishCancel(j), EnvKept
      PROVE  MemoryInv'
  <2>1. RuntimeTypeOK'
    BY <1>1, <1>27
    DEF FinishCancel, RuntimeTypeOK, TurnOwnsJob, TurnShape, Turn, Mode, Stage,
        Plan, RuntimeConstants
  <2>2. TurnShape'
    BY <1>1, <1>27
    DEF FinishCancel, TurnShape, TurnOwnsJob, RuntimeTypeOK, Turn, EndedStay
  <2>3. TurnOwnsJob'
    BY <1>1, <1>27
    DEF FinishCancel, TurnOwnsJob, TurnShape, Turn, EnvKept
  <2>4. RequestReachesTurn'
    BY <1>1, <1>27
    DEF FinishCancel, Registered, RequestReachesTurn, Turn
  <2> QED
    BY <2>1, <2>2, <2>3, <2>4
<1>28. ASSUME NEW src \in Job, NEW j \in Job, RecoverJob(src, j), EnvKept
      PROVE  MemoryInv'
  <2>1. RuntimeTypeOK'
    BY <1>1, <1>28
    DEF RecoverJob, memVars, RuntimeTypeOK, TurnOwnsJob, TurnShape, Turn, Mode,
        Stage, Plan, RuntimeConstants
  <2>2. TurnShape'
    BY <1>1, <1>28
    DEF RecoverJob, memVars, TurnShape, TurnOwnsJob, RuntimeTypeOK, Turn,
        EndedStay
  <2>3. TurnOwnsJob'
    BY <1>1, <1>28
    DEF RecoverJob, memVars, TurnOwnsJob, TurnShape, Turn, EnvKept
  <2>4. RequestReachesTurn'
    BY <1>1, <1>28
    DEF RecoverJob, memVars, Registered, RequestReachesTurn, Turn
  <2> QED
    BY <2>1, <2>2, <2>3, <2>4
<1>29. ASSUME NEW j \in Job, NEW p \in Priority, NEW t \in Schedule, ChangePriority(j, p, t), EnvKept
      PROVE  MemoryInv'
  <2>1. RuntimeTypeOK'
    BY <1>1, <1>29
    DEF ChangePriority, memVars, RuntimeTypeOK, TurnOwnsJob, TurnShape, Turn,
        Mode, Stage, Plan, RuntimeConstants
  <2>2. TurnShape'
    BY <1>1, <1>29
    DEF ChangePriority, memVars, TurnShape, TurnOwnsJob, RuntimeTypeOK, Turn,
        EndedStay
  <2>3. TurnOwnsJob'
    BY <1>1, <1>29
    DEF ChangePriority, memVars, TurnOwnsJob, TurnShape, Turn, EnvKept
  <2>4. RequestReachesTurn'
    BY <1>1, <1>29
    DEF ChangePriority, memVars, Registered, RequestReachesTurn, Turn
  <2> QED
    BY <2>1, <2>2, <2>3, <2>4
<1>30. ASSUME TimePasses, EnvKept
      PROVE  MemoryInv'
  <2>1. RuntimeTypeOK'
    BY <1>1, <1>30
    DEF TimePasses, memVars, RuntimeTypeOK, TurnOwnsJob, TurnShape, Turn, Mode,
        Stage, Plan, RuntimeConstants
  <2>2. TurnShape'
    BY <1>1, <1>30
    DEF TimePasses, memVars, TurnShape, TurnOwnsJob, RuntimeTypeOK, Turn,
        EndedStay
  <2>3. TurnOwnsJob'
    BY <1>1, <1>30
    DEF TimePasses, memVars, TurnOwnsJob, TurnShape, Turn, EnvKept
  <2>4. RequestReachesTurn'
    BY <1>1, <1>30
    DEF TimePasses, memVars, Registered, RequestReachesTurn, Turn
  <2> QED
    BY <2>1, <2>2, <2>3, <2>4
<1>31. CASE SettleReconcile
  <2>1. turn.stage = "decided" /\ UNCHANGED <<OtherMem, requested, pressure>>
    BY <1>31 DEF SettleReconcile, Settle
  <2>2. \/ \E pl \in Plan : turn' = Ending(pl)
        \/ turn' = Repairing("retire") /\ ReconcileRun(turn.job, turn.lease)
    BY <1>31 DEF SettleReconcile, Settle, Plan
  <2>3. turn.job \in Job /\ state[turn.job] = "RUNNING"
    BY <2>1 DEF TurnOwnsJob
  <2>4. ASSUME ReconcileRun(turn.job, turn.lease)
        PROVE  state'[turn.job] \in TerminalJob
    <3>1. ReconciledState(runs[runOf[turn.job]]) \in TerminalJob
      BY <2>4, ReconciledType DEF ReconcileRun, RunTerminal
    <3> QED
      BY <2>3, <2>4, <3>1 DEF ReconcileRun, Close, StoreInv, TypeOK
  <2> QED
    BY <2>1, <2>2, <2>4, SettledMemory DEF Ending, Repairing, Plan
<1>32. CASE SettleCancel
  <2>1. turn.stage = "decided" /\ UNCHANGED <<OtherMem, requested, pressure>>
    BY <1>32 DEF SettleCancel, Settle
  <2>2. \E pl \in Plan : turn' = Ending(pl)
    BY <1>32 DEF SettleCancel, Settle, Plan
  <2> QED
    BY <2>1, <2>2, SettledMemory DEF Ending
<1>33. CASE SettleRequeue
  <2>1. turn.stage = "decided" /\ UNCHANGED <<OtherMem, requested, pressure>>
    BY <1>33 DEF SettleRequeue, Settle
  <2>2. \/ \E pl \in Plan : turn' = Ending(pl)
        \/ /\ turn' = Repairing("keep") /\ RunTerminal(turn.job)
           /\ RequeueAfterPressure(turn.job, turn.lease)
    BY <1>33 DEF SettleRequeue, Settle, Plan
  <2>3. turn.job \in Job /\ state[turn.job] = "RUNNING"
    BY <2>1 DEF TurnOwnsJob
  <2>4. ASSUME RequeueAfterPressure(turn.job, turn.lease), RunTerminal(turn.job)
        PROVE  state'[turn.job] \in TerminalJob
    <3>1. PressureDecision(turn.job) \in TerminalJob
      BY <2>4, ReconciledType DEF PressureDecision, RunTerminal
    <3>2. \E o : Close(turn.job, turn.lease, PressureDecision(turn.job), o)
      BY <2>4 DEF RequeueAfterPressure
    <3> QED
      BY <2>3, <3>1, <3>2, CloseRow DEF StoreInv
  <2> QED
    BY <2>1, <2>2, <2>4, SettledMemory DEF Ending, Repairing, Plan
<1>34. CASE SettleProductionFailure
  <2>1. turn.stage = "decided" /\ UNCHANGED <<OtherMem, requested, pressure>>
    BY <1>34 DEF SettleProductionFailure, Settle
  <2>2. \E pl \in Plan : turn' = Ending(pl)
    BY <1>34 DEF SettleProductionFailure, Settle, Plan
  <2> QED
    BY <2>1, <2>2, SettledMemory DEF Ending
<1>35. CASE SettleQuickFailure
  <2>1. turn.stage = "decided" /\ UNCHANGED <<OtherMem, requested, pressure>>
    BY <1>35 DEF SettleQuickFailure, Settle
  <2>2. \E pl \in Plan : turn' = Ending(pl)
    BY <1>35 DEF SettleQuickFailure, Settle, Plan
  <2> QED
    BY <2>1, <2>2, SettledMemory DEF Ending
<1>36. CASE UNCHANGED vars
  BY <1>36
  DEF vars, storeVars, queueVars, memVars, RuntimeTypeOK, TurnShape, TurnOwnsJob,
      RequestReachesTurn, Registered
<1> HIDE DEF MemoryInv
<1>37. CASE EnvKept
  BY <1>2, <1>3, <1>4, <1>5, <1>6, <1>7, <1>8, <1>9, <1>10, <1>11, <1>12, <1>13,
     <1>14, <1>15, <1>16, <1>17, <1>18, <1>19, <1>20, <1>21, <1>22, <1>23, <1>24,
     <1>25, <1>26, <1>27, <1>28, <1>29, <1>30, <1>31, <1>32, <1>33, <1>34, <1>35,
     <1>36, <1>37
  DEF RuntimeNext, StartupStep, WorkerStep, HandlerStep, ApiStep
<1> QED
  BY <1>37, <1>3, <1>4, <1>12, <1>31, <1>32, <1>33, <1>34, <1>35, <1>11, <1>9

\* A step whose call of the store is not the turn's own leaves running jobs
\* alone.
LEMMA StepKeepsRunning ==
    ASSUME RuntimeConstants, RuntimeBounds, RuntimeInv, [RuntimeNext]_vars
    PROVE  \/ EnvKept \/ StartupRecover \/ StartupReconcile \/ TakeNothing
           \/ SettleReconcile \/ SettleCancel \/ SettleRequeue
           \/ SettleProductionFailure \/ SettleQuickFailure
           \/ \E w \in Worker, j \in Job : TakeJob(w, j)
           \/ \E level \in Level : HeartbeatOk(level)
<1>0. StoreInv /\ Submitted
  BY DEF RuntimeInv
<1>1. ASSUME UNCHANGED storeVars
      PROVE  EnvKept
  BY <1>0, <1>1, EnvCalls
<1>2. ASSUME ApiCall
      PROVE  EnvKept
  BY <1>0, <1>2, EnvCalls
<1>3. ASSUME NEW j \in Job, NEW t, t \in TerminalJob, RepairStream(j, t)
      PROVE  EnvKept
  BY <1>0, <1>3, EnvCalls DEF RepairStream
<1>4. CASE StartupStep /\ ~StartupRecover /\ ~StartupReconcile
  <2>1. CASE Boot \/ StartupServe
    BY <1>1, <2>1 DEF Boot, StartupServe
  <2>2. ASSUME NEW j \in Job, StartupRepair(j)
        PROVE  EnvKept
    <3>1. state[j] \in TerminalJob /\ RepairStream(j, state[j])
      BY <2>2 DEF StartupRepair, RuntimeInv, MemoryInv, TurnShape
    <3> QED
      BY <1>3, <3>1
  <2> QED
    BY <1>4, <2>1, <2>2 DEF StartupStep
<1>5. ASSUME NEW level \in Level, Poll(level) \/ RefreshPressure(level)
      PROVE  EnvKept
  BY <1>1, <1>5 DEF Poll, RefreshPressure
<1>6. CASE Register \/ Decide \/ Release
  BY <1>1, <1>6 DEF Register, Decide, Release
<1>7. CASE RepairTurn
  <2>1. turn.job \in Job /\ state[turn.job] \in TerminalJob /\ RepairStream(turn.job, state[turn.job])
    BY <1>7 DEF RepairTurn, RuntimeInv, MemoryInv, TurnShape
  <2> QED
    BY <1>3, <2>1
<1>8. CASE HandlerStep
  <2>1. turn.job \in Job /\ runOf[turn.job] \in Run
    BY <1>8, TurnLease
    DEF HandlerStep, HandlerMark, HandlerStart, HandlerTerminal, HandlerCheckpoint,
        HandlerFinalize, AtBoundary, Holding
  <2>2. CASE HandlerMark
    BY <1>0, <2>2, EnvCalls DEF HandlerMark
  <2>3. CASE HandlerStart
    BY <1>0, <2>1, <2>3, StartsFrom, EnvCalls DEF HandlerStart
  <2>4. CASE HandlerTerminal
    <3>1. turn.commit \in TerminalRun
      BY <2>4 DEF HandlerTerminal, RuntimeInv, MemoryInv, TurnShape
    <3> QED
      BY <1>0, <2>1, <2>4, <3>1, ReconciledType, EnvCalls DEF HandlerTerminal
  <2>5. ASSUME NEW last \in BOOLEAN, HandlerCheckpoint(last)
        PROVE  EnvKept
    BY <1>0, <2>5, EnvCalls DEF HandlerCheckpoint
  <2>6. ASSUME NEW t \in TerminalRun, HandlerFinalize(t)
        PROVE  EnvKept
    BY <1>0, <2>1, <2>6, EnvCalls DEF HandlerFinalize
  <2> QED
    BY <1>8, <2>2, <2>3, <2>4, <2>5, <2>6 DEF HandlerStep
<1>9. CASE HandlerReturn \/ HeartbeatLost \/ Shutdown \/ Crash
  BY <1>1, <1>9 DEF HandlerReturn, HeartbeatLost, Shutdown, Crash
<1>10. CASE TimePasses
  BY <1>0, <1>10, EnvCalls DEF TimePasses
<1>11. ASSUME NEW j \in Job, ApiStep(j)
       PROVE  EnvKept
  <2>1. ASSUME NEW r \in Run, NEW p \in Priority, NEW m \in Budget, Submit(j, r, p, m)
        PROVE  EnvKept
    BY <1>2, <2>1 DEF Submit, ApiCall
  <2>2. CASE RequestCancel(j) \/ FinishCancel(j)
    BY <1>1, <1>2, <2>2 DEF RequestCancel, FinishCancel, ApiCall
  <2>3. ASSUME NEW src \in Job, RecoverJob(src, j)
        PROVE  EnvKept
    <3>1. ApiCall
      BY <1>0, <2>3, RecoverIsApiCall
    <3> QED
      BY <1>2, <3>1
  <2>4. ASSUME NEW p \in Priority, NEW t \in Schedule, ChangePriority(j, p, t)
        PROVE  EnvKept
    BY <1>2, <2>4 DEF ChangePriority, ApiCall
  <2> QED
    BY <1>11, <2>1, <2>2, <2>3, <2>4 DEF ApiStep
<1>12. CASE UNCHANGED vars
  BY <1>1, <1>12 DEF vars
<1> QED
  BY <1>4, <1>5, <1>6, <1>7, <1>8, <1>9, <1>10, <1>11, <1>12
  DEF RuntimeNext, WorkerStep, StartupStep
-----------------------------------------------------------------------------
\* The invariant holds at the start.
LEMMA RuntimeInitInv ==
    ASSUME RuntimeConstants, RuntimeInit
    PROVE  RuntimeInv
<1>1. StoreInit
  BY DEF RuntimeInit
<1>2. StoreInv
  BY <1>1, StoreInitInv
<1>3. MemoryInv
  <2>1. NoTurn \in Turn
    BY DEF NoTurn, Turn, Stage, Plan
  <2>2. NoTurn.stage = "idle"
    BY DEF NoTurn
  <2> QED
    BY <2>1, <2>2
    DEF RuntimeInit, MemoryInv, RuntimeTypeOK, TurnShape, TurnOwnsJob, RequestReachesTurn,
        Registered, Mode
<1>4. Submitted /\ Clocked
  BY <1>1, StoreAssumption DEF StoreInit, Submitted, Clocked
<1>5. RunSettled
  BY <1>1, StoreAssumption DEF StoreInit, RunSettled
<1> QED
  BY <1>2, <1>3, <1>4, <1>5 DEF RuntimeInv

\* Every step keeps it, and is a step of the store.
LEMMA RuntimeStep ==
    ASSUME RuntimeConstants, RuntimeBounds, RuntimeInv, [RuntimeNext]_vars
    PROVE  RuntimeInv' /\ [StoreNext]_storeVars
<1>1. StoreCall
  BY StepIsCall
<1>2. [StoreNext]_storeVars
  BY <1>1, CallIsStoreStep
<1>3. StoreInv /\ TypeOK /\ MemoryInv
  BY DEF RuntimeInv, StoreInv
<1>4. StoreInv'
  BY <1>2, <1>3, TypeStep, StepIsRowSteps, RowStepConsistent DEF StoreInv
<1>5. Submitted' /\ RunSettled'
  BY <1>1, SubmittedStep, SettledStep
<1>6. Clocked'
  BY <1>2, <1>3, ClockedStep DEF RuntimeInv
<1>7. MemoryInv'
  BY <1>2, <1>3, EndedJobsStay, StepKeepsRunning, MemoryStep
<1> QED
  BY <1>2, <1>4, <1>5, <1>6, <1>7 DEF RuntimeInv

\* The running system only does to the store what JobStore allows to any caller,
\* so every theorem about StoreSpec holds of it: QueueConsistent, immutable
\* attempts, authority that is never regained, the lineage, the lifecycle.
THEOREM RuntimeRefinesStore ==
    ASSUME RuntimeConstants, RuntimeBounds
    PROVE  RuntimeSpec => RefinesStore
<1>1. RuntimeInit => RuntimeInv /\ StoreInit
  BY RuntimeInitInv DEF RuntimeInit
<1>2. RuntimeInv /\ [RuntimeNext]_vars => RuntimeInv' /\ [StoreNext]_storeVars
  BY RuntimeStep
<1> QED
  BY <1>1, <1>2, PTL DEF RuntimeSpec, RefinesStore

\* No interleaving of worker, handler, heartbeat, API, storage probe, shutdown,
\* crash and restart takes a job from the turn that works on it, lets a requested
\* cancellation miss the turn, or leaves a Production run open that no job will
\* end.
THEOREM RuntimeIsSafe ==
    ASSUME RuntimeConstants, RuntimeBounds
    PROVE  RuntimeSpec => []RuntimeSafe
<1>1. RuntimeInit => RuntimeInv
  BY RuntimeInitInv
<1>2. RuntimeInv /\ [RuntimeNext]_vars => RuntimeInv'
  BY RuntimeStep
<1>3. RuntimeInv => RuntimeSafe
  BY DEF RuntimeInv, MemoryInv, RuntimeSafe
<1> QED
  BY <1>1, <1>2, <1>3, PTL DEF RuntimeSpec
-----------------------------------------------------------------------------
(***************************************************************************)
(* Job, run and stream.  Story(s, e, r) says which job states, terminal    *)
(* events and run statuses go together.  When no job is continued twice    *)
(* the jobs of a run are a chain: its newest one is always at some point   *)
(* of this story, and those before it have ended and were told so.         *)
(***************************************************************************)
Story(s, e, r) ==
    /\ r # "NONE"
    /\ s = "QUEUED" => r \notin TerminalRun
    /\ s \in ActiveJob => e = "OPEN" \/ (r \in TerminalRun /\ e = ReconciledState(r))
    /\ s \in TerminalJob => /\ e \in {"OPEN", s}
                            /\ r \in TerminalRun => s = ReconciledState(r)
JobStory(j) ==
    IF state[j] = "ABSENT" THEN stream[j] = "OPEN"
    ELSE IF Continued(j) THEN /\ state[j] \in TerminalJob /\ stream[j] \in {"OPEN", state[j]}
                              /\ runs[runOf[j]] # "NONE"
    ELSE Story(state[j], stream[j], runs[runOf[j]])
OneNewest ==
    \A i, j \in Job :
        /\ state[i] # "ABSENT" /\ ~Continued(i)
        /\ state[j] # "ABSENT" /\ ~Continued(j)
        /\ runOf[i] = runOf[j]
        => i = j
Parented ==
    \A c \in Job : state[c] # "ABSENT" =>
        /\ parent[c] # c
        /\ parent[c] \in Job => state[parent[c]] # "ABSENT"
TableStory == OneNewest /\ Parented /\ \A j \in Job : JobStory(j)

\* What the turn remembers of its run is what the run is, and nothing has led it
\* into a queue error.
TurnStory ==
    /\ Holding => IF turn.commit = "NONE" THEN ~RunTerminal(turn.job)
                  ELSE runs[runOf[turn.job]] = turn.commit
    /\ turn.stage \in {"idle", "admitted", "acquired", "running", "working", "saved"} =>
          turn.commit = "NONE"
    /\ turn.stage = "decided" => (turn.plan = "reconcile" <=> turn.commit # "NONE")
    /\ turn.stage # "dead" /\ turn.plan # "fatal"

\* Outside of SERVING nobody asks for anything, and what keeps startup from
\* serving is a checkpoint or a run that a continuation ended otherwise.
StartupStory ==
    /\ mode # "SERVING" => cancelling = {}
    /\ mode = "RECOVERY_MODE" => invalid \/ \E j \in Job : EndedOtherwise(j)
StoryInv == TableStory /\ TurnStory /\ StartupStory

\* A step that keeps the jobs there are and their links keeps the chains.
SameJobs ==
    /\ parent' = parent /\ runOf' = runOf
    /\ \A i \in Job : state'[i] = "ABSENT" <=> state[i] = "ABSENT"

LEMMA ChainsKept ==
    ASSUME TableStory, SameJobs
    PROVE  /\ OneNewest' /\ Parented'
           /\ \A i \in Job : Continued(i)' <=> Continued(i)
<1>1. ASSUME NEW i \in Job
      PROVE  Continued(i)' <=> Continued(i)
  BY DEF Continued, SameJobs
<1>2. OneNewest'
  BY <1>1 DEF TableStory, OneNewest, SameJobs
<1>3. Parented'
  BY DEF TableStory, Parented, SameJobs
<1> QED
  BY <1>1, <1>2, <1>3

\* A job that waits or runs is the newest of its run.
LEMMA ActiveIsNewest ==
    ASSUME TableStory, NEW j \in Job, state[j] \in ActiveJob
    PROVE  /\ ~Continued(j) /\ state[j] # "ABSENT"
           /\ Story(state[j], stream[j], runs[runOf[j]])
BY DEF TableStory, JobStory, ActiveJob, TerminalJob

\* A job whose row, event and run a call leaves alone stays in its story.
LEMMA StoryKept ==
    ASSUME NEW j \in Job, JobStory(j), state'[j] = state[j], stream'[j] = stream[j],
           state[j] # "ABSENT" => /\ Continued(j)' <=> Continued(j)
                                  /\ runOf'[j] = runOf[j]
                                  /\ runs'[runOf[j]] = runs[runOf[j]]
    PROVE  JobStory(j)'
BY DEF JobStory, Story, ActiveJob, TerminalJob, TerminalRun, ReconciledState

\* A call about the newest job of a run that keeps the links, the other rows and
\* the other runs is a step of that job's story alone.
LEMMA OneJobStory ==
    ASSUME TypeOK, Submitted, TableStory, NEW j \in Job, state[j] # "ABSENT", ~Continued(j),
           state'[j] # "ABSENT", parent' = parent, runOf' = runOf,
           \A i \in Job \ {j} : state'[i] = state[i] /\ stream'[i] = stream[i],
           \A r \in Run \ {runOf[j]} : runs'[r] = runs[r],
           Story(state'[j], stream'[j], runs'[runOf[j]])
    PROVE  TableStory'
<1>1. /\ OneNewest' /\ Parented'
      /\ \A i \in Job : Continued(i)' <=> Continued(i)
  BY ChainsKept DEF SameJobs
<1>2. JobStory(j)'
  BY <1>1 DEF JobStory, Story, ActiveJob, TerminalJob, TerminalRun, ReconciledState
<1>3. ASSUME NEW i \in Job \ {j}
      PROVE  JobStory(i)'
  <2>1. JobStory(i)
    BY DEF TableStory
  <2>2. CASE state[i] # "ABSENT" /\ runOf[i] = runOf[j]
    <3>1. Continued(i)
      BY <2>2 DEF TableStory, OneNewest
    <3>2. runs'[runOf[j]] # "NONE"
      BY DEF Story
    <3> QED
      BY <1>1, <2>1, <2>2, <3>1, <3>2 DEF JobStory
  <2>3. CASE state[i] # "ABSENT" => runOf[i] # runOf[j]
    <3>1. state[i] # "ABSENT" => runOf[i] \in Run \ {runOf[j]}
      BY <2>3 DEF Submitted
    <3> QED
      BY <1>1, <2>1, <3>1, StoryKept
  <2> QED
    BY <2>2, <2>3
<1> QED
  BY <1>1, <1>2, <1>3 DEF TableStory

\* Recovery leaves the jobs that were continued alone, and takes the newest of
\* each run along its story: it fails a run only with this job, and follows a run
\* that ended before.
LEMMA RecoveredEarlier ==
    ASSUME TypeOK, Submitted, TableStory, NEW i \in Job, state[i] # "ABSENT", Continued(i)
    PROVE  /\ StateR[i] = state[i] /\ StreamR[i] = stream[i]
           /\ RunsR[runOf[i]] # "NONE"
<1>1. state[i] \in TerminalJob /\ runs[runOf[i]] # "NONE" /\ runOf[i] \in Run
  BY DEF TableStory, JobStory, Submitted
<1>2. i \notin Expired
  BY <1>1 DEF Expired, TerminalJob
<1> QED
  BY <1>1, <1>2 DEF StateR, RecoveredState, StreamR, FailsRun, Doomed, RunsR

LEMMA RecoveredStory ==
    ASSUME TypeOK, Submitted, TableStory, NEW i \in Job, state[i] # "ABSENT", ~Continued(i)
    PROVE  /\ StateR[i] # "ABSENT"
           /\ Story(StateR[i], StreamR[i], RunsR[runOf[i]])
<1>1. /\ Story(state[i], stream[i], runs[runOf[i]])
      /\ runOf[i] \in Run /\ runOf[i] # NoRun
  BY StoreAssumption DEF TableStory, JobStory, Submitted
<1>2. ASSUME NEW k \in Job, Doomed(k), runOf[k] = runOf[i]
      PROVE  k = i
  <2>1. state[k] # "ABSENT" /\ ~Continued(k)
    BY <1>2, ActiveIsNewest DEF Doomed, Expired, ActiveJob
  <2> QED
    BY <1>2, <2>1 DEF TableStory, OneNewest
<1>3. ~SiblingFailedBefore(i)
  BY <1>2, StoreAssumption DEF SiblingFailedBefore
<1>4. FailsRun(i) <=> Doomed(i)
  BY <1>1, <1>3 DEF FailsRun
<1>5. RunsR[runOf[i]] = IF Doomed(i) THEN "FAILED" ELSE runs[runOf[i]]
  BY <1>1, <1>2, <1>4 DEF RunsR, FailsRun
<1>6. StreamR[i] = IF Doomed(i) THEN "FAILED" ELSE stream[i]
  BY <1>4 DEF StreamR
<1>7. CASE i \notin Expired
  <2>1. StateR[i] = state[i] /\ ~Doomed(i)
    BY <1>7 DEF StateR, RecoveredState, Doomed
  <2> QED
    BY <1>1, <1>5, <1>6, <2>1
<1>8. CASE i \in Expired /\ RunTerminal(i)
  <2>1. StateR[i] = ReconciledState(runs[runOf[i]]) /\ ~Doomed(i)
    BY <1>8 DEF StateR, RecoveredState, Doomed
  <2>2. StateR[i] \in TerminalJob /\ state[i] \in ActiveJob
    BY <1>8, <2>1, ReconciledType DEF RunTerminal, Expired, ActiveJob
  <2> QED
    BY <1>1, <1>5, <1>6, <2>1, <2>2 DEF Story, TerminalJob, ActiveJob
<1>9. CASE i \in Expired /\ ~RunTerminal(i) /\ Resumable(i)
  <2>1. StateR[i] = "QUEUED" /\ ~Doomed(i) /\ state[i] \in ActiveJob
    BY <1>3, <1>9 DEF StateR, RecoveredState, Doomed, Expired, ActiveJob
  <2> QED
    BY <1>1, <1>5, <1>6, <1>9, <2>1 DEF Story, RunTerminal, TerminalJob
<1>10. CASE i \in Expired /\ ~RunTerminal(i) /\ ~Resumable(i)
  <2>1. StateR[i] = "FAILED" /\ Doomed(i)
    BY <1>10 DEF StateR, RecoveredState, Doomed
  <2> QED
    BY <1>5, <1>6, <2>1 DEF Story, ActiveJob, TerminalJob, TerminalRun, ReconciledState
<1> QED
  BY <1>7, <1>8, <1>9, <1>10

\* A sweep never meets a closed stream where it has to write the end.
LEMMA RecoveryAccepted ==
    ASSUME StoreInv, Submitted, TableStory
    PROVE  RecoveryCommits
<1>1. QueueConsistent
  BY DEF StoreInv, RowConsistent, QueueConsistent
<1>2. ASSUME NEW j \in Job, FailsRun(j)
      PROVE  stream[j] = "OPEN"
  <2>1. state[j] = "RUNNING" /\ ~RunTerminal(j) /\ runOf[j] # NoRun
    BY <1>2 DEF FailsRun, Doomed, Expired
  <2> QED
    BY <2>1, ActiveIsNewest DEF Story, RunTerminal, ActiveJob
<1> QED
  BY <1>1, <1>2 DEF RecoveryCommits

\* The transactions that end a turn take its job along its story.  A failure
\* that is not terminal leaves the run alone, so the run must still be open.
LEMMA SettledStory ==
    ASSUME TypeOK, Submitted, TableStory, NEW j \in Job, NEW l, NEW retryAt,
           state[j] = "RUNNING",
           \/ Cancel(j, l) \/ RequeueAfterPressure(j, l) \/ FailProduction(j, l)
           \/ ReconcileRun(j, l)
           \/ ~RunTerminal(j) /\ Fail(j, l, FALSE, retryAt)
    PROVE  TableStory'
<1> DEFINE r == runOf[j]
<1>1. /\ runOf[j] \in Run /\ r \in Run /\ r # NoRun
      /\ Story(state[j], stream[j], runs[r]) /\ state[j] # "ABSENT" /\ ~Continued(j)
  BY StoreAssumption, ActiveIsNewest DEF Submitted, ActiveJob
<1>2. /\ runs[r] # "NONE" /\ runs[r] \in RunStatus
      /\ runs[r] \notin TerminalRun => runs[r] \in {"QUEUED", "RUNNING"} /\ stream[j] = "OPEN"
      /\ runs[r] \in TerminalRun => stream[j] \in {"OPEN", ReconciledState(runs[r])}
      /\ RunTerminal(j) <=> runs[r] \in TerminalRun
  BY <1>1 DEF Story, ActiveJob, TypeOK, RunStatus, RunTerminal
<1>3. ASSUME NEW st, NEW o, Close(j, l, st, o), st # "ABSENT",
             \A i \in Job \ {j} : stream'[i] = stream[i],
             \A q \in Run \ {r} : runs'[q] = runs[q],
             Story(st, stream'[j], runs'[r])
      PROVE  TableStory'
  <2>1. /\ state'[j] = st /\ parent' = parent /\ runOf' = runOf
        /\ \A i \in Job \ {j} : state'[i] = state[i]
    BY <1>3 DEF Close, linkVars, TypeOK
  <2> QED
    BY <1>1, <1>3, <2>1, OneJobStory
<1>4. \A q \in TerminalRun : /\ ReconciledState(q) # "ABSENT" /\ ReconciledState(q) \in TerminalJob
                             /\ Story(ReconciledState(q), "OPEN", q)
                             /\ Story(ReconciledState(q), ReconciledState(q), q)
  BY ReconciledType DEF Story, TerminalJob, TerminalRun, ActiveJob
<1>5. /\ Story("CANCELLED", "OPEN", "CANCELLED") /\ Story("FAILED", "FAILED", "FAILED")
      /\ \A q : q \in {"QUEUED", "RUNNING"} => Story("QUEUED", "OPEN", q) /\ Story("FAILED", "OPEN", q)
  BY DEF Story, TerminalJob, TerminalRun, ActiveJob, ReconciledState
<1>6. ASSUME RunTerminal(j), NEW o, Close(j, l, ReconciledState(runs[r]), o),
             stream' = stream, runs' = runs
      PROVE  TableStory'
  <2>1. Story(ReconciledState(runs[r]), stream'[j], runs'[r])
    BY <1>2, <1>4, <1>6
  <2> QED
    BY <1>2, <1>3, <1>4, <1>6, <2>1
<1>7. CASE Cancel(j, l)
  <2>1. CASE RunTerminal(j)
    <3>1. CancelledRuns(j) = runs
      BY <1>2, <2>1 DEF CancelledRuns, TerminalRun, TypeOK
    <3> QED
      BY <1>6, <1>7, <2>1, <3>1 DEF Cancel
  <2>2. CASE ~RunTerminal(j)
    <3>1. \E o : Close(j, l, "CANCELLED", o)
      BY <1>7, <2>2 DEF Cancel, ReconciledState
    <3>2. stream' = stream /\ runs'[r] = "CANCELLED" /\ \A q \in Run \ {r} : runs'[q] = runs[q]
      BY <1>1, <1>2, <1>7, <2>2 DEF Cancel, CancelledRuns
    <3> QED
      BY <1>2, <1>3, <1>5, <2>2, <3>1, <3>2
  <2> QED
    BY <2>1, <2>2
<1>8. CASE RequeueAfterPressure(j, l)
  <2>1. PICK o : Close(j, l, PressureDecision(j), o)
    BY <1>8 DEF RequeueAfterPressure
  <2>2. IF PressureDecision(j) = "FAILED" /\ ~RunTerminal(j) THEN FinalizeCrawlFailure(j)
                                                            ELSE UNCHANGED <<stream, runs>>
    BY <1>1, <1>8 DEF RequeueAfterPressure
  <2>3. CASE RunTerminal(j)
    BY <1>6, <2>1, <2>2, <2>3 DEF PressureDecision
  <2>4. CASE ~RunTerminal(j) /\ PressureDecision(j) = "FAILED"
    <3>1. /\ stream' = [stream EXCEPT ![j] = "FAILED"] /\ runs' = [runs EXCEPT ![r] = "FAILED"]
      BY <2>2, <2>4 DEF FinalizeCrawlFailure
    <3>2. /\ stream'[j] = "FAILED" /\ runs'[r] = "FAILED"
          /\ \A i \in Job \ {j} : stream'[i] = stream[i]
          /\ \A q \in Run \ {r} : runs'[q] = runs[q]
      BY <1>1, <3>1 DEF TypeOK
    <3> QED
      BY <1>3, <1>5, <2>1, <2>4, <3>2
  <2>5. CASE ~RunTerminal(j) /\ PressureDecision(j) # "FAILED"
    <3>1. PressureDecision(j) = "QUEUED" /\ UNCHANGED <<stream, runs>>
      BY <2>2, <2>5 DEF PressureDecision
    <3> QED
      BY <1>2, <1>3, <1>5, <2>1, <2>5, <3>1
  <2> QED
    BY <2>3, <2>4, <2>5
<1>9. CASE FailProduction(j, l)
  <2>1. /\ Close(j, l, "FAILED", "FAILED")
        /\ stream' = [stream EXCEPT ![j] = "FAILED"] /\ runs' = [runs EXCEPT ![r] = "FAILED"]
    BY <1>9 DEF FailProduction, FinalizeCrawlFailure
  <2>2. /\ stream'[j] = "FAILED" /\ runs'[r] = "FAILED"
        /\ \A i \in Job \ {j} : stream'[i] = stream[i]
        /\ \A q \in Run \ {r} : runs'[q] = runs[q]
    BY <1>1, <2>1 DEF TypeOK
  <2> QED
    BY <1>3, <1>5, <2>1, <2>2
<1>10. CASE ReconcileRun(j, l)
  BY <1>6, <1>10 DEF ReconcileRun
<1>11. CASE ~RunTerminal(j) /\ Fail(j, l, FALSE, retryAt)
  <2>1. /\ \E o : Close(j, l, "QUEUED", o) \/ Close(j, l, "FAILED", o)
        /\ stream' = stream /\ runs' = runs
    BY <1>11 DEF Fail
  <2> QED
    BY <1>2, <1>3, <1>5, <1>11, <2>1
<1> QED
  BY <1>7, <1>8, <1>9, <1>10, <1>11

\* A new job is the newest of its run, and continues its source when it has the
\* source's run.
LEMMA InsertedLinks ==
    ASSUME TypeOK, TableStory, NEW j \in Job, NEW k, NEW r, NEW p, NEW m, NEW src, NEW t,
           Insert(j, k, r, p, m, src, t), src \in Job => state[src] # "ABSENT"
    PROVE  /\ Parented' /\ ~Continued(j)'
           /\ \A i \in Job \ {j} : Continued(i)' <=> Continued(i) \/ (src = i /\ r = runOf[i])
<1>1. /\ state[j] = "ABSENT" /\ state'[j] = "QUEUED" /\ runOf'[j] = r /\ parent'[j] = src
      /\ \A i \in Job \ {j} : /\ state'[i] = state[i] /\ runOf'[i] = runOf[i]
                              /\ parent'[i] = parent[i]
  BY InsertRows
<1>2. src # j
  BY <1>1
<1>3. Parented'
  BY <1>1, <1>2 DEF TableStory, Parented
<1>4. ~Continued(j)'
  BY <1>1, <1>2 DEF TableStory, Parented, Continued
<1>5. ASSUME NEW i \in Job \ {j}
      PROVE  Continued(i)' <=> Continued(i) \/ (src = i /\ r = runOf[i])
  BY <1>1 DEF Continued
<1> QED
  BY <1>3, <1>4, <1>5

\* A new run begins a story of its own: no job had that run before.
LEMMA InsertedStory ==
    ASSUME TypeOK, Submitted, TableStory, NEW j \in Job, NEW r \in Run,
           NEW k, NEW p, NEW m, NEW src, NEW t,
           Insert(j, k, r, p, m, src, t), src \in Job => state[src] # "ABSENT",
           runs[r] = "NONE", runs' = [runs EXCEPT ![r] = "QUEUED"]
    PROVE  TableStory'
<1>1. /\ state[j] = "ABSENT" /\ state'[j] = "QUEUED" /\ runOf'[j] = r
      /\ \A i \in Job \ {j} : state'[i] = state[i] /\ runOf'[i] = runOf[i]
      /\ stream' = stream
  <2>1. stream' = stream
    BY DEF Insert
  <2> QED
    BY <2>1, InsertRows
<1>2. runs'[r] = "QUEUED" /\ \A q \in Run \ {r} : runs'[q] = runs[q]
  BY DEF TypeOK
<1>3. \A i \in Job : state[i] # "ABSENT" => runOf[i] \in Run /\ runOf[i] # r
  BY DEF TableStory, JobStory, Story, Submitted
<1>4. /\ Parented' /\ ~Continued(j)'
      /\ \A i \in Job \ {j} : state[i] # "ABSENT" => (Continued(i)' <=> Continued(i))
  BY <1>3, InsertedLinks
<1>5. OneNewest'
  BY <1>1, <1>3, <1>4 DEF TableStory, OneNewest
<1>6. JobStory(j)'
  <2>1. stream[j] = "OPEN"
    BY <1>1 DEF TableStory, JobStory
  <2> QED
    BY <1>1, <1>2, <1>4, <2>1 DEF JobStory, Story, ActiveJob, TerminalJob, TerminalRun
<1>7. ASSUME NEW i \in Job \ {j}
      PROVE  JobStory(i)'
  <2>1. /\ JobStory(i) /\ state'[i] = state[i] /\ stream'[i] = stream[i]
        /\ state[i] # "ABSENT" => /\ Continued(i)' <=> Continued(i)
                                  /\ runOf'[i] = runOf[i]
                                  /\ runs'[runOf[i]] = runs[runOf[i]]
    BY <1>1, <1>2, <1>3, <1>4 DEF TableStory
  <2> QED
    BY <2>1, StoryKept
<1> QED
  BY <1>4, <1>5, <1>6, <1>7 DEF TableStory

\* When no job is continued twice, a source is continued by its newest job only.
LEMMA SourceWasNewest ==
    ASSUME TypeOK, ContinuedOnce', NEW j \in Job, NEW src \in Job, NEW k, NEW m,
           EnqueueSameRun(src, j, k, m)
    PROVE  state[src] \in TerminalJob /\ ~Continued(src)
<1>1. /\ state[src] \in TerminalJob
      /\ Insert(j, k, runOf[src], priority[src], m, src, now)
  BY DEF EnqueueSameRun, LineageAllows
<1>2. /\ state[j] = "ABSENT" /\ state'[j] = "QUEUED" /\ runOf'[j] = runOf[src] /\ parent'[j] = src
      /\ \A i \in Job \ {j} : /\ state'[i] = state[i] /\ runOf'[i] = runOf[i]
                              /\ parent'[i] = parent[i]
  BY <1>1, InsertRows
<1>3. ASSUME Continued(src)
      PROVE  FALSE
  <2>1. PICK c \in Job : state[c] # "ABSENT" /\ parent[c] = src /\ runOf[c] = runOf[src]
    BY <1>3 DEF Continued
  <2>2. c # j /\ state'[c] # "ABSENT" /\ runOf'[c] = runOf'[j] /\ parent'[c] = parent'[j]
    BY <1>2, <2>1
  <2> QED
    BY <1>2, <2>1, <2>2 DEF ContinuedOnce
<1> QED
  BY <1>1, <1>3

\* A continuation reopens the run: its source becomes the last of the earlier
\* jobs, whatever the run ends as now.
LEMMA ContinuedStory ==
    ASSUME TypeOK, Submitted, TableStory, ContinuedOnce', NEW j \in Job, NEW src \in Job,
           NEW k, NEW m, EnqueueSameRun(src, j, k, m)
    PROVE  TableStory'
<1> DEFINE r == runOf[src]
<1>1. state[src] \in TerminalJob /\ ~Continued(src)
  BY SourceWasNewest
<1>2. /\ Insert(j, k, r, priority[src], m, src, now) /\ runs' = [runs EXCEPT ![r] = "QUEUED"]
      /\ state[src] # "ABSENT" /\ r \in Run
  BY <1>1 DEF EnqueueSameRun, Submitted, TerminalJob
<1>3. /\ state[j] = "ABSENT" /\ state'[j] = "QUEUED" /\ runOf'[j] = r
      /\ \A i \in Job \ {j} : state'[i] = state[i] /\ runOf'[i] = runOf[i]
      /\ stream' = stream
  <2>1. stream' = stream
    BY <1>2 DEF Insert
  <2> QED
    BY <1>2, <2>1, InsertRows
<1>4. runs'[r] = "QUEUED" /\ \A q \in Run \ {r} : runs'[q] = runs[q]
  BY <1>2 DEF TypeOK
<1>5. /\ Parented' /\ ~Continued(j)'
      /\ \A i \in Job \ {j} : Continued(i)' <=> Continued(i) \/ (src = i /\ r = runOf[i])
  BY <1>2, InsertedLinks
<1>6. \A i \in Job \ {j} : state[i] # "ABSENT" /\ runOf[i] = r => Continued(i)'
  BY <1>1, <1>2, <1>5 DEF TableStory, OneNewest
<1>7. OneNewest'
  BY <1>3, <1>5, <1>6 DEF TableStory, OneNewest
<1>8. JobStory(j)'
  <2>1. stream[j] = "OPEN"
    BY <1>3 DEF TableStory, JobStory
  <2> QED
    BY <1>3, <1>4, <1>5, <2>1 DEF JobStory, Story, ActiveJob, TerminalJob, TerminalRun
<1>9. ASSUME NEW i \in Job \ {j}
      PROVE  JobStory(i)'
  <2>1. JobStory(i) /\ JobStory(src)
    BY DEF TableStory
  <2>2. CASE state[i] # "ABSENT" /\ runOf[i] = r
    <3>1. Continued(i)'
      BY <1>6, <2>2
    <3>2. i = src \/ Continued(i)
      BY <1>5, <3>1
    <3>3. state[i] \in TerminalJob /\ stream[i] \in {"OPEN", state[i]}
      BY <1>1, <1>2, <2>1, <2>2, <3>2 DEF JobStory, Story
    <3> QED
      BY <1>3, <1>4, <2>2, <3>1, <3>3 DEF JobStory, TerminalJob
  <2>3. CASE state[i] # "ABSENT" => runOf[i] # r
    <3>1. /\ state'[i] = state[i] /\ stream'[i] = stream[i]
          /\ state[i] # "ABSENT" => /\ Continued(i)' <=> Continued(i)
                                    /\ runOf'[i] = runOf[i]
                                    /\ runs'[runOf[i]] = runs[runOf[i]]
      BY <1>3, <1>4, <1>5, <2>3 DEF Submitted
    <3> QED
      BY <2>1, <3>1, StoryKept
  <2> QED
    BY <2>2, <2>3
<1> QED
  BY <1>5, <1>7, <1>8, <1>9 DEF TableStory

\* Jobs keep their links and do not vanish: the runtime never removes one.
JobsStay ==
    \A i \in Job : state[i] # "ABSENT" =>
        state'[i] # "ABSENT" /\ runOf'[i] = runOf[i] /\ parent'[i] = parent[i]

LEMMA CallsKeepJobs ==
    ASSUME RuntimeConstants, RuntimeBounds, RuntimeInv, StoreCall
    PROVE  JobsStay
<1>0. TypeOK /\ StoreInv /\ Submitted
  BY DEF RuntimeInv, StoreInv
<1>1. ASSUME NEW i \in Job, state[i] # "ABSENT", state[i] # "QUEUED"
      PROVE  state'[i] # "ABSENT"
  <2>1. RowStep(i)
    BY <1>0, CallIsStoreStep, StepIsRowSteps
  <2> QED
    BY <1>1, <2>1
    DEF RowStep, RowKept, RowMoved, RowRenewed, RowClosed, RowGranted, TerminalJob
<1>2. ASSUME UNCHANGED <<state, runOf, parent>>
      PROVE  JobsStay
  BY <1>2 DEF JobsStay
<1>3. ASSUME UNCHANGED <<runOf, parent>>,
             \A i \in Job : state[i] = "QUEUED" => state'[i] # "ABSENT"
      PROVE  JobsStay
  BY <1>1, <1>3 DEF JobsStay
<1>4. \A i \in Job : state[i] = "QUEUED" => StateR[i] = "QUEUED"
  BY <1>0, RecoveryRows
<1>5. ASSUME NEW w \in Worker, NEW j \in Job, Acquire(w, turn.heavy, j)
      PROVE  JobsStay
  <2>1. UNCHANGED <<runOf, parent>> /\ state' = [StateR EXCEPT ![j] = "RUNNING"]
    BY <1>5 DEF Acquire, linkVars
  <2> QED
    BY <1>0, <1>3, <1>4, <2>1, RecoveryType
<1>6. CASE RecoverExpired
  BY <1>3, <1>4, <1>6 DEF RecoverExpired, linkVars
<1>7. CASE ReconcileAll
  BY <1>3, <1>7 DEF ReconcileAll, linkVars
<1>8. CASE UNCHANGED storeVars \/ Tick
  BY <1>2, <1>8 DEF storeVars, queueVars, linkVars, Tick
<1>9. ASSUME NEW j \in Job, NEW t \in TerminalJob, AppendTerminal(j, t)
      PROVE  JobsStay
  BY <1>2, <1>9 DEF AppendTerminal, queueVars, linkVars
<1>10. CASE ApiCall
  <2>1. ASSUME NEW j \in Job, CancelQueued(j)
        PROVE  JobsStay
    BY <1>0, <1>3, <2>1 DEF CancelQueued, linkVars, TypeOK
  <2>2. ASSUME NEW j \in Job, NEW p \in Priority, NEW t \in Schedule, Reprioritize(j, p, t)
        PROVE  JobsStay
    BY <1>2, <2>2 DEF Reprioritize, linkVars
  <2>3. ASSUME NEW j \in Job, NEW k, NEW p, NEW src, NEW t, NEW r \in Run, NEW m \in Budget,
               Insert(j, k, r, p, m, src, t)
        PROVE  JobsStay
    BY <1>0, <2>3, InsertRows DEF JobsStay
  <2> QED
    BY <1>0, <1>10, <2>1, <2>2, <2>3, InsertCall DEF ApiCall
<1>11. CASE Holding /\ TurnCall
  <2>1. turn.job \in Job /\ state[turn.job] = "RUNNING"
    BY <1>11, TurnLease
  <2>2. ASSUME NEW st, NEW o, Close(turn.job, turn.lease, st, o)
        PROVE  JobsStay
    BY <1>0, <1>3, <2>1, <2>2, CloseRow
  <2>3. CASE \/ Cancel(turn.job, turn.lease)
             \/ RequeueAfterPressure(turn.job, turn.lease)
             \/ FailProduction(turn.job, turn.lease)
             \/ Fail(turn.job, turn.lease, FALSE, now + RetryDelay)
             \/ ReconcileRun(turn.job, turn.lease)
    BY <1>0, <2>1, <2>2, <2>3, TurnCallRow
  <2>4. CASE \/ Heartbeat(turn.job, turn.lease)
             \/ AppendCheckpoint(turn.job, turn.lease, turn.lease.gen)
             \/ StartRun(runOf[turn.job], StartFrom(turn.job))
             \/ \E s \in TerminalRun : FinalizeRun(runOf[turn.job], s)
    BY <1>2, <2>4 DEF Heartbeat, AppendCheckpoint, StartRun, FinalizeRun, queueVars, linkVars
  <2> QED
    BY <1>11, <2>3, <2>4 DEF TurnCall
<1> QED
  BY <1>5, <1>6, <1>7, <1>8, <1>9, <1>10, <1>11 DEF StoreCall

\* What was continued twice stays so.
LEMMA ContinuedOnceBefore ==
    ASSUME RuntimeConstants, RuntimeBounds, RuntimeInv, [RuntimeNext]_vars, ContinuedOnce'
    PROVE  ContinuedOnce
BY StepIsCall, CallsKeepJobs DEF JobsStay, ContinuedOnce

\* Every call takes every job along its story.
LEMMA TableStoryStep ==
    ASSUME ContinuedOnce', RuntimeBounds, RuntimeInv, StoryInv, StoreCall
    PROVE  TableStory'
<1>0. TypeOK /\ StoreInv /\ Submitted /\ TableStory /\ TurnStory
  BY DEF RuntimeInv, StoreInv, StoryInv
<1>1. ASSUME UNCHANGED <<state, parent, runOf, stream, runs>>
      PROVE  TableStory'
  <2>1. /\ OneNewest' /\ Parented'
        /\ \A i \in Job : Continued(i)' <=> Continued(i)
    BY <1>0, <1>1, ChainsKept DEF SameJobs
  <2> QED
    BY <1>0, <1>1, <2>1, StoryKept DEF TableStory
<1>2. CASE UNCHANGED storeVars \/ Tick
  BY <1>1, <1>2 DEF storeVars, queueVars, linkVars, Tick
<1>3. ASSUME UNCHANGED <<parent, runOf>>, stream' = StreamR, runs' = RunsR,
             \A i \in Job : \/ state'[i] = StateR[i]
                            \/ StateR[i] = "QUEUED" /\ state'[i] = "RUNNING"
      PROVE  TableStory'
  <2>1. ASSUME NEW i \in Job, state[i] = "ABSENT"
        PROVE  state'[i] = "ABSENT" /\ stream'[i] = stream[i]
    <3>1. i \notin Expired
      BY <2>1 DEF Expired
    <3> QED
      BY <1>3, <2>1, <3>1 DEF StateR, RecoveredState, StreamR, FailsRun, Doomed
  <2>2. ASSUME NEW i \in Job, state[i] # "ABSENT", Continued(i)
        PROVE  /\ state'[i] = state[i] /\ stream'[i] = stream[i] /\ state[i] \in TerminalJob
               /\ stream[i] \in {"OPEN", state[i]} /\ runs'[runOf[i]] # "NONE"
    <3>1. state[i] \in TerminalJob /\ stream[i] \in {"OPEN", state[i]}
      BY <1>0, <2>2 DEF TableStory, JobStory
    <3> QED
      BY <1>0, <1>3, <2>2, <3>1, RecoveredEarlier DEF TerminalJob
  <2>3. ASSUME NEW i \in Job, state[i] # "ABSENT", ~Continued(i)
        PROVE  state'[i] # "ABSENT" /\ Story(state'[i], stream'[i], runs'[runOf[i]])
    <3>1. Story(StateR[i], stream'[i], runs'[runOf[i]]) /\ StateR[i] # "ABSENT"
      BY <1>0, <1>3, <2>3, RecoveredStory
    <3> QED
      BY <1>3, <3>1 DEF Story, ActiveJob, TerminalJob
  <2>4. SameJobs
    BY <1>3, <2>1, <2>2, <2>3 DEF SameJobs
  <2>5. /\ OneNewest' /\ Parented'
        /\ \A i \in Job : Continued(i)' <=> Continued(i)
    BY <1>0, <2>4, ChainsKept
  <2>6. ASSUME NEW i \in Job
        PROVE  JobStory(i)'
    <3>1. CASE state[i] = "ABSENT"
      BY <1>0, <2>1, <3>1 DEF TableStory, JobStory
    <3>2. CASE state[i] # "ABSENT" /\ Continued(i)
      BY <1>3, <2>2, <2>5, <3>2 DEF JobStory
    <3>3. CASE state[i] # "ABSENT" /\ ~Continued(i)
      <4>1. ~Continued(i)' /\ runOf'[i] = runOf[i]
        BY <1>3, <2>5, <3>3
      <4> QED
        BY <2>3, <3>3, <4>1 DEF JobStory, Story
    <3> QED
      BY <3>1, <3>2, <3>3
  <2> QED
    BY <2>5, <2>6 DEF TableStory
<1>4. ASSUME NEW w \in Worker, NEW j \in Job, Acquire(w, turn.heavy, j)
      PROVE  TableStory'
  <2>1. StateR[j] = "QUEUED" /\ StateR \in [Job -> JobState \cup {"ABSENT"}]
    BY <1>0, <1>4, RecoveryType DEF Acquire, Selected, Eligible
  <2>2. /\ state' = [StateR EXCEPT ![j] = "RUNNING"] /\ stream' = StreamR /\ runs' = RunsR
        /\ UNCHANGED <<parent, runOf>>
    BY <1>4 DEF Acquire, linkVars
  <2>3. \A i \in Job : \/ state'[i] = StateR[i]
                       \/ StateR[i] = "QUEUED" /\ state'[i] = "RUNNING"
    BY <2>1, <2>2
  <2> QED
    BY <1>3, <2>2, <2>3
<1>5. CASE RecoverExpired
  BY <1>3, <1>5 DEF RecoverExpired, linkVars
<1>6. CASE ReconcileAll
  <2>1. /\ UNCHANGED <<parent, runOf, stream, runs>>
        /\ \A i \in Job : state'[i] = IF i \in Settled /\ state[i] = "RUNNING"
                                      THEN ReconciledState(runs[runOf[i]]) ELSE state[i]
    BY <1>6 DEF ReconcileAll, linkVars
  <2>2. ASSUME NEW i \in Job, i \in Settled, state[i] = "RUNNING"
        PROVE  /\ state'[i] = ReconciledState(runs[runOf[i]]) /\ state'[i] \in TerminalJob
               /\ runs[runOf[i]] \in TerminalRun
    BY <2>1, <2>2, ReconciledType DEF Settled, RunTerminal
  <2>3. SameJobs
    BY <2>1, <2>2 DEF SameJobs, TerminalJob
  <2>4. /\ OneNewest' /\ Parented'
        /\ \A i \in Job : Continued(i)' <=> Continued(i)
    BY <1>0, <2>3, ChainsKept
  <2>5. ASSUME NEW i \in Job, i \in Settled, state[i] = "RUNNING"
        PROVE  JobStory(i)'
    <3>1. ~Continued(i) /\ Story("RUNNING", stream[i], runs[runOf[i]])
      BY <1>0, <2>5, ActiveIsNewest DEF ActiveJob
    <3> QED
      BY <2>1, <2>2, <2>4, <2>5, <3>1
      DEF JobStory, Story, ActiveJob, TerminalJob, TerminalRun, ReconciledState
  <2>6. ASSUME NEW i \in Job, ~(i \in Settled /\ state[i] = "RUNNING")
        PROVE  JobStory(i)'
    BY <1>0, <2>1, <2>4, <2>6, StoryKept DEF TableStory
  <2> QED
    BY <2>4, <2>5, <2>6 DEF TableStory
<1>7. ASSUME NEW j \in Job, NEW t \in TerminalJob, AppendTerminal(j, t),
             \/ t = state[j]
             \/ /\ turn.stage = "finalized" /\ turn.job = j
                /\ t = ReconciledState(turn.commit)
      PROVE  TableStory'
  <2>1. /\ state[j] # "ABSENT" /\ stream' = [stream EXCEPT ![j] = t]
        /\ UNCHANGED <<state, parent, runOf, runs>>
    BY <1>7 DEF AppendTerminal, queueVars, linkVars
  <2>2. stream'[j] = t /\ \A i \in Job \ {j} : stream'[i] = stream[i]
    BY <1>0, <2>1 DEF TypeOK
  <2>3. CASE ~Continued(j)
    <3>1. Story(state[j], stream[j], runs[runOf[j]])
      BY <1>0, <2>1, <2>3 DEF TableStory, JobStory
    <3>2. CASE t = state[j]
      <4>1. Story(state[j], t, runs[runOf[j]])
        BY <3>1, <3>2 DEF Story, ActiveJob, TerminalJob
      <4> QED
        BY <1>0, <2>1, <2>2, <2>3, <4>1, OneJobStory
    <3>3. CASE turn.stage = "finalized" /\ turn.job = j /\ t = ReconciledState(turn.commit)
      <4>1. Holding /\ turn.commit \in TerminalRun
        BY <3>3 DEF Holding, RuntimeInv, MemoryInv, TurnShape
      <4>2. runs[runOf[j]] = turn.commit
        BY <1>0, <3>3, <4>1 DEF TurnStory, TerminalRun
      <4>3. state[j] = "RUNNING"
        BY <3>3, <4>1, TurnLease
      <4>4. Story(state[j], t, runs[runOf[j]])
        BY <3>1, <3>3, <4>1, <4>2, <4>3 DEF Story, ActiveJob, TerminalJob
      <4> QED
        BY <1>0, <2>1, <2>2, <2>3, <4>4, OneJobStory
    <3> QED
      BY <1>7, <3>2, <3>3
  <2>4. CASE Continued(j)
    <3>1. state[j] \in TerminalJob
      BY <1>0, <2>1, <2>4 DEF TableStory, JobStory
    <3>2. t = state[j]
      <4>1. ASSUME turn.stage = "finalized", turn.job = j
            PROVE  state[j] = "RUNNING"
        BY <4>1, TurnLease DEF Holding
      <4> QED
        BY <1>7, <3>1, <4>1 DEF TerminalJob
    <3>3. /\ OneNewest' /\ Parented'
          /\ \A i \in Job : Continued(i)' <=> Continued(i)
      BY <1>0, <2>1, ChainsKept DEF SameJobs
    <3>4. JobStory(j)'
      BY <1>0, <2>1, <2>2, <2>4, <3>2, <3>3 DEF TableStory, JobStory
    <3>5. ASSUME NEW i \in Job \ {j}
          PROVE  JobStory(i)'
      BY <1>0, <2>1, <2>2, <3>3, StoryKept DEF TableStory
    <3> QED
      BY <3>3, <3>4, <3>5 DEF TableStory
  <2> QED
    BY <2>3, <2>4
<1>8. CASE ApiCall
  <2>1. ASSUME NEW j \in Job, CancelQueued(j)
        PROVE  TableStory'
    <3>1. /\ state[j] = "QUEUED" /\ state' = [state EXCEPT ![j] = "CANCELLED"]
          /\ runs' = CancelledRuns(j) /\ UNCHANGED <<parent, runOf, stream>>
      BY <2>1 DEF CancelQueued, linkVars
    <3>2. runOf[j] \in Run /\ ~Continued(j) /\ Story("QUEUED", stream[j], runs[runOf[j]])
      BY <1>0, <3>1, ActiveIsNewest DEF Submitted, ActiveJob
    <3>3. runs[runOf[j]] \in {"QUEUED", "RUNNING"} /\ stream[j] = "OPEN"
      BY <1>0, <3>2 DEF Story, ActiveJob, TypeOK, RunStatus
    <3>4. runs'[runOf[j]] = "CANCELLED" /\ \A q \in Run \ {runOf[j]} : runs'[q] = runs[q]
      BY <3>1, <3>2, <3>3 DEF CancelledRuns
    <3>5. state'[j] = "CANCELLED" /\ \A i \in Job \ {j} : state'[i] = state[i]
      BY <1>0, <3>1 DEF TypeOK
    <3>6. Story(state'[j], stream'[j], runs'[runOf[j]])
      BY <3>1, <3>3, <3>4, <3>5 DEF Story, ActiveJob, TerminalJob, TerminalRun, ReconciledState
    <3> QED
      BY <1>0, <3>1, <3>2, <3>4, <3>5, <3>6, OneJobStory
  <2>2. ASSUME NEW j \in Job, NEW p \in Priority, NEW t \in Schedule, Reprioritize(j, p, t)
        PROVE  TableStory'
    BY <1>1, <2>2 DEF Reprioritize, linkVars
  <2>3. ASSUME NEW j \in Job, NEW r \in Run, NEW p \in Priority, NEW m \in Budget,
               CreateRun(j, r, p, m, now)
        PROVE  TableStory'
    <3>1. /\ Insert(j, "ROOT", r, p, m, NoJob, now) /\ NoJob \notin Job
          /\ runs[r] = "NONE" /\ runs' = [runs EXCEPT ![r] = "QUEUED"]
      BY <2>3, StoreAssumption DEF CreateRun
    <3> QED
      BY <1>0, <3>1, InsertedStory
  <2>4. ASSUME NEW j \in Job, NEW src \in Job, NEW m \in Budget, NEW r \in Run,
               EnqueueNewRun(src, j, "RERUN_FULL_CRAWL", m, r)
        PROVE  TableStory'
    <3>1. /\ Insert(j, "RERUN_FULL_CRAWL", r, priority[src], m, src, now)
          /\ runs[r] = "NONE" /\ runs' = [runs EXCEPT ![r] = "QUEUED"]
          /\ state[src] # "ABSENT"
      BY <2>4 DEF EnqueueNewRun, LineageAllows, TerminalJob
    <3> QED
      BY <1>0, <3>1, InsertedStory
  <2>5. ASSUME NEW j \in Job, NEW src \in Job, NEW k, NEW m, EnqueueSameRun(src, j, k, m)
        PROVE  TableStory'
    BY <1>0, <2>5, ContinuedStory
  <2> QED
    BY <1>8, <2>1, <2>2, <2>3, <2>4, <2>5 DEF ApiCall
<1>9. CASE Holding /\ TurnCall
  <2> DEFINE j == turn.job
  <2>1. j \in Job /\ state[j] = "RUNNING" /\ runOf[j] \in Run
    BY <1>9, TurnLease
  <2>2. Story("RUNNING", stream[j], runs[runOf[j]]) /\ ~Continued(j)
    BY <1>0, <2>1, ActiveIsNewest DEF ActiveJob
  <2>3. CASE Heartbeat(j, turn.lease) \/ AppendCheckpoint(j, turn.lease, turn.lease.gen)
    BY <1>1, <2>3 DEF Heartbeat, AppendCheckpoint, queueVars, linkVars
  <2>4. CASE \/ Cancel(j, turn.lease) \/ RequeueAfterPressure(j, turn.lease)
             \/ FailProduction(j, turn.lease) \/ ReconcileRun(j, turn.lease)
    BY <1>0, <2>1, <2>4, SettledStory
  <2>5. CASE /\ turn.stage = "decided" /\ turn.plan = "fail"
             /\ Fail(j, turn.lease, FALSE, now + RetryDelay)
    <3>1. ~RunTerminal(j)
      BY <1>0, <1>9, <2>5 DEF TurnStory
    <3> QED
      BY <1>0, <2>1, <2>5, <3>1, SettledStory
  <2>6. ASSUME turn.stage \in {"running", "working", "saved"}
        PROVE  stream[j] = "OPEN"
    <3>1. ~RunTerminal(j) /\ runOf[j] # NoRun
      BY <1>0, <1>9, <2>1, <2>6, StoreAssumption DEF TurnStory
    <3> QED
      BY <2>2, <3>1 DEF RunTerminal, Story, ActiveJob
  <2>7. ASSUME NEW s, runs' = [runs EXCEPT ![runOf[j]] = s], Story("RUNNING", stream[j], s),
               UNCHANGED <<state, parent, runOf, stream>>
        PROVE  TableStory'
    <3>1. runs'[runOf[j]] = s /\ \A q \in Run \ {runOf[j]} : runs'[q] = runs[q]
      BY <1>0, <2>1, <2>7 DEF TypeOK
    <3> QED
      BY <1>0, <2>1, <2>2, <2>7, <3>1, OneJobStory
  <2>8. CASE turn.stage = "running" /\ StartRun(runOf[j], StartFrom(j))
    <3>1. Story("RUNNING", stream[j], "RUNNING")
      BY <2>6, <2>8 DEF Story, ActiveJob, TerminalJob, TerminalRun
    <3> QED
      BY <2>7, <2>8, <3>1 DEF StartRun, queueVars, linkVars
  <2>9. ASSUME turn.stage \in {"running", "working", "saved"}, NEW s \in TerminalRun,
               FinalizeRun(runOf[j], s)
        PROVE  TableStory'
    <3>1. Story("RUNNING", stream[j], s)
      BY <2>6, <2>9 DEF Story, ActiveJob, TerminalJob, TerminalRun
    <3> QED
      BY <2>7, <2>9, <3>1 DEF FinalizeRun, queueVars, linkVars
  <2> QED
    BY <1>9, <2>3, <2>4, <2>5, <2>8, <2>9 DEF TurnCall
<1> QED
  BY <1>2, <1>4, <1>5, <1>6, <1>7, <1>8, <1>9 DEF StoreCall

\* What the turn relies on between its own calls: nobody else touches the run of
\* a running job.
RunKept ==
    \A j \in Job : state[j] = "RUNNING" =>
        runOf'[j] = runOf[j] /\ runs'[runOf[j]] = runs[runOf[j]]

LEMMA OthersKeepRun ==
    ASSUME TypeOK, Submitted, TableStory, ContinuedOnce',
           \/ UNCHANGED storeVars \/ Tick \/ ApiCall
           \/ \E j, t : AppendTerminal(j, t)
           \/ Heartbeat(turn.job, turn.lease)
           \/ AppendCheckpoint(turn.job, turn.lease, turn.lease.gen)
    PROVE  RunKept
<1>1. ASSUME NEW j \in Job, CancelQueued(j)
      PROVE  RunKept
  <2>1. state[j] = "QUEUED" /\ runs' = CancelledRuns(j) /\ runOf' = runOf
    BY <1>1 DEF CancelQueued, linkVars
  <2>2. ASSUME NEW i \in Job, state[i] = "RUNNING"
        PROVE  runOf[i] \in Run /\ runOf[i] # runOf[j]
    <3>1. i # j /\ ~Continued(i) /\ ~Continued(j)
      BY <2>1, <2>2, ActiveIsNewest DEF ActiveJob
    <3> QED
      BY <2>1, <2>2, <3>1 DEF TableStory, OneNewest, Submitted
  <2> QED
    BY <2>1, <2>2 DEF RunKept, CancelledRuns
<1>2. ASSUME NEW j \in Job, NEW r \in Run, NEW k, NEW p, NEW m, NEW src, NEW t,
             Insert(j, k, r, p, m, src, t), runs' = [runs EXCEPT ![r] = "QUEUED"],
             \A i \in Job : state[i] = "RUNNING" => runOf[i] # r
      PROVE  RunKept
  <2>1. state[j] = "ABSENT" /\ \A i \in Job \ {j} : runOf'[i] = runOf[i]
    BY <1>2, InsertRows
  <2>2. \A i \in Job : state[i] = "RUNNING" => runOf[i] \in Run /\ i # j
    BY <2>1 DEF Submitted
  <2> QED
    BY <1>2, <2>1, <2>2 DEF RunKept, TypeOK
<1>3. ASSUME NEW i \in Job, state[i] = "RUNNING"
      PROVE  runs[runOf[i]] # "NONE" /\ ~Continued(i)
  BY <1>3, ActiveIsNewest DEF ActiveJob, Story
<1>4. CASE ApiCall
  <2>1. ASSUME NEW j \in Job, NEW r \in Run, NEW p \in Priority, NEW m \in Budget,
               CreateRun(j, r, p, m, now)
        PROVE  RunKept
    <3>1. /\ Insert(j, "ROOT", r, p, m, NoJob, now)
          /\ runs[r] = "NONE" /\ runs' = [runs EXCEPT ![r] = "QUEUED"]
      BY <2>1 DEF CreateRun
    <3> QED
      BY <1>2, <1>3, <3>1
  <2>2. ASSUME NEW j \in Job, NEW src \in Job, NEW m \in Budget, NEW r \in Run,
               EnqueueNewRun(src, j, "RERUN_FULL_CRAWL", m, r)
        PROVE  RunKept
    <3>1. /\ Insert(j, "RERUN_FULL_CRAWL", r, priority[src], m, src, now)
          /\ runs[r] = "NONE" /\ runs' = [runs EXCEPT ![r] = "QUEUED"]
      BY <2>2 DEF EnqueueNewRun
    <3> QED
      BY <1>2, <1>3, <3>1
  <2>3. ASSUME NEW j \in Job, NEW p \in Priority, NEW t \in Schedule, Reprioritize(j, p, t)
        PROVE  RunKept
    BY <2>3 DEF Reprioritize, linkVars, RunKept
  <2>4. ASSUME NEW j \in Job, NEW src \in Job, NEW k, NEW m, EnqueueSameRun(src, j, k, m)
        PROVE  RunKept
    <3>1. state[src] \in TerminalJob /\ ~Continued(src)
      BY <2>4, SourceWasNewest
    <3>2. /\ Insert(j, k, runOf[src], priority[src], m, src, now) /\ runOf[src] \in Run
          /\ runs' = [runs EXCEPT ![runOf[src]] = "QUEUED"]
      BY <2>4, <3>1 DEF EnqueueSameRun, Submitted, TerminalJob
    <3>3. ASSUME NEW i \in Job, state[i] = "RUNNING"
          PROVE  runOf[i] # runOf[src]
      BY <1>3, <3>1, <3>3 DEF TableStory, OneNewest, TerminalJob
    <3> QED
      BY <1>2, <3>2, <3>3
  <2> QED
    BY <1>1, <1>4, <2>1, <2>2, <2>3, <2>4 DEF ApiCall
<1>5. CASE ~ApiCall
  <2>1. runOf' = runOf /\ runs' = runs
    BY <1>5 DEF storeVars, linkVars, Tick, AppendTerminal, Heartbeat, AppendCheckpoint
  <2> QED
    BY <2>1 DEF RunKept
<1> QED
  BY <1>4, <1>5

\* A turn that goes on with the job, the run and the commit it had, or holds no
\* job any more.
LEMMA TurnGoesOn ==
    ASSUME MemoryInv, TurnStory,
           Holding' => /\ Holding /\ RunKept
                       /\ turn'.job = turn.job /\ turn'.commit = turn.commit,
           turn'.stage \in {"idle", "admitted", "acquired", "running", "working", "saved"} =>
              turn'.commit = "NONE",
           turn'.stage = "decided" => (turn'.plan = "reconcile" <=> turn'.commit # "NONE"),
           turn'.stage # "dead", turn'.plan # "fatal"
    PROVE  TurnStory'
<1>1. ASSUME Holding'
      PROVE  IF turn'.commit = "NONE" THEN ~RunTerminal(turn.job)'
             ELSE runs'[runOf'[turn'.job]] = turn'.commit
  <2>1. turn.job \in Job /\ state[turn.job] = "RUNNING"
    BY <1>1 DEF MemoryInv, TurnOwnsJob, Holding
  <2>2. runOf'[turn.job] = runOf[turn.job] /\ runs'[runOf[turn.job]] = runs[runOf[turn.job]]
    BY <1>1, <2>1 DEF RunKept
  <2> QED
    BY <1>1, <2>2 DEF TurnStory, RunTerminal
<1> QED
  BY <1>1 DEF TurnStory, RunTerminal

\* The turn stays in step with the tables, action by action.
LEMMA TurnStoryStep ==
    ASSUME ContinuedOnce', RuntimeConstants, RuntimeBounds, RuntimeInv, StoryInv,
           [RuntimeNext]_vars
    PROVE  TurnStory'
<1>0. /\ TypeOK /\ StoreInv /\ Submitted /\ MemoryInv /\ TableStory /\ TurnStory
      /\ turn \in Turn /\ QueueConsistent /\ RecoveryCommits
  BY RecoveryAccepted DEF RuntimeInv, StoreInv, StoryInv, MemoryInv, RuntimeTypeOK,
     RecoveryCommits
<1>1. /\ turn.stage # "dead" /\ turn.plan # "fatal"
      /\ turn.stage \in {"idle", "admitted", "acquired", "running", "working", "saved"} =>
            turn.commit = "NONE"
      /\ turn.stage = "decided" => (turn.plan = "reconcile" <=> turn.commit # "NONE")
  BY <1>0 DEF TurnStory
<1>2. Holding => /\ turn.job \in Job /\ state[turn.job] = "RUNNING" /\ runOf[turn.job] \in Run
                 /\ turn.lease = lease[turn.job] /\ runOf[turn.job] # NoRun
                 /\ Story("RUNNING", stream[turn.job], runs[runOf[turn.job]])
  BY <1>0, TurnLease, StoreAssumption, ActiveIsNewest DEF ActiveJob
\* Steps that leave the turn where it is.
<1>3. ASSUME RunKept, turn'.stage = turn.stage, turn'.job = turn.job,
             turn'.commit = turn.commit, turn'.plan = turn.plan
      PROVE  TurnStory'
  BY <1>0, <1>1, <1>3, TurnGoesOn DEF Holding
<1>4. ASSUME UNCHANGED storeVars
      PROVE  RunKept
  BY <1>0, <1>4, OthersKeepRun
<1>5. ASSUME ApiCall
      PROVE  RunKept
  BY <1>0, <1>5, OthersKeepRun
\* Startup has no turn.
<1>6. mode # "SERVING" => turn.stage = "idle"
  BY <1>0 DEF MemoryInv, TurnShape
<1>7. ASSUME turn' = turn, turn.stage = "idle"
      PROVE  TurnStory'
  BY <1>0, <1>1, <1>7, TurnGoesOn DEF Holding
<1>8. CASE StartupStep
  <2>1. turn' = turn /\ mode # "SERVING"
    BY <1>8
    DEF StartupStep, Boot, StartupRecover, StartupReconcile, StartupRepair, StartupServe
  <2> QED
    BY <1>6, <1>7, <2>1
\* The worker takes a job.
<1>9. ASSUME NEW level \in Level, Poll(level)
      PROVE  TurnStory'
  <2>1. /\ turn'.stage = "admitted" /\ turn'.commit = turn.commit /\ turn'.plan = turn.plan
        /\ turn.stage = "idle"
    BY <1>0, <1>9 DEF Poll, OtherMem, Turn
  <2> QED
    BY <1>0, <1>1, <2>1, TurnGoesOn DEF Holding
<1>10. ASSUME NEW w \in Worker, NEW j \in Job, TakeJob(w, j)
       PROVE  TurnStory'
  <2>1. /\ turn'.stage = "acquired" /\ turn'.job = j /\ turn'.commit = turn.commit
        /\ turn'.plan = turn.plan /\ turn.stage = "admitted"
    BY <1>0, <1>10 DEF TakeJob, OtherMem, Turn
  <2>2. /\ StateR[j] = "QUEUED" /\ runs' = RunsR /\ runOf' = runOf
    BY <1>0, <1>10 DEF TakeJob, Acquire, Selected, Eligible, linkVars
  <2>3. state[j] # "ABSENT"
    BY <1>0, <2>2, RecoveryKeepsAbsent
  <2>4. Story("QUEUED", StreamR[j], RunsR[runOf[j]])
    <3>1. ~Continued(j)
      BY <1>0, <2>2, <2>3, RecoveredEarlier DEF TableStory, JobStory, TerminalJob
    <3> QED
      BY <1>0, <2>2, <2>3, <3>1, RecoveredStory
  <2>5. ~RunTerminal(j)'
    BY <2>2, <2>4 DEF Story, RunTerminal
  <2> QED
    BY <1>1, <2>1, <2>5 DEF TurnStory, RunTerminal
<1>11. CASE TakeNothing
  <2>1. turn' = NoTurn
    BY <1>0, <1>11 DEF TakeNothing, OtherMem
  <2> QED
    BY <1>0, <1>1, <2>1, TurnGoesOn DEF Holding, NoTurn
<1>12. CASE Register
  <2>1. /\ turn'.stage = "running" /\ turn'.job = turn.job /\ turn'.commit = turn.commit
        /\ turn'.plan = turn.plan /\ turn.stage = "acquired"
        /\ RunKept
    BY <1>0, <1>4, <1>12 DEF Register, OtherMem, Turn
  <2> QED
    BY <1>0, <1>1, <2>1, TurnGoesOn DEF Holding
\* The handler, its heartbeat and the signals.
<1>13. ASSUME NEW level \in Level, HeartbeatOk(level)
       PROVE  TurnStory'
  <2>1. /\ turn'.stage = turn.stage /\ turn'.job = turn.job /\ turn'.commit = turn.commit
        /\ turn'.plan = turn.plan
        /\ Heartbeat(turn.job, turn.lease)
    BY <1>0, <1>13 DEF HeartbeatOk, OtherMem, Turn
  <2> QED
    BY <1>0, <1>3, <2>1, OthersKeepRun
<1>14. CASE HeartbeatLost \/ Shutdown \/ \E level \in Level : RefreshPressure(level)
  <2>1. /\ turn'.stage = turn.stage /\ turn'.job = turn.job /\ turn'.commit = turn.commit
        /\ turn'.plan = turn.plan
        /\ UNCHANGED storeVars
    BY <1>0, <1>14 DEF HeartbeatLost, Shutdown, RefreshPressure, Observe, OtherMem, Turn
  <2> QED
    BY <1>3, <1>4, <2>1
<1>15. CASE HandlerMark \/ TimePasses
  <2>1. UNCHANGED memVars /\ (Tick \/ AppendCheckpoint(turn.job, turn.lease, turn.lease.gen))
    BY <1>15 DEF HandlerMark, TimePasses
  <2> QED
    BY <1>0, <1>3, <2>1, OthersKeepRun DEF memVars
<1>16. CASE HandlerStart
  <2>1. /\ turn'.stage \in {"working", "returned"} /\ turn'.job = turn.job
        /\ turn'.commit = turn.commit /\ turn'.plan = turn.plan /\ turn.stage = "running"
    BY <1>0, <1>16 DEF HandlerStart, OtherMem, Turn
  <2>2. runs' = [runs EXCEPT ![runOf[turn.job]] = "RUNNING"] /\ runOf' = runOf
    BY <1>16 DEF HandlerStart, StartRun, linkVars
  <2>3. ~RunTerminal(turn.job)'
    BY <1>0, <1>2, <2>1, <2>2 DEF Holding, RunTerminal, TypeOK, TerminalRun
  <2> QED
    BY <1>1, <2>1, <2>3 DEF TurnStory, RunTerminal
<1>17. ASSUME NEW last \in BOOLEAN, HandlerCheckpoint(last)
       PROVE  TurnStory'
  <2>1. /\ turn'.stage \in {"working", "saved"} /\ turn'.job = turn.job
        /\ turn'.commit = turn.commit /\ turn'.plan = turn.plan /\ turn.stage = "working"
        /\ AppendCheckpoint(turn.job, turn.lease, turn.lease.gen)
    BY <1>0, <1>17 DEF HandlerCheckpoint, OtherMem, Turn
  <2> QED
    BY <1>0, <1>1, <2>1, OthersKeepRun, TurnGoesOn DEF Holding
<1>18. ASSUME NEW s \in TerminalRun, HandlerFinalize(s)
       PROVE  TurnStory'
  <2>1. /\ turn'.stage = "finalized" /\ turn'.job = turn.job /\ turn'.commit = s
        /\ turn'.plan = turn.plan /\ turn.stage \in {"running", "working", "saved"}
    BY <1>0, <1>18 DEF HandlerFinalize, AtBoundary, OtherMem, Turn
  <2>2. runs' = [runs EXCEPT ![runOf[turn.job]] = s] /\ runOf' = runOf
    BY <1>18 DEF HandlerFinalize, FinalizeRun, linkVars
  <2>3. runs'[runOf'[turn.job]] = s /\ s # "NONE"
    BY <1>0, <1>2, <2>1, <2>2 DEF Holding, TypeOK, TerminalRun
  <2> QED
    BY <1>1, <2>1, <2>3 DEF TurnStory
<1>19. CASE HandlerTerminal
  <2>1. /\ turn'.stage = turn.stage /\ turn'.job = turn.job /\ turn'.commit = turn.commit
        /\ turn'.plan = turn.plan
        /\ \E t : AppendTerminal(turn.job, t)
    BY <1>0, <1>19 DEF HandlerTerminal, OtherMem, Turn
  <2> QED
    BY <1>0, <1>3, <2>1, OthersKeepRun
<1>20. CASE HandlerReturn
  <2>1. /\ turn'.stage \in {"ending", "returned"} /\ turn'.job = turn.job
        /\ turn'.commit = turn.commit /\ turn'.plan \in {"keep", turn.plan} /\ InHandler
        /\ UNCHANGED storeVars
    BY <1>0, <1>20 DEF HandlerReturn, OtherMem, Turn
  <2> QED
    BY <1>0, <1>1, <1>4, <2>1, TurnGoesOn DEF Holding, InHandler
\* The end of the turn.
<1>21. CASE Decide
  <2>1. /\ turn'.stage = "decided" /\ turn'.job = turn.job /\ turn'.commit = turn.commit
        /\ turn'.plan = IF turn.commit # "NONE" THEN "reconcile"
                        ELSE IF turn.cancelled THEN "cancel"
                        ELSE IF turn.pressured THEN "requeue" ELSE "fail"
        /\ turn.stage = "returned"
        /\ UNCHANGED storeVars
    BY <1>0, <1>21 DEF Decide, OtherMem, Turn
  <2>2. turn'.plan # "fatal" /\ (turn'.plan = "reconcile" <=> turn'.commit # "NONE")
    BY <2>1
  <2> QED
    BY <1>0, <1>1, <1>4, <2>1, <2>2, TurnGoesOn DEF Holding
<1>22. ASSUME NEW st \in {"ending", "repairing"}, NEW pl, pl # "fatal",
              turn' = [turn EXCEPT !.stage = st, !.plan = pl]
       PROVE  TurnStory'
  <2>1. turn'.stage = st /\ turn'.plan = pl
    BY <1>0, <1>22 DEF Turn
  <2> QED
    BY <1>0, <1>1, <1>22, <2>1, TurnGoesOn DEF Holding
<1>23. ASSUME NEW p, NEW lost, NEW accepts, NEW tx, NEW next, Settle(p, lost, accepts, tx, next),
              accepts, \E st \in {"ending", "repairing"}, pl \in {"retire", "keep"} :
                          next = [turn EXCEPT !.stage = st, !.plan = pl]
       PROVE  TurnStory'
  <2>1.
        /\ \E st \in {"ending", "repairing"}, pl \in {"retire", "keep"} :
              turn' = [turn EXCEPT !.stage = st, !.plan = pl]
    BY <1>23 DEF Settle, OtherMem, Ending
  <2> QED
    BY <1>22, <2>1
<1> USE DEF Ending, Repairing
<1>24. CASE SettleReconcile
  <2>1. turn.stage = "decided" /\ turn.plan = "reconcile"
    BY <1>24 DEF SettleReconcile, Settle
  <2>2. RunTerminal(turn.job) /\ Reconcilable(turn.job)
    <3>1. turn.commit # "NONE" /\ turn.commit \in TerminalRun
      BY <1>0, <1>1, <2>1 DEF Turn
    <3> QED
      BY <1>0, <1>2, <2>1, <3>1 DEF TurnStory, Holding, RunTerminal, Reconcilable
  <2> QED
    BY <1>23, <1>24, <2>2 DEF SettleReconcile
<1>25. CASE SettleCancel
  BY <1>23, <1>25 DEF SettleCancel
<1>26. CASE SettleRequeue
  <2>1. Holding
    BY <1>26 DEF SettleRequeue, Settle, Holding
  <2>2. ~RunTerminal(turn.job) => stream[turn.job] = "OPEN"
    BY <1>2, <2>1 DEF Story, RunTerminal, ActiveJob
  <2> QED
    BY <1>23, <1>26, <2>2 DEF SettleRequeue
<1>27. CASE SettleProductionFailure
  <2>1. Holding /\ turn.stage = "decided" /\ turn.plan = "fail"
    BY <1>27 DEF SettleProductionFailure, Settle, Holding
  <2>2. ~RunTerminal(turn.job)
    BY <1>0, <1>1, <2>1 DEF TurnStory
  <2>3. /\ runs[runOf[turn.job]] \in {"QUEUED", "RUNNING", "FAILED"}
        /\ stream[turn.job] = "OPEN"
    BY <1>0, <1>2, <2>1, <2>2 DEF Story, RunTerminal, ActiveJob, TypeOK, RunStatus
  <2> QED
    BY <1>23, <1>27, <2>3 DEF SettleProductionFailure
<1>28. CASE SettleQuickFailure
  BY <1>23, <1>28 DEF SettleQuickFailure
<1>29. CASE RepairTurn
  <2>1. turn.stage = "repairing" /\ turn.job \in Job /\ state[turn.job] \in TerminalJob
    BY <1>0, <1>29 DEF RepairTurn, MemoryInv, TurnShape
  <2>2. stream[turn.job] \in {"OPEN", state[turn.job]}
    BY <1>0, <2>1 DEF TableStory, JobStory, Story, TerminalJob
  <2> QED
    BY <1>1, <1>22, <1>29, <2>2 DEF RepairTurn, OtherMem
<1>30. CASE Release
  <2>1. turn' = NoTurn
    BY <1>1, <1>30 DEF Release, OtherMem
  <2> QED
    BY <1>0, <1>1, <2>1, TurnGoesOn DEF Holding, NoTurn
<1>31. CASE Crash
  BY <1>0, <1>31, TurnGoesOn DEF Crash, Holding, NoTurn
\* The API.
<1>32. ASSUME NEW j \in Job, ApiStep(j)
       PROVE  TurnStory'
  <2>1. ASSUME NEW r \in Run, NEW p \in Priority, NEW m \in Budget, Submit(j, r, p, m)
        PROVE  TurnStory'
    <3>1. ApiCall
      BY <2>1 DEF Submit, ApiCall
    <3> QED
      BY <1>3, <1>5, <2>1, <3>1 DEF Submit, memVars
  <2>2. CASE RequestCancel(j)
    <3>1. /\ turn'.stage = turn.stage /\ turn'.job = turn.job /\ turn'.commit = turn.commit
          /\ turn'.plan = turn.plan
          /\ UNCHANGED storeVars
      BY <1>0, <2>2 DEF RequestCancel, Turn
    <3> QED
      BY <1>3, <1>4, <3>1
  <2>3. CASE FinishCancel(j)
    <3>1. ApiCall \/ UNCHANGED storeVars
      BY <2>3 DEF FinishCancel, ApiCall
    <3> QED
      BY <1>3, <1>4, <1>5, <2>3, <3>1 DEF FinishCancel
  <2>4. ASSUME NEW src \in Job, RecoverJob(src, j)
        PROVE  TurnStory'
    <3>1. ApiCall
      BY <1>0, <2>4, RecoverIsApiCall
    <3> QED
      BY <1>3, <1>5, <2>4, <3>1 DEF RecoverJob, memVars
  <2>5. ASSUME NEW p \in Priority, NEW t \in Schedule, ChangePriority(j, p, t)
        PROVE  TurnStory'
    <3>1. ApiCall
      BY <2>5 DEF ChangePriority, ApiCall
    <3> QED
      BY <1>3, <1>5, <2>5, <3>1 DEF ChangePriority, memVars
  <2> QED
    BY <1>32, <2>1, <2>2, <2>3, <2>4, <2>5 DEF ApiStep
<1>33. CASE UNCHANGED vars
  BY <1>3, <1>4, <1>33 DEF vars, memVars
<1> QED
  BY <1>8, <1>9, <1>10, <1>11, <1>12, <1>13, <1>14, <1>15, <1>16, <1>17, <1>18, <1>19,
     <1>20, <1>21, <1>24, <1>25, <1>26, <1>27, <1>28, <1>29, <1>30, <1>31, <1>32, <1>33
  DEF RuntimeNext, WorkerStep, HandlerStep

\* Startup goes on as it came: what it found wrong stays so until the process ends.
LEMMA StepWhileServing ==
    ASSUME mode = "SERVING", RuntimeNext
    PROVE  mode' = mode \/ Crash
BY DEF RuntimeNext, StartupStep, Boot, StartupRecover, StartupReconcile, StartupRepair,
       StartupServe, Poll, RefreshPressure, HeartbeatOk, WorkerStep, TakeJob, TakeNothing,
       Register, Decide, SettleReconcile, SettleCancel, SettleRequeue, SettleProductionFailure,
       SettleQuickFailure, Settle, RepairTurn, Release, HandlerStep, HandlerMark, HandlerStart,
       HandlerTerminal, HandlerCheckpoint, HandlerFinalize, HandlerReturn, HeartbeatLost,
       ApiStep, Submit, RequestCancel, FinishCancel, RecoverJob, ChangePriority, Shutdown,
       TimePasses, OtherMem, memVars

LEMMA StepOutsideServing ==
    ASSUME mode # "SERVING", turn.stage = "idle", cancelling = {}, RuntimeNext
    PROVE  StartupStep \/ Crash \/ TimePasses
BY DEF RuntimeNext, Poll, RefreshPressure, HeartbeatOk, WorkerStep, TakeJob, TakeNothing,
       Register, Decide, SettleReconcile, SettleCancel, SettleRequeue, SettleProductionFailure,
       SettleQuickFailure, Settle, RepairTurn, Release, HandlerStep, HandlerMark, HandlerStart,
       HandlerTerminal, HandlerCheckpoint, HandlerFinalize, AtBoundary, HandlerReturn,
       HeartbeatLost, InHandler, ApiStep, Submit, RequestCancel, FinishCancel, RecoverJob,
       ChangePriority, Open, Shutdown

LEMMA StartupStoryStep ==
    ASSUME RuntimeInv, StoryInv, [RuntimeNext]_vars
    PROVE  StartupStory'
<1>0. /\ TypeOK /\ StoreInv /\ Submitted /\ TableStory /\ StartupStory
      /\ QueueConsistent /\ RecoveryCommits
      /\ mode # "SERVING" => turn.stage = "idle"
      /\ \A j \in repairs : state[j] \in TerminalJob
  BY RecoveryAccepted
  DEF RuntimeInv, StoreInv, StoryInv, MemoryInv, TurnShape, RecoveryCommits
<1>1. ASSUME UNCHANGED <<mode, invalid, cancelling, state, parent, runOf, runs>>
      PROVE  StartupStory'
  BY <1>0, <1>1 DEF StartupStory, EndedOtherwise, Continued, RunTerminal
<1>2. ASSUME mode' = "SERVING" \/ (mode' # "RECOVERY_MODE" /\ cancelling' = {})
      PROVE  StartupStory'
  BY <1>2 DEF StartupStory
<1>3. CASE Crash
  BY <1>2, <1>3 DEF Crash
<1>4. CASE mode = "SERVING" /\ RuntimeNext
  BY <1>2, <1>3, <1>4, StepWhileServing
<1>5. CASE mode # "SERVING" /\ StartupStep
  <2>1. cancelling = {} /\ cancelling' = {}
    BY <1>0, <1>5
    DEF StartupStory, StartupStep, Boot, StartupRecover, StartupReconcile, StartupRepair,
        StartupServe
  <2>2. CASE Boot
    BY <1>2, <2>1, <2>2 DEF Boot
  <2>3. CASE StartupRecover
    BY <1>0, <1>2, <2>1, <2>3 DEF StartupRecover
  <2>4. CASE StartupReconcile
    <3>1. CASE \A j \in Settled : Reconcilable(j)
      BY <1>2, <2>1, <2>4, <3>1 DEF StartupReconcile
    <3>2. CASE ~\A j \in Settled : Reconcilable(j)
      <4>1. PICK j \in Settled : ~Reconcilable(j)
        BY <3>2
      <4>2. /\ j \in Job /\ state[j] # "ABSENT" /\ RunTerminal(j) /\ JobStory(j)
            /\ state[j] # "RUNNING" /\ state[j] # ReconciledState(runs[runOf[j]])
            /\ runs[runOf[j]] \in TerminalRun /\ state[j] \in JobState
        BY <1>0, <4>1 DEF Settled, Reconcilable, TableStory, RunTerminal, TypeOK
      <4>3. Continued(j) /\ state[j] \in TerminalJob
        BY <4>2 DEF JobStory, Story, JobState, TerminalJob, ActiveJob
      <4>4. EndedOtherwise(j)
        BY <4>2, <4>3 DEF EndedOtherwise
      <4>5. UNCHANGED <<state, parent, runOf, runs>>
        BY <2>4, <3>2 DEF StartupReconcile, storeVars, queueVars, linkVars
      <4>6. EndedOtherwise(j)'
        BY <4>4, <4>5 DEF EndedOtherwise, Continued, RunTerminal
      <4> QED
        BY <2>1, <4>2, <4>6 DEF StartupStory
    <3> QED
      BY <3>1, <3>2
  <2>5. ASSUME NEW j \in Job, StartupRepair(j)
        PROVE  StartupStory'
    <3>1. state[j] \in TerminalJob
      BY <1>0, <2>5 DEF StartupRepair
    <3>2. stream[j] \in {"OPEN", state[j]}
      BY <1>0, <3>1 DEF TableStory, JobStory, Story, TerminalJob
    <3>3. mode' = "REPAIRING"
      BY <2>5, <3>2 DEF StartupRepair
    <3> QED
      BY <1>2, <2>1, <3>3
  <2>6. CASE StartupServe
    <3>1. mode' = "SERVING" \/ invalid'
      BY <1>0, <2>6 DEF StartupServe
    <3> QED
      BY <2>1, <3>1 DEF StartupStory
  <2> QED
    BY <1>5, <2>2, <2>3, <2>4, <2>5, <2>6 DEF StartupStep
<1>6. CASE TimePasses
  BY <1>1, <1>6 DEF TimePasses, Tick, memVars, queueVars, linkVars
<1>7. CASE UNCHANGED vars
  BY <1>1, <1>7 DEF vars, memVars, storeVars, queueVars, linkVars
<1>8. CASE mode # "SERVING" /\ RuntimeNext
  <2>1. StartupStep \/ Crash \/ TimePasses
    BY <1>0, <1>8, StepOutsideServing DEF StartupStory
  <2> QED
    BY <1>3, <1>5, <1>6, <1>8, <2>1
<1> QED
  BY <1>4, <1>7, <1>8

\* While no job is continued twice, all three stories are invariant.
LEMMA StoryIsInvariant ==
    ASSUME RuntimeConstants, RuntimeBounds
    PROVE  RuntimeSpec => [](RuntimeInv /\ (ContinuedOnce => StoryInv))
<1> DEFINE Inv == RuntimeInv /\ (ContinuedOnce => StoryInv)
<1>1. RuntimeInit => Inv
  <2>1. RuntimeInit => RuntimeInv
    BY RuntimeInitInv
  <2>2. RuntimeInit => TableStory
    BY DEF RuntimeInit, StoreInit, TableStory, OneNewest, Parented, JobStory
  <2>3. RuntimeInit => TurnStory
    BY DEF RuntimeInit, NoTurn, TurnStory, Holding
  <2>4. RuntimeInit => StartupStory
    BY DEF RuntimeInit, StartupStory
  <2> QED
    BY <2>1, <2>2, <2>3, <2>4 DEF StoryInv
<1>2. Inv /\ [RuntimeNext]_vars => Inv'
  <2> SUFFICES ASSUME Inv, [RuntimeNext]_vars
               PROVE  Inv'
    OBVIOUS
  <2>1. RuntimeInv'
    BY RuntimeStep
  <2>2. ASSUME ContinuedOnce'
        PROVE  StoryInv'
    <3>1. StoryInv
      BY <2>2, ContinuedOnceBefore
    <3> QED
      BY <2>2, <3>1, StepIsCall, TableStoryStep, TurnStoryStep, StartupStoryStep DEF StoryInv
  <2> QED
    BY <2>1, <2>2
<1> QED
  BY <1>1, <1>2, PTL DEF RuntimeSpec

\* What a job's story says of its stream.
LEMMA StoryIsTold ==
    ASSUME RuntimeInv, StoryInv
    PROVE  StreamAgrees /\ StreamNotAhead /\ WorkerSurvives
<1>1. ASSUME NEW j \in Job, state[j] \in TerminalJob
      PROVE  stream[j] \in {"OPEN", state[j]}
  BY <1>1 DEF StoryInv, TableStory, JobStory, Story, TerminalJob
<1>2. ASSUME NEW j \in Job, state[j] \in ActiveJob, stream[j] # "OPEN"
      PROVE  RunTerminal(j) /\ ReconciledState(runs[runOf[j]]) = stream[j]
  <2>1. Story(state[j], stream[j], runs[runOf[j]])
    BY <1>2, ActiveIsNewest DEF StoryInv
  <2>2. runOf[j] # NoRun
    BY <1>2, StoreAssumption DEF RuntimeInv, Submitted, ActiveJob
  <2> QED
    BY <1>2, <2>1, <2>2 DEF Story, RunTerminal
<1> QED
  BY <1>1, <1>2 DEF StreamAgrees, StreamNotAhead, WorkerSurvives, StoryInv, TurnStory

\* While every run has one job, no interleaving of worker, handler, API, storage
\* probe, shutdown, crash and restart makes job, run and stream contradict each
\* other: nobody is told of an end that does not come, the worker never stops on
\* a queue error, and startup refuses to serve for nothing but an inconsistent
\* checkpoint.
THEOREM RuntimeNeverContradicted ==
    ASSUME RuntimeConstants, RuntimeBounds
    PROVE  RuntimeSpec => []NeverContradicted
<1>1. RuntimeInv /\ (ContinuedOnce => StoryInv) => NeverContradicted
  <2> SUFFICES ASSUME RuntimeInv, ContinuedOnce => StoryInv, OneJobPerRun
               PROVE  /\ StreamAgrees /\ StreamNotAhead /\ WorkerSurvives
                      /\ StartupReconciles
    BY DEF NeverContradicted
  <2>1. StoryInv
    BY DEF OneJobPerRun, ContinuedOnce
  <2>2. ASSUME NEW j \in Job, EndedOtherwise(j)
        PROVE  FALSE
    BY <2>1, <2>2
    DEF EndedOtherwise, Continued, OneJobPerRun, StoryInv, TableStory, Parented, TerminalJob
  <2> QED
    BY <2>1, <2>2, StoryIsTold DEF StartupReconciles, StoryInv, StartupStory
<1> QED
  BY <1>1, StoryIsInvariant, PTL

\* Recovery actions that reopen a run, however many follow one another, keep all
\* of this while no job is continued twice, but for startup: a run that ended
\* otherwise than an earlier job of it had is what may keep it from serving.
THEOREM RetriesNeverContradict ==
    ASSUME RuntimeConstants, RuntimeBounds
    PROVE  RuntimeSpec => []RetriesContradictNothing
<1>1. RuntimeInv /\ (ContinuedOnce => StoryInv) => RetriesContradictNothing
  BY StoryIsTold DEF RetriesContradictNothing, StoryInv, StartupStory
<1> QED
  BY <1>1, StoryIsInvariant, PTL
=============================================================================

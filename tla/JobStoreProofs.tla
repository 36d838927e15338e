--------------------------- MODULE JobStoreProofs ---------------------------
(***************************************************************************)
(* Proofs about the durable job queue, for every set of jobs, runs and     *)
(* workers and every budget, lease duration and bound.                     *)
(***************************************************************************)
EXTENDS JobStore, SequenceTheorems, TLAPS

\* A closed attempt differs from the open one in its outcome only.
LEMMA ClosedFields ==
    ASSUME NEW a \in Attempt, NEW o \in Outcome
    PROVE  /\ Closed(a, o) \in Attempt
           /\ Closed(a, o).outcome = o /\ Closed(a, o).gen = a.gen
BY DEF Closed, Attempt

\* Closing an attempt rewrites no more than its outcome: the history keeps its
\* length and stays a sequence of attempts.
LEMMA ClosedHistoryType ==
    ASSUME TypeOK, NEW j \in Job, NEW l, NEW o \in Outcome
    PROVE  /\ ClosedHistory(j, l, o) \in Seq(Attempt)
           /\ Len(ClosedHistory(j, l, o)) = Len(history[j])
           /\ DOMAIN history[j] = 1..Len(history[j])
           /\ DOMAIN ClosedHistory(j, l, o) = 1..Len(history[j])
           /\ \A n \in 1..Len(history[j]) :
                 /\ history[j][n] \in Attempt
                 /\ ClosedHistory(j, l, o)[n] =
                       IF ActiveAttempt(j, l, n)
                       THEN Closed(history[j][n], o) ELSE history[j][n]
<1> DEFINE H == history[j]
           C == ClosedHistory(j, l, o)
<1>1. H \in Seq(Attempt)
  BY DEF TypeOK
<1>2. /\ Len(H) \in Nat
      /\ DOMAIN H = 1..Len(H)
      /\ \A n \in 1..Len(H) : H[n] \in Attempt
  BY <1>1, LenProperties, ElementOfSeq
<1>3. \A n \in 1..Len(H) : C[n] = IF ActiveAttempt(j, l, n)
                                  THEN Closed(H[n], o) ELSE H[n]
  BY <1>2 DEF ClosedHistory
<1>4. \A n \in 1..Len(H) : C[n] \in Attempt
  BY <1>2, <1>3, ClosedFields
<1>5. C \in [1..Len(H) -> Attempt]
  BY <1>2, <1>4 DEF ClosedHistory
<1>6. C \in Seq(Attempt)
  BY <1>2, <1>5, SeqDef
<1>7. Len(C) = Len(H)
  BY <1>2, <1>5, <1>6, LenProperties
<1> QED
  BY <1>2, <1>3, <1>5, <1>6, <1>7

\* The state and the outcome a terminal run stands for.
LEMMA ReconciledType ==
    ASSUME NEW s \in TerminalRun
    PROVE  /\ ReconciledState(s) \in TerminalJob
           /\ ReconciledOutcome(s) \in Outcome \ {"RUNNING"}
BY DEF TerminalRun, ReconciledState, ReconciledOutcome, TerminalJob, Outcome

\* Leaving RUNNING keeps the tables well formed.
LEMMA CloseType ==
    ASSUME TypeOK, NEW j \in Job, NEW l, NEW st \in JobState, NEW o \in Outcome,
           Close(j, l, st, o)
    PROVE  /\ state' \in [Job -> JobState \cup {"ABSENT"}]
           /\ lease' \in [Job -> Lease \cup {NoLease}]
           /\ history' \in [Job -> Seq(Attempt)]
BY ClosedHistoryType DEF TypeOK, Close

\* What recovery leaves behind is well formed.
LEMMA RecoveryType ==
    ASSUME TypeOK
    PROVE  /\ StateR \in [Job -> JobState \cup {"ABSENT"}]
           /\ LeaseR \in [Job -> Lease \cup {NoLease}]
           /\ SchedR \in [Job -> Nat]
           /\ HistoryR \in [Job -> Seq(Attempt)]
           /\ StreamR \in [Job -> TerminalJob \cup {"OPEN"}]
           /\ RunsR \in [Run -> RunStatus \cup {"NONE"}]
           /\ \A j \in Expired : RecoveredOutcome(j) \in Outcome \ {"RUNNING"}
<1>1. \A j \in Job : /\ RunTerminal(j) => runs[runOf[j]] \in TerminalRun
                     /\ RecoveredOutcome(j) \in Outcome \ {"RUNNING"}
  BY ReconciledType DEF RecoveredOutcome, RunTerminal, Outcome
<1>2. \A j \in Job : RecoveredState(j) \in JobState \cup {"ABSENT"}
  BY <1>1, ReconciledType DEF TypeOK, RecoveredState, JobState, TerminalJob, ActiveJob
<1>3. HistoryR \in [Job -> Seq(Attempt)]
  BY <1>1, ClosedHistoryType DEF TypeOK, HistoryR
<1> QED
  BY <1>1, <1>2, <1>3
  DEF TypeOK, StateR, LeaseR, SchedR, StreamR, RunsR, Expired, TerminalJob,
      RunStatus, TerminalRun

\* The store never leaves its types, whichever transaction commits.
LEMMA TypeStep ==
    ASSUME TypeOK, [StoreNext]_storeVars
    PROVE  TypeOK'
<1> USE StoreAssumption, RequestedAssumption
<1>1. CASE Tick
  BY <1>1 DEF TypeOK, Tick, queueVars, linkVars
<1>2. ASSUME NEW w \in Worker, NEW heavy \in BOOLEAN, NEW j \in Job,
             Acquire(w, heavy, j)
      PROVE  TypeOK'
  <2>1. NewLease(w, j) \in Lease
    BY <1>2 DEF TypeOK, NewLease, Lease
  <2>2. [outcome |-> "RUNNING", gen |-> gen[j] + 1, owner |-> w] \in Attempt
    BY DEF TypeOK, Attempt, Outcome
  <2>3. Append(HistoryR[j], [outcome |-> "RUNNING", gen |-> gen[j] + 1, owner |-> w])
           \in Seq(Attempt)
    BY <2>2, RecoveryType, AppendProperties
  <2>4. history' \in [Job -> Seq(Attempt)]
    BY <1>2, <2>3, RecoveryType DEF Acquire
  <2>5. /\ lease' \in [Job -> Lease \cup {NoLease}]
        /\ state' \in [Job -> JobState \cup {"ABSENT"}]
    BY <1>2, <2>1, RecoveryType DEF Acquire, JobState, ActiveJob
  <2>6. gen' \in [Job -> Nat] /\ attempt' \in [Job -> Nat]
    BY <1>2 DEF TypeOK, Acquire
  <2> QED
    BY <1>2, <2>4, <2>5, <2>6, RecoveryType DEF TypeOK, Acquire, linkVars
<1>3. CASE RecoverExpired
  BY <1>3, RecoveryType DEF TypeOK, RecoverExpired, linkVars
<1>4. CASE ReconcileAll
  <2>1. history' \in [Job -> Seq(Attempt)]
    BY <1>4, ReconciledType, ClosedHistoryType DEF TypeOK, ReconcileAll, Settled, RunTerminal
  <2>2. state' \in [Job -> JobState \cup {"ABSENT"}]
    BY <1>4, ReconciledType DEF TypeOK, ReconcileAll, Settled, RunTerminal, JobState
  <2> QED
    BY <1>4, <2>1, <2>2 DEF TypeOK, ReconcileAll, linkVars
<1>5. ASSUME NEW j \in Job, QueueStep(j)
      PROVE  TypeOK'
  <2> USE DEF TypeOK, linkVars
  <2>1. CASE CancelQueued(j)
    BY <2>1 DEF CancelQueued, CancelledRuns, JobState, TerminalJob, RunStatus, TerminalRun
  <2>2. CASE RemoveIfSafe(j)
    BY <2>2 DEF RemoveIfSafe
  <2>3. ASSUME NEW p \in Priority, NEW t \in 0..MaxTime, Reprioritize(j, p, t)
        PROVE  TypeOK'
    <3>1. t \in Nat /\ p \in Nat
      BY StoreAssumption
    <3> QED
      BY <2>3, <3>1 DEF Reprioritize
  <2>4. ASSUME NEW k \in Kind, NEW r \in Run \cup {NoRun}, NEW p \in Nat,
               NEW m \in Budget, NEW src \in Job \cup {NoJob}, NEW t \in Nat,
               Insert(j, k, r, p, m, src, t),
               runs' \in [Run -> RunStatus \cup {"NONE"}]
        PROVE  TypeOK'
    BY <2>4 DEF Insert, JobState, ActiveJob
  <2>5. ASSUME NEW p \in Priority, NEW m \in Budget, NEW t \in 0..MaxTime,
               Enqueue(j, p, m, t) \/ \E r \in Run : CreateRun(j, r, p, m, t)
        PROVE  TypeOK'
    <3>1. t \in Nat /\ p \in Nat
      BY StoreAssumption
    <3> QED
      BY <2>4, <2>5, <3>1 DEF Enqueue, CreateRun, Kind, RunStatus
  <2>6. ASSUME NEW src \in Job, NEW k \in Requested, NEW m \in Budget,
               \/ EnqueueSameRun(src, j, k, m)
               \/ EnqueueNoRun(src, j, k, m)
               \/ \E r \in Run : EnqueueNewRun(src, j, k, m, r)
        PROVE  TypeOK'
    BY <2>4, <2>6 DEF EnqueueSameRun, EnqueueNoRun, EnqueueNewRun, Kind, RunStatus
  <2>7. ASSUME NEW t \in TerminalJob, AppendTerminal(j, t)
        PROVE  TypeOK'
    BY <2>7 DEF AppendTerminal, queueVars
  <2> QED
    BY <1>5, <2>1, <2>2, <2>3, <2>5, <2>6, <2>7 DEF QueueStep
<1>6. ASSUME NEW j \in Job, NEW l \in AnyLease, HolderStep(j, l)
      PROVE  TypeOK'
  <2> USE DEF TypeOK, linkVars
  <2>1. CASE Heartbeat(j, l)
    <3>1. l \in Lease
      BY DEF AnyLease, Lease
    <3>2. Renewed(l) \in Lease
      BY <3>1 DEF Lease, Renewed
    <3>3. lease' \in [Job -> Lease \cup {NoLease}]
      BY <2>1, <3>2 DEF Heartbeat
    <3> QED
      BY <2>1, <3>3 DEF Heartbeat
  <2>2. ASSUME NEW n \in DOMAIN history[j], AppendCheckpoint(j, l, n)
        PROVE  TypeOK'
    <3>1. n \in Nat
      BY LenProperties
    <3>2. Append(checkpoints[j], n) \in Seq(Nat)
      BY <3>1, AppendProperties
    <3> QED
      BY <2>2, <3>2 DEF AppendCheckpoint, queueVars
  <2>3. ASSUME NEW st \in JobState, NEW o \in Outcome, Close(j, l, st, o),
               sched' \in [Job -> Nat],
               stream' \in [Job -> TerminalJob \cup {"OPEN"}],
               runs' \in [Run -> RunStatus \cup {"NONE"}]
        PROVE  TypeOK'
    BY <2>3, CloseType DEF Close
  <2> HIDE DEF TypeOK
  <2>4. CASE Succeed(j, l)
    BY <2>3, <2>4 DEF TypeOK, Succeed, JobState, TerminalJob, Outcome
  <2>5. ASSUME NEW terminal \in BOOLEAN, NEW t \in now..Horizon,
               Fail(j, l, terminal, t)
        PROVE  TypeOK'
    <3> DEFINE retry == ~terminal /\ attempt[j] < budget[j]
               st    == IF retry THEN "QUEUED" ELSE "FAILED"
    <3>1. st \in JobState /\ "FAILED" \in Outcome
      BY DEF JobState, TerminalJob, ActiveJob, Outcome
    <3>2. Close(j, l, st, "FAILED") /\ UNCHANGED <<stream, runs>>
      BY <2>5 DEF Fail
    <3>3. sched' \in [Job -> Nat]
      BY <2>5 DEF Fail, TypeOK
    <3> HIDE DEF st
    <3> QED
      BY <2>3, <3>1, <3>2, <3>3 DEF TypeOK
  <2>6. CASE FailProduction(j, l)
    BY <2>3, <2>6
    DEF TypeOK, FailProduction, FinalizeCrawlFailure, JobState, TerminalJob, Outcome,
        RunStatus, TerminalRun
  <2>7. CASE Cancel(j, l)
    <3>1. CancelledRuns(j) \in [Run -> RunStatus \cup {"NONE"}]
      BY DEF TypeOK, CancelledRuns, RunStatus, TerminalRun
    <3> QED
      BY <2>3, <2>7, <3>1, ReconciledType
      DEF TypeOK, Cancel, RunTerminal, JobState, TerminalRun
  <2>8. CASE RequeueAfterPressure(j, l)
    <3>1. /\ PressureDecision(j) \in JobState
          /\ RunTerminal(j) => ReconciledOutcome(runs[runOf[j]]) \in Outcome
      BY ReconciledType
      DEF PressureDecision, RunTerminal, JobState, TerminalJob, ActiveJob
    <3>2. /\ sched' \in [Job -> Nat]
          /\ stream' \in [Job -> TerminalJob \cup {"OPEN"}]
          /\ runs' \in [Run -> RunStatus \cup {"NONE"}]
      BY <2>8
      DEF TypeOK, RequeueAfterPressure, FinalizeCrawlFailure, TerminalJob, RunStatus,
          TerminalRun
    <3> QED
      BY <2>3, <2>8, <3>1, <3>2 DEF RequeueAfterPressure, Outcome
  <2>9. CASE ReconcileRun(j, l)
    BY <2>3, <2>9, ReconciledType
    DEF TypeOK, ReconcileRun, RunTerminal, JobState, storeVars, queueVars
  <2> QED
    BY <1>6, <2>1, <2>2, <2>4, <2>5, <2>6, <2>7, <2>8, <2>9 DEF HolderStep
<1>7. ASSUME NEW r \in Run, RunStep(r)
      PROVE  TypeOK'
  BY <1>7
  DEF TypeOK, RunStep, StartRun, FinalizeRun, queueVars, linkVars, RunStatus
<1>8. CASE UNCHANGED storeVars
  BY <1>8 DEF TypeOK, storeVars, queueVars, linkVars
<1> QED
  BY <1>1, <1>2, <1>3, <1>4, <1>5, <1>6, <1>7, <1>8 DEF StoreNext

\* Spec => []TypeOK: every table of the job store keeps its type under every
\* transaction of every caller.
THEOREM StoreTypeCorrect == StoreSpec => []TypeOK
<1>1. StoreInit => TypeOK
  BY EmptySeq DEF StoreInit, TypeOK, JobState, Kind, RunStatus
<1>2. TypeOK /\ [StoreNext]_storeVars => TypeOK'
  BY TypeStep
<1> QED
  BY <1>1, <1>2, PTL DEF StoreSpec
-----------------------------------------------------------------------------
(***************************************************************************)
(* The columns of one job that the queue invariants speak of, and the few  *)
(* ways a transaction can change them.  StepIsRowSteps shows that every    *)
(* transaction is, for each job, one of these; everything else about the   *)
(* queue then follows from the row steps alone.                            *)
(***************************************************************************)
RowKept(j) ==
    /\ state'[j] = state[j] /\ lease'[j] = lease[j] /\ budget'[j] = budget[j]
    /\ attempt'[j] = attempt[j] /\ gen'[j] = gen[j] /\ history'[j] = history[j]

RowMoved(j) ==
    /\ \/ state[j] = "ABSENT" /\ state'[j] = "QUEUED" /\ budget'[j] \in Budget
       \/ /\ state[j] = "QUEUED" /\ state'[j] = "ABSENT" /\ budget'[j] = budget[j]
          /\ attempt[j] = 0 /\ history[j] = <<>>
       \/ state[j] = "QUEUED" /\ state'[j] = "CANCELLED" /\ budget'[j] = budget[j]
    /\ lease'[j] = lease[j]
    /\ attempt'[j] = attempt[j] /\ gen'[j] = gen[j] /\ history'[j] = history[j]

RowRenewed(j) ==
    /\ state[j] = "RUNNING" /\ lease[j].expires > now
    /\ state'[j] = state[j] /\ lease'[j] = Renewed(lease[j])
    /\ budget'[j] = budget[j]
    /\ attempt'[j] = attempt[j] /\ gen'[j] = gen[j] /\ history'[j] = history[j]

RowClosed(j) ==
    \E o \in Outcome \ {"RUNNING"} :
        /\ state[j] = "RUNNING"
        /\ \/ state'[j] \in TerminalJob
           \/ state'[j] = "QUEUED" /\ attempt[j] < budget[j]
        /\ lease'[j] = NoLease
        /\ history'[j] = ClosedHistory(j, lease[j], o)
        /\ budget'[j] = budget[j] /\ attempt'[j] = attempt[j] /\ gen'[j] = gen[j]

RowGranted(j) ==
    \E w \in Worker, h \in Seq(Attempt) :
        /\ \/ state[j] = "QUEUED" /\ h = history[j]
           \/ /\ state[j] = "RUNNING"
              /\ \E o \in Outcome \ {"RUNNING"} : h = ClosedHistory(j, lease[j], o)
        /\ attempt[j] < budget[j]
        /\ state'[j] = "RUNNING"
        /\ lease'[j] = NewLease(w, j)
        /\ history'[j] = Append(h, [outcome |-> "RUNNING", gen |-> gen[j] + 1, owner |-> w])
        /\ attempt'[j] = attempt[j] + 1 /\ gen'[j] = gen[j] + 1
        /\ budget'[j] = budget[j]

RowStep(j) == RowKept(j) \/ RowMoved(j) \/ RowRenewed(j) \/ RowClosed(j) \/ RowGranted(j)

\* Recovery closes the expired jobs and leaves every other row alone; it
\* requeues a job only when its budget has an attempt left.
LEMMA RecoveryRows ==
    ASSUME TypeOK, NEW j \in Job
    PROVE  /\ j \notin Expired => /\ StateR[j] = state[j]
                                  /\ LeaseR[j] = lease[j]
                                  /\ HistoryR[j] = history[j]
           /\ j \in Expired =>
                 /\ state[j] = "RUNNING"
                 /\ LeaseR[j] = NoLease
                 /\ \/ StateR[j] \in TerminalJob
                    \/ StateR[j] = "QUEUED" /\ attempt[j] < budget[j]
                 /\ \E o \in Outcome \ {"RUNNING"} :
                       HistoryR[j] = ClosedHistory(j, lease[j], o)
<1>1. CASE j \notin Expired
  BY <1>1 DEF StateR, RecoveredState, LeaseR, HistoryR
<1>2. CASE j \in Expired
  <2>1. state[j] = "RUNNING" /\ LeaseR[j] = NoLease
    BY <1>2 DEF Expired, LeaseR
  <2>2. \E o \in Outcome \ {"RUNNING"} : HistoryR[j] = ClosedHistory(j, lease[j], o)
    BY <1>2, RecoveryType DEF HistoryR
  <2>3. \/ StateR[j] \in TerminalJob
        \/ StateR[j] = "QUEUED" /\ attempt[j] < budget[j]
    <3>1. CASE RunTerminal(j)
      BY <1>2, <3>1, ReconciledType DEF StateR, RecoveredState, RunTerminal
    <3>2. CASE ~RunTerminal(j)
      BY <1>2, <3>2 DEF StateR, RecoveredState, TerminalJob, Resumable
    <3> QED
      BY <3>1, <3>2
  <2> QED
    BY <1>2, <2>1, <2>2, <2>3
<1> QED
  BY <1>1, <1>2

\* Close is the row step RowClosed on its job and changes no other row.
LEMMA CloseRows ==
    ASSUME TypeOK, NEW j \in Job, NEW st, NEW o \in Outcome \ {"RUNNING"},
           state[j] = "RUNNING",
           st \in TerminalJob \/ (st = "QUEUED" /\ attempt[j] < budget[j]),
           Close(j, lease[j], st, o), NEW k \in Job
    PROVE  RowStep(k)
BY DEF TypeOK, Close, linkVars, RowStep, RowKept, RowClosed

\* Every transaction of the store is a row step of every job.
LEMMA StepIsRowSteps ==
    ASSUME TypeOK, [StoreNext]_storeVars, NEW k \in Job
    PROVE  RowStep(k)
<1>1. ASSUME UNCHANGED <<queueVars, linkVars, history>>
      PROVE  RowStep(k)
  BY <1>1 DEF queueVars, linkVars, RowStep, RowKept
<1>2. ASSUME NEW w \in Worker, NEW heavy \in BOOLEAN, NEW j \in Job,
             Acquire(w, heavy, j)
      PROVE  RowStep(k)
  <2>1. StateR[j] = "QUEUED"
    BY <1>2 DEF Acquire, Selected, Eligible
  <2>2. CASE k = j
    <3>1. HistoryR[j] \in Seq(Attempt) /\ history[j] \in Seq(Attempt)
      BY RecoveryType DEF TypeOK
    <3>2. /\ attempt[j] < budget[j] /\ state'[j] = "RUNNING"
          /\ lease'[j] = NewLease(w, j)
          /\ history'[j] = Append(HistoryR[j],
                [outcome |-> "RUNNING", gen |-> gen[j] + 1, owner |-> w])
          /\ attempt'[j] = attempt[j] + 1 /\ gen'[j] = gen[j] + 1
          /\ budget'[j] = budget[j]
      BY <1>2, RecoveryType DEF TypeOK, Acquire, linkVars
    <3>3. \/ state[j] = "QUEUED" /\ HistoryR[j] = history[j]
          \/ /\ state[j] = "RUNNING"
             /\ \E o \in Outcome \ {"RUNNING"} : HistoryR[j] = ClosedHistory(j, lease[j], o)
      BY <2>1, RecoveryRows
    <3> QED
      BY <2>2, <3>1, <3>2, <3>3 DEF RowStep, RowGranted
  <2>3. CASE k # j
    <3>1. /\ state'[k] = StateR[k] /\ lease'[k] = LeaseR[k]
          /\ history'[k] = HistoryR[k]
          /\ attempt'[k] = attempt[k] /\ gen'[k] = gen[k] /\ budget'[k] = budget[k]
      BY <1>2, <2>3, RecoveryType DEF TypeOK, Acquire, linkVars
    <3> QED
      BY <3>1, RecoveryRows DEF RowStep, RowKept, RowClosed
  <2> QED
    BY <2>2, <2>3
<1>3. CASE RecoverExpired
  BY <1>3, RecoveryRows DEF RecoverExpired, linkVars, RowStep, RowKept, RowClosed
<1>4. CASE ReconcileAll
  <2>1. CASE k \in Settled /\ state[k] = "RUNNING"
    <3>1. runs[runOf[k]] \in TerminalRun
      BY <2>1 DEF Settled, RunTerminal
    <3> QED
      BY <1>4, <2>1, <3>1, ReconciledType DEF ReconcileAll, linkVars, RowStep, RowClosed
  <2>2. CASE ~(k \in Settled /\ state[k] = "RUNNING")
    BY <1>4, <2>2 DEF ReconcileAll, linkVars, RowStep, RowKept
  <2> QED
    BY <2>1, <2>2
<1>5. ASSUME NEW j \in Job, QueueStep(j)
      PROVE  RowStep(k)
  <2>1. CASE CancelQueued(j) \/ RemoveIfSafe(j)
    BY <2>1 DEF TypeOK, CancelQueued, RemoveIfSafe, linkVars, RowStep, RowKept, RowMoved
  <2>2. ASSUME NEW p \in Priority, NEW t \in 0..MaxTime, Reprioritize(j, p, t)
        PROVE  RowStep(k)
    BY <2>2 DEF Reprioritize, linkVars, RowStep, RowKept
  <2>3. ASSUME NEW kd, NEW r, NEW p, NEW m \in Budget, NEW src, NEW t,
               Insert(j, kd, r, p, m, src, t)
        PROVE  RowStep(k)
    BY <2>3 DEF TypeOK, Insert, RowStep, RowKept, RowMoved
  <2>4. ASSUME NEW p \in Priority, NEW m \in Budget, NEW t \in 0..MaxTime,
               Enqueue(j, p, m, t) \/ \E r \in Run : CreateRun(j, r, p, m, t)
        PROVE  RowStep(k)
    BY <2>3, <2>4 DEF Enqueue, CreateRun
  <2>5. ASSUME NEW src \in Job, NEW kd \in Requested, NEW m \in Budget,
               \/ EnqueueSameRun(src, j, kd, m)
               \/ EnqueueNoRun(src, j, kd, m)
               \/ \E r \in Run : EnqueueNewRun(src, j, kd, m, r)
        PROVE  RowStep(k)
    BY <2>3, <2>5 DEF EnqueueSameRun, EnqueueNoRun, EnqueueNewRun
  <2>6. ASSUME NEW t \in TerminalJob, AppendTerminal(j, t)
        PROVE  RowStep(k)
    BY <1>1, <2>6 DEF AppendTerminal
  <2> QED
    BY <1>5, <2>1, <2>2, <2>4, <2>5, <2>6 DEF QueueStep
<1>6. ASSUME NEW j \in Job, NEW l \in AnyLease, HolderStep(j, l)
      PROVE  RowStep(k)
  <2>1. CASE Heartbeat(j, l)
    BY <2>1 DEF TypeOK, Heartbeat, Owned, linkVars, RowStep, RowKept, RowRenewed
  <2>2. ASSUME NEW n \in DOMAIN history[j], AppendCheckpoint(j, l, n)
        PROVE  RowStep(k)
    BY <1>1, <2>2 DEF AppendCheckpoint
  <2>3. ASSUME NEW st, NEW o \in Outcome \ {"RUNNING"}, Close(j, l, st, o),
               state[j] = "RUNNING", lease[j] = l,
               st \in TerminalJob \/ (st = "QUEUED" /\ attempt[j] < budget[j])
        PROVE  RowStep(k)
    BY <2>3, CloseRows
  <2>4. CASE Succeed(j, l)
    BY <2>3, <2>4 DEF Succeed, Owned, TerminalJob, Outcome
  <2>5. ASSUME NEW terminal \in BOOLEAN, NEW t \in now..Horizon,
               Fail(j, l, terminal, t)
        PROVE  RowStep(k)
    BY <2>3, <2>5 DEF Fail, Owned, TerminalJob, Outcome
  <2>6. CASE FailProduction(j, l)
    BY <2>3, <2>6 DEF FailProduction, Owned, TerminalJob, Outcome
  <2>7. CASE Cancel(j, l)
    BY <2>3, <2>7, ReconciledType DEF Cancel, Owned, RunTerminal, TerminalRun
  <2>8. CASE RequeueAfterPressure(j, l)
    <3>1. /\ RunTerminal(j) => /\ ReconciledOutcome(runs[runOf[j]]) \in Outcome \ {"RUNNING"}
                               /\ PressureDecision(j) \in TerminalJob
          /\ \/ PressureDecision(j) \in TerminalJob
             \/ PressureDecision(j) = "QUEUED" /\ attempt[j] < budget[j]
      BY ReconciledType DEF PressureDecision, RunTerminal, TerminalJob
    <3> QED
      BY <2>3, <2>8, <3>1 DEF RequeueAfterPressure, Owned, Outcome
  <2>9. CASE ReconcileRun(j, l)
    BY <1>1, <2>3, <2>9, ReconciledType DEF ReconcileRun, RunTerminal, storeVars
  <2> QED
    BY <1>6, <2>1, <2>2, <2>4, <2>5, <2>6, <2>7, <2>8, <2>9 DEF HolderStep
<1> QED
  BY <1>1, <1>2, <1>3, <1>4, <1>5, <1>6
  DEF StoreNext, Tick, RunStep, StartRun, FinalizeRun, storeVars
-----------------------------------------------------------------------------
\* The inductive invariant: QueueConsistent needs to know, besides types, that
\* generations number the attempts, for otherwise closing the attempt of a
\* lease could also close an older one.
RowConsistent(j) ==
    /\ LeaseConsistent(j)
    /\ ActiveAttemptConsistent(j)
    /\ NoDanglingAttempt(j)
    /\ AttemptCountConsistent(j)
    /\ AttemptsWithinBudget(j)
    /\ GenerationCounts(j)
StoreInv == TypeOK /\ \A j \in Job : RowConsistent(j)

\* Under the invariant the running attempt is the last one, and closing it
\* leaves no attempt running.
LEMMA CloseLeavesNoneRunning ==
    ASSUME TypeOK, NEW j \in Job, RowConsistent(j), state[j] = "RUNNING",
           NEW o \in Outcome \ {"RUNNING"}
    PROVE  LET C == ClosedHistory(j, lease[j], o)
           IN  /\ C \in Seq(Attempt) /\ Len(C) = attempt[j]
               /\ \A n \in 1..attempt[j] :
                     /\ C[n].gen = n
                     /\ C[n].outcome # "RUNNING"
                     /\ history[j][n].outcome # "RUNNING" => C[n] = history[j][n]
<1> DEFINE C == ClosedHistory(j, lease[j], o)
<1>1. /\ C \in Seq(Attempt) /\ Len(C) = attempt[j]
      /\ DOMAIN history[j] = 1..attempt[j]
      /\ \A n \in 1..attempt[j] :
            /\ history[j][n] \in Attempt
            /\ C[n] = IF ActiveAttempt(j, lease[j], n)
                      THEN Closed(history[j][n], o) ELSE history[j][n]
  BY ClosedHistoryType DEF RowConsistent, AttemptCountConsistent
<1>2. \A n \in 1..attempt[j] : history[j][n].gen = n
  BY <1>1 DEF RowConsistent, GenerationCounts
<1>3. ASSUME NEW n \in 1..attempt[j]
      PROVE  /\ C[n].gen = n
             /\ C[n].outcome # "RUNNING"
             /\ history[j][n].outcome # "RUNNING" => C[n] = history[j][n]
  <2>1. CASE ActiveAttempt(j, lease[j], n)
    BY <1>1, <1>2, <2>1, ClosedFields DEF ActiveAttempt
  <2>2. CASE ~ActiveAttempt(j, lease[j], n)
    <3>1. n # attempt[j]
      BY <2>2 DEF ActiveAttempt, RowConsistent, ActiveAttemptConsistent
    <3>2. n < Len(history[j])
      BY <3>1 DEF TypeOK, RowConsistent, AttemptCountConsistent
    <3> QED
      BY <1>1, <1>2, <2>2, <3>2 DEF RowConsistent, GenerationCounts
  <2> QED
    BY <2>1, <2>2
<1> QED
  BY <1>1, <1>3

\* A grant of j to w: h is the history before it, with no attempt running, and
\* the new attempt and the new lease bear the next generation.
GrantOf(j, w, h) ==
    /\ Len(h) = attempt[j]
    /\ \A n \in 1..attempt[j] :
          /\ h[n].gen = n
          /\ h[n].outcome # "RUNNING"
          /\ history[j][n].outcome # "RUNNING" => h[n] = history[j][n]
    /\ history'[j] = Append(h, [outcome |-> "RUNNING", gen |-> attempt[j] + 1, owner |-> w])
    /\ attempt[j] < budget[j] /\ budget'[j] = budget[j]
    /\ state[j] \in ActiveJob /\ state'[j] = "RUNNING"
    /\ lease'[j] = [owner |-> w, gen |-> attempt[j] + 1, expires |-> now + LeaseDuration]
    /\ attempt'[j] = attempt[j] + 1 /\ gen'[j] = attempt[j] + 1

\* The row step RowGranted is such a grant.
LEMMA GrantRow ==
    ASSUME TypeOK, NEW j \in Job, RowConsistent(j), RowGranted(j)
    PROVE  \E w \in Worker, h \in Seq(Attempt) : GrantOf(j, w, h)
<1>1. PICK w \in Worker, h \in Seq(Attempt) :
        /\ \/ state[j] = "QUEUED" /\ h = history[j]
           \/ /\ state[j] = "RUNNING"
              /\ \E o \in Outcome \ {"RUNNING"} : h = ClosedHistory(j, lease[j], o)
        /\ attempt[j] < budget[j]
        /\ state'[j] = "RUNNING"
        /\ lease'[j] = NewLease(w, j)
        /\ history'[j] = Append(h, [outcome |-> "RUNNING", gen |-> gen[j] + 1, owner |-> w])
        /\ attempt'[j] = attempt[j] + 1 /\ gen'[j] = gen[j] + 1
        /\ budget'[j] = budget[j]
  BY DEF RowGranted
<1>2. gen[j] = attempt[j]
  BY DEF RowConsistent, GenerationCounts
<1> DEFINE NoneRunning ==
             /\ Len(h) = attempt[j]
             /\ \A n \in 1..attempt[j] :
                   /\ h[n].gen = n
                   /\ h[n].outcome # "RUNNING"
                   /\ history[j][n].outcome # "RUNNING" => h[n] = history[j][n]
<1>3. NoneRunning
  <2>1. CASE state[j] = "QUEUED" /\ h = history[j]
    <3>1. DOMAIN history[j] = 1..Len(history[j])
      BY LenProperties DEF TypeOK
    <3> QED
      BY <2>1, <3>1
      DEF RowConsistent, NoDanglingAttempt, AttemptCountConsistent, GenerationCounts
  <2>2. ASSUME state[j] = "RUNNING", NEW o \in Outcome \ {"RUNNING"},
               h = ClosedHistory(j, lease[j], o)
        PROVE  NoneRunning
    BY <2>2, CloseLeavesNoneRunning
  <2> QED
    BY <1>1, <2>1, <2>2
<1>4. lease'[j] = [owner |-> w, gen |-> attempt[j] + 1, expires |-> now + LeaseDuration]
  BY <1>1, <1>2 DEF NewLease
<1> QED
  BY <1>1, <1>2, <1>3, <1>4 DEF ActiveJob, GrantOf

\* A row step preserves the consistency of its job.
LEMMA RowStepConsistent ==
    ASSUME TypeOK, TypeOK', NEW j \in Job, RowConsistent(j), RowStep(j)
    PROVE  RowConsistent(j)'
<1>1. CASE RowKept(j)
  BY <1>1
  DEF RowConsistent, RowKept, LeaseConsistent, ActiveAttemptConsistent, NoDanglingAttempt,
      AttemptCountConsistent, AttemptsWithinBudget, GenerationCounts
<1>2. CASE RowMoved(j)
  <2>1. Len(<<>>) = 0 /\ \A n : n \notin DOMAIN <<>>
    OBVIOUS
  <2> QED
    BY <1>2, <2>1, StoreAssumption
    DEF TypeOK, RowConsistent, RowMoved, LeaseConsistent, ActiveAttemptConsistent, NoDanglingAttempt,
        AttemptCountConsistent, AttemptsWithinBudget, GenerationCounts
<1>3. CASE RowRenewed(j)
  <2>1. /\ lease'[j].owner = lease[j].owner /\ lease'[j].gen = lease[j].gen
        /\ lease'[j] # NoLease
    BY <1>3, NoLeaseAssumption, StoreAssumption
    DEF TypeOK, RowConsistent, RowRenewed, LeaseConsistent, Renewed, Lease
  <2> QED
    BY <1>3, <2>1
    DEF RowConsistent, RowRenewed, LeaseConsistent, ActiveAttemptConsistent, NoDanglingAttempt,
        AttemptCountConsistent, AttemptsWithinBudget, GenerationCounts
<1>4. CASE RowClosed(j)
  <2>1. PICK o \in Outcome \ {"RUNNING"} :
           /\ state[j] = "RUNNING" /\ state'[j] \in TerminalJob \cup {"QUEUED"}
           /\ lease'[j] = NoLease
           /\ history'[j] = ClosedHistory(j, lease[j], o)
           /\ budget'[j] = budget[j] /\ attempt'[j] = attempt[j] /\ gen'[j] = gen[j]
    BY <1>4 DEF RowClosed
  <2>2. /\ Len(history'[j]) = attempt[j]
        /\ DOMAIN history'[j] = 1..attempt[j]
        /\ \A n \in 1..attempt[j] : /\ history'[j][n].gen = n
                                    /\ history'[j][n].outcome # "RUNNING"
    <3>1. /\ history'[j] \in Seq(Attempt)
          /\ Len(history'[j]) = attempt[j]
          /\ \A n \in 1..attempt[j] : /\ history'[j][n].gen = n
                                      /\ history'[j][n].outcome # "RUNNING"
      BY <2>1, CloseLeavesNoneRunning
    <3> QED
      BY <3>1, LenProperties
  <2>3. state'[j] # "RUNNING" /\ state'[j] # "ABSENT"
    BY <2>1 DEF TerminalJob
  <2> QED
    BY <2>1, <2>2, <2>3
    DEF RowConsistent, LeaseConsistent, ActiveAttemptConsistent, NoDanglingAttempt,
        AttemptCountConsistent, AttemptsWithinBudget, GenerationCounts
<1>5. CASE RowGranted(j)
  <2>1. PICK w \in Worker, h \in Seq(Attempt) : GrantOf(j, w, h)
    BY <1>5, GrantRow
  <2> DEFINE a == [outcome |-> "RUNNING", gen |-> attempt[j] + 1, owner |-> w]
  <2>2. a \in Attempt
    BY DEF TypeOK, Attempt, Outcome
  <2>3. /\ Len(history'[j]) = attempt[j] + 1
        /\ DOMAIN history'[j] = 1..(attempt[j] + 1)
        /\ history'[j][attempt[j] + 1] = a
        /\ \A n \in 1..attempt[j] : history'[j][n] = h[n]
    BY <2>1, <2>2, AppendProperties, LenProperties DEF TypeOK, GrantOf
  <2>4. a.outcome = "RUNNING" /\ a.gen = attempt[j] + 1 /\ a.owner = w
    OBVIOUS
  <2>8. attempt'[j] \in Nat /\ attempt[j] \in Nat /\ budget[j] \in Nat
    BY DEF TypeOK
  <2>5. \A n \in 1..(attempt[j] + 1) : n \in 1..attempt[j] \/ n = attempt[j] + 1
    BY <2>8
  <2>6. /\ \A n \in 1..(attempt[j] + 1) : history'[j][n].gen = n
        /\ \A n \in 1..(attempt[j] + 1) :
              n < attempt[j] + 1 => history'[j][n].outcome # "RUNNING"
    <3>1. \A n \in 1..attempt[j] : h[n].gen = n /\ h[n].outcome # "RUNNING"
      BY <2>1 DEF GrantOf
    <3> HIDE DEF a
    <3>2. \A n \in 1..attempt[j] : /\ history'[j][n].gen = n
                                  /\ history'[j][n].outcome # "RUNNING"
      BY <2>3, <3>1
    <3>3. history'[j][attempt[j] + 1].gen = attempt[j] + 1
      BY <2>3, <2>4
    <3> QED
      BY <2>5, <2>8, <3>2, <3>3
  <2>7. /\ lease'[j] # NoLease
        /\ lease'[j].owner = w /\ lease'[j].gen = attempt[j] + 1
    BY <2>1, NoLeaseAssumption, StoreAssumption DEF TypeOK, Lease, GrantOf
  <2> HIDE DEF a
  <2> QED
    BY <2>1, <2>3, <2>4, <2>6, <2>7, <2>8
    DEF GrantOf, RowConsistent, LeaseConsistent, ActiveAttemptConsistent, NoDanglingAttempt,
        AttemptCountConsistent, AttemptsWithinBudget, GenerationCounts
<1> QED
  BY <1>1, <1>2, <1>3, <1>4, <1>5 DEF RowStep

\* The empty store is consistent.
LEMMA StoreInitInv ==
    ASSUME StoreInit
    PROVE  StoreInv
<1>1. TypeOK
  BY EmptySeq DEF StoreInit, TypeOK, JobState, Kind, RunStatus
<1>2. Len(<<>>) = 0 /\ \A n : n \notin DOMAIN <<>>
  OBVIOUS
<1> QED
  BY <1>1, <1>2
  DEF StoreInit, StoreInv, RowConsistent, LeaseConsistent, ActiveAttemptConsistent,
      NoDanglingAttempt, AttemptCountConsistent, AttemptsWithinBudget,
      GenerationCounts

\* Rows stay consistent and typed in every state of the store; the theorems
\* below all start from this.
LEMMA StoreInvariant == StoreSpec => []StoreInv
<1>1. StoreInit => StoreInv
  BY StoreInitInv
<1>2. StoreInv /\ [StoreNext]_storeVars => StoreInv'
  BY TypeStep, StepIsRowSteps, RowStepConsistent DEF StoreInv
<1> QED
  BY <1>1, <1>2, PTL DEF StoreSpec

\* ensure_queue_invariants never refuses the tables: however transactions of
\* workers, API and startup interleave, a running job has exactly one lease and
\* one running attempt that agree, every other job has none, and no job is
\* attempted more often than its budget allows.
THEOREM StoreQueueConsistent == StoreSpec => []QueueConsistent
<1>1. StoreInv => QueueConsistent
  BY DEF StoreInv, RowConsistent, QueueConsistent
<1> QED
  BY <1>1, StoreInvariant, PTL
-----------------------------------------------------------------------------
\* A row step never rewrites a finished attempt.
LEMMA RowStepHistory ==
    ASSUME TypeOK, NEW j \in Job, RowConsistent(j), RowStep(j)
    PROVE  /\ Len(history'[j]) >= Len(history[j])
           /\ \A n \in DOMAIN history[j] :
                 history[j][n].outcome # "RUNNING" => history'[j][n] = history[j][n]
<1>1. /\ Len(history[j]) = attempt[j] /\ DOMAIN history[j] = 1..attempt[j]
      /\ attempt[j] \in Nat
  BY LenProperties DEF TypeOK, RowConsistent, AttemptCountConsistent
<1>2. CASE history'[j] = history[j]
  BY <1>1, <1>2
<1>3. CASE RowClosed(j)
  BY <1>1, <1>3, CloseLeavesNoneRunning DEF RowClosed
<1>4. CASE RowGranted(j)
  <2>1. PICK w \in Worker, h \in Seq(Attempt) : GrantOf(j, w, h)
    BY <1>4, GrantRow
  <2>2. [outcome |-> "RUNNING", gen |-> attempt[j] + 1, owner |-> w] \in Attempt
    BY <1>1 DEF Attempt, Outcome
  <2>3. /\ Len(history'[j]) = attempt[j] + 1
        /\ \A n \in 1..attempt[j] : history'[j][n] = h[n]
    BY <1>1, <2>1, <2>2, AppendProperties DEF GrantOf
  <2> QED
    BY <1>1, <2>1, <2>3 DEF GrantOf
<1> QED
  BY <1>2, <1>3, <1>4 DEF RowStep, RowKept, RowMoved, RowRenewed

\* Finished attempts are immutable evidence, under every interleaving of the
\* store's transactions.
THEOREM StoreHistoryImmutable == StoreSpec => AttemptHistoryImmutable
<1> DEFINE A == \A j \in Job :
                  /\ Len(history'[j]) >= Len(history[j])
                  /\ \A n \in DOMAIN history[j] :
                        history[j][n].outcome # "RUNNING" => history'[j][n] = history[j][n]
<1>1. StoreInv /\ [StoreNext]_storeVars => A
  BY StepIsRowSteps, RowStepHistory DEF StoreInv
<1> QED
  BY <1>1, StoreInvariant, PTL DEF StoreSpec, AttemptHistoryImmutable

\* A lease that a row step brings in is a renewal of the current one or has a
\* generation no attempt had.
LEMMA RowStepAuthority ==
    ASSUME TypeOK, NEW j \in Job, RowConsistent(j), RowStep(j),
           lease'[j] \notin {NoLease, lease[j]}
    PROVE  \/ \A n \in DOMAIN history[j] : history[j][n].gen < lease'[j].gen
           \/ /\ lease[j] # NoLease
              /\ lease[j].expires > now
              /\ lease'[j].owner = lease[j].owner
              /\ lease'[j].gen = lease[j].gen
<1>1. CASE RowRenewed(j)
  <2>1. /\ lease'[j].owner = lease[j].owner /\ lease'[j].gen = lease[j].gen
    BY <1>1 DEF RowRenewed, Renewed
  <2> QED
    BY <1>1, <2>1 DEF RowRenewed, RowConsistent, LeaseConsistent
<1>2. CASE RowGranted(j)
  <2>0. PICK w \in Worker, h \in Seq(Attempt) : GrantOf(j, w, h)
    BY <1>2, GrantRow
  <2>1. lease'[j].gen = attempt[j] + 1
    BY <2>0 DEF GrantOf
  <2>2. /\ DOMAIN history[j] = 1..attempt[j] /\ attempt[j] \in Nat
        /\ \A n \in DOMAIN history[j] : history[j][n].gen = n
    BY LenProperties DEF TypeOK, RowConsistent, AttemptCountConsistent, GenerationCounts
  <2> QED
    BY <2>1, <2>2
<1> QED
  BY <1>1, <1>2 DEF RowStep, RowKept, RowMoved, RowClosed

\* A worker that lost its lease can never act under it again: no later lease of
\* the job has the generation it holds.
THEOREM StoreAuthority == StoreSpec => AuthorityNeverRegained
<1> DEFINE A == \A j \in Job :
                  lease'[j] \notin {NoLease, lease[j]} =>
                     \/ \A n \in DOMAIN history[j] : history[j][n].gen < lease'[j].gen
                     \/ /\ lease[j] # NoLease
                        /\ lease[j].expires > now
                        /\ lease'[j].owner = lease[j].owner
                        /\ lease'[j].gen = lease[j].gen
<1>1. StoreInv /\ [StoreNext]_storeVars => A
  BY StepIsRowSteps, RowStepAuthority DEF StoreInv
<1> QED
  BY <1>1, StoreInvariant, PTL DEF StoreSpec, AuthorityNeverRegained
-----------------------------------------------------------------------------
\* A row step of a job is a lifecycle step of that job.
LEMMA RowStepLifecycle ==
    ASSUME TypeOK, NEW j \in Job, RowConsistent(j), RowStep(j)
    PROVE  \/ Lifecycle!Same(j) \/ Lifecycle!Submit(j) \/ Lifecycle!Withdraw(j)
           \/ Lifecycle!Grant(j) \/ Lifecycle!GiveBack(j) \/ Lifecycle!Finish(j)
<1>1. CASE RowKept(j)
  BY <1>1 DEF RowKept, Lifecycle!Same
<1>2. CASE RowMoved(j)
  <2>1. lease[j] = NoLease
    BY <1>2 DEF RowMoved, RowConsistent, LeaseConsistent
  <2>2. state[j] = "ABSENT" => attempt[j] = 0
    BY DEF RowConsistent, AttemptsWithinBudget, AttemptCountConsistent
  <2>3. CASE state[j] = "ABSENT"
    <3>1. budget'[j] \in Budget
      BY <1>2, <2>3 DEF RowMoved
    <3>2. \A m \in Budget : m \in Nat /\ m # 0
      BY StoreAssumption
    <3>3. \A m \in Nat : m # 0 => m > 0
      OBVIOUS
    <3>4. budget'[j] > 0
      BY <3>1, <3>2, <3>3
    <3> QED
      BY <1>2, <2>1, <2>2, <2>3, <3>4 DEF RowMoved, Lifecycle!Submit
  <2>4. CASE state[j] = "QUEUED" /\ state'[j] = "ABSENT"
    BY <1>2, <2>1, <2>4 DEF RowMoved, Lifecycle!Withdraw
  <2>5. CASE state[j] = "QUEUED" /\ state'[j] = "CANCELLED"
    BY <1>2, <2>1, <2>5 DEF RowMoved, Lifecycle!Finish
  <2> QED
    BY <1>2, <2>3, <2>4, <2>5 DEF RowMoved
<1>3. CASE RowRenewed(j)
  <2>1. lease[j] # NoLease /\ lease'[j] # NoLease /\ lease'[j].gen = lease[j].gen
    BY <1>3, NoLeaseAssumption, StoreAssumption
    DEF TypeOK, RowRenewed, Renewed, RowConsistent, LeaseConsistent, Lease
  <2> QED
    BY <1>3, <2>1 DEF RowRenewed, Lifecycle!Same
<1>4. CASE RowClosed(j)
  BY <1>4
  DEF RowClosed, Lifecycle!GiveBack, Lifecycle!Finish, Lifecycle!Finished, TerminalJob
<1>5. CASE RowGranted(j)
  <2>1. PICK w \in Worker, h \in Seq(Attempt) : GrantOf(j, w, h)
    BY <1>5, GrantRow
  <2>2. lease'[j] # NoLease /\ lease'[j].gen = attempt[j] + 1
    BY <2>1, NoLeaseAssumption, StoreAssumption DEF TypeOK, Lease, GrantOf
  <2> QED
    BY <2>1, <2>2 DEF GrantOf, ActiveJob, Lifecycle!Grant
<1> QED
  BY <1>1, <1>2, <1>3, <1>4, <1>5 DEF RowStep

\* The store implements JobLifecycle under the mapping of Lifecycle.
THEOREM StoreImplementsLifecycle == StoreSpec => ImplementsLifecycle
<1>1. StoreInit => Lifecycle!Init
  BY DEF StoreInit, Lifecycle!Init
<1>2. StoreInv /\ [StoreNext]_storeVars => Lifecycle!Next
  BY StepIsRowSteps, RowStepLifecycle DEF StoreInv, Lifecycle!Next
<1> QED
  BY <1>1, <1>2, StoreInvariant, PTL DEF StoreSpec, ImplementsLifecycle, Lifecycle!Spec
-----------------------------------------------------------------------------
(***************************************************************************)
(* Lineage.  A transaction either leaves the links of every job alone and  *)
(* brings no job into being, or inserts one job whose source allows it.    *)
(***************************************************************************)
LinksKept ==
    /\ UNCHANGED linkVars
    /\ \A i \in Job : state[i] = "ABSENT" => state'[i] = "ABSENT"

Inserted(j, src, k) ==
    /\ state[j] = "ABSENT"
    /\ state' = [state EXCEPT ![j] = "QUEUED"]
    /\ kind' = [kind EXCEPT ![j] = k]
    /\ parent' = [parent EXCEPT ![j] = src]
    /\ src \in Job => LineageAllows(src, k)

\* Recovery brings no job into being.
LEMMA RecoveryKeepsAbsent ==
    ASSUME NEW i \in Job, state[i] = "ABSENT"
    PROVE  StateR[i] = "ABSENT"
BY DEF StateR, RecoveredState, Expired

\* Every transaction keeps the links or inserts one job.
LEMMA StepLinks ==
    ASSUME TypeOK, [StoreNext]_storeVars
    PROVE  LinksKept \/ \E j \in Job, src \in Job \cup {NoJob}, k \in Kind : Inserted(j, src, k)
<1> DEFINE Goal == LinksKept \/ \E j \in Job, src \in Job \cup {NoJob}, k \in Kind :
                                   Inserted(j, src, k)
<1>1. ASSUME UNCHANGED <<state, linkVars>>
      PROVE  Goal
  BY <1>1 DEF LinksKept
<1>2. ASSUME NEW w \in Worker, NEW heavy \in BOOLEAN, NEW j \in Job,
             Acquire(w, heavy, j)
      PROVE  Goal
  <2>1. state[j] # "ABSENT"
    BY <1>2, RecoveryKeepsAbsent DEF Acquire, Selected, Eligible
  <2>2. UNCHANGED linkVars /\ state' = [StateR EXCEPT ![j] = "RUNNING"]
    BY <1>2 DEF Acquire
  <2> QED
    BY <2>1, <2>2, RecoveryKeepsAbsent, RecoveryType DEF LinksKept
<1>3. CASE RecoverExpired
  BY <1>3, RecoveryKeepsAbsent DEF RecoverExpired, LinksKept
<1>4. CASE ReconcileAll
  BY <1>4 DEF ReconcileAll, Settled, LinksKept
<1>5. ASSUME NEW j \in Job, QueueStep(j)
      PROVE  Goal
  <2>1. CASE CancelQueued(j) \/ RemoveIfSafe(j)
    BY <2>1 DEF TypeOK, CancelQueued, RemoveIfSafe, LinksKept
  <2>2. ASSUME NEW p \in Priority, NEW t \in 0..MaxTime, Reprioritize(j, p, t)
        PROVE  Goal
    BY <1>1, <2>2 DEF Reprioritize
  <2>3. ASSUME NEW k \in Kind, NEW r, NEW p, NEW m, NEW src \in Job \cup {NoJob}, NEW t,
               Insert(j, k, r, p, m, src, t), src \in Job => LineageAllows(src, k)
        PROVE  Goal
    <3>1. Inserted(j, src, k)
      BY <2>3 DEF Insert, Inserted
    <3> QED
      BY <3>1
  <2>4. ASSUME NEW p \in Priority, NEW m \in Budget, NEW t \in 0..MaxTime,
               Enqueue(j, p, m, t) \/ \E r \in Run : CreateRun(j, r, p, m, t)
        PROVE  Goal
    <3>1. "ROOT" \in Kind /\ NoJob \notin Job
      BY StoreAssumption DEF Kind
    <3> HIDE DEF Goal
    <3> QED
      BY <2>3, <2>4, <3>1 DEF Enqueue, CreateRun
  <2>5. ASSUME NEW src \in Job, NEW k \in Requested, NEW m \in Budget,
               \/ EnqueueSameRun(src, j, k, m)
               \/ EnqueueNoRun(src, j, k, m)
               \/ \E r \in Run : EnqueueNewRun(src, j, k, m, r)
        PROVE  Goal
    <3>1. k \in Kind
      BY RequestedAssumption DEF Kind
    <3> HIDE DEF Goal
    <3> QED
      BY <2>3, <2>5, <3>1 DEF EnqueueSameRun, EnqueueNoRun, EnqueueNewRun
  <2>6. ASSUME NEW t \in TerminalJob, AppendTerminal(j, t)
        PROVE  Goal
    BY <1>1, <2>6 DEF AppendTerminal, queueVars
  <2> QED
    BY <1>5, <2>1, <2>2, <2>4, <2>5, <2>6 DEF QueueStep
<1>6. ASSUME NEW j \in Job, NEW l \in AnyLease, HolderStep(j, l)
      PROVE  Goal
  <2>1. CASE Heartbeat(j, l)
    BY <1>1, <2>1 DEF Heartbeat
  <2>2. ASSUME NEW n \in DOMAIN history[j], AppendCheckpoint(j, l, n)
        PROVE  Goal
    BY <1>1, <2>2 DEF AppendCheckpoint, queueVars
  <2>3. ASSUME NEW st, NEW o, Close(j, l, st, o), state[j] = "RUNNING"
        PROVE  Goal
    BY <2>3 DEF TypeOK, Close, LinksKept
  <2> HIDE DEF Goal
  <2>4. CASE Succeed(j, l)
    BY <2>3, <2>4 DEF Succeed, Owned
  <2>5. ASSUME NEW terminal \in BOOLEAN, NEW t \in now..Horizon,
               Fail(j, l, terminal, t)
        PROVE  Goal
    BY <2>3, <2>5 DEF Fail, Owned
  <2>6. CASE FailProduction(j, l)
    BY <2>3, <2>6 DEF FailProduction, Owned
  <2>7. CASE Cancel(j, l)
    BY <2>3, <2>7 DEF Cancel, Owned
  <2>8. CASE RequeueAfterPressure(j, l)
    BY <2>3, <2>8 DEF RequeueAfterPressure, Owned
  <2>9. CASE ReconcileRun(j, l)
    BY <1>1, <2>3, <2>9 DEF ReconcileRun, storeVars, queueVars
  <2> QED
    BY <1>6, <2>1, <2>2, <2>4, <2>5, <2>6, <2>7, <2>8, <2>9 DEF HolderStep
<1> QED
  BY <1>1, <1>2, <1>3, <1>4, <1>5, <1>6
  DEF StoreNext, Tick, RunStep, StartRun, FinalizeRun, storeVars, queueVars

\* The only way a row step makes a job active is to insert it.
LEMMA RowStepActive ==
    ASSUME TypeOK, NEW j \in Job, RowStep(j), state[j] # "ABSENT",
           state'[j] \in ActiveJob
    PROVE  state[j] \in ActiveJob
BY DEF RowStep, RowKept, RowMoved, RowRenewed, RowClosed, RowGranted, ActiveJob,
       TerminalJob

\* An active continuation excludes another one of the same source.
LEMMA ContinuationStep ==
    ASSUME TypeOK, OneActiveContinuation, [StoreNext]_storeVars
    PROVE  OneActiveContinuation'
<1> DEFINE Cont(k, s) == /\ parent[k] = s /\ kind[k] \in ContinuationKind
                         /\ state[k] \in ActiveJob
<1> SUFFICES ASSUME NEW s \in Job, NEW c \in Job, NEW d \in Job,
                    Cont(c, s)', Cont(d, s)'
             PROVE  c = d
  BY DEF OneActiveContinuation
<1>1. Cont(c, s) /\ Cont(d, s) => c = d
  BY DEF OneActiveContinuation
<1>2. \A i \in Job : RowStep(i)
  BY StepIsRowSteps
<1>3. CASE LinksKept
  <2>1. ASSUME NEW i \in Job, Cont(i, s)'
        PROVE  Cont(i, s)
    <3>1. state[i] # "ABSENT"
      BY <1>3, <2>1 DEF LinksKept, ActiveJob
    <3> QED
      BY <1>2, <1>3, <2>1, <3>1, RowStepActive DEF LinksKept, linkVars
  <2> QED
    BY <1>1, <2>1
<1>4. ASSUME NEW j \in Job, NEW src \in Job \cup {NoJob}, NEW k \in Kind,
             Inserted(j, src, k)
      PROVE  c = d
  <2>1. ASSUME NEW i \in Job, i # j, Cont(i, s)'
        PROVE  Cont(i, s)
    BY <1>4, <2>1 DEF TypeOK, Inserted
  <2>2. ASSUME NEW i \in Job, i # j, Cont(i, s)', Cont(j, s)'
        PROVE  FALSE
    <3>1. src = s /\ k \in ContinuationKind
      BY <1>4, <2>2 DEF TypeOK, Inserted
    <3> QED
      BY <1>4, <2>1, <2>2, <3>1 DEF Inserted, LineageAllows
  <2> QED
    BY <1>1, <2>1, <2>2
<1> QED
  BY <1>3, <1>4, StepLinks

\* Only append_checkpoint writes checkpoints, and for the running attempt.
LEMMA StepCheckpoints ==
    ASSUME TypeOK, [StoreNext]_storeVars, NEW k \in Job
    PROVE  \/ checkpoints'[k] = checkpoints[k]
           \/ \E n \in DOMAIN history[k] :
                 /\ history[k][n].outcome = "RUNNING"
                 /\ checkpoints'[k] = Append(checkpoints[k], n)
<1>1. ASSUME UNCHANGED checkpoints
      PROVE  checkpoints'[k] = checkpoints[k]
  BY <1>1
<1>2. ASSUME NEW j \in Job, NEW l \in AnyLease, NEW n \in DOMAIN history[j],
             AppendCheckpoint(j, l, n)
      PROVE  \/ checkpoints'[k] = checkpoints[k]
             \/ /\ k = j /\ history[k][n].outcome = "RUNNING"
                /\ checkpoints'[k] = Append(checkpoints[k], n)
  BY <1>2 DEF TypeOK, AppendCheckpoint, ActiveAttempt
<1>3. ASSUME NEW j \in Job, QueueStep(j)
      PROVE  UNCHANGED checkpoints
  BY <1>3
  DEF QueueStep, CancelQueued, RemoveIfSafe, Reprioritize, Enqueue, CreateRun, Insert,
      EnqueueSameRun, EnqueueNoRun, EnqueueNewRun, AppendTerminal
<1>4. ASSUME NEW j \in Job, NEW l \in AnyLease, HolderStep(j, l)
      PROVE  \/ UNCHANGED checkpoints
             \/ \E n \in DOMAIN history[j] : AppendCheckpoint(j, l, n)
  BY <1>4
  DEF HolderStep, Heartbeat, Succeed, Fail, FailProduction, Cancel, RequeueAfterPressure,
      ReconcileRun, Close, storeVars
<1> QED
  BY <1>1, <1>2, <1>3, <1>4
  DEF StoreNext, Tick, Acquire, RecoverExpired, ReconcileAll, RunStep, StartRun,
      FinalizeRun, storeVars

\* Checkpoints keep following the attempts: the one a step appends belongs to
\* the running attempt, and GenerationCounts makes that one the last.
LEMMA CheckpointStep ==
    ASSUME StoreInv, TypeOK', CheckpointsFollowAttempts, [StoreNext]_storeVars
    PROVE  CheckpointsFollowAttempts'
<1> SUFFICES ASSUME NEW j \in Job
             PROVE  /\ \A n \in DOMAIN checkpoints'[j] : checkpoints'[j][n] \in DOMAIN history'[j]
                    /\ \A m, n \in DOMAIN checkpoints'[j] :
                          m < n => checkpoints'[j][m] <= checkpoints'[j][n]
  BY DEF CheckpointsFollowAttempts
<1> DEFINE C == checkpoints[j]
           H == history[j]
<1>1. /\ C \in Seq(Nat) /\ Len(C) \in Nat /\ DOMAIN C = 1..Len(C)
      /\ Len(H) \in Nat /\ DOMAIN H = 1..Len(H)
      /\ Len(H') \in Nat /\ DOMAIN H' = 1..Len(H')
  BY LenProperties DEF StoreInv, TypeOK
<1>2. Len(H') >= Len(H)
  BY StepIsRowSteps, RowStepHistory DEF StoreInv
<1>3. /\ \A n \in 1..Len(C) : C[n] \in 1..Len(H)
      /\ \A m, n \in 1..Len(C) : m < n => C[m] <= C[n]
  BY <1>1 DEF CheckpointsFollowAttempts
<1>4. ASSUME C' = C
      PROVE  /\ \A i \in 1..Len(C') : C'[i] \in 1..Len(H')
             /\ \A m, i \in 1..Len(C') : m < i => C'[m] <= C'[i]
  <2> HIDE DEF C, H
  <2> QED
    BY <1>1, <1>2, <1>3, <1>4
<1>5. ASSUME NEW n \in DOMAIN H, H[n].outcome = "RUNNING", C' = Append(C, n)
      PROVE  /\ \A i \in 1..Len(C') : C'[i] \in 1..Len(H')
             /\ \A m, i \in 1..Len(C') : m < i => C'[m] <= C'[i]
  <2>1. n = Len(H) /\ n \in Nat
    BY <1>1, <1>5 DEF StoreInv, RowConsistent, GenerationCounts
  <2>2. /\ Len(C') = Len(C) + 1
        /\ C'[Len(C) + 1] = n
        /\ \A i \in 1..Len(C) : C'[i] = C[i]
    BY <1>1, <1>5, <2>1, AppendProperties
  <2>3. \A i \in 1..Len(C') : i \in 1..Len(C) \/ i = Len(C) + 1
    BY <1>1, <2>2
  <2> HIDE DEF C, H
  <2>4. \A i \in 1..Len(C') : C'[i] \in 1..Len(H)
    BY <1>1, <1>3, <1>5, <2>2, <2>3
  <2>5. ASSUME NEW m \in 1..Len(C'), NEW i \in 1..Len(C'), m < i
        PROVE  C'[m] <= C'[i]
    <3>1. m \in 1..Len(C)
      BY <1>1, <2>2, <2>5
    <3>2. CASE i \in 1..Len(C)
      BY <1>3, <2>2, <2>5, <3>1, <3>2
    <3>3. CASE i = Len(C) + 1
      BY <1>1, <1>3, <2>1, <2>2, <3>1, <3>3
    <3> QED
      BY <2>3, <3>2, <3>3
  <2> QED
    BY <1>1, <1>2, <2>4, <2>5
<1> QED
  <2>1. C' \in Seq(Nat) /\ DOMAIN C' = 1..Len(C')
    BY LenProperties DEF TypeOK
  <2> QED
    BY <1>1, <1>4, <1>5, <2>1, StepCheckpoints DEF StoreInv

\* However retries, resumptions, checkpoints and lost leases interleave, the
\* checkpoints of a job belong to the attempts that were made, in their order,
\* and no finished job has two continuations waiting or running.
THEOREM StoreLineage == StoreSpec => []LineageConsistent
<1> DEFINE LInv == StoreInv /\ LineageConsistent
<1>1. StoreInit => LineageConsistent
  <2> SUFFICES ASSUME StoreInit PROVE LineageConsistent
    OBVIOUS
  <2>1. \A n : n \notin DOMAIN <<>>
    OBVIOUS
  <2>2. CheckpointsFollowAttempts
    BY <2>1 DEF StoreInit, CheckpointsFollowAttempts
  <2>3. OneActiveContinuation
    BY StoreAssumption DEF StoreInit, OneActiveContinuation
  <2> QED
    BY <2>2, <2>3 DEF LineageConsistent
<1>2. StoreInv /\ StoreInv' /\ LineageConsistent /\ [StoreNext]_storeVars => LineageConsistent'
  BY ContinuationStep, CheckpointStep DEF StoreInv, LineageConsistent
<1> QED
  BY <1>1, <1>2, StoreInvariant, PTL DEF StoreSpec
=============================================================================

------------------------------- MODULE Process -------------------------------
(***************************************************************************)
(* `erabi serve` processes that share one data directory: the lock file,   *)
(* the schema migrations of the build each process runs, the startup       *)
(* stages up to Ready or Recovery Mode, the worker task and API requests   *)
(* that write to the database, and shutdown against its deadline.          *)
(*                                                                         *)
(* A database call is one transaction and so one step; which rows it       *)
(* changes is left to the other modules.                                   *)
(***************************************************************************)
EXTENDS Naturals

CONSTANTS Processes, NoProcess,
          Plan   \* Plan[p]: version -> checksum, the migrations bundled with p's build

\* What the constants may be.
ProcessConstants == NoProcess \notin Processes

VARIABLES lock,       \* who holds .erabi-process.lock
          schema,     \* schema_migrations: version -> checksum
          data,       \* the last write: by whom, and whether the data changed since
          pc,         \* where start_with_options and shutdown are
          outcome,    \* StartupOutcome
          admitting,  \* AppState::accepting_mutations
          worker,     \* the worker task
          request,    \* an API mutation that passed the admission check
          cancelled   \* CancellationController::shutdown_requested

processVars == <<lock, schema, data, pc, outcome, admitting, worker, request, cancelled>>
memory == <<outcome, admitting, worker, request, cancelled>>

ProcessInit ==
    /\ lock = NoProcess
    /\ schema = [v \in {} |-> ""]
    /\ data = [by |-> NoProcess, bit |-> 0]
    /\ pc = [p \in Processes |-> "down"]
    /\ outcome = [p \in Processes |-> "none"]
    /\ admitting = [p \in Processes |-> TRUE]
    /\ worker = [p \in Processes |-> "none"]
    /\ request = [p \in Processes |-> FALSE]
    /\ cancelled = [p \in Processes |-> FALSE]

Wrote(p) == data' = [by |-> p, bit |-> 1 - data.bit]
Goto(p, label) == pc' = [pc EXCEPT ![p] = label]

\* The operating system reclaims what the process had.
Gone(p) ==
    /\ Goto(p, "down")
    /\ lock' = IF lock = p THEN NoProcess ELSE lock
    /\ outcome' = [outcome EXCEPT ![p] = "none"]
    /\ admitting' = [admitting EXCEPT ![p] = TRUE]
    /\ worker' = [worker EXCEPT ![p] = "none"]
    /\ request' = [request EXCEPT ![p] = FALSE]
    /\ cancelled' = [cancelled EXCEPT ![p] = FALSE]
    /\ UNCHANGED <<schema, data>>

\* fatal: the startup fails and the coordinator drops the lock.
Fatal(p) == Gone(p)
-----------------------------------------------------------------------------
(* start_with_options *)

\* Mutant: The lock file is created, not locked.
LockAnyway(p) ==
    /\ pc[p] = "down"
    /\ lock' = p
    /\ Goto(p, "locked")
    /\ UNCHANGED <<schema, data, memory>>

\* ProcessLock::acquire; a process that finds it taken ends.  The empty schema
\* table that the first start creates (BOOTSTRAP_SQL) is there from the beginning.
AcquireLock(p) ==
    /\ pc[p] = "down" /\ lock = NoProcess
    /\ lock' = p
    /\ Goto(p, "locked")
    /\ UNCHANGED <<schema, data, memory>>

OpenDatabase(p) ==
    /\ pc[p] = "locked"
    /\ \/ Goto(p, "opened") /\ UNCHANGED <<lock, schema, data, memory>>
       \/ Fatal(p)

Recovery(p) == Goto(p, "prepared") /\ outcome' = [outcome EXCEPT ![p] = "Recovery"]

Bundled(p) == DOMAIN Plan[p]
\* validate_applied_versions
Supported(p) == DOMAIN schema \subseteq Bundled(p)
ChecksumsMatch(p) == \A v \in Bundled(p) \cap DOMAIN schema : schema[v] = Plan[p][v]

\* apply_until: one immediate transaction, all that is pending or nothing.
ApplyMigrations(p) ==
    /\ pc[p] = "opened"
    /\ \/ /\ Supported(p) /\ ChecksumsMatch(p)
          /\ Goto(p, "migrated")
          /\ schema' = [v \in Bundled(p) \cup DOMAIN schema |->
                           IF v \in DOMAIN schema THEN schema[v] ELSE Plan[p][v]]
          /\ UNCHANGED outcome
          /\ IF schema' = schema THEN UNCHANGED data ELSE Wrote(p)
       \/ /\ Supported(p) /\ ChecksumsMatch(p) => Bundled(p) # DOMAIN schema   \* a script fails
          /\ Recovery(p)
          /\ UNCHANGED <<schema, data>>
    /\ UNCHANGED <<lock, admitting, worker, request, cancelled>>

\* verify_with_connection
Verify(p) == schema = Plan[p]

\* LightweightIntegrityChecker::check reads; the rest of what it reads may be
\* damaged.
CheckIntegrity(p) ==
    /\ pc[p] = "migrated"
    /\ \/ Verify(p) /\ Goto(p, "checked") /\ UNCHANGED outcome
       \/ Recovery(p)
    /\ UNCHANGED <<lock, schema, data, admitting, worker, request, cancelled>>

PrepareArtifacts(p) ==
    /\ pc[p] = "checked"
    /\ \/ Goto(p, "stored") /\ UNCHANGED <<lock, schema, data, memory>>
       \/ Fatal(p)

\* run_plan_four_startup_hooks: recovery of stale jobs writes, also when the
\* checkpoints it finds are invalid.
RecoverJobs(p) ==
    /\ pc[p] = "stored"
    /\ \/ Wrote(p) /\ Goto(p, "prepared") /\ outcome' = [outcome EXCEPT ![p] = "Ready"]
       \/ Wrote(p) /\ Recovery(p)
       \/ UNCHANGED data /\ Recovery(p)
    /\ UNCHANGED <<lock, schema, admitting, worker, request, cancelled>>

\* The listener is bound, the tasks are spawned.
Serve(p) ==
    /\ pc[p] = "prepared"
    /\ \/ /\ Goto(p, "serving")
          /\ worker' = [worker EXCEPT ![p] = IF outcome[p] = "Ready" THEN "idle" ELSE "none"]
          /\ UNCHANGED <<lock, schema, data, outcome, admitting, request, cancelled>>
       \/ Fatal(p)
-----------------------------------------------------------------------------
(* While it serves *)

Alive(p) == pc[p] \in {"serving", "stopping", "draining", "leaving"}
Rest == <<lock, schema, pc, outcome, admitting, cancelled>>

\* require_mutations
AdmitRequest(p) ==
    /\ Alive(p) /\ admitting[p] /\ outcome[p] = "Ready" /\ ~request[p]
    /\ request' = [request EXCEPT ![p] = TRUE]
    /\ UNCHANGED <<Rest, data, worker>>

RunRequest(p) ==
    /\ Alive(p) /\ request[p]
    /\ request' = [request EXCEPT ![p] = FALSE]
    /\ Wrote(p)
    /\ UNCHANGED <<Rest, worker>>

\* execute_next_at, unless shutdown_requested: a job is acquired.
BeginTurn(p) ==
    /\ Alive(p) /\ worker[p] = "idle" /\ ~cancelled[p]
    /\ worker' = [worker EXCEPT ![p] = "turn"]
    /\ Wrote(p)
    /\ UNCHANGED <<Rest, request>>

\* A checkpoint, a page, or the settlement of the job; it may end the worker.
TurnWrites(p) ==
    /\ Alive(p) /\ worker[p] = "turn"
    /\ worker' \in {[worker EXCEPT ![p] = next] : next \in {"turn", "idle", "dead"}}
    /\ Wrote(p)
    /\ UNCHANGED <<Rest, request>>

\* The loop notices the stop signal between turns.
WorkerStops(p) ==
    /\ worker[p] = "idle" /\ pc[p] \in {"stopping", "draining"}
    /\ worker' = [worker EXCEPT ![p] = "done"]
    /\ UNCHANGED <<Rest, data, request>>
-----------------------------------------------------------------------------
(* shutdown_with_completion *)

\* Mutant: Requests are refused when the server stops.
StopLate(p) ==
    /\ pc[p] = "serving"
    /\ Goto(p, "stopping")
    /\ UNCHANGED <<lock, schema, data, outcome, admitting, worker, request, cancelled>>

\* A signal arrives, or the worker ended: serve_with_signal.
ShutdownBegins(p) ==
    /\ pc[p] = "serving"
    /\ Goto(p, "stopping")
    /\ admitting' = [admitting EXCEPT ![p] = FALSE]
    /\ UNCHANGED <<lock, schema, data, outcome, worker, request, cancelled>>

\* shutdown_by: the hooks cancel the worker and wait for nothing, and the
\* coordinator releases the lock.
ReleaseResources(p) ==
    /\ pc[p] = "stopping"
    /\ Goto(p, "draining")
    /\ cancelled' = [cancelled EXCEPT ![p] = TRUE]
    /\ lock' = IF lock = p THEN NoProcess ELSE lock
    /\ UNCHANGED <<schema, data, outcome, admitting, worker, request>>

\* Mutant: The worker is waited for without a deadline.
JoinForever(p) ==
    /\ pc[p] = "draining"
    /\ worker[p] \in {"none", "done", "dead"}
    /\ Goto(p, "leaving")
    /\ UNCHANGED <<lock, schema, data, memory>>

\* The worker has ended, or the deadline passes and it is aborted.
JoinWorker(p) ==
    /\ pc[p] = "draining"
    /\ \/ worker[p] \in {"none", "done", "dead"} /\ UNCHANGED worker
       \/ worker[p] \in {"idle", "turn"} /\ worker' = [worker EXCEPT ![p] = "done"]
    /\ Goto(p, "leaving")
    /\ UNCHANGED <<lock, schema, data, outcome, admitting, request, cancelled>>

\* The server has ended, or was aborted; main returns.
Leave(p) == pc[p] = "leaving" /\ Gone(p)

\* Power loss, kill.
Crash(p) == pc[p] # "down" /\ Gone(p)
-----------------------------------------------------------------------------
Starts(p) == OpenDatabase(p) \/ ApplyMigrations(p) \/ CheckIntegrity(p)
               \/ PrepareArtifacts(p) \/ RecoverJobs(p) \/ Serve(p)
Stops(p) == ReleaseResources(p) \/ JoinWorker(p) \/ Leave(p)

ProcessNext ==
    \E p \in Processes :
       \/ AcquireLock(p) \/ Starts(p) \/ Stops(p)
       \/ AdmitRequest(p) \/ RunRequest(p) \/ BeginTurn(p) \/ TurnWrites(p) \/ WorkerStops(p)
       \/ ShutdownBegins(p) \/ Crash(p)

ProcessSpec == ProcessInit /\ [][ProcessNext]_processVars

\* The main task of a running process makes progress, a dead worker ends
\* serve_with_signal; nobody has to start or stop a process.
ProcessFairSpec ==
    /\ ProcessSpec
    /\ \A p \in Processes :
          /\ WF_processVars(Starts(p)) /\ WF_processVars(Stops(p))
          /\ WF_processVars(worker[p] = "dead" /\ ShutdownBegins(p))
-----------------------------------------------------------------------------
(* Properties *)

\* Builds of different schema versions may come and go on one directory: the
\* one that serves or recovers jobs finds exactly the schema it was built for.
ServesItsSchema ==
    \A p \in Processes :
       lock = p /\ (outcome[p] = "Ready" \/ pc[p] \in {"checked", "stored"}) => schema = Plan[p]

\* A process in Recovery Mode writes nothing after its startup, and one that
\* begins to stop takes no new request: what it still writes it had begun
\* before, or its worker takes from the queue until it is cancelled.
ServingStep ==
    \A p \in Processes :
       /\ outcome[p] = "Recovery" => ~(data'.by = p /\ data' # data)
       /\ pc[p] \in {"stopping", "draining", "leaving"} /\ request'[p] => request[p]

\* ServingStep of every step (require_mutations, begin_shutdown).
OnlyServingWrites == [][ServingStep]_processVars

\* A process whose worker ended, or that was told to stop, is gone by the
\* deadline and the directory can be used again.
StoppingEnds ==
    \A p \in Processes : (pc[p] = "stopping" \/ worker[p] = "dead") ~> (pc[p] = "down" /\ lock # p)
=============================================================================

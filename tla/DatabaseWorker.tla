----------------------------- MODULE DatabaseWorker -----------------------------
(***************************************************************************)
(* The thread that owns the SQLite connection, the queue of accepted       *)
(* operations in front of it, the semaphore that bounds what is accepted   *)
(* and not finished, and the callers that await an answer.  Every          *)
(* repository method is one call.                                          *)
(*                                                                         *)
(* The state mutex is never poisoned: no code that holds it panics.        *)
(***************************************************************************)
EXTENDS Naturals, Sequences, FiniteSets

CONSTANTS Callers,   \* one call each
          NoCaller,
          Capacity   \* DB_WORKER_CAPACITY

ASSUME DatabaseWorkerConstants == Capacity \in Nat \ {0} /\ NoCaller \notin Callers

VARIABLES lifecycle, queue,   \* SharedState
          permits, closed,    \* the semaphore: what is free, and whether it is closed
          waiters,            \* callers that wait for a permit, in order
          call,               \* where a caller is, and the answer it got
          thread,             \* where the thread is
          current,            \* the job it has taken from the queue
          doomed,             \* jobs taken from the queue to be failed
          woken,              \* the condition variable was notified
          log,                \* history: operations that ran, in order
          admitted            \* history: calls that were accepted, in order

actorVars == <<lifecycle, queue, permits, closed, waiters, call, thread, current, doomed, woken, log, admitted>>

Lifecycle == {"Starting", "Running", "Closing", "Closed", "Panicked"}

ActorInit ==
    /\ lifecycle = "Starting" /\ queue = <<>>
    /\ permits = Capacity /\ closed = FALSE /\ waiters = <<>>
    /\ call = [c \in Callers |-> "idle"]
    /\ thread = "starting" /\ current = NoCaller /\ doomed = <<>> /\ woken = FALSE
    /\ log = <<>> /\ admitted = <<>>

threadVars == <<thread, current, doomed, log>>

\* failure_for
FailureFor(l) == IF l = "Panicked" THEN "panicked" ELSE "shutting_down"

-----------------------------------------------------------------------------
(* DbWorkerHandle::call *)

\* acquire_owned: callers get permits in the order they asked.
Ask(c) ==
    /\ lifecycle # "Starting" /\ thread # "starting"
    /\ call[c] = "idle"
    /\ call' = [call EXCEPT ![c] = "waiting"]
    /\ waiters' = Append(waiters, c)
    /\ UNCHANGED <<lifecycle, queue, permits, closed, woken, admitted, threadVars>>

Acquire ==
    /\ waiters # <<>> /\ permits > 0 /\ ~closed
    /\ permits' = permits - 1
    /\ call' = [call EXCEPT ![Head(waiters)] = "permitted"]
    /\ waiters' = Tail(waiters)
    /\ UNCHANGED <<lifecycle, queue, closed, woken, admitted, threadVars>>

\* A closed semaphore fails everyone; observed_failure looks why.
Refuse ==
    /\ waiters # <<>> /\ closed
    /\ call' = [call EXCEPT ![Head(waiters)] = FailureFor(lifecycle)]
    /\ waiters' = Tail(waiters)
    /\ UNCHANGED <<lifecycle, queue, permits, closed, woken, admitted, threadVars>>

\* Mutant: The thread is not notified.
AdmitUnheard(c) ==
    /\ call[c] = "permitted"
    /\ IF lifecycle = "Running"
       THEN /\ queue' = Append(queue, c)
            /\ admitted' = Append(admitted, c)
            /\ call' = [call EXCEPT ![c] = "accepted"]
            /\ UNCHANGED <<permits, woken>>
       ELSE /\ call' = [call EXCEPT ![c] = FailureFor(lifecycle)]
            /\ permits' = permits + 1
            /\ UNCHANGED <<queue, admitted, woken>>
    /\ UNCHANGED <<lifecycle, closed, waiters, threadVars>>

\* A permit alone is not acceptance: the push while Running is.
Admit(c) ==
    /\ call[c] = "permitted"
    /\ IF lifecycle = "Running"
       THEN /\ queue' = Append(queue, c)
            /\ admitted' = Append(admitted, c)
            /\ call' = [call EXCEPT ![c] = "accepted"]
            /\ woken' = TRUE
            /\ UNCHANGED permits
       ELSE /\ call' = [call EXCEPT ![c] = FailureFor(lifecycle)]
            /\ permits' = permits + 1
            /\ UNCHANGED <<queue, admitted, woken>>
    /\ UNCHANGED <<lifecycle, closed, waiters, threadVars>>

\* A waiter that is dropped leaves the semaphore's queue.
LeaveQueue(c) ==
    \E i \in DOMAIN waiters :
       /\ waiters[i] = c
       /\ waiters' = SubSeq(waiters, 1, i - 1) \o SubSeq(waiters, i + 1, Len(waiters))

\* The future is dropped at one of its two awaits.  An accepted operation
\* runs all the same.
Abandon(c) ==
    /\ \/ call[c] = "waiting" /\ LeaveQueue(c)
       \/ call[c] = "accepted" /\ UNCHANGED waiters
    /\ call' = [call EXCEPT ![c] = "abandoned"]
    /\ UNCHANGED <<lifecycle, queue, permits, closed, woken, admitted, threadVars>>

\* The owner is dropped: DbWorker::drop, begin_shutdown.
BeginShutdown ==
    /\ ~closed /\ lifecycle # "Starting"
    /\ lifecycle' = IF lifecycle = "Running" THEN "Closing" ELSE lifecycle
    /\ closed' = TRUE
    /\ woken' = TRUE
    /\ UNCHANGED <<queue, permits, waiters, call, admitted, threadVars>>

-----------------------------------------------------------------------------
(* The thread: worker_entry, worker_loop *)

Open ==
    /\ thread = "starting"
    /\ \/ thread' = "loop" /\ lifecycle' = "Running"
       \/ thread' = "ended" /\ UNCHANGED lifecycle
    /\ UNCHANGED <<queue, permits, closed, waiters, call, current, doomed, woken, log, admitted>>

\* Under the lock: the next job, or wait, or the end once nothing is queued.
Loop ==
    /\ thread = "loop"
    /\ \/ /\ queue # <<>>
          /\ current' = Head(queue) /\ queue' = Tail(queue) /\ thread' = "execute"
          /\ UNCHANGED <<lifecycle, woken>>
       \/ /\ queue = <<>> /\ lifecycle = "Running"
          /\ thread' = "parked" /\ woken' = FALSE
          /\ UNCHANGED <<lifecycle, queue, current>>
       \/ /\ queue = <<>> /\ lifecycle = "Closing"
          /\ lifecycle' = "Closed" /\ thread' = "closed"
          /\ UNCHANGED <<queue, current, woken>>
    /\ UNCHANGED <<permits, closed, waiters, call, doomed, log, admitted>>

Unpark ==
    /\ thread = "parked" /\ woken
    /\ thread' = "loop"
    /\ UNCHANGED <<lifecycle, queue, permits, closed, waiters, call, current, doomed, woken, log, admitted>>

\* The operation runs; a panic can come before or after its commit.
Execute ==
    /\ thread = "execute"
    /\ \/ log' = Append(log, current) /\ thread' \in {"respond", "panic"}
       \/ UNCHANGED log /\ thread' = "panic"
    /\ UNCHANGED <<lifecycle, queue, permits, closed, waiters, call, current, doomed, woken, admitted>>

\* Nobody may be there to receive it.
Answered(c, answer) == [call EXCEPT ![c] = IF @ = "accepted" THEN answer ELSE @]

Respond ==
    /\ thread = "respond"
    /\ call' = Answered(current, "result")
    /\ thread' = "release"
    /\ UNCHANGED <<lifecycle, queue, permits, closed, waiters, current, doomed, woken, log, admitted>>

Release ==
    /\ thread = "release"
    /\ permits' = permits + 1 /\ current' = NoCaller /\ thread' = "loop"
    /\ UNCHANGED <<lifecycle, queue, closed, waiters, call, doomed, woken, log, admitted>>

\* Mutant: The queue is not taken along.
PanicLeavesQueue ==
    /\ thread = "panic"
    /\ lifecycle' = "Panicked" /\ closed' = TRUE /\ woken' = TRUE
    /\ thread' = "failCurrent"
    /\ UNCHANGED <<queue, doomed, permits, waiters, call, current, log, admitted>>

\* transition_to_panicked, terminalize_locked
Panic ==
    /\ thread = "panic"
    /\ lifecycle' = "Panicked" /\ closed' = TRUE /\ woken' = TRUE
    /\ doomed' = queue /\ queue' = <<>>
    /\ thread' = "failCurrent"
    /\ UNCHANGED <<permits, waiters, call, current, log, admitted>>

\* Mutant: The operation that panicked is reported as never started.
FailAsRefused ==
    /\ thread = "failCurrent"
    /\ permits' = permits + 1 /\ call' = Answered(current, "shutting_down") /\ current' = NoCaller
    /\ thread' = "failQueued"
    /\ UNCHANGED <<lifecycle, queue, closed, waiters, doomed, woken, log, admitted>>

\* PendingJob::fail.  The permit is free before the answer is sent, but the semaphore
\* is closed by then, so nobody can take it in between.
FailCurrent ==
    /\ thread = "failCurrent"
    /\ permits' = permits + 1 /\ call' = Answered(current, "panicked") /\ current' = NoCaller
    /\ thread' = "failQueued"
    /\ UNCHANGED <<lifecycle, queue, closed, waiters, doomed, woken, log, admitted>>

\* fail_jobs, then the connection is dropped.
FailQueued ==
    /\ thread = "failQueued"
    /\ IF doomed = <<>>
       THEN thread' = "closed" /\ UNCHANGED <<permits, call, doomed>>
       ELSE /\ permits' = permits + 1 /\ call' = Answered(Head(doomed), "panicked")
            /\ doomed' = Tail(doomed)
            /\ UNCHANGED thread
    /\ UNCHANGED <<lifecycle, queue, closed, waiters, current, woken, log, admitted>>

Complete ==
    /\ thread = "closed"
    /\ thread' = "ended"
    /\ UNCHANGED <<lifecycle, queue, permits, closed, waiters, call, current, doomed, woken, log, admitted>>

ThreadStep == Open \/ Loop \/ Unpark \/ Execute \/ Respond \/ Release \/ Panic \/ FailCurrent \/ FailQueued \/ Complete
CallerStep == Acquire \/ Refuse \/ \E c \in Callers : Admit(c)

ActorNext ==
    \/ ThreadStep
    \/ CallerStep
    \/ BeginShutdown
    \/ \E c \in Callers : Ask(c) \/ Abandon(c)

ActorSpec == ActorInit /\ [][ActorNext]_actorVars

\* The thread and the callers run; nobody has to call, give up or shut down.
ActorFairSpec == ActorSpec /\ WF_actorVars(ThreadStep) /\ WF_actorVars(CallerStep)
-----------------------------------------------------------------------------
(* Properties *)

\* Type invariant.
ActorTypeOK ==
    /\ lifecycle \in Lifecycle /\ queue \in Seq(Callers) /\ doomed \in Seq(Callers) /\ waiters \in Seq(Callers)
    /\ permits \in Nat /\ closed \in BOOLEAN /\ woken \in BOOLEAN
    /\ call \in [Callers -> {"idle", "waiting", "permitted", "accepted", "abandoned",
                             "result", "shutting_down", "panicked"}]
    /\ thread \in {"starting", "loop", "parked", "execute", "respond", "release", "panic",
                   "failCurrent", "failQueued", "closed", "ended"}
    /\ current \in Callers \cup {NoCaller}
    /\ log \in Seq(Callers) /\ admitted \in Seq(Callers)

Outstanding == Len(queue) + Len(doomed) + (IF current = NoCaller THEN 0 ELSE 1)
                 + Cardinality({c \in Callers : call[c] = "permitted"})

\* What is accepted and not finished is bounded, whatever order callers
\* come, give up, and the worker closes or panics in: every permit is free
\* or belongs to one caller or job.
PermitsAccounted == permits + Outstanding = Capacity

\* Operations run in the order they were accepted in, and a worker that
\* closed without a panic has run every one.
FirstInFirstOut ==
    /\ Len(log) <= Len(admitted) /\ \A i \in DOMAIN log : log[i] = admitted[i]
    /\ lifecycle = "Closed" => log = admitted

\* The thread never stops with a caller that waits for its answer: the last
\* state of every accepted call is an answer.
NobodyForgotten ==
    thread = "ended" => \A c \in Callers : call[c] # "accepted"

\* A worker that waits has nothing to do, or has been notified.
NoWorkWhileParked ==
    thread = "parked" /\ ~woken => queue = <<>> /\ lifecycle = "Running"

\* What the thread, the queue and the semaphore owe to callers at every moment.
ActorSafe ==
    ActorTypeOK /\ PermitsAccounted /\ FirstInFirstOut /\ NobodyForgotten /\ NoWorkWhileParked

\* What a repository sees of its call.
CallStatus == [c \in Callers |-> IF call[c] \in {"waiting", "permitted", "accepted"}
                                 THEN "pending" ELSE call[c]]

\* The worker gives repositories serial calls with honest answers.
Serial == INSTANCE SerialDatabase WITH status <- CallStatus, log <- log
\* The actor implements SerialDatabase (DatabaseWorker::call and the worker loop).
CallsAreSerial == Serial!SerialSpec

\* Everyone who waits gets an answer, or has given up.
EveryCallEnds ==
    \A c \in Callers : call[c] = "waiting" ~> call[c] \in {"abandoned", "result", "shutting_down", "panicked"}

=================================================================================

------------------------------ MODULE Signals ------------------------------
(***************************************************************************)
(* The cooperative signals of erabi-jobs below the level of JobRuntime,    *)
(* where registering a token, recording a request and publishing a storage *)
(* observation are single steps.  Here they are the steps the threads      *)
(* really take: what happens under one lock or in one atomic operation is  *)
(* an action, and anything may happen between two of them.                 *)
(*                                                                         *)
(* A token is an AtomicBool and a tokio Notify.  notify_waiters wakes the  *)
(* Notified futures that exist when it is called, and no later one.        *)
(***************************************************************************)
EXTENDS Naturals

CONSTANTS
    Job,        \* jobs the worker may take
    Thread,     \* the threads that request, shut down and probe
    MaxTurns    \* bound on the worker's turns

ASSUME SignalsAssumption == MaxTurns \in Nat

Kind    == {"cancel", "pressure"}
Level   == {"OK", "CRITICAL"}
Token   == 1..MaxTurns      \* each turn registers fresh tokens
NoToken == 0

VARIABLES
    requested,  \* ControllerState.requested
    shutdown,   \* ControllerState.shutdown_requested
    level,      \* StoragePressureController.state
    active,     \* the token of the turn in ControllerState.active, active_heavy
    flag,       \* by kind, the tokens whose AtomicBool is set
    notified,   \* by kind, the tokens on which notify_waiters was called
    thread,     \* what each thread is in the middle of
    stage, job, token,  \* the worker's turn
    wait,       \* by kind, where the handler's select! branch is
    seen        \* by kind, the Notified future was made after notify_waiters

worker  == <<stage, job, token>>
shared  == <<requested, shutdown, level, active, flag, notified>>
vars    == <<shared, thread, worker, wait, seen>>

Idle == [pc |-> "idle", kind |-> "cancel", tok |-> NoToken]
Waiting == {"check", "subscribe", "parked"}
NotWaiting == [k \in Kind |-> "none"]

Init ==
    /\ requested = {} /\ shutdown = FALSE /\ level = "OK"
    /\ active = [k \in Kind |-> NoToken]
    /\ flag = [k \in Kind |-> {}] /\ notified = [k \in Kind |-> {}]
    /\ thread = [p \in Thread |-> Idle]
    /\ stage = "idle" /\ job \in Job /\ token = NoToken
    /\ wait = NotWaiting /\ seen = [k \in Kind |-> FALSE]
-----------------------------------------------------------------------------
\* Threads.

\* The token found under the lock is signalled after the lock is released.
SignalLater(p, k, t) ==
    thread' = [thread EXCEPT ![p] =
                  IF t = NoToken THEN Idle ELSE [pc |-> "swap", kind |-> k, tok |-> t]]

\* CancellationController::request.
Request(p, j) ==
    /\ thread[p].pc = "idle"
    /\ requested' = requested \cup {j}
    /\ SignalLater(p, "cancel", IF job = j THEN active["cancel"] ELSE NoToken)
    /\ UNCHANGED <<shutdown, level, active, flag, notified, worker, wait, seen>>

\* CancellationController::cancel_all.
CancelAll(p) ==
    /\ thread[p].pc = "idle"
    /\ shutdown' = TRUE
    /\ SignalLater(p, "cancel", active["cancel"])
    /\ UNCHANGED <<requested, level, active, flag, notified, worker, wait, seen>>

\* StoragePressureController::update, in two steps: the observation is written,
\* and a critical one then collects the active tokens.
Publish(p, l) ==
    /\ thread[p].pc = "idle"
    /\ level' = l
    /\ thread' = [thread EXCEPT ![p].pc = IF l = "CRITICAL" THEN "collect" ELSE "idle"]
    /\ UNCHANGED <<requested, shutdown, active, flag, notified, worker, wait, seen>>
Collect(p) ==
    /\ thread[p].pc = "collect"
    /\ SignalLater(p, "pressure", active["pressure"])
    /\ UNCHANGED <<shared, worker, wait, seen>>

\* Mutant of Swap: whoever sets the flag does not notify.
SwapOnly(p) ==
    /\ thread[p].pc = "swap"
    /\ flag' = [flag EXCEPT ![thread[p].kind] = @ \cup {thread[p].tok}]
    /\ thread' = [thread EXCEPT ![p] = Idle]
    /\ UNCHANGED <<requested, shutdown, level, active, notified, worker, wait, seen>>
\* CancellationToken::cancel, StoragePressureToken::signal: swap, then notify.
Swap(p) ==
    LET k == thread[p].kind
        t == thread[p].tok
    IN  /\ thread[p].pc = "swap"
        /\ flag' = [flag EXCEPT ![k] = @ \cup {t}]
        /\ thread' = [thread EXCEPT ![p] =
                         IF t \in flag[k] THEN Idle ELSE [@ EXCEPT !.pc = "notify"]]
        /\ UNCHANGED <<requested, shutdown, level, active, notified, worker, wait, seen>>
Notify(p) ==
    /\ thread[p].pc = "notify"
    /\ notified' = [notified EXCEPT ![thread[p].kind] = @ \cup {thread[p].tok}]
    /\ thread' = [thread EXCEPT ![p] = Idle]
    /\ UNCHANGED <<requested, shutdown, level, active, flag, worker, wait, seen>>
-----------------------------------------------------------------------------
\* The worker's turn.

\* execute_next_at checks shutdown_requested, then acquires a job.
Begin(j) ==
    /\ stage = "idle" /\ ~shutdown
    /\ token < MaxTurns
    /\ stage' = "acquired" /\ job' = j /\ token' = token + 1
    /\ UNCHANGED <<shared, thread, wait, seen>>

\* Mutant of RegisterCancel: requests made before the registration are missed.
RegisterFreshToken ==
    /\ stage = "acquired"
    /\ stage' = "cancellable"
    /\ active' = [active EXCEPT !["cancel"] = token]
    /\ UNCHANGED <<requested, shutdown, level, flag, notified, thread, job, token,
                   wait, seen>>
\* CancellationController::register, under one lock.
RegisterCancel ==
    /\ stage = "acquired"
    /\ stage' = "cancellable"
    /\ active' = [active EXCEPT !["cancel"] = token]
    /\ flag' = [flag EXCEPT !["cancel"] =
                   IF shutdown \/ job \in requested THEN @ \cup {token} ELSE @]
    /\ UNCHANGED <<requested, shutdown, level, notified, thread, job, token, wait, seen>>

\* StoragePressureController::register: the token is inserted, and then the
\* level is read again.  Nobody waits on the token yet.
RegisterPressure ==
    /\ stage = "cancellable"
    /\ stage' = "recheck"
    /\ active' = [active EXCEPT !["pressure"] = token]
    /\ UNCHANGED <<requested, shutdown, level, flag, notified, thread, job, token,
                   wait, seen>>
Recheck ==
    /\ stage = "recheck"
    /\ stage' = "handling"
    /\ IF level = "CRITICAL" /\ token \notin flag["pressure"]
       THEN /\ flag' = [flag EXCEPT !["pressure"] = @ \cup {token}]
            /\ notified' = [notified EXCEPT !["pressure"] = @ \cup {token}]
       ELSE UNCHANGED <<flag, notified>>
    /\ UNCHANGED <<requested, shutdown, level, active, thread, job, token, wait, seen>>

\* The two releases at the end of the turn; no await lies between them, and a
\* signal that comes between them reaches a token nobody waits on.
Release(terminal) ==
    /\ stage = "handling" /\ wait = NotWaiting
    /\ stage' = "idle"
    /\ active' = [k \in Kind |-> NoToken]
    /\ requested' = IF terminal THEN requested \ {job} ELSE requested
    /\ UNCHANGED <<shutdown, level, flag, notified, thread, job, token, wait, seen>>
-----------------------------------------------------------------------------
\* The handler waits for either signal or for the work of a third branch.

EnterSelect ==
    /\ stage = "handling" /\ wait = NotWaiting
    /\ wait' = [k \in Kind |-> IF k = "cancel" THEN "check" ELSE "subscribe"]
    /\ UNCHANGED <<shared, thread, worker, seen>>
LeaveSelect ==
    /\ wait # NotWaiting
    /\ wait' = NotWaiting
    /\ UNCHANGED <<shared, thread, worker, seen>>

Set(k) == token \in flag[k]
Go(k, pc) == wait' = [wait EXCEPT ![k] = pc]
MakeNotified(k) == seen' = [seen EXCEPT ![k] = token \in notified[k]]

\* CancellationToken::cancelled: the flag is read, then a Notified is made and
\* awaited.
CancelledCheck ==
    /\ wait["cancel"] = "check"
    /\ Go("cancel", IF Set("cancel") THEN "done" ELSE "subscribe")
    /\ UNCHANGED <<shared, thread, worker, seen>>
CancelledSubscribe ==
    /\ wait["cancel"] = "subscribe"
    /\ MakeNotified("cancel")
    /\ Go("cancel", "parked")
    /\ UNCHANGED <<shared, thread, worker>>

\* StoragePressureToken::signalled: the Notified is made and enabled, then the
\* flag is read.
SignalledSubscribe ==
    /\ wait["pressure"] = "subscribe"
    /\ MakeNotified("pressure")
    /\ Go("pressure", "check")
    /\ UNCHANGED <<shared, thread, worker>>
SignalledCheck ==
    /\ wait["pressure"] = "check"
    /\ Go("pressure", IF Set("pressure") THEN "done" ELSE "parked")
    /\ UNCHANGED <<shared, thread, worker, seen>>

\* Notified::await: completes on the first notify_waiters after it was made.
WakeTurn(k) ==
    /\ wait[k] = "parked" /\ token \in notified[k] /\ ~seen[k]
    /\ Go(k, IF k = "cancel" THEN "check" ELSE "subscribe")
    /\ UNCHANGED <<shared, thread, worker, seen>>
-----------------------------------------------------------------------------
ThreadStep(p) == Collect(p) \/ Swap(p) \/ Notify(p)
Outside(p) ==
    \/ \E j \in Job : Request(p, j)
    \/ CancelAll(p)
    \/ \E l \in Level : Publish(p, l)
WorkerStep ==
    \/ \E j \in Job : Begin(j)
    \/ RegisterCancel \/ RegisterPressure \/ Recheck
    \/ \E terminal \in BOOLEAN : Release(terminal)
CancelledStep == CancelledCheck \/ CancelledSubscribe \/ WakeTurn("cancel")
SignalledStep == SignalledSubscribe \/ SignalledCheck \/ WakeTurn("pressure")

Next ==
    \/ \E p \in Thread : ThreadStep(p) \/ Outside(p)
    \/ WorkerStep
    \/ EnterSelect \/ LeaveSelect
    \/ CancelledStep \/ SignalledStep

Spec == Init /\ [][Next]_vars

\* A thread finishes the call it is in, tokio polls a woken future, and a
\* select! completes with its first branch.  The third branch of the select!
\* (a fetch, a pacing delay) may take for ever.
FairSpec ==
    /\ Spec
    /\ \A p \in Thread : WF_vars(ThreadStep(p))
    /\ WF_vars(CancelledStep) /\ WF_vars(SignalledStep)
    /\ WF_vars((\E k \in Kind : wait[k] = "done") /\ LeaveSelect)
-----------------------------------------------------------------------------
\* Properties.

\* Type invariant.
SignalsTypeOK ==
    /\ requested \subseteq Job /\ shutdown \in BOOLEAN /\ level \in Level
    /\ active \in [Kind -> Token \cup {NoToken}]
    /\ flag \in [Kind -> SUBSET Token] /\ notified \in [Kind -> SUBSET Token]
    /\ thread \in [Thread -> [pc : {"idle", "collect", "swap", "notify"},
                              kind : Kind, tok : Token \cup {NoToken}]]
    /\ stage \in {"idle", "acquired", "cancellable", "recheck", "handling"}
    /\ job \in Job /\ token \in Token \cup {NoToken}
    /\ wait \in [Kind -> Waiting \cup {"none", "done"}]
    /\ seen \in [Kind -> BOOLEAN]

\* Some thread is about to set the token.
OnItsWay(k, t) == \E p \in Thread : thread[p] = [pc |-> "swap", kind |-> k, tok |-> t]

\* The registered turn of a job whose cancellation was asked for has a cancelled
\* token or a thread about to cancel it.
RequestReachesToken ==
    active["cancel"] # NoToken /\ (shutdown \/ job \in requested) =>
        Set("cancel") \/ OnItsWay("cancel", token)

\* No turn works on under a critical observation unsignalled ("a transition
\* concurrent with the initial admission cannot leave active heavy work
\* unsignalled").
CriticalReachesToken ==
    stage = "handling" /\ level = "CRITICAL" =>
        \/ Set("pressure") \/ OnItsWay("pressure", token)
        \/ \E p \in Thread : thread[p].pc = "collect"

\* A handler that sleeps in StoragePressureToken::signalled on a token that is
\* set has its wake-up: it was notified since, or somebody is about to notify.
WakeupIsComing ==
    wait["pressure"] = "parked" /\ Set("pressure") =>
        \/ token \in notified["pressure"] /\ ~seen["pressure"]
        \/ \E p \in Thread : thread[p] = [pc |-> "notify", kind |-> "pressure", tok |-> token]

\* However request(), cancel_all(), update(), register() and the waits of the
\* handler interleave, no request and no critical observation misses a turn, and
\* no wait for storage pressure sleeps through its signal.
TurnsAreSignalled ==
    SignalsTypeOK /\ RequestReachesToken /\ CriticalReachesToken /\ WakeupIsComing

\* A handler that waits in StoragePressureToken::signalled is woken whenever
\* its token is set, or has stopped waiting.
SignalledWakes == (wait["pressure"] \in Waiting /\ Set("pressure")) ~> wait["pressure"] \notin Waiting

\* The same of CancellationToken::cancelled, which "Waits until cancellation is
\* requested, without aborting the caller."
CancelledWakes == (wait["cancel"] \in Waiting /\ Set("cancel")) ~> wait["cancel"] \notin Waiting
=============================================================================

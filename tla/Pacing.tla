-------------------------------- MODULE Pacing --------------------------------
(***************************************************************************)
(* Admission of page requests to their origins: the process-wide registry  *)
(* of origin states, the registrations and permits that callers hold, the  *)
(* wait for a permit, and the robots policy that every request asks for    *)
(* first, with its cache and its single flight per origin.                 *)
(*                                                                         *)
(* A task is one execute_page.  The guards it holds (Rust values that      *)
(* release something when they are dropped) are a stack; a task that ends, *)
(* fails or is cancelled drops them last first.  A deadline is kept as the *)
(* time left until it, 0 when it has passed or was never set.              *)
(***************************************************************************)
EXTENDS Integers, Sequences, FiniteSets, FiniteSetsExt

CONSTANTS Tasks, Origins, NoTask,
          Target,        \* the origin of a task's page
          Concurrency,   \* the concurrency in a task's snapshot
          Delay,         \* the request delay in a task's snapshot
          Override,      \* tasks whose snapshot overrides a robots disallow
          Capacity,      \* MAX_ORIGIN_PACING_STATES
          CacheCapacity, \* MAX_ROBOTS_CACHE_ENTRIES
          CacheTTL,      \* ROBOTS_CACHE_TTL
          MaxDelay,      \* MAX_PACING_DELAY
          BackoffBase,   \* RATE_LIMIT_BACKOFF_BASE
          MaxBackoff,    \* MAX_RATE_LIMIT_BACKOFF
          RetryAfters,   \* Retry-After values a server sends, 0 for none
          Policies,      \* robots documents a server has
          Cancellable    \* bound: tasks that are ever cancelled

\* RobotsDocument: allow_all, deny_all, or what the parsed rules say of the
\* target.
PolicyKind == {"allow_all", "deny_all", "allow", "disallow"}

\* What the constants may be.
PacingConstants ==
    /\ Target \in [Tasks -> Origins] /\ Concurrency \in [Tasks -> Nat \ {0}]
    /\ Delay \in [Tasks -> 0..MaxDelay] /\ Override \cup Cancellable \subseteq Tasks
    /\ {Capacity, CacheCapacity, CacheTTL, MaxDelay, BackoffBase, MaxBackoff} \subseteq Nat \ {0}
    /\ RetryAfters \subseteq Nat /\ IsFiniteSet(Tasks) /\ NoTask \notin Tasks
    /\ Policies \subseteq [kind : PolicyKind, delay : Nat, left : {0}]

VARIABLES registry,  \* OriginRegistry: an origin's state object, or NoObject
          states,    \* the OriginState objects
          task,      \* the tasks
          cache,     \* RobotsCache
          flights,   \* the task that fetches an origin's robots policy, or NoTask
          quiet      \* history: how long no request may start at an origin

pacingVars == <<registry, states, task, cache, flights, quiet>>

\* OriginState objects: two can exist for one origin if the registry drops
\* one that is in use; one that nothing refers to is free for reuse.
Objects  == 1..(2 * Cardinality(Tasks) + Capacity)
NoObject == 0
NewState == [registrations |-> {}, in_flight |-> 0, waiting |-> 0,
             next |-> 0, backoff |-> 0, retry |-> 0, limits |-> 0]

\* The policy of an origin that has none, or none yet.
NoPolicy == [kind |-> "none", delay |-> 0, left |-> 0]

TaskAt(pc) == [pc |-> pc, guards |-> <<>>, woken |-> FALSE, notify |-> NoObject,
               until |-> -1, leader |-> NoTask, policy |-> NoPolicy, floor |-> 0]

PacingInit ==
    /\ registry = [o \in Origins |-> NoObject]
    /\ states = [x \in Objects |-> NewState]
    /\ task = [t \in Tasks |-> TaskAt("new")]
    /\ cache = [o \in Origins |-> NoPolicy]
    /\ flights = [o \in Origins |-> NoTask]
    /\ quiet = [o \in Origins |-> 0]

-----------------------------------------------------------------------------
(* Tasks and their guards *)

Guard(kind, x) == [kind |-> kind, object |-> x]
Top(t) == task[t].guards[Len(task[t].guards)]
Push(t, g) == Append(task[t].guards, g)
Popped(t) == SubSeq(task[t].guards, 1, Len(task[t].guards) - 1)
Holding(t, kinds) == {i \in DOMAIN task[t].guards : task[t].guards[i].kind \in kinds}

\* A task runs from one step to the next; first it sends a notification it
\* owes for a change it made.
At(t, pc) == task[t].pc = pc /\ task[t].notify = NoObject
Goto(t, pc) == task' = [task EXCEPT ![t].pc = pc]

\* Mutant: Only a task that already sleeps is woken.
NotifiesSleepers(t) ==
    /\ task[t].notify # NoObject
    /\ task' = [u \in Tasks |->
          IF u = t THEN [task[u] EXCEPT !.notify = NoObject]
          ELSE IF task[u].pc = "sleep" /\ Top(u).object = task[t].notify
          THEN [task[u] EXCEPT !.woken = TRUE]
          ELSE task[u]]
    /\ UNCHANGED <<registry, states, cache, flights, quiet>>

\* notify_waiters: every task that has enabled its Notified wakes.
NotifyWaiters(t) ==
    /\ task[t].notify # NoObject
    /\ task' = [u \in Tasks |->
          IF u = t THEN [task[u] EXCEPT !.notify = NoObject]
          ELSE IF task[u].pc \in {"inspect", "decided", "sleep"} /\ Top(u).object = task[t].notify
          THEN [task[u] EXCEPT !.woken = TRUE]
          ELSE task[u]]
    /\ UNCHANGED <<registry, states, cache, flights, quiet>>

-----------------------------------------------------------------------------
(* OriginRegistry *)

Expired(s) == s.next = 0 /\ s.backoff = 0 /\ s.retry = 0

\* Mutant: A state is retired as soon as nothing is registered with it.
RetiredWhenUnregistered(s) == s.registrations = {}

\* Any of these may be retired: the code takes them by key, which says nothing
\* of when they were used.
SafeToRetire(s) == s.registrations = {} /\ s.in_flight = 0 /\ s.waiting = 0 /\ Expired(s)

Registered == {o \in Origins : registry[o] # NoObject}
Referenced(x) ==
    \/ \E o \in Origins : registry[o] = x
    \/ \E t \in Tasks : task[t].notify = x \/ \E i \in DOMAIN task[t].guards : task[t].guards[i].object = x
FreeObject == CHOOSE x \in Objects : ~Referenced(x)

\* prune_safe_states stops as soon as there is room for one.
Prunable == {o \in Registered : SafeToRetire(states[registry[o]])}

\* register: the origin's state, or a new one where there is room, possibly
\* after a retirement; its registration is added under the registry's lock.
Register(t, pc, kind, next) ==
    LET o == Target[t]
        Add(x, s, r) == /\ registry' = r
                        /\ states' = [states EXCEPT ![x] = [s EXCEPT !.registrations = @ \cup {<<t, kind>>}]]
                        /\ task' = [task EXCEPT ![t].pc = next, ![t].guards = Push(t, Guard(kind, x)),
                                                ![t].notify = x]
    IN  /\ At(t, pc)
        /\ \/ /\ o \in Registered
              /\ Add(registry[o], states[registry[o]], registry)
           \/ /\ o \notin Registered /\ Cardinality(Registered) < Capacity
              /\ Add(FreeObject, NewState, [registry EXCEPT ![o] = FreeObject])
           \/ /\ o \notin Registered /\ Cardinality(Registered) >= Capacity
              /\ \E q \in Prunable :
                    Add(FreeObject, NewState, [registry EXCEPT ![o] = FreeObject, ![q] = NoObject])
           \/ \* OriginCapacityExhausted
              /\ o \notin Registered /\ Cardinality(Registered) >= Capacity /\ Prunable = {}
              /\ task' = [task EXCEPT ![t].pc = "unwind"]
              /\ UNCHANGED <<registry, states>>
        /\ UNCHANGED <<cache, flights, quiet>>

-----------------------------------------------------------------------------
(* acquire_with_delay_inner *)

Min2(a, b) == IF a <= b THEN a ELSE b
Max2(a, b) == IF a >= b THEN a ELSE b

Object(t) == Top(t).object
Fetching(t) == Holding(t, {"fetch"}) # {}
EffectiveConcurrency(s) == Min({Concurrency[r[1]] : r \in s.registrations})
\* A robots fetch asks for no delay but the configured one.
EffectiveDelay(t) == Max2(Delay[t], IF Fetching(t) THEN 0 ELSE task[t].policy.delay)
LatestDeadline(s) == Max({s.next, s.backoff, s.retry})

RegisterWaiter(t) ==
    /\ At(t, "enter")
    /\ states' = [states EXCEPT ![Object(t)].waiting = @ + 1]
    /\ task' = [task EXCEPT ![t].pc = "loop", ![t].guards = Push(t, Guard("waiter", Object(t)))]
    /\ UNCHANGED <<registry, cache, flights, quiet>>

\* Interest is registered before the state is inspected.
Enable(t) ==
    /\ At(t, "loop")
    /\ Goto(t, "inspect")
    /\ UNCHANGED <<registry, states, cache, flights, quiet>>

Admits(t, s) == s.in_flight < EffectiveConcurrency(s) /\ Expired(s)

Inspect(t) ==
    LET s == states[Object(t)]
    IN  /\ At(t, "inspect")
        /\ IF Admits(t, s)
           THEN /\ states' = [states EXCEPT ![Object(t)].in_flight = @ + 1,
                                            ![Object(t)].next = EffectiveDelay(t)]
                /\ quiet' = [quiet EXCEPT ![Target[t]] = Max2(@, EffectiveDelay(t))]
                /\ task' = [task EXCEPT ![t].pc = "granted", ![t].woken = FALSE]
           ELSE /\ task' = [task EXCEPT ![t].pc = "decided", ![t].until = IF Expired(s) THEN -1 ELSE LatestDeadline(s)]
                /\ UNCHANGED <<states, quiet>>
        /\ UNCHANGED <<registry, cache, flights>>

\* The lock is released before the select is polled.
Await(t) ==
    /\ At(t, "decided")
    /\ Goto(t, "sleep")
    /\ UNCHANGED <<registry, states, cache, flights, quiet>>

\* The select: a notification, or the deadline if there was one to wait for.
Wake(t) ==
    /\ At(t, "sleep")
    /\ task[t].woken \/ task[t].until = 0
    /\ task' = [task EXCEPT ![t].pc = "loop", ![t].woken = FALSE, ![t].until = -1]
    /\ UNCHANGED <<registry, states, cache, flights, quiet>>

\* drop(waiter), and the permit exists.
Granted(t) ==
    /\ At(t, "granted")
    /\ states' = [states EXCEPT ![Object(t)].waiting = @ - 1]
    /\ task' = [task EXCEPT ![t].pc = IF Fetching(t) THEN "fetching" ELSE "loading",
                            ![t].guards = Append(Popped(t), Guard("permit", Object(t))),
                            ![t].notify = Object(t)]
    /\ UNCHANGED <<registry, cache, flights, quiet>>

-----------------------------------------------------------------------------
(* record_outcome *)

\* The exponent stops at 6.
Backoff(n) == Min2(BackoffBase * 2^Min2(n - 1, 6), MaxBackoff)
RetryAfter(r) == Min2(r, MaxDelay)

Outcomes == {[kind |-> "success"], [kind |-> "failed"]} \cup {[kind |-> "limited", after |-> r] : r \in RetryAfters}

\* A later deadline is never shortened.
Recorded(s, outcome) ==
    CASE outcome.kind = "success" -> [s EXCEPT !.limits = 0]
      [] outcome.kind = "failed" -> s
      [] outcome.kind = "limited" ->
           [s EXCEPT !.limits = @ + 1,
                     !.backoff = Max2(@, Backoff(s.limits + 1)),
                     !.retry = Max2(@, RetryAfter(outcome.after))]

\* The pause the answer calls for (history).
Pause(s, outcome) ==
    IF outcome.kind = "limited" THEN Max2(Backoff(s.limits + 1), RetryAfter(outcome.after)) ELSE 0

RecordOutcome(t, outcome) ==
    /\ states' = [states EXCEPT ![Object(t)] = Recorded(@, outcome)]
    /\ quiet' = [quiet EXCEPT ![Target[t]] = Max2(@, Pause(states[Object(t)], outcome))]

-----------------------------------------------------------------------------
(* cached_or_fetch_document, fetch_document *)

Evaluate(t) ==
    /\ At(t, "evaluate")
    /\ IF cache[Target[t]].left > 0
       THEN task' = [task EXCEPT ![t].pc = "admitted", ![t].policy = [cache[Target[t]] EXCEPT !.left = 0]]
       ELSE Goto(t, "flight")
    /\ UNCHANGED <<registry, states, cache, flights, quiet>>

\* The cache was looked at under another lock.
JoinFlight(t) ==
    LET o == Target[t]
    IN  /\ At(t, "flight")
        /\ IF flights[o] # NoTask
           THEN /\ task' = [task EXCEPT ![t].pc = "follow", ![t].leader = flights[o]]
                /\ UNCHANGED flights
           ELSE /\ flights' = [flights EXCEPT ![o] = t]
                /\ task' = [task EXCEPT ![t].pc = "resolve", ![t].guards = Push(t, Guard("flight", NoObject))]
        /\ UNCHANGED <<registry, states, cache, quiet>>

\* The leader's flight is over, whatever came of it.
Follow(t) ==
    /\ At(t, "follow")
    /\ flights[Target[t]] # task[t].leader
    /\ task' = [task EXCEPT ![t].pc = "evaluate", ![t].leader = NoTask]
    /\ UNCHANGED <<registry, states, cache, flights, quiet>>

\* A 2xx that parses, a 401, 403 or 404.
RobotsFetched(t) ==
    /\ At(t, "fetching")
    /\ \E p \in Policies :
          /\ RecordOutcome(t, [kind |-> "success"])
          /\ task' = [task EXCEPT ![t].pc = "store", ![t].policy = p, ![t].notify = Object(t)]
    /\ UNCHANGED <<registry, cache, flights>>

\* A 429 or another status records its outcome; a transport failure, a
\* redirect or an invalid body records none.  Nothing is cached.
RobotsUnavailable(t) ==
    /\ At(t, "fetching")
    /\ \/ \E c \in Outcomes : c.kind # "success" /\ RecordOutcome(t, c)
       \/ UNCHANGED <<states, quiet>>
    /\ task' = [task EXCEPT ![t].pc = "unwind", ![t].notify = IF states' # states THEN Object(t) ELSE NoObject]
    /\ UNCHANGED <<registry, cache, flights>>

\* RobotsCache::insert: at the limit the entry that expires first goes, the
\* first in order among equals.
StorePolicy(t) ==
    LET o == Target[t]
        kept == {q \in Origins \ {o} : cache[q].left > 0}
        first == {q \in kept : \A r \in kept : cache[q].left <= cache[r].left}
        full == cache[o].left = 0 /\ Cardinality(kept) >= CacheCapacity
    IN  /\ At(t, "store")
        /\ \E q \in (IF full THEN first ELSE {o}) :
              cache' = [cache EXCEPT ![q] = NoPolicy, ![o] = [task[t].policy EXCEPT !.left = CacheTTL]]
        /\ task' = [task EXCEPT ![t].pc = "unwind", ![t].floor = 1]
        /\ UNCHANGED <<registry, states, flights, quiet>>

-----------------------------------------------------------------------------
(* execute_page *)

\* A disallow can be overridden only where rules were parsed.
Permitted(t) ==
    LET p == task[t].policy
    IN  p.kind \in {"allow_all", "allow"} \/ (p.kind = "disallow" /\ t \in Override)

Admitted(t) ==
    /\ At(t, "admitted")
    /\ Goto(t, IF Permitted(t) THEN "enter" ELSE "unwind")
    /\ UNCHANGED <<registry, states, cache, flights, quiet>>

PageLoaded(t) ==
    /\ At(t, "loading")
    /\ \E c \in Outcomes : RecordOutcome(t, c)
    /\ task' = [task EXCEPT ![t].pc = "unwind", ![t].notify = Object(t), ![t].policy = NoPolicy]
    /\ UNCHANGED <<registry, cache, flights>>

\* A select loses to cancellation or storage pressure: the future is dropped
\* where it awaits.
Cancel(t) ==
    /\ task[t].pc \in {"resolve", "follow", "sleep", "fetching", "loading"} /\ task[t].notify = NoObject
    /\ t \in Cancellable
    /\ task' = [task EXCEPT ![t].pc = "unwind", ![t].woken = FALSE, ![t].until = -1, ![t].leader = NoTask]
    /\ UNCHANGED <<registry, states, cache, flights, quiet>>

\* Drop of AdmissionPermit, WaiterGuard and PacingRegistration.
Released(g, t) ==
    CASE g.kind = "permit" -> [states EXCEPT ![g.object].in_flight = @ - 1]
      [] g.kind = "waiter" -> [states EXCEPT ![g.object].waiting = @ - 1]
      [] g.kind \in {"page", "fetch"} -> [states EXCEPT ![g.object].registrations = @ \ {<<t, g.kind>>}]
      [] g.kind = "flight" -> states

\* Mutant: The flight stays in the map when its leader fails.
FlightLeft(g, t) == IF g.kind = "flight" /\ task[t].floor = 1 THEN [flights EXCEPT ![Target[t]] = NoTask] ELSE flights

\* Drop of RobotsFetchFlight.
Landed(g, t) == IF g.kind = "flight" THEN [flights EXCEPT ![Target[t]] = NoTask] ELSE flights

Unwind(t) ==
    /\ At(t, "unwind")
    /\ IF Len(task[t].guards) > task[t].floor
       THEN /\ states' = Released(Top(t), t)
            /\ flights' = Landed(Top(t), t)
            /\ task' = [task EXCEPT ![t].guards = Popped(t), ![t].notify = Top(t).object]
       ELSE /\ task' = [task EXCEPT ![t] = IF @.floor = 0 THEN TaskAt("done")
                                           ELSE [@ EXCEPT !.pc = "admitted", !.floor = 0]]
            /\ UNCHANGED <<states, flights>>
    /\ UNCHANGED <<registry, cache, quiet>>

Less(n) == IF n > 0 THEN n - 1 ELSE n

\* Time passes for every deadline.
Tick ==
    /\ states' = [x \in Objects |-> [states[x] EXCEPT !.next = Less(@), !.backoff = Less(@), !.retry = Less(@)]]
    /\ task' = [t \in Tasks |-> [task[t] EXCEPT !.until = Less(@)]]
    /\ cache' = [o \in Origins |-> IF cache[o].left > 1 THEN [cache[o] EXCEPT !.left = @ - 1] ELSE NoPolicy]
    /\ quiet' = [o \in Origins |-> Less(quiet[o])]
    /\ UNCHANGED <<registry, flights>>

TaskStep(t) ==
    \/ Register(t, "new", "page", "evaluate")
    \/ Register(t, "resolve", "fetch", "enter")
    \/ RegisterWaiter(t) \/ Enable(t) \/ Inspect(t) \/ Await(t) \/ Wake(t) \/ Granted(t)
    \/ Evaluate(t) \/ JoinFlight(t) \/ Follow(t) \/ RobotsFetched(t) \/ RobotsUnavailable(t)
    \/ StorePolicy(t) \/ Admitted(t) \/ PageLoaded(t) \/ Unwind(t) \/ NotifyWaiters(t)

PacingNext == Tick \/ \E t \in Tasks : TaskStep(t) \/ Cancel(t)

PacingSpec == PacingInit /\ [][PacingNext]_pacingVars

\* Tokio polls every task that can run, fetches are bounded by timeouts, and
\* time passes.  Nobody has to cancel.
PacingFairSpec == PacingSpec /\ WF_pacingVars(Tick) /\ \A t \in Tasks : WF_pacingVars(TaskStep(t))
-----------------------------------------------------------------------------
(* Properties *)

\* Type invariant, with the capacities of the registry and of the robots cache.
PacingTypeOK ==
    /\ registry \in [Origins -> Objects \cup {NoObject}] /\ Cardinality(Registered) <= Capacity
    /\ Cardinality({o \in Origins : cache[o].left > 0}) <= CacheCapacity
    /\ \A x \in Objects : states[x].in_flight \in Nat /\ states[x].waiting \in Nat
    /\ \A t \in Tasks : Len(task[t].guards) <= 4 /\ task[t].until >= -1

\* What refers to x: guards of a kind, as task and place on its stack, grants
\* that are not permits yet, and registrations.
GuardsOf(x, kind) ==
    {p \in Tasks \X (1..4) :
        p[2] \in DOMAIN task[p[1]].guards /\ task[p[1]].guards[p[2]] = Guard(kind, x)}
GrantsOf(x) == {t \in Tasks : task[t].pc = "granted" /\ Object(t) = x}
RegistrationsOf(x) ==
    {p \in Tasks \X {"page", "fetch"} :
        \E i \in DOMAIN task[p[1]].guards : task[p[1]].guards[i] = Guard(p[2], x)}

\* Whatever a task ends with, and wherever it is cancelled, its origin's
\* counters are those of the values alive: no capacity leaks and none is
\* given back twice (saturating_sub would hide it).
Accounted(x) ==
    /\ states[x].waiting = Cardinality(GuardsOf(x, "waiter"))
    /\ states[x].in_flight = Cardinality(GuardsOf(x, "permit")) + Cardinality(GrantsOf(x))
    /\ states[x].registrations = RegistrationsOf(x)
CapacityAccounted == \A o \in Registered : Accounted(registry[o])

\* A state object is retired only when nobody uses it: whatever refers to an
\* origin's pacing refers to the one object the registry has for it.
OneStatePerOrigin ==
    \A t \in Tasks : \A i \in DOMAIN task[t].guards :
       task[t].guards[i].kind # "flight" => task[t].guards[i].object = registry[Target[t]]

\* A task that waits for a permit without having been woken waits for one
\* that is in use, or somebody is about to notify it (lost wake-up).
NoLostWakeup ==
    \A t \in Tasks : task[t].pc \in {"decided", "sleep"} /\ ~task[t].woken /\ task[t].until = -1 =>
       \/ states[Object(t)].in_flight >= EffectiveConcurrency(states[Object(t)])
       \/ \E u \in Tasks : task[u].notify = Object(t)

\* One task fetches an origin's robots policy at a time, and it is the one
\* the others follow.
OneFlightPerOrigin ==
    \A t \in Tasks : Holding(t, {"flight"}) # {} => flights[Target[t]] = t

Using(o) == {t \in Tasks : Target[t] = o /\ (Holding(t, {"permit"}) # {} \/ task[t].pc = "granted")}
Present(o) == {t \in Tasks : Target[t] = o /\ Holding(t, {"page", "fetch"}) # {}}

\* Whatever a task ends with, and wherever it is cancelled, no capacity of its
\* origin leaks or is given back twice, no waiting task misses its wake-up, one
\* task at a time fetches an origin's robots policy, and an origin has one
\* pacing state that is retired only when nobody uses it (Drop of the guards,
\* notify_waiters, RobotsFetchFlight, retire_idle).
PacingSafe ==
    /\ PacingTypeOK
    /\ CapacityAccounted
    /\ NoLostWakeup
    /\ OneFlightPerOrigin
    /\ OneStatePerOrigin

\* A request starts only when every pause that an earlier request of any task
\* asked for has passed, and below the smallest concurrency of the tasks at work
\* on the origin; retirement of idle states included (inspect, record_outcome).
PoliteStep ==
    \A t \in Tasks : task[t].pc = "inspect" /\ task'[t].pc = "granted" =>
       LET o == Target[t]
       IN  /\ quiet[o] = 0
           /\ \A u \in Present(o) : Cardinality(Using(o)) < Concurrency[u]
GrantsArePolite == [][PoliteStep]_pacingVars

\* Every task comes to an end: no wait for a permit, a deadline or another
\* task's robots fetch lasts for ever.
EveryTaskEnds == \A t \in Tasks : <>(task[t].pc = "done")

=============================================================================

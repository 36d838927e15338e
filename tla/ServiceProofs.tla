----------------------------- MODULE ServiceProofs -----------------------------
(***************************************************************************)
(* The database actor and the processes around it: ActorSafe, and that the *)
(* worker implements SerialDatabase, for any set of callers and any        *)
(* capacity; then ServesItsSchema and OnlyServingWrites for any number of  *)
(* processes and any builds.                                               *)
(***************************************************************************)
EXTENDS DatabaseWorker, Process, FiniteSetTheorems, SequenceTheorems, TLAPS

(* The database actor *)

\* The stages in which the thread holds a job, and those in which the job's
\* caller has no answer yet.
Holding == {"execute", "respond", "release", "panic", "failCurrent"}
Owing == Holding \ {"release"}

\* Which stages of the thread go with which lifecycle, and what it holds.
StageShape ==
    /\ thread = "starting" => lifecycle = "Starting" /\ admitted = <<>>
    /\ thread \in {"loop", "parked", "execute", "respond", "release", "panic"}
          => lifecycle \in {"Running", "Closing"}
    /\ thread \in {"failCurrent", "failQueued"} => lifecycle = "Panicked"
    /\ thread \in {"closed", "ended"} => lifecycle \notin {"Running", "Closing"}
    /\ current # NoCaller <=> thread \in Holding
    /\ doomed # <<>> => thread \in {"failCurrent", "failQueued"}
    /\ queue # <<>> => lifecycle \in {"Running", "Closing"}

\* A caller waits for a permit exactly once and only while it says so.
WaitersShape ==
    /\ \A i \in 1..Len(waiters) : call[waiters[i]] = "waiting"
    /\ \A i, k \in 1..Len(waiters) : waiters[i] = waiters[k] => i = k

\* No call is accepted twice, and one that was accepted is not told that it
\* was refused.
AdmittedShape ==
    /\ \A i, k \in 1..Len(admitted) : admitted[i] = admitted[k] => i = k
    /\ \A i \in 1..Len(admitted) :
          call[admitted[i]] \in {"accepted", "abandoned", "result", "panicked"}

\* What is queued or about to be failed is what was accepted last, in order,
\* and nobody of it has an answer.
Backlog == Len(queue) + Len(doomed)
Taken == Len(admitted) - Backlog
BacklogShape ==
    /\ Backlog <= Len(admitted)
    /\ \A i \in 1..Len(queue) : queue[i] = admitted[Taken + i]
    /\ \A i \in 1..Len(doomed) : doomed[i] = admitted[Taken + i]
    /\ \A i \in Taken + 1..Len(admitted) : call[admitted[i]] \in {"accepted", "abandoned"}

\* The log is what was taken, but for the job at hand before its commit and
\* the one that panicked.
LogShape ==
    /\ Len(log) <= Taken /\ \A i \in 1..Len(log) : log[i] = admitted[i]
    /\ thread \in {"loop", "parked", "respond", "release"} => Len(log) = Taken
    /\ thread = "execute" => Len(log) + 1 = Taken
    /\ lifecycle = "Closed" => Len(log) = Len(admitted)
    /\ thread \in Holding => Taken > 0 /\ current = admitted[Taken]
    /\ thread \in Owing => call[current] \in {"accepted", "abandoned"}

\* Who has no answer yet is at hand or in the backlog.
AcceptedShape ==
    \A c \in Callers : call[c] = "accepted" =>
       \/ thread \in Owing /\ c = current
       \/ \E i \in Taken + 1..Len(admitted) : admitted[i] = c

Permitted == {c \in Callers : call[c] = "permitted"}

\* The inductive invariant.
ActorInv ==
    /\ ActorTypeOK /\ StageShape /\ WaitersShape /\ AdmittedShape /\ BacklogShape /\ LogShape
    /\ AcceptedShape /\ IsFiniteSet(Permitted) /\ PermitsAccounted /\ NoWorkWhileParked
-----------------------------------------------------------------------------
(* Facts that several steps use *)

\* ActorNext, one action at a time and the tests inside an action decided.
LEMMA ActorCases ==
    ASSUME [ActorNext]_actorVars
    PROVE  \/ \E c \in Callers : Ask(c)
           \/ Acquire
           \/ Refuse
           \/ \E c \in Callers : Admit(c) /\ lifecycle = "Running"
           \/ \E c \in Callers : Admit(c) /\ lifecycle # "Running"
           \/ \E c \in Callers : Abandon(c) /\ call[c] = "waiting"
           \/ \E c \in Callers : Abandon(c) /\ call[c] = "accepted"
           \/ BeginShutdown
           \/ Open
           \/ Loop /\ queue # <<>>
           \/ Loop /\ queue = <<>>
           \/ Unpark
           \/ Execute
           \/ Respond
           \/ Release
           \/ Panic
           \/ FailCurrent
           \/ FailQueued /\ doomed # <<>>
           \/ FailQueued /\ doomed = <<>>
           \/ Complete
           \/ UNCHANGED actorVars
  BY DEF ActorNext, ThreadStep, CallerStep, Abandon

\* A sequence without its element at i (LeaveQueue).
LEMMA WithoutElement ==
    ASSUME NEW S, NEW s \in Seq(S), NEW i \in 1..Len(s)
    PROVE  \E t \in Seq(S) :
              /\ t = SubSeq(s, 1, i - 1) \o SubSeq(s, i + 1, Len(s))
              /\ Len(t) = Len(s) - 1
              /\ \A k \in 1..Len(t) : t[k] = IF k < i THEN s[k] ELSE s[k + 1]
<1>1. /\ SubSeq(s, 1, i - 1) \in Seq(S) /\ Len(SubSeq(s, 1, i - 1)) = i - 1
      /\ \A k \in 1..i - 1 : SubSeq(s, 1, i - 1)[k] = s[k]
  BY SubSeqProperties, ElementOfSeq, LenProperties
<1>2. /\ SubSeq(s, i + 1, Len(s)) \in Seq(S) /\ Len(SubSeq(s, i + 1, Len(s))) = Len(s) - i
      /\ \A k \in 1..Len(s) - i : SubSeq(s, i + 1, Len(s))[k] = s[i + k]
  BY SubSeqProperties, ElementOfSeq, LenProperties
<1>3. PICK a \in Seq(S) : a = SubSeq(s, 1, i - 1) /\ Len(a) = i - 1
                            /\ \A k \in 1..i - 1 : a[k] = s[k]
  BY <1>1
<1>4. PICK b \in Seq(S) : b = SubSeq(s, i + 1, Len(s)) /\ Len(b) = Len(s) - i
                            /\ \A k \in 1..Len(s) - i : b[k] = s[i + k]
  BY <1>2
<1>5. Len(a) = i - 1 /\ Len(b) = Len(s) - i /\ Len(s) \in Nat
  BY <1>3, <1>4, LenProperties
<1>6. PICK t \in Seq(S) : t = a \o b /\ Len(t) = Len(a) + Len(b)
                            /\ \A k \in 1..Len(a) + Len(b) :
                                  t[k] = IF k <= Len(a) THEN a[k] ELSE b[k - Len(a)]
  <2>1. /\ a \o b \in Seq(S) /\ Len(a \o b) = Len(a) + Len(b)
        /\ \A k \in 1..Len(a) + Len(b) :
              (a \o b)[k] = IF k <= Len(a) THEN a[k] ELSE b[k - Len(a)]
    BY ConcatProperties
  <2>q. QED
    BY <2>1
<1>7. Len(t) = Len(s) - 1
  BY <1>5, <1>6
<1>8. ASSUME NEW k \in 1..Len(t)
      PROVE  t[k] = IF k < i THEN s[k] ELSE s[k + 1]
  <2>1. k \in 1..Len(a) + Len(b)
    BY <1>5, <1>7
  <2>2. CASE k < i
    BY <1>3, <1>5, <1>6, <2>1, <2>2
  <2>3. CASE k >= i
    <3>1. k - Len(a) \in 1..Len(s) - i /\ i + (k - Len(a)) = k + 1
      BY <1>5, <1>7, <2>3
    <3>2. b[k - Len(a)] = s[k + 1]
      BY <1>4, <3>1
    <3>3. t[k] = b[k - Len(a)]
      BY <1>5, <1>6, <2>1, <2>3
    <3>q. QED
      BY <2>3, <3>2, <3>3
  <2>q. QED
    BY <2>2, <2>3
<1>9. t = SubSeq(s, 1, i - 1) \o SubSeq(s, i + 1, Len(s))
  BY <1>3, <1>4, <1>6
<1>q. QED
  BY <1>7, <1>8, <1>9

\* A sequence and one more.
LEMMA OneMore ==
    ASSUME NEW S, NEW s \in Seq(S), NEW e \in S, NEW t, t = Append(s, e)
    PROVE  /\ t \in Seq(S) /\ Len(s) \in Nat /\ Len(t) = Len(s) + 1
           /\ t[Len(s) + 1] = e /\ \A k \in 1..Len(s) : t[k] = s[k]
  BY AppendProperties, LenProperties

\* The first of a queue and the rest.
LEMMA HeadAndTail ==
    ASSUME NEW S, NEW s \in Seq(S), s # <<>>
    PROVE  /\ Len(s) \in Nat \ {0} /\ Head(s) = s[1] /\ Head(s) \in S
           /\ Tail(s) \in Seq(S) /\ Len(Tail(s)) = Len(s) - 1
           /\ \A k \in 1..Len(s) - 1 : Tail(s)[k] = s[k + 1]
  BY HeadTailProperties, EmptySeq

\* The next to get a permit is waiting.
LEMMA FirstWaiter ==
    ASSUME ActorInv, waiters # <<>>
    PROVE  /\ Head(waiters) \in Callers /\ call[Head(waiters)] = "waiting"
           /\ Tail(waiters) \in Seq(Callers) /\ Len(Tail(waiters)) = Len(waiters) - 1
           /\ \A k \in 1..Len(waiters) - 1 : Tail(waiters)[k] = waiters[k + 1]
           /\ Head(waiters) = waiters[1] /\ Len(waiters) \in Nat \ {0}
<1>1. waiters \in Seq(Callers)
  BY DEF ActorInv, ActorTypeOK
<1>q. QED
  BY <1>1, HeadAndTail DEF ActorInv, WaitersShape

\* Who is on the way to acceptance has not been accepted.
LEMMA NotYetAdmitted ==
    ASSUME ActorInv, NEW c \in Callers, call[c] \in {"idle", "waiting", "permitted"}
    PROVE  \A i \in 1..Len(admitted) : admitted[i] \in Callers /\ admitted[i] # c
  BY ElementOfSeq DEF ActorInv, ActorTypeOK, AdmittedShape

\* The job at hand is a caller's, and was the last one taken.
LEMMA JobAtHand ==
    ASSUME ActorInv, thread \in Holding
    PROVE  /\ current \in Callers /\ Taken \in 1..Len(admitted) /\ current = admitted[Taken]
           /\ \A i \in Taken + 1..Len(admitted) : admitted[i] # current
<1>1. current \in Callers
  BY DEF ActorInv, ActorTypeOK, StageShape
<1>2. Taken \in 1..Len(admitted) /\ current = admitted[Taken]
  BY LenProperties DEF ActorInv, ActorTypeOK, LogShape, BacklogShape, Taken, Backlog
<1>q. QED
  BY <1>1, <1>2 DEF ActorInv, AdmittedShape

\* The first job to be failed is the first of the backlog.
LEMMA FirstDoomed ==
    ASSUME ActorInv, doomed # <<>>
    PROVE  /\ Len(doomed) \in Nat \ {0} /\ Head(doomed) \in Callers
           /\ Tail(doomed) \in Seq(Callers) /\ Len(Tail(doomed)) = Len(doomed) - 1
           /\ \A k \in 1..Len(doomed) - 1 : Tail(doomed)[k] = doomed[k + 1]
           /\ queue = <<>> /\ Len(queue) = 0 /\ Head(doomed) = admitted[Taken + 1]
           /\ Taken + 1 \in 1..Len(admitted)
           /\ \A i \in Taken + 2..Len(admitted) : admitted[i] # Head(doomed)
<1>1. doomed \in Seq(Callers) /\ queue = <<>> /\ Len(queue) = 0 /\ Len(admitted) \in Nat
  BY LenProperties, EmptySeq DEF ActorInv, ActorTypeOK, StageShape
<1>2. /\ Len(doomed) \in Nat \ {0} /\ Head(doomed) = doomed[1] /\ Head(doomed) \in Callers
      /\ Tail(doomed) \in Seq(Callers) /\ Len(Tail(doomed)) = Len(doomed) - 1
      /\ \A k \in 1..Len(doomed) - 1 : Tail(doomed)[k] = doomed[k + 1]
  BY <1>1, HeadAndTail
<1>3. Head(doomed) = admitted[Taken + 1] /\ Taken + 1 \in 1..Len(admitted)
  BY <1>1, <1>2 DEF ActorInv, BacklogShape, Taken, Backlog
<1>4. \A i \in Taken + 2..Len(admitted) : admitted[i] # Head(doomed)
  BY <1>1, <1>2, <1>3 DEF ActorInv, AdmittedShape, Taken, Backlog
<1>q. QED
  BY <1>1, <1>2, <1>3, <1>4

\* What acceptance does to the two histories and the queue.
LEMMA AdmitEffect ==
    ASSUME ActorInv, NEW c \in Callers, Admit(c), lifecycle = "Running"
    PROVE  /\ doomed = <<>> /\ Len(doomed) = 0 /\ Len(queue) \in Nat /\ Len(admitted) \in Nat
           /\ Len(admitted') = Len(admitted) + 1 /\ admitted'[Len(admitted) + 1] = c
           /\ \A i \in 1..Len(admitted) : admitted'[i] = admitted[i]
           /\ Len(queue') = Len(queue) + 1 /\ queue'[Len(queue) + 1] = c
           /\ \A i \in 1..Len(queue) : queue'[i] = queue[i]
           /\ Taken' = Taken /\ Backlog' = Backlog + 1
           /\ call' = [call EXCEPT ![c] = "accepted"]
           /\ UNCHANGED <<doomed, log, thread, current, lifecycle, permits>>
<1>1. /\ queue \in Seq(Callers) /\ admitted \in Seq(Callers) /\ doomed = <<>> /\ Len(doomed) = 0
      /\ Len(queue) \in Nat /\ Len(admitted) \in Nat
  BY EmptySeq, LenProperties DEF ActorInv, ActorTypeOK, StageShape
<1>2. /\ queue' = Append(queue, c) /\ admitted' = Append(admitted, c)
      /\ call' = [call EXCEPT ![c] = "accepted"]
      /\ UNCHANGED <<doomed, log, thread, current, lifecycle, permits>>
  BY DEF Admit, threadVars
<1>3. /\ Len(admitted') = Len(admitted) + 1 /\ admitted'[Len(admitted) + 1] = c
      /\ \A i \in 1..Len(admitted) : admitted'[i] = admitted[i]
  BY <1>1, <1>2, OneMore
<1>4. /\ Len(queue') = Len(queue) + 1 /\ queue'[Len(queue) + 1] = c
      /\ \A i \in 1..Len(queue) : queue'[i] = queue[i]
  BY <1>1, <1>2, OneMore
<1>5. Taken' = Taken /\ Backlog' = Backlog + 1
  BY <1>1, <1>2, <1>3, <1>4 DEF Taken, Backlog
<1>q. QED
  BY <1>1, <1>2, <1>3, <1>4, <1>5

\* What the thread takes is the first of the backlog.
LEMMA TakeEffect ==
    ASSUME ActorInv, Loop, queue # <<>>
    PROVE  /\ doomed = <<>> /\ Len(doomed) = 0 /\ Len(queue) \in Nat \ {0}
           /\ Head(queue) \in Callers /\ Len(Tail(queue)) = Len(queue) - 1
           /\ \A k \in 1..Len(queue) - 1 : Tail(queue)[k] = queue[k + 1]
           /\ queue' = Tail(queue) /\ Taken' = Taken + 1 /\ Backlog' = Backlog - 1
           /\ Taken + 1 \in 1..Len(admitted) /\ Head(queue) = admitted[Taken + 1]
           /\ thread = "loop" /\ thread' = "execute" /\ current' = Head(queue)
           /\ UNCHANGED <<lifecycle, doomed, admitted, call, log, permits>>
<1>1. /\ queue \in Seq(Callers) /\ doomed = <<>> /\ Len(doomed) = 0
      /\ Len(admitted) \in Nat
  BY EmptySeq, LenProperties DEF Loop, ActorInv, ActorTypeOK, StageShape
<1>2. /\ Len(queue) \in Nat \ {0} /\ Len(Tail(queue)) = Len(queue) - 1
      /\ Head(queue) = queue[1] /\ Head(queue) \in Callers
      /\ \A k \in 1..Len(queue) - 1 : Tail(queue)[k] = queue[k + 1]
  BY <1>1, HeadAndTail
<1>3. /\ queue' = Tail(queue) /\ thread = "loop" /\ thread' = "execute" /\ current' = Head(queue)
      /\ UNCHANGED <<lifecycle, doomed, admitted, call, log, permits>>
  BY DEF Loop
<1>4. Taken' = Taken + 1 /\ Backlog' = Backlog - 1
  BY <1>1, <1>2, <1>3 DEF Taken, Backlog
<1>5. Taken + 1 \in 1..Len(admitted) /\ Head(queue) = admitted[Taken + 1]
  BY <1>1, <1>2 DEF ActorInv, BacklogShape, Taken, Backlog
<1>q. QED
  BY <1>1, <1>2, <1>3, <1>4, <1>5
-----------------------------------------------------------------------------
(* Every step keeps the invariant *)

\* Every step keeps the types.
LEMMA TypeStep ==
    ASSUME ActorInv, [ActorNext]_actorVars
    PROVE  ActorTypeOK'
<1> USE DatabaseWorkerConstants DEF Lifecycle
<1>1. ASSUME NEW c \in Callers, Ask(c)
      PROVE  ActorTypeOK'
  BY <1>1 DEF Ask, ActorInv, ActorTypeOK, threadVars
<1>2. ASSUME Acquire
      PROVE  ActorTypeOK'
  <2>1. Head(waiters) \in Callers /\ Tail(waiters) \in Seq(Callers)
    BY <1>2, FirstWaiter DEF Acquire
  <2>q. QED
    BY <1>2, <2>1 DEF Acquire, ActorInv, ActorTypeOK, threadVars
<1>3. ASSUME Refuse
      PROVE  ActorTypeOK'
  <2>1. Head(waiters) \in Callers /\ Tail(waiters) \in Seq(Callers)
    BY <1>3, FirstWaiter DEF Refuse
  <2>q. QED
    BY <1>3, <2>1 DEF Refuse, FailureFor, ActorInv, ActorTypeOK, threadVars
<1>4. ASSUME NEW c \in Callers, Admit(c), lifecycle = "Running"
      PROVE  ActorTypeOK'
  <2>1. Append(queue, c) \in Seq(Callers) /\ Append(admitted, c) \in Seq(Callers)
    BY AppendProperties DEF ActorInv, ActorTypeOK
  <2>q. QED
    BY <1>4, <2>1 DEF Admit, ActorInv, ActorTypeOK, threadVars
<1>5. ASSUME NEW c \in Callers, Admit(c), lifecycle # "Running"
      PROVE  ActorTypeOK'
  BY <1>5 DEF Admit, FailureFor, ActorInv, ActorTypeOK, threadVars
<1>6. ASSUME NEW c \in Callers, Abandon(c), call[c] = "waiting"
      PROVE  ActorTypeOK'
  <2>1. PICK i \in DOMAIN waiters :
           waiters' = SubSeq(waiters, 1, i - 1) \o SubSeq(waiters, i + 1, Len(waiters))
    BY <1>6 DEF Abandon, LeaveQueue
  <2>2. waiters \in Seq(Callers) /\ i \in 1..Len(waiters)
    BY LenProperties DEF ActorInv, ActorTypeOK
  <2>3. waiters' \in Seq(Callers)
    BY <2>1, <2>2, WithoutElement, SMTT(40)
  <2>q. QED
    BY <1>6, <2>3 DEF Abandon, ActorInv, ActorTypeOK, threadVars
<1>7. ASSUME NEW c \in Callers, Abandon(c), call[c] = "accepted"
      PROVE  ActorTypeOK'
  BY <1>7 DEF Abandon, ActorInv, ActorTypeOK, threadVars
<1>8. ASSUME BeginShutdown
      PROVE  ActorTypeOK'
  BY <1>8 DEF BeginShutdown, ActorInv, ActorTypeOK, threadVars
<1>9. ASSUME Open
      PROVE  ActorTypeOK'
  BY <1>9 DEF Open, ActorInv, ActorTypeOK
<1>10. ASSUME Loop, queue # <<>>
      PROVE  ActorTypeOK'
  <2>1. Head(queue) \in Callers /\ Tail(queue) \in Seq(Callers)
    BY <1>10, HeadAndTail DEF ActorInv, ActorTypeOK
  <2>q. QED
    BY <1>10, <2>1 DEF Loop, ActorInv, ActorTypeOK
<1>11. ASSUME Loop, queue = <<>>
      PROVE  ActorTypeOK'
  BY <1>11 DEF Loop, ActorInv, ActorTypeOK
<1>12. ASSUME Unpark
      PROVE  ActorTypeOK'
  BY <1>12 DEF Unpark, ActorInv, ActorTypeOK
<1>13. ASSUME Execute
      PROVE  ActorTypeOK'
  <2>1. Append(log, current) \in Seq(Callers)
    BY <1>13, JobAtHand, AppendProperties DEF Execute, Holding, ActorInv, ActorTypeOK
  <2>q. QED
    BY <1>13, <2>1 DEF Execute, ActorInv, ActorTypeOK
<1>14. ASSUME Respond
      PROVE  ActorTypeOK'
  BY <1>14 DEF Respond, Answered, ActorInv, ActorTypeOK
<1>15. ASSUME Release
      PROVE  ActorTypeOK'
  BY <1>15 DEF Release, ActorInv, ActorTypeOK
<1>16. ASSUME Panic
      PROVE  ActorTypeOK'
  BY <1>16 DEF Panic, ActorInv, ActorTypeOK
<1>17. ASSUME FailCurrent
      PROVE  ActorTypeOK'
  <2>1. current \in Callers
    BY <1>17, JobAtHand DEF FailCurrent, Holding
  <2>2. call' \in [Callers -> {"idle", "waiting", "permitted", "accepted", "abandoned",
                               "result", "shutting_down", "panicked"}]
    BY <1>17, <2>1 DEF FailCurrent, Answered, ActorInv, ActorTypeOK
  <2>q. QED
    BY <1>17, <2>2 DEF FailCurrent, ActorInv, ActorTypeOK
<1>18. ASSUME FailQueued, doomed # <<>>
      PROVE  ActorTypeOK'
  <2>1. Head(doomed) \in Callers /\ Tail(doomed) \in Seq(Callers)
    BY <1>18, FirstDoomed
  <2>2. /\ permits' = permits + 1 /\ doomed' = Tail(doomed)
        /\ call' = Answered(Head(doomed), "panicked")
        /\ UNCHANGED <<lifecycle, queue, closed, waiters, thread, current, woken, log, admitted>>
    BY <1>18 DEF FailQueued
  <2>3. call' \in [Callers -> {"idle", "waiting", "permitted", "accepted", "abandoned",
                               "result", "shutting_down", "panicked"}]
    BY <2>1, <2>2 DEF Answered, ActorInv, ActorTypeOK
  <2>q. QED
    BY <2>1, <2>2, <2>3 DEF ActorInv, ActorTypeOK
<1>19. ASSUME FailQueued, doomed = <<>>
      PROVE  ActorTypeOK'
  BY <1>19 DEF FailQueued, ActorInv, ActorTypeOK
<1>20. ASSUME Complete
      PROVE  ActorTypeOK'
  BY <1>20 DEF Complete, ActorInv, ActorTypeOK
<1>21. ASSUME UNCHANGED actorVars
      PROVE  ActorTypeOK'
  BY <1>21 DEF actorVars, ActorInv, ActorTypeOK
<1>q. QED
  BY <1>1, <1>2, <1>3, <1>4, <1>5, <1>6, <1>7, <1>8, <1>9, <1>10, <1>11, <1>12, <1>13,
     <1>14, <1>15, <1>16, <1>17, <1>18, <1>19, <1>20, <1>21, ActorCases

\* The thread and the lifecycle move together.
LEMMA StageStep ==
    ASSUME ActorInv, [ActorNext]_actorVars
    PROVE  StageShape'
<1> USE DatabaseWorkerConstants DEF Lifecycle, Holding
<1>1. ASSUME NEW c \in Callers, Ask(c)
      PROVE  StageShape'
  BY <1>1 DEF Ask, ActorInv, ActorTypeOK, StageShape, threadVars
<1>2. ASSUME Acquire
      PROVE  StageShape'
  BY <1>2 DEF Acquire, ActorInv, ActorTypeOK, StageShape, threadVars
<1>3. ASSUME Refuse
      PROVE  StageShape'
  BY <1>3 DEF Refuse, FailureFor, ActorInv, ActorTypeOK, StageShape, threadVars
<1>4. ASSUME NEW c \in Callers, Admit(c), lifecycle = "Running"
      PROVE  StageShape'
  BY <1>4 DEF Admit, ActorInv, ActorTypeOK, StageShape, threadVars
<1>5. ASSUME NEW c \in Callers, Admit(c), lifecycle # "Running"
      PROVE  StageShape'
  BY <1>5 DEF Admit, FailureFor, ActorInv, ActorTypeOK, StageShape, threadVars
<1>6. ASSUME NEW c \in Callers, Abandon(c), call[c] = "waiting"
      PROVE  StageShape'
  BY <1>6 DEF Abandon, LeaveQueue, ActorInv, ActorTypeOK, StageShape, threadVars
<1>7. ASSUME NEW c \in Callers, Abandon(c), call[c] = "accepted"
      PROVE  StageShape'
  BY <1>7 DEF Abandon, ActorInv, ActorTypeOK, StageShape, threadVars
<1>8. ASSUME BeginShutdown
      PROVE  StageShape'
  BY <1>8 DEF BeginShutdown, ActorInv, ActorTypeOK, StageShape, threadVars
<1>9. ASSUME Open
      PROVE  StageShape'
  BY <1>9 DEF Open, ActorInv, ActorTypeOK, StageShape
<1>10. ASSUME Loop, queue # <<>>
      PROVE  StageShape'
  BY <1>10 DEF Loop, ActorInv, ActorTypeOK, StageShape
<1>11. ASSUME Loop, queue = <<>>
      PROVE  StageShape'
  BY <1>11 DEF Loop, ActorInv, ActorTypeOK, StageShape
<1>12. ASSUME Unpark
      PROVE  StageShape'
  BY <1>12 DEF Unpark, ActorInv, ActorTypeOK, StageShape
<1>13. ASSUME Execute
      PROVE  StageShape'
  BY <1>13 DEF Execute, ActorInv, ActorTypeOK, StageShape
<1>14. ASSUME Respond
      PROVE  StageShape'
  BY <1>14 DEF Respond, Answered, ActorInv, ActorTypeOK, StageShape
<1>15. ASSUME Release
      PROVE  StageShape'
  BY <1>15 DEF Release, ActorInv, ActorTypeOK, StageShape
<1>16. ASSUME Panic
      PROVE  StageShape'
  BY <1>16 DEF Panic, ActorInv, ActorTypeOK, StageShape
<1>17. ASSUME FailCurrent
      PROVE  StageShape'
  BY <1>17 DEF FailCurrent, Answered, ActorInv, ActorTypeOK, StageShape
<1>18. ASSUME FailQueued, doomed # <<>>
      PROVE  StageShape'
  BY <1>18 DEF FailQueued, Answered, ActorInv, ActorTypeOK, StageShape
<1>19. ASSUME FailQueued, doomed = <<>>
      PROVE  StageShape'
  BY <1>19 DEF FailQueued, ActorInv, ActorTypeOK, StageShape
<1>20. ASSUME Complete
      PROVE  StageShape'
  BY <1>20 DEF Complete, ActorInv, ActorTypeOK, StageShape
<1>21. ASSUME UNCHANGED actorVars
      PROVE  StageShape'
  BY <1>21 DEF actorVars, ActorInv, ActorTypeOK, StageShape
<1>q. QED
  BY <1>1, <1>2, <1>3, <1>4, <1>5, <1>6, <1>7, <1>8, <1>9, <1>10, <1>11, <1>12, <1>13,
     <1>14, <1>15, <1>16, <1>17, <1>18, <1>19, <1>20, <1>21, ActorCases

\* A caller that leaves the queue of waiters leaves the others in place.
LEMMA WaitersStep ==
    ASSUME ActorInv, [ActorNext]_actorVars
    PROVE  WaitersShape'
<1>1. ASSUME NEW c \in Callers, Ask(c)
      PROVE  WaitersShape'
  BY <1>1 DEF Ask, ActorInv, ActorTypeOK, WaitersShape, threadVars
<1>2. ASSUME Acquire
      PROVE  WaitersShape'
  BY <1>2 DEF Acquire, ActorInv, ActorTypeOK, WaitersShape, threadVars
<1>3. ASSUME Refuse
      PROVE  WaitersShape'
  BY <1>3 DEF Refuse, FailureFor, ActorInv, ActorTypeOK, WaitersShape, threadVars
<1>4. ASSUME NEW c \in Callers, Admit(c), lifecycle = "Running"
      PROVE  WaitersShape'
  BY <1>4 DEF Admit, ActorInv, ActorTypeOK, WaitersShape, threadVars
<1>5. ASSUME NEW c \in Callers, Admit(c), lifecycle # "Running"
      PROVE  WaitersShape'
  BY <1>5 DEF Admit, FailureFor, ActorInv, ActorTypeOK, WaitersShape, threadVars
<1>6. ASSUME NEW c \in Callers, Abandon(c), call[c] = "waiting"
      PROVE  WaitersShape'
  <2>1. PICK i \in DOMAIN waiters :
           /\ waiters[i] = c
           /\ waiters' = SubSeq(waiters, 1, i - 1) \o SubSeq(waiters, i + 1, Len(waiters))
    BY <1>6 DEF Abandon, LeaveQueue
  <2>2. waiters \in Seq(Callers) /\ i \in 1..Len(waiters) /\ Len(waiters) \in Nat
    BY LenProperties DEF ActorInv, ActorTypeOK
  <2>3. /\ waiters' \in Seq(Callers) /\ Len(waiters') = Len(waiters) - 1
        /\ \A k \in 1..Len(waiters') :
              waiters'[k] = IF k < i THEN waiters[k] ELSE waiters[k + 1]
    BY <2>1, <2>2, WithoutElement, SMTT(40)
  <2>4. \A k \in 1..Len(waiters) : k # i => waiters[k] # c /\ waiters[k] \in Callers
    BY <2>1, <2>2, ElementOfSeq DEF ActorInv, WaitersShape
  <2>5. \A k \in 1..Len(waiters) : k # i => call'[waiters[k]] = "waiting"
    BY <1>6, <2>4 DEF Abandon, ActorInv, ActorTypeOK, WaitersShape
  <2>6. \A k \in 1..Len(waiters') : call'[waiters'[k]] = "waiting"
    BY <2>2, <2>3, <2>5
  <2>7. \A k, l \in 1..Len(waiters') : waiters'[k] = waiters'[l] => k = l
    <3>1. \A k, l \in 1..Len(waiters) : waiters[k] = waiters[l] => k = l
      BY DEF ActorInv, WaitersShape
    <3>q. QED
      BY <2>2, <2>3, <3>1
  <2>q. QED
    BY <2>6, <2>7 DEF WaitersShape
<1>7. ASSUME NEW c \in Callers, Abandon(c), call[c] = "accepted"
      PROVE  WaitersShape'
  BY <1>7 DEF Abandon, ActorInv, ActorTypeOK, WaitersShape, threadVars
<1>8. ASSUME BeginShutdown
      PROVE  WaitersShape'
  BY <1>8 DEF BeginShutdown, ActorInv, ActorTypeOK, WaitersShape, threadVars
<1>9. ASSUME Open
      PROVE  WaitersShape'
  BY <1>9 DEF Open, ActorInv, ActorTypeOK, WaitersShape
<1>10. ASSUME Loop, queue # <<>>
      PROVE  WaitersShape'
  BY <1>10 DEF Loop, ActorInv, ActorTypeOK, WaitersShape
<1>11. ASSUME Loop, queue = <<>>
      PROVE  WaitersShape'
  BY <1>11 DEF Loop, ActorInv, ActorTypeOK, WaitersShape
<1>12. ASSUME Unpark
      PROVE  WaitersShape'
  BY <1>12 DEF Unpark, ActorInv, ActorTypeOK, WaitersShape
<1>13. ASSUME Execute
      PROVE  WaitersShape'
  BY <1>13 DEF Execute, ActorInv, ActorTypeOK, WaitersShape
<1>14. ASSUME Respond
      PROVE  WaitersShape'
  BY <1>14 DEF Respond, Answered, ActorInv, ActorTypeOK, WaitersShape
<1>15. ASSUME Release
      PROVE  WaitersShape'
  BY <1>15 DEF Release, ActorInv, ActorTypeOK, WaitersShape
<1>16. ASSUME Panic
      PROVE  WaitersShape'
  BY <1>16 DEF Panic, ActorInv, ActorTypeOK, WaitersShape
<1>17. ASSUME FailCurrent
      PROVE  WaitersShape'
  BY <1>17 DEF FailCurrent, Answered, ActorInv, ActorTypeOK, WaitersShape
<1>18. ASSUME FailQueued, doomed # <<>>
      PROVE  WaitersShape'
  BY <1>18 DEF FailQueued, Answered, ActorInv, ActorTypeOK, WaitersShape
<1>19. ASSUME FailQueued, doomed = <<>>
      PROVE  WaitersShape'
  BY <1>19 DEF FailQueued, ActorInv, ActorTypeOK, WaitersShape
<1>20. ASSUME Complete
      PROVE  WaitersShape'
  BY <1>20 DEF Complete, ActorInv, ActorTypeOK, WaitersShape
<1>21. ASSUME UNCHANGED actorVars
      PROVE  WaitersShape'
  BY <1>21 DEF actorVars, ActorInv, ActorTypeOK, WaitersShape
<1>q. QED
  BY <1>1, <1>2, <1>3, <1>4, <1>5, <1>6, <1>7, <1>8, <1>9, <1>10, <1>11, <1>12, <1>13,
     <1>14, <1>15, <1>16, <1>17, <1>18, <1>19, <1>20, <1>21, ActorCases

\* Acceptance happens once per call.
LEMMA AdmittedStep ==
    ASSUME ActorInv, [ActorNext]_actorVars
    PROVE  AdmittedShape'
<1>1. ASSUME NEW c \in Callers, Ask(c)
      PROVE  AdmittedShape'
  BY <1>1 DEF Ask, ActorInv, ActorTypeOK, AdmittedShape, threadVars
<1>2. ASSUME Acquire
      PROVE  AdmittedShape'
  <2>1. \A i \in 1..Len(admitted) : admitted[i] \in Callers /\ admitted[i] # Head(waiters)
    BY <1>2, FirstWaiter, NotYetAdmitted DEF Acquire
  <2>q. QED
    BY <1>2, <2>1 DEF Acquire, ActorInv, ActorTypeOK, AdmittedShape
<1>3. ASSUME Refuse
      PROVE  AdmittedShape'
  <2>1. \A i \in 1..Len(admitted) : admitted[i] \in Callers /\ admitted[i] # Head(waiters)
    BY <1>3, FirstWaiter, NotYetAdmitted DEF Refuse
  <2>q. QED
    BY <1>3, <2>1 DEF Refuse, ActorInv, ActorTypeOK, AdmittedShape
<1>4. ASSUME NEW c \in Callers, Admit(c), lifecycle = "Running"
      PROVE  AdmittedShape'
  <2>1. \A i \in 1..Len(admitted) : admitted[i] \in Callers /\ admitted[i] # c
    BY <1>4, NotYetAdmitted DEF Admit
  <2>2. /\ Len(admitted) \in Nat /\ Len(admitted') = Len(admitted) + 1
        /\ \A i \in 1..Len(admitted) : admitted'[i] = admitted[i]
        /\ admitted'[Len(admitted) + 1] = c
    BY <1>4, AdmitEffect
  <2>3. call'[c] = "accepted" /\ \A i \in 1..Len(admitted) : call'[admitted[i]] = call[admitted[i]]
    BY <1>4, <2>1 DEF Admit, ActorInv, ActorTypeOK
  <2>4. \A i, k \in 1..Len(admitted') : admitted'[i] = admitted'[k] => i = k
    BY <2>1, <2>2 DEF ActorInv, AdmittedShape
  <2>5. \A i \in 1..Len(admitted') :
           call'[admitted'[i]] \in {"accepted", "abandoned", "result", "panicked"}
    <3>1. SUFFICES ASSUME NEW i \in 1..Len(admitted')
                   PROVE  call'[admitted'[i]] \in {"accepted", "abandoned", "result", "panicked"}
      OBVIOUS
    <3>2. CASE i = Len(admitted) + 1
      BY <2>2, <2>3, <3>2
    <3>3. CASE i # Len(admitted) + 1
      <4>1. i \in 1..Len(admitted)
        BY <2>2, <3>3
      <4>q. QED
        BY <2>2, <2>3, <4>1 DEF ActorInv, AdmittedShape
    <3>q. QED
      BY <3>2, <3>3
  <2>q. QED
    BY <2>4, <2>5 DEF AdmittedShape
<1>5. ASSUME NEW c \in Callers, Admit(c), lifecycle # "Running"
      PROVE  AdmittedShape'
  BY <1>5 DEF Admit, FailureFor, ActorInv, ActorTypeOK, AdmittedShape, threadVars
<1>6. ASSUME NEW c \in Callers, Abandon(c), call[c] = "waiting"
      PROVE  AdmittedShape'
  BY <1>6 DEF Abandon, LeaveQueue, ActorInv, ActorTypeOK, AdmittedShape, threadVars
<1>7. ASSUME NEW c \in Callers, Abandon(c), call[c] = "accepted"
      PROVE  AdmittedShape'
  BY <1>7 DEF Abandon, ActorInv, ActorTypeOK, AdmittedShape, threadVars
<1>8. ASSUME BeginShutdown
      PROVE  AdmittedShape'
  BY <1>8 DEF BeginShutdown, ActorInv, ActorTypeOK, AdmittedShape, threadVars
<1>9. ASSUME Open
      PROVE  AdmittedShape'
  BY <1>9 DEF Open, ActorInv, ActorTypeOK, AdmittedShape
<1>10. ASSUME Loop, queue # <<>>
      PROVE  AdmittedShape'
  BY <1>10 DEF Loop, ActorInv, ActorTypeOK, AdmittedShape
<1>11. ASSUME Loop, queue = <<>>
      PROVE  AdmittedShape'
  BY <1>11 DEF Loop, ActorInv, ActorTypeOK, AdmittedShape
<1>12. ASSUME Unpark
      PROVE  AdmittedShape'
  BY <1>12 DEF Unpark, ActorInv, ActorTypeOK, AdmittedShape
<1>13. ASSUME Execute
      PROVE  AdmittedShape'
  BY <1>13 DEF Execute, ActorInv, ActorTypeOK, AdmittedShape
<1>14. ASSUME Respond
      PROVE  AdmittedShape'
  BY <1>14 DEF Respond, Answered, ActorInv, ActorTypeOK, AdmittedShape
<1>15. ASSUME Release
      PROVE  AdmittedShape'
  BY <1>15 DEF Release, ActorInv, ActorTypeOK, AdmittedShape
<1>16. ASSUME Panic
      PROVE  AdmittedShape'
  BY <1>16 DEF Panic, ActorInv, ActorTypeOK, AdmittedShape
<1>17. ASSUME FailCurrent
      PROVE  AdmittedShape'
  BY <1>17 DEF FailCurrent, Answered, ActorInv, ActorTypeOK, AdmittedShape
<1>18. ASSUME FailQueued, doomed # <<>>
      PROVE  AdmittedShape'
  BY <1>18 DEF FailQueued, Answered, ActorInv, ActorTypeOK, AdmittedShape
<1>19. ASSUME FailQueued, doomed = <<>>
      PROVE  AdmittedShape'
  BY <1>19 DEF FailQueued, ActorInv, ActorTypeOK, AdmittedShape
<1>20. ASSUME Complete
      PROVE  AdmittedShape'
  BY <1>20 DEF Complete, ActorInv, ActorTypeOK, AdmittedShape
<1>21. ASSUME UNCHANGED actorVars
      PROVE  AdmittedShape'
  BY <1>21 DEF actorVars, ActorInv, ActorTypeOK, AdmittedShape
<1>q. QED
  BY <1>1, <1>2, <1>3, <1>4, <1>5, <1>6, <1>7, <1>8, <1>9, <1>10, <1>11, <1>12, <1>13,
     <1>14, <1>15, <1>16, <1>17, <1>18, <1>19, <1>20, <1>21, ActorCases

\* The backlog is a suffix of what was accepted.
LEMMA BacklogStep ==
    ASSUME ActorInv, [ActorNext]_actorVars
    PROVE  BacklogShape'
<1> USE DEF Backlog, Taken
<1> Len(queue) \in Nat /\ Len(doomed) \in Nat /\ Len(admitted) \in Nat
  BY LenProperties DEF ActorInv, ActorTypeOK
<1>1. ASSUME NEW c \in Callers, Ask(c)
      PROVE  BacklogShape'
  <2>1. \A i \in Taken + 1..Len(admitted) : i \in 1..Len(admitted)
    BY DEF ActorInv, BacklogShape
  <2>2. \A i \in 1..Len(admitted) : admitted[i] \in Callers /\ admitted[i] # c
    BY <1>1, NotYetAdmitted DEF Ask
  <2>3. \A i \in Taken + 1..Len(admitted) : call'[admitted[i]] = call[admitted[i]]
    BY <1>1, <2>1, <2>2 DEF Ask, ActorInv, ActorTypeOK
  <2>q. QED
    BY <1>1, <2>3 DEF Ask, threadVars, ActorInv, BacklogShape
<1>2. ASSUME Acquire
      PROVE  BacklogShape'
  <2>1. \A i \in Taken + 1..Len(admitted) : i \in 1..Len(admitted)
    BY DEF ActorInv, BacklogShape
  <2>2. \A i \in 1..Len(admitted) : admitted[i] \in Callers /\ admitted[i] # Head(waiters)
    BY <1>2, FirstWaiter, NotYetAdmitted DEF Acquire
  <2>3. \A i \in Taken + 1..Len(admitted) : call'[admitted[i]] = call[admitted[i]]
    BY <1>2, <2>1, <2>2 DEF Acquire, ActorInv, ActorTypeOK
  <2>q. QED
    BY <1>2, <2>3 DEF Acquire, threadVars, ActorInv, BacklogShape
<1>3. ASSUME Refuse
      PROVE  BacklogShape'
  <2>1. \A i \in Taken + 1..Len(admitted) : i \in 1..Len(admitted)
    BY DEF ActorInv, BacklogShape
  <2>2. \A i \in 1..Len(admitted) : admitted[i] \in Callers /\ admitted[i] # Head(waiters)
    BY <1>3, FirstWaiter, NotYetAdmitted DEF Refuse
  <2>3. \A i \in Taken + 1..Len(admitted) : call'[admitted[i]] = call[admitted[i]]
    BY <1>3, <2>1, <2>2 DEF Refuse, ActorInv, ActorTypeOK
  <2>q. QED
    BY <1>3, <2>3 DEF Refuse, threadVars, ActorInv, BacklogShape
<1>4. ASSUME NEW c \in Callers, Admit(c), lifecycle = "Running"
      PROVE  BacklogShape'
  <2>1. doomed = <<>> /\ Len(doomed) = 0 /\ doomed' = doomed
    BY <1>4, AdmitEffect
  <2>2. /\ Len(admitted') = Len(admitted) + 1 /\ admitted'[Len(admitted) + 1] = c
        /\ \A i \in 1..Len(admitted) : admitted'[i] = admitted[i]
    BY <1>4, AdmitEffect
  <2>3. /\ Len(queue') = Len(queue) + 1 /\ queue'[Len(queue) + 1] = c
        /\ \A i \in 1..Len(queue) : queue'[i] = queue[i]
    BY <1>4, AdmitEffect
  <2>4. Taken' = Taken /\ Backlog' = Backlog + 1 /\ doomed' = doomed
    BY <1>4, AdmitEffect
  <2>5. \A i \in 1..Len(queue') : queue'[i] = admitted'[Taken' + i]
    BY <2>1, <2>2, <2>3, <2>4 DEF ActorInv, BacklogShape
  <2>6. \A i \in Taken + 1..Len(admitted) :
           i \in 1..Len(admitted) /\ admitted[i] \in Callers /\ admitted[i] # c
    BY <1>4, NotYetAdmitted DEF Admit, ActorInv, BacklogShape
  <2>7. \A i \in Taken' + 1..Len(admitted') :
           call'[admitted'[i]] \in {"accepted", "abandoned"}
    <3>1. SUFFICES ASSUME NEW i \in Taken + 1..Len(admitted) + 1
                   PROVE  call'[admitted'[i]] \in {"accepted", "abandoned"}
      BY <2>2, <2>4
    <3>2. CASE i = Len(admitted) + 1
      BY <1>4, <2>2, <3>2 DEF Admit, ActorInv, ActorTypeOK
    <3>3. CASE i # Len(admitted) + 1
      <4>1. i \in Taken + 1..Len(admitted)
        BY <3>3
      <4>2. call'[admitted[i]] = call[admitted[i]]
        BY <1>4, <2>6, <4>1 DEF Admit, ActorInv, ActorTypeOK
      <4>3. call[admitted[i]] \in {"accepted", "abandoned"}
        BY <4>1 DEF ActorInv, BacklogShape
      <4>q. QED
        BY <2>2, <2>6, <4>1, <4>2, <4>3
    <3>q. QED
      BY <3>2, <3>3
  <2>q. QED
    BY <2>1, <2>2, <2>4, <2>5, <2>7 DEF ActorInv, BacklogShape
<1>5. ASSUME NEW c \in Callers, Admit(c), lifecycle # "Running"
      PROVE  BacklogShape'
  <2>1. \A i \in Taken + 1..Len(admitted) : i \in 1..Len(admitted)
    BY DEF ActorInv, BacklogShape
  <2>2. \A i \in 1..Len(admitted) : admitted[i] \in Callers /\ admitted[i] # c
    BY <1>5, NotYetAdmitted DEF Admit
  <2>3. \A i \in Taken + 1..Len(admitted) : call'[admitted[i]] = call[admitted[i]]
    BY <1>5, <2>1, <2>2 DEF Admit, ActorInv, ActorTypeOK
  <2>q. QED
    BY <1>5, <2>3 DEF Admit, threadVars, ActorInv, BacklogShape
<1>6. ASSUME NEW c \in Callers, Abandon(c), call[c] = "waiting"
      PROVE  BacklogShape'
  <2>1. \A i \in Taken + 1..Len(admitted) : i \in 1..Len(admitted)
    BY DEF ActorInv, BacklogShape
  <2>2. \A i \in 1..Len(admitted) : admitted[i] \in Callers /\ admitted[i] # c
    BY <1>6, NotYetAdmitted DEF Abandon
  <2>3. \A i \in Taken + 1..Len(admitted) : call'[admitted[i]] = call[admitted[i]]
    BY <1>6, <2>1, <2>2 DEF Abandon, ActorInv, ActorTypeOK
  <2>q. QED
    BY <1>6, <2>3 DEF Abandon, threadVars, ActorInv, BacklogShape
<1>7. ASSUME NEW c \in Callers, Abandon(c), call[c] = "accepted"
      PROVE  BacklogShape'
  BY <1>7 DEF Abandon, ActorInv, ActorTypeOK, StageShape, BacklogShape, threadVars
<1>8. ASSUME BeginShutdown
      PROVE  BacklogShape'
  BY <1>8 DEF BeginShutdown, ActorInv, ActorTypeOK, StageShape, BacklogShape, threadVars
<1>9. ASSUME Open
      PROVE  BacklogShape'
  BY <1>9 DEF Open, ActorInv, ActorTypeOK, StageShape, BacklogShape
<1>10. ASSUME Loop, queue # <<>>
      PROVE  BacklogShape'
  <2>1. /\ Len(queue) # 0 /\ Len(Tail(queue)) = Len(queue) - 1
        /\ \A k \in 1..Len(queue) - 1 : Tail(queue)[k] = queue[k + 1]
    BY <1>10, TakeEffect
  <2>2. doomed = <<>> /\ Len(doomed) = 0
    BY <1>10, TakeEffect
  <2>3. /\ queue' = Tail(queue) /\ Taken' = Taken + 1 /\ Backlog' = Backlog - 1
        /\ UNCHANGED <<doomed, admitted, call>>
    BY <1>10, TakeEffect
  <2>4. \A i \in 1..Len(queue') : queue'[i] = admitted'[Taken' + i]
    BY <2>1, <2>2, <2>3 DEF ActorInv, BacklogShape
  <2>q. QED
    BY <2>1, <2>2, <2>3, <2>4 DEF ActorInv, BacklogShape
<1>11. ASSUME Loop, queue = <<>>
      PROVE  BacklogShape'
  BY <1>11 DEF Loop, ActorInv, ActorTypeOK, StageShape, BacklogShape
<1>12. ASSUME Unpark
      PROVE  BacklogShape'
  BY <1>12 DEF Unpark, ActorInv, ActorTypeOK, StageShape, BacklogShape
<1>13. ASSUME Execute
      PROVE  BacklogShape'
  BY <1>13 DEF Execute, ActorInv, ActorTypeOK, StageShape, BacklogShape
<1>14. ASSUME Respond
      PROVE  BacklogShape'
  <2>1. /\ current \in Callers
        /\ \A i \in Taken + 1..Len(admitted) : admitted[i] # current
    BY <1>14, JobAtHand DEF Respond, Holding
  <2>2. \A i \in Taken + 1..Len(admitted) : call'[admitted[i]] = call[admitted[i]]
    <3>1. \A i \in Taken + 1..Len(admitted) : admitted[i] \in Callers
      BY ElementOfSeq DEF ActorInv, ActorTypeOK, BacklogShape
    <3>q. QED
      BY <1>14, <2>1, <3>1 DEF Respond, Answered, ActorInv, ActorTypeOK
  <2>q. QED
    BY <1>14, <2>2 DEF Respond, ActorInv, BacklogShape
<1>15. ASSUME Release
      PROVE  BacklogShape'
  BY <1>15 DEF Release, ActorInv, ActorTypeOK, StageShape, BacklogShape
<1>16. ASSUME Panic
      PROVE  BacklogShape'
  <2>1. doomed = <<>> /\ Len(doomed) = 0
    BY <1>16, EmptySeq DEF Panic, ActorInv, StageShape
  <2>2. /\ queue' = <<>> /\ Len(queue') = 0 /\ doomed' = queue
        /\ Taken' = Taken /\ UNCHANGED <<admitted, call>>
    BY <1>16, <2>1, EmptySeq DEF Panic
  <2>q. QED
    BY <2>1, <2>2 DEF ActorInv, BacklogShape
<1>17. ASSUME FailCurrent
      PROVE  BacklogShape'
  <2>1. /\ current \in Callers
        /\ \A i \in Taken + 1..Len(admitted) : admitted[i] # current
    BY <1>17, JobAtHand DEF FailCurrent, Holding
  <2>2. \A i \in Taken + 1..Len(admitted) : call'[admitted[i]] = call[admitted[i]]
    <3>1. \A i \in Taken + 1..Len(admitted) : admitted[i] \in Callers
      BY ElementOfSeq DEF ActorInv, ActorTypeOK, BacklogShape
    <3>q. QED
      BY <1>17, <2>1, <3>1 DEF FailCurrent, Answered, ActorInv, ActorTypeOK
  <2>q. QED
    BY <1>17, <2>2 DEF FailCurrent, ActorInv, BacklogShape
<1>18. ASSUME FailQueued, doomed # <<>>
      PROVE  BacklogShape'
  <2>1. /\ doomed' = Tail(doomed) /\ call' = Answered(Head(doomed), "panicked")
        /\ UNCHANGED <<queue, admitted>>
    BY <1>18 DEF FailQueued
  <2>2. /\ Len(doomed) \in Nat \ {0} /\ Head(doomed) \in Callers
        /\ Len(Tail(doomed)) = Len(doomed) - 1
        /\ \A k \in 1..Len(doomed) - 1 : Tail(doomed)[k] = doomed[k + 1]
        /\ Len(queue) = 0
        /\ \A i \in Taken + 2..Len(admitted) : admitted[i] # Head(doomed)
    BY <1>18, FirstDoomed
  <2>3. Taken' = Taken + 1 /\ Backlog' = Backlog - 1
    BY <2>1, <2>2
  <2>4. \A i \in 1..Len(doomed') : doomed'[i] = admitted'[Taken' + i]
    BY <2>1, <2>2, <2>3 DEF ActorInv, BacklogShape
  <2>5. \A i \in Taken + 2..Len(admitted) : call'[admitted[i]] = call[admitted[i]]
    <3>1. \A i \in Taken + 2..Len(admitted) : admitted[i] \in Callers
      BY ElementOfSeq DEF ActorInv, ActorTypeOK, BacklogShape
    <3>q. QED
      BY <2>1, <2>2, <3>1 DEF Answered, ActorInv, ActorTypeOK
  <2>6. \A i \in Taken' + 1..Len(admitted') : call'[admitted'[i]] \in {"accepted", "abandoned"}
    <3>1. \A i \in Taken + 2..Len(admitted) : call[admitted[i]] \in {"accepted", "abandoned"}
      BY DEF ActorInv, BacklogShape
    <3>2. Taken' + 1 = Taken + 2
      BY <2>2, <2>3
    <3>q. QED
      BY <2>1, <2>5, <3>1, <3>2
  <2>q. QED
    BY <2>1, <2>2, <2>3, <2>4, <2>6 DEF ActorInv, BacklogShape
<1>19. ASSUME FailQueued, doomed = <<>>
      PROVE  BacklogShape'
  BY <1>19 DEF FailQueued, ActorInv, ActorTypeOK, StageShape, BacklogShape
<1>20. ASSUME Complete
      PROVE  BacklogShape'
  BY <1>20 DEF Complete, ActorInv, ActorTypeOK, StageShape, BacklogShape
<1>21. ASSUME UNCHANGED actorVars
      PROVE  BacklogShape'
  BY <1>21 DEF actorVars, ActorInv, ActorTypeOK, StageShape, BacklogShape
<1>q. QED
  BY <1>1, <1>2, <1>3, <1>4, <1>5, <1>6, <1>7, <1>8, <1>9, <1>10, <1>11, <1>12, <1>13,
     <1>14, <1>15, <1>16, <1>17, <1>18, <1>19, <1>20, <1>21, ActorCases

\* Operations run in the order of acceptance.
LEMMA LogStep ==
    ASSUME ActorInv, [ActorNext]_actorVars
    PROVE  LogShape'
<1> USE DEF Backlog, Taken, Holding, Owing
<1> Len(queue) \in Nat /\ Len(doomed) \in Nat /\ Len(admitted) \in Nat /\ Len(log) \in Nat
  BY LenProperties DEF ActorInv, ActorTypeOK
<1>1. ASSUME NEW c \in Callers, Ask(c)
      PROVE  LogShape'
  BY <1>1 DEF Ask, ActorInv, ActorTypeOK, StageShape, LogShape, threadVars
<1>2. ASSUME Acquire
      PROVE  LogShape'
  <2>1. thread \in Owing => current # Head(waiters) /\ current \in Callers
    BY <1>2, FirstWaiter, NotYetAdmitted, JobAtHand DEF Acquire
  <2>2. Head(waiters) \in Callers
    BY <1>2, FirstWaiter DEF Acquire
  <2>q. QED
    BY <1>2, <2>1, <2>2 DEF Acquire, ActorInv, ActorTypeOK, LogShape, threadVars
<1>3. ASSUME Refuse
      PROVE  LogShape'
  <2>1. thread \in Owing => current # Head(waiters) /\ current \in Callers
    BY <1>3, FirstWaiter, NotYetAdmitted, JobAtHand DEF Refuse
  <2>2. Head(waiters) \in Callers
    BY <1>3, FirstWaiter DEF Refuse
  <2>q. QED
    BY <1>3, <2>1, <2>2 DEF Refuse, ActorInv, ActorTypeOK, LogShape, threadVars
<1>4. ASSUME NEW c \in Callers, Admit(c), lifecycle = "Running"
      PROVE  LogShape'
  <2>1. /\ Taken' = Taken /\ Len(admitted') = Len(admitted) + 1
        /\ \A i \in 1..Len(admitted) : admitted'[i] = admitted[i]
        /\ UNCHANGED <<log, thread, current, lifecycle>>
        /\ call' = [call EXCEPT ![c] = "accepted"]
    BY <1>4, AdmitEffect
  <2>2. thread \in Holding => current \in Callers /\ Taken \in 1..Len(admitted)
    BY <1>4, JobAtHand
  <2>3. Taken \in Int /\ Taken <= Len(admitted)
    OBVIOUS
  <2> HIDE DEF Taken
  <2>4. Len(log) <= Taken /\ \A i \in 1..Len(log) : i \in 1..Len(admitted) /\ log[i] = admitted[i]
    BY <2>3 DEF ActorInv, LogShape
  <2>5. \A i \in 1..Len(log') : log'[i] = admitted'[i]
    BY <2>1, <2>4
  <2>6. thread \in Holding => Taken > 0 /\ current = admitted'[Taken]
    BY <2>1, <2>2 DEF ActorInv, LogShape
  <2>7. thread \in Owing => call'[current] \in {"accepted", "abandoned"}
    BY <2>1, <2>2 DEF ActorInv, ActorTypeOK, LogShape
  <2>q. QED
    BY <1>4, <2>1, <2>4, <2>5, <2>6, <2>7 DEF ActorInv, LogShape
<1>5. ASSUME NEW c \in Callers, Admit(c), lifecycle # "Running"
      PROVE  LogShape'
  BY <1>5 DEF Admit, FailureFor, ActorInv, ActorTypeOK, StageShape, LogShape, threadVars
<1>6. ASSUME NEW c \in Callers, Abandon(c), call[c] = "waiting"
      PROVE  LogShape'
  BY <1>6 DEF Abandon, LeaveQueue, ActorInv, ActorTypeOK, StageShape, LogShape, threadVars
<1>7. ASSUME NEW c \in Callers, Abandon(c), call[c] = "accepted"
      PROVE  LogShape'
  BY <1>7 DEF Abandon, ActorInv, ActorTypeOK, StageShape, LogShape, threadVars
<1>8. ASSUME BeginShutdown
      PROVE  LogShape'
  BY <1>8 DEF BeginShutdown, ActorInv, ActorTypeOK, StageShape, LogShape, threadVars
<1>9. ASSUME Open
      PROVE  LogShape'
  BY <1>9 DEF Open, ActorInv, ActorTypeOK, StageShape, LogShape
<1>10. ASSUME Loop, queue # <<>>
      PROVE  LogShape'
  <2>1. /\ Taken' = Taken + 1 /\ Head(queue) = admitted[Taken + 1]
        /\ Taken + 1 \in 1..Len(admitted)
        /\ thread = "loop" /\ thread' = "execute" /\ current' = Head(queue)
        /\ UNCHANGED <<lifecycle, admitted, call, log>>
    BY <1>10, TakeEffect
  <2>2. Taken \in Int /\ Taken >= 0
    BY DEF ActorInv, BacklogShape
  <2> HIDE DEF Taken
  <2>3. call[Head(queue)] \in {"accepted", "abandoned"}
    BY <2>1, <2>2 DEF ActorInv, BacklogShape
  <2>4. lifecycle # "Closed"
    BY <2>1 DEF ActorInv, StageShape
  <2>q. QED
    BY <2>1, <2>2, <2>3, <2>4 DEF ActorInv, LogShape
<1>11. ASSUME Loop, queue = <<>>
      PROVE  LogShape'
  BY <1>11 DEF Loop, ActorInv, ActorTypeOK, StageShape, LogShape
<1>12. ASSUME Unpark
      PROVE  LogShape'
  BY <1>12 DEF Unpark, ActorInv, ActorTypeOK, StageShape, LogShape
<1>13. ASSUME Execute
      PROVE  LogShape'
  <2>1. thread = "execute" /\ UNCHANGED <<lifecycle, admitted, call, queue, doomed, current>>
    BY <1>13 DEF Execute
  <2>2. Taken' = Taken /\ lifecycle # "Closed"
    BY <2>1 DEF ActorInv, StageShape
  <2>3. /\ Len(log) + 1 = Taken /\ Taken > 0 /\ current = admitted[Taken]
        /\ call[current] \in {"accepted", "abandoned"}
        /\ \A i \in 1..Len(log) : log[i] = admitted[i]
    BY <2>1 DEF ActorInv, LogShape
  <2>4. CASE log' = Append(log, current) /\ thread' \in {"respond", "panic"}
    <3>1. log \in Seq(Callers) /\ current \in Callers
      BY <2>1, JobAtHand DEF ActorInv, ActorTypeOK
    <3>2. /\ Len(log') = Len(log) + 1 /\ log'[Len(log) + 1] = current
          /\ \A i \in 1..Len(log) : log'[i] = log[i]
      BY <2>4, <3>1, OneMore
    <3>3. \A i \in 1..Len(log') : log'[i] = admitted[i]
      BY <2>3, <3>2
    <3>q. QED
      BY <2>1, <2>2, <2>3, <2>4, <3>2, <3>3 DEF LogShape
  <2>5. CASE UNCHANGED log /\ thread' = "panic"
    BY <2>1, <2>2, <2>3, <2>5 DEF LogShape
  <2>q. QED
    BY <1>13, <2>4, <2>5 DEF Execute
<1>14. ASSUME Respond
      PROVE  LogShape'
  BY <1>14 DEF Respond, Answered, ActorInv, ActorTypeOK, StageShape, LogShape
<1>15. ASSUME Release
      PROVE  LogShape'
  BY <1>15 DEF Release, ActorInv, ActorTypeOK, StageShape, LogShape
<1>16. ASSUME Panic
      PROVE  LogShape'
  BY <1>16 DEF Panic, ActorInv, ActorTypeOK, StageShape, LogShape
<1>17. ASSUME FailCurrent
      PROVE  LogShape'
  BY <1>17 DEF FailCurrent, Answered, ActorInv, ActorTypeOK, StageShape, LogShape
<1>18. ASSUME FailQueued, doomed # <<>>
      PROVE  LogShape'
  BY <1>18 DEF FailQueued, Answered, ActorInv, ActorTypeOK, StageShape, LogShape
<1>19. ASSUME FailQueued, doomed = <<>>
      PROVE  LogShape'
  BY <1>19 DEF FailQueued, ActorInv, ActorTypeOK, StageShape, LogShape
<1>20. ASSUME Complete
      PROVE  LogShape'
  BY <1>20 DEF Complete, ActorInv, ActorTypeOK, StageShape, LogShape
<1>21. ASSUME UNCHANGED actorVars
      PROVE  LogShape'
  BY <1>21 DEF actorVars, ActorInv, ActorTypeOK, StageShape, LogShape
<1>q. QED
  BY <1>1, <1>2, <1>3, <1>4, <1>5, <1>6, <1>7, <1>8, <1>9, <1>10, <1>11, <1>12, <1>13,
     <1>14, <1>15, <1>16, <1>17, <1>18, <1>19, <1>20, <1>21, ActorCases

\* Nobody who was accepted is lost on the way to an answer.
LEMMA AcceptedStep ==
    ASSUME ActorInv, [ActorNext]_actorVars
    PROVE  AcceptedShape'
<1> USE DEF Backlog, Taken, Holding, Owing
<1> Len(queue) \in Nat /\ Len(doomed) \in Nat /\ Len(admitted) \in Nat
  BY LenProperties DEF ActorInv, ActorTypeOK
<1>1. ASSUME NEW c \in Callers, Ask(c)
      PROVE  AcceptedShape'
  BY <1>1 DEF Ask, ActorInv, ActorTypeOK, StageShape, AcceptedShape, threadVars
<1>2. ASSUME Acquire
      PROVE  AcceptedShape'
  BY <1>2 DEF Acquire, ActorInv, ActorTypeOK, StageShape, AcceptedShape, threadVars
<1>3. ASSUME Refuse
      PROVE  AcceptedShape'
  BY <1>3 DEF Refuse, FailureFor, ActorInv, ActorTypeOK, StageShape, AcceptedShape,
     threadVars
<1>4. ASSUME NEW c \in Callers, Admit(c), lifecycle = "Running"
      PROVE  AcceptedShape'
  <2>1. /\ Taken' = Taken /\ Len(admitted') = Len(admitted) + 1
        /\ admitted'[Len(admitted) + 1] = c
        /\ \A i \in 1..Len(admitted) : admitted'[i] = admitted[i]
        /\ UNCHANGED <<thread, current>> /\ call' = [call EXCEPT ![c] = "accepted"]
    BY <1>4, AdmitEffect
  <2>2. 0 <= Taken /\ Taken <= Len(admitted)
    BY DEF ActorInv, BacklogShape
  <2>3. SUFFICES ASSUME NEW d \in Callers, call'[d] = "accepted", ~(thread \in Owing /\ d = current)
                 PROVE  \E i \in Taken + 1..Len(admitted) + 1 : admitted'[i] = d
    BY <2>1 DEF AcceptedShape
  <2>4. CASE d = c
    BY <2>1, <2>2, <2>4
  <2>5. CASE d # c
    <3>1. call[d] = "accepted"
      BY <2>1, <2>3, <2>5 DEF ActorInv, ActorTypeOK
    <3>2. PICK i \in Taken + 1..Len(admitted) : admitted[i] = d
      BY <2>3, <3>1 DEF ActorInv, AcceptedShape
    <3>3. i \in 1..Len(admitted) /\ i \in Taken + 1..Len(admitted) + 1
      BY <2>2
    <3>q. QED
      BY <2>1, <3>2, <3>3
  <2>q. QED
    BY <2>4, <2>5
<1>5. ASSUME NEW c \in Callers, Admit(c), lifecycle # "Running"
      PROVE  AcceptedShape'
  BY <1>5 DEF Admit, FailureFor, ActorInv, ActorTypeOK, StageShape, AcceptedShape,
     threadVars
<1>6. ASSUME NEW c \in Callers, Abandon(c), call[c] = "waiting"
      PROVE  AcceptedShape'
  BY <1>6 DEF Abandon, LeaveQueue, ActorInv, ActorTypeOK, StageShape, AcceptedShape,
     threadVars
<1>7. ASSUME NEW c \in Callers, Abandon(c), call[c] = "accepted"
      PROVE  AcceptedShape'
  BY <1>7 DEF Abandon, ActorInv, ActorTypeOK, StageShape, AcceptedShape, threadVars
<1>8. ASSUME BeginShutdown
      PROVE  AcceptedShape'
  BY <1>8 DEF BeginShutdown, ActorInv, ActorTypeOK, StageShape, AcceptedShape, threadVars
<1>9. ASSUME Open
      PROVE  AcceptedShape'
  BY <1>9 DEF Open, ActorInv, ActorTypeOK, StageShape, AcceptedShape
<1>10. ASSUME Loop, queue # <<>>
      PROVE  AcceptedShape'
  <2>1. /\ Taken' = Taken + 1 /\ Head(queue) = admitted[Taken + 1]
        /\ thread = "loop" /\ thread' = "execute" /\ current' = Head(queue)
        /\ UNCHANGED <<admitted, call>>
    BY <1>10, TakeEffect
  <2>2. SUFFICES ASSUME NEW d \in Callers, call[d] = "accepted", d # Head(queue)
                 PROVE  \E i \in Taken + 2..Len(admitted) : admitted[i] = d
    BY <2>1 DEF AcceptedShape
  <2>3. PICK i \in Taken + 1..Len(admitted) : admitted[i] = d
    BY <2>1, <2>2 DEF ActorInv, AcceptedShape
  <2>4. i # Taken + 1
    BY <2>1, <2>2, <2>3
  <2>q. QED
    BY <2>3, <2>4
<1>11. ASSUME Loop, queue = <<>>
      PROVE  AcceptedShape'
  BY <1>11 DEF Loop, ActorInv, ActorTypeOK, StageShape, AcceptedShape
<1>12. ASSUME Unpark
      PROVE  AcceptedShape'
  BY <1>12 DEF Unpark, ActorInv, ActorTypeOK, StageShape, AcceptedShape
<1>13. ASSUME Execute
      PROVE  AcceptedShape'
  BY <1>13 DEF Execute, ActorInv, ActorTypeOK, StageShape, AcceptedShape
<1>14. ASSUME Respond
      PROVE  AcceptedShape'
  BY <1>14 DEF Respond, Answered, ActorInv, ActorTypeOK, StageShape, AcceptedShape
<1>15. ASSUME Release
      PROVE  AcceptedShape'
  BY <1>15 DEF Release, ActorInv, ActorTypeOK, StageShape, AcceptedShape
<1>16. ASSUME Panic
      PROVE  AcceptedShape'
  BY <1>16 DEF Panic, ActorInv, ActorTypeOK, StageShape, AcceptedShape
<1>17. ASSUME FailCurrent
      PROVE  AcceptedShape'
  BY <1>17 DEF FailCurrent, Answered, ActorInv, ActorTypeOK, StageShape, AcceptedShape
<1>18. ASSUME FailQueued, doomed # <<>>
      PROVE  AcceptedShape'
  <2>1. /\ doomed' = Tail(doomed) /\ call' = Answered(Head(doomed), "panicked")
        /\ thread = "failQueued" /\ UNCHANGED <<queue, admitted, thread>>
    BY <1>18 DEF FailQueued
  <2>2. /\ Head(doomed) \in Callers /\ Len(Tail(doomed)) = Len(doomed) - 1
        /\ Len(doomed) \in Nat \ {0} /\ Len(queue) = 0 /\ Head(doomed) = admitted[Taken + 1]
    BY <1>18, FirstDoomed
  <2>3. Taken' = Taken + 1
    BY <2>1, <2>2
  <2>4. SUFFICES ASSUME NEW d \in Callers, call'[d] = "accepted"
                 PROVE  \E i \in Taken + 2..Len(admitted) : admitted[i] = d
    BY <2>1, <2>3 DEF AcceptedShape
  <2>5. d # Head(doomed) /\ call[d] = "accepted"
    BY <2>1, <2>2, <2>4 DEF Answered, ActorInv, ActorTypeOK
  <2>6. PICK i \in Taken + 1..Len(admitted) : admitted[i] = d
    BY <2>1, <2>5 DEF ActorInv, AcceptedShape
  <2>7. i # Taken + 1
    BY <2>2, <2>5, <2>6
  <2>q. QED
    BY <2>6, <2>7
<1>19. ASSUME FailQueued, doomed = <<>>
      PROVE  AcceptedShape'
  BY <1>19 DEF FailQueued, ActorInv, ActorTypeOK, StageShape, AcceptedShape
<1>20. ASSUME Complete
      PROVE  AcceptedShape'
  BY <1>20 DEF Complete, ActorInv, ActorTypeOK, StageShape, AcceptedShape
<1>21. ASSUME UNCHANGED actorVars
      PROVE  AcceptedShape'
  BY <1>21 DEF actorVars, ActorInv, ActorTypeOK, StageShape, AcceptedShape
<1>q. QED
  BY <1>1, <1>2, <1>3, <1>4, <1>5, <1>6, <1>7, <1>8, <1>9, <1>10, <1>11, <1>12, <1>13,
     <1>14, <1>15, <1>16, <1>17, <1>18, <1>19, <1>20, <1>21, ActorCases

\* A permit is given back exactly when its job or caller is done with it.
LEMMA PermitsStep ==
    ASSUME ActorInv, [ActorNext]_actorVars
    PROVE  IsFiniteSet(Permitted') /\ PermitsAccounted'
<1> USE DatabaseWorkerConstants
<1> /\ Len(queue) \in Nat /\ Len(doomed) \in Nat /\ permits \in Nat
    /\ IsFiniteSet(Permitted) /\ Cardinality(Permitted) \in Nat
    /\ permits + (Len(queue) + Len(doomed) + (IF current = NoCaller THEN 0 ELSE 1)
                    + Cardinality(Permitted)) = Capacity
  BY LenProperties, FS_CardinalityType
     DEF ActorInv, ActorTypeOK, PermitsAccounted, Outstanding, Permitted
<1>1. ASSUME NEW c \in Callers, Ask(c)
      PROVE  IsFiniteSet(Permitted') /\ PermitsAccounted'
  BY <1>1 DEF Ask, ActorInv, ActorTypeOK, Permitted, PermitsAccounted, Outstanding,
     threadVars
<1>2. ASSUME Acquire
      PROVE  IsFiniteSet(Permitted') /\ PermitsAccounted'
  <2>1. /\ Head(waiters) \in Callers /\ call[Head(waiters)] = "waiting"
        /\ call' = [call EXCEPT ![Head(waiters)] = "permitted"]
        /\ permits > 0 /\ permits' = permits - 1 /\ UNCHANGED <<queue, doomed, current>>
    BY <1>2, FirstWaiter DEF Acquire, threadVars
  <2>2. Permitted' = Permitted \cup {Head(waiters)} /\ Head(waiters) \notin Permitted
    BY <2>1 DEF Permitted, ActorInv, ActorTypeOK
  <2>3. IsFiniteSet(Permitted') /\ Cardinality(Permitted') = Cardinality(Permitted) + 1
    BY <2>2, FS_AddElement
  <2>q. QED
    BY <2>1, <2>3 DEF PermitsAccounted, Outstanding, Permitted
<1>3. ASSUME Refuse
      PROVE  IsFiniteSet(Permitted') /\ PermitsAccounted'
  <2>1. /\ Head(waiters) \in Callers /\ call[Head(waiters)] = "waiting"
        /\ call' = [call EXCEPT ![Head(waiters)] = FailureFor(lifecycle)]
        /\ FailureFor(lifecycle) # "permitted" /\ UNCHANGED <<permits, queue, doomed, current>>
    BY <1>3, FirstWaiter DEF Refuse, FailureFor, threadVars
  <2>2. Permitted' = Permitted
    BY <2>1 DEF Permitted, ActorInv, ActorTypeOK
  <2>q. QED
    BY <2>1, <2>2 DEF PermitsAccounted, Outstanding, Permitted
<1>4. ASSUME NEW c \in Callers, Admit(c), lifecycle = "Running"
      PROVE  IsFiniteSet(Permitted') /\ PermitsAccounted'
  <2>1. /\ call[c] = "permitted" /\ call' = [call EXCEPT ![c] = "accepted"]
        /\ Len(queue') = Len(queue) + 1 /\ UNCHANGED <<permits, doomed, current>>
    BY <1>4, AdmitEffect DEF Admit
  <2>2. Permitted' = Permitted \ {c} /\ c \in Permitted
    BY <2>1 DEF Permitted, ActorInv, ActorTypeOK
  <2>3. IsFiniteSet(Permitted') /\ Cardinality(Permitted') = Cardinality(Permitted) - 1
    BY <2>2, FS_RemoveElement
  <2>q. QED
    BY <2>1, <2>3 DEF PermitsAccounted, Outstanding, Permitted
<1>5. ASSUME NEW c \in Callers, Admit(c), lifecycle # "Running"
      PROVE  IsFiniteSet(Permitted') /\ PermitsAccounted'
  <2>1. /\ call[c] = "permitted" /\ call' = [call EXCEPT ![c] = FailureFor(lifecycle)]
        /\ FailureFor(lifecycle) # "permitted" /\ permits' = permits + 1
        /\ UNCHANGED <<queue, doomed, current>>
    BY <1>5 DEF Admit, FailureFor, threadVars
  <2>2. Permitted' = Permitted \ {c} /\ c \in Permitted
    BY <2>1 DEF Permitted, ActorInv, ActorTypeOK
  <2>3. IsFiniteSet(Permitted') /\ Cardinality(Permitted') = Cardinality(Permitted) - 1
    BY <2>2, FS_RemoveElement
  <2>q. QED
    BY <2>1, <2>3 DEF PermitsAccounted, Outstanding, Permitted
<1>6. ASSUME NEW c \in Callers, Abandon(c), call[c] = "waiting"
      PROVE  IsFiniteSet(Permitted') /\ PermitsAccounted'
  BY <1>6 DEF Abandon, LeaveQueue, ActorInv, ActorTypeOK, Permitted, PermitsAccounted,
     Outstanding, threadVars
<1>7. ASSUME NEW c \in Callers, Abandon(c), call[c] = "accepted"
      PROVE  IsFiniteSet(Permitted') /\ PermitsAccounted'
  BY <1>7 DEF Abandon, ActorInv, ActorTypeOK, Permitted, PermitsAccounted, Outstanding,
     threadVars
<1>8. ASSUME BeginShutdown
      PROVE  IsFiniteSet(Permitted') /\ PermitsAccounted'
  BY <1>8 DEF BeginShutdown, ActorInv, ActorTypeOK, Permitted, PermitsAccounted,
     Outstanding, threadVars
<1>9. ASSUME Open
      PROVE  IsFiniteSet(Permitted') /\ PermitsAccounted'
  BY <1>9 DEF Open, ActorInv, ActorTypeOK, Permitted, PermitsAccounted, Outstanding
<1>10. ASSUME Loop, queue # <<>>
      PROVE  IsFiniteSet(Permitted') /\ PermitsAccounted'
  <2>1. /\ Len(queue) \in Nat \ {0} /\ Len(queue') = Len(queue) - 1
        /\ current = NoCaller /\ current' # NoCaller /\ UNCHANGED <<permits, doomed, call>>
    BY <1>10, TakeEffect DEF ActorInv, StageShape, Holding
  <2>2. Permitted' = Permitted
    BY <2>1 DEF Permitted, ActorInv, ActorTypeOK
  <2>q. QED
    BY <2>1, <2>2 DEF PermitsAccounted, Outstanding, Permitted
<1>11. ASSUME Loop, queue = <<>>
      PROVE  IsFiniteSet(Permitted') /\ PermitsAccounted'
  BY <1>11 DEF Loop, ActorInv, ActorTypeOK, Permitted, PermitsAccounted, Outstanding
<1>12. ASSUME Unpark
      PROVE  IsFiniteSet(Permitted') /\ PermitsAccounted'
  BY <1>12 DEF Unpark, ActorInv, ActorTypeOK, Permitted, PermitsAccounted, Outstanding
<1>13. ASSUME Execute
      PROVE  IsFiniteSet(Permitted') /\ PermitsAccounted'
  BY <1>13 DEF Execute, ActorInv, ActorTypeOK, Permitted, PermitsAccounted, Outstanding
<1>14. ASSUME Respond
      PROVE  IsFiniteSet(Permitted') /\ PermitsAccounted'
  BY <1>14 DEF Respond, Answered, ActorInv, ActorTypeOK, Permitted, PermitsAccounted,
     Outstanding
<1>15. ASSUME Release
      PROVE  IsFiniteSet(Permitted') /\ PermitsAccounted'
  <2>1. /\ current # NoCaller /\ current' = NoCaller /\ permits' = permits + 1
        /\ UNCHANGED <<queue, doomed, call>>
    BY <1>15 DEF Release, ActorInv, StageShape, Holding
  <2>2. Permitted' = Permitted
    BY <2>1 DEF Permitted, ActorInv, ActorTypeOK
  <2>q. QED
    BY <2>1, <2>2 DEF PermitsAccounted, Outstanding, Permitted
<1>16. ASSUME Panic
      PROVE  IsFiniteSet(Permitted') /\ PermitsAccounted'
  <2>1. /\ Len(doomed) = 0 /\ Len(queue') = 0 /\ doomed' = queue
        /\ UNCHANGED <<permits, call, current>>
    BY <1>16, EmptySeq DEF Panic, ActorInv, StageShape
  <2>2. Permitted' = Permitted
    BY <2>1 DEF Permitted, ActorInv, ActorTypeOK
  <2>q. QED
    BY <2>1, <2>2 DEF PermitsAccounted, Outstanding, Permitted
<1>17. ASSUME FailCurrent
      PROVE  IsFiniteSet(Permitted') /\ PermitsAccounted'
  <2>1. /\ current # NoCaller /\ current' = NoCaller /\ permits' = permits + 1
        /\ UNCHANGED <<queue, doomed>>
    BY <1>17 DEF FailCurrent, ActorInv, StageShape, Holding
  <2>0. current \in Callers /\ call' = Answered(current, "panicked")
    BY <1>17, JobAtHand DEF FailCurrent, Holding
  <2>2. Permitted' = Permitted
    BY <2>0 DEF Permitted, Answered, ActorInv, ActorTypeOK
  <2>3. IsFiniteSet(Permitted') /\ Cardinality(Permitted') = Cardinality(Permitted)
    BY <2>2
  <2>q. QED
    BY <2>1, <2>3 DEF PermitsAccounted, Outstanding, Permitted
<1>18. ASSUME FailQueued, doomed # <<>>
      PROVE  IsFiniteSet(Permitted') /\ PermitsAccounted'
  <2>1. /\ permits' = permits + 1 /\ UNCHANGED <<queue, current>>
        /\ Len(doomed) \in Nat \ {0} /\ Len(doomed') = Len(doomed) - 1
    BY <1>18, FirstDoomed DEF FailQueued
  <2>0. Head(doomed) \in Callers /\ call' = Answered(Head(doomed), "panicked")
    BY <1>18, FirstDoomed DEF FailQueued
  <2>2. Permitted' = Permitted
    BY <2>0 DEF Permitted, Answered, ActorInv, ActorTypeOK
  <2>3. IsFiniteSet(Permitted') /\ Cardinality(Permitted') = Cardinality(Permitted)
    BY <2>2
  <2>q. QED
    BY <2>1, <2>3 DEF PermitsAccounted, Outstanding, Permitted
<1>19. ASSUME FailQueued, doomed = <<>>
      PROVE  IsFiniteSet(Permitted') /\ PermitsAccounted'
  BY <1>19 DEF FailQueued, ActorInv, ActorTypeOK, Permitted, PermitsAccounted, Outstanding
<1>20. ASSUME Complete
      PROVE  IsFiniteSet(Permitted') /\ PermitsAccounted'
  BY <1>20 DEF Complete, ActorInv, ActorTypeOK, Permitted, PermitsAccounted, Outstanding
<1>21. ASSUME UNCHANGED actorVars
      PROVE  IsFiniteSet(Permitted') /\ PermitsAccounted'
  BY <1>21 DEF actorVars, ActorInv, ActorTypeOK, Permitted, PermitsAccounted, Outstanding
<1>q. QED
  BY <1>1, <1>2, <1>3, <1>4, <1>5, <1>6, <1>7, <1>8, <1>9, <1>10, <1>11, <1>12, <1>13,
     <1>14, <1>15, <1>16, <1>17, <1>18, <1>19, <1>20, <1>21, ActorCases

\* A parked thread is notified of whatever it has to do.
LEMMA ParkedStep ==
    ASSUME ActorInv, [ActorNext]_actorVars
    PROVE  NoWorkWhileParked'
<1>1. ASSUME NEW c \in Callers, Ask(c)
      PROVE  NoWorkWhileParked'
  BY <1>1 DEF Ask, ActorInv, ActorTypeOK, StageShape, NoWorkWhileParked, threadVars
<1>2. ASSUME Acquire
      PROVE  NoWorkWhileParked'
  BY <1>2 DEF Acquire, ActorInv, ActorTypeOK, StageShape, NoWorkWhileParked, threadVars
<1>3. ASSUME Refuse
      PROVE  NoWorkWhileParked'
  BY <1>3 DEF Refuse, FailureFor, ActorInv, ActorTypeOK, StageShape, NoWorkWhileParked,
     threadVars
<1>4. ASSUME NEW c \in Callers, Admit(c), lifecycle = "Running"
      PROVE  NoWorkWhileParked'
  BY <1>4 DEF Admit, ActorInv, ActorTypeOK, StageShape, NoWorkWhileParked, threadVars
<1>5. ASSUME NEW c \in Callers, Admit(c), lifecycle # "Running"
      PROVE  NoWorkWhileParked'
  BY <1>5 DEF Admit, FailureFor, ActorInv, ActorTypeOK, StageShape, NoWorkWhileParked,
     threadVars
<1>6. ASSUME NEW c \in Callers, Abandon(c), call[c] = "waiting"
      PROVE  NoWorkWhileParked'
  BY <1>6 DEF Abandon, LeaveQueue, ActorInv, ActorTypeOK, StageShape, NoWorkWhileParked,
     threadVars
<1>7. ASSUME NEW c \in Callers, Abandon(c), call[c] = "accepted"
      PROVE  NoWorkWhileParked'
  BY <1>7 DEF Abandon, ActorInv, ActorTypeOK, StageShape, NoWorkWhileParked, threadVars
<1>8. ASSUME BeginShutdown
      PROVE  NoWorkWhileParked'
  BY <1>8 DEF BeginShutdown, ActorInv, ActorTypeOK, StageShape, NoWorkWhileParked,
     threadVars
<1>9. ASSUME Open
      PROVE  NoWorkWhileParked'
  BY <1>9 DEF Open, ActorInv, ActorTypeOK, StageShape, NoWorkWhileParked
<1>10. ASSUME Loop, queue # <<>>
      PROVE  NoWorkWhileParked'
  BY <1>10 DEF Loop, ActorInv, ActorTypeOK, StageShape, NoWorkWhileParked
<1>11. ASSUME Loop, queue = <<>>
      PROVE  NoWorkWhileParked'
  BY <1>11 DEF Loop, ActorInv, ActorTypeOK, StageShape, NoWorkWhileParked
<1>12. ASSUME Unpark
      PROVE  NoWorkWhileParked'
  BY <1>12 DEF Unpark, ActorInv, ActorTypeOK, StageShape, NoWorkWhileParked
<1>13. ASSUME Execute
      PROVE  NoWorkWhileParked'
  BY <1>13 DEF Execute, ActorInv, ActorTypeOK, StageShape, NoWorkWhileParked
<1>14. ASSUME Respond
      PROVE  NoWorkWhileParked'
  BY <1>14 DEF Respond, Answered, ActorInv, ActorTypeOK, StageShape, NoWorkWhileParked
<1>15. ASSUME Release
      PROVE  NoWorkWhileParked'
  BY <1>15 DEF Release, ActorInv, ActorTypeOK, StageShape, NoWorkWhileParked
<1>16. ASSUME Panic
      PROVE  NoWorkWhileParked'
  BY <1>16 DEF Panic, ActorInv, ActorTypeOK, StageShape, NoWorkWhileParked
<1>17. ASSUME FailCurrent
      PROVE  NoWorkWhileParked'
  BY <1>17 DEF FailCurrent, Answered, ActorInv, ActorTypeOK, StageShape, NoWorkWhileParked
<1>18. ASSUME FailQueued, doomed # <<>>
      PROVE  NoWorkWhileParked'
  BY <1>18 DEF FailQueued, Answered, ActorInv, ActorTypeOK, StageShape, NoWorkWhileParked
<1>19. ASSUME FailQueued, doomed = <<>>
      PROVE  NoWorkWhileParked'
  BY <1>19 DEF FailQueued, ActorInv, ActorTypeOK, StageShape, NoWorkWhileParked
<1>20. ASSUME Complete
      PROVE  NoWorkWhileParked'
  BY <1>20 DEF Complete, ActorInv, ActorTypeOK, StageShape, NoWorkWhileParked
<1>21. ASSUME UNCHANGED actorVars
      PROVE  NoWorkWhileParked'
  BY <1>21 DEF actorVars, ActorInv, ActorTypeOK, StageShape, NoWorkWhileParked
<1>q. QED
  BY <1>1, <1>2, <1>3, <1>4, <1>5, <1>6, <1>7, <1>8, <1>9, <1>10, <1>11, <1>12, <1>13,
     <1>14, <1>15, <1>16, <1>17, <1>18, <1>19, <1>20, <1>21, ActorCases
-----------------------------------------------------------------------------
(* The theorems *)

\* The inductive invariant holds initially.
LEMMA ActorInitInv == ActorInit => ActorInv
<1> SUFFICES ASSUME ActorInit PROVE ActorInv
  OBVIOUS
<1> USE DatabaseWorkerConstants, EmptySeq DEF ActorInit, Backlog, Taken
<1>1. Permitted = {}
  BY DEF Permitted
<1>2. IsFiniteSet(Permitted) /\ PermitsAccounted
  BY <1>1, FS_EmptySet DEF Permitted, PermitsAccounted, Outstanding
<1>3. ActorTypeOK
  BY DEF ActorTypeOK, Lifecycle
<1>4. StageShape
  BY DEF StageShape, Holding
<1>5. BacklogShape /\ WaitersShape /\ AdmittedShape
  BY DEF BacklogShape, WaitersShape, AdmittedShape
<1>6. LogShape /\ AcceptedShape
  BY DEF LogShape, AcceptedShape, Holding, Owing
<1>q. QED
  BY <1>2, <1>3, <1>4, <1>5, <1>6 DEF ActorInv, NoWorkWhileParked

\* The inductive invariant is inductive.
LEMMA ActorStepInv == ActorInv /\ [ActorNext]_actorVars => ActorInv'
  BY TypeStep, StageStep, WaitersStep, AdmittedStep, BacklogStep, LogStep, AcceptedStep,
     PermitsStep, ParkedStep DEF ActorInv

\* It says what the runs check.
LEMMA ActorInvSafe == ActorInv => ActorSafe
<1> SUFFICES ASSUME ActorInv PROVE ActorSafe
  OBVIOUS
<1>1. /\ Len(queue) \in Nat /\ Len(doomed) \in Nat
      /\ Len(admitted) \in Nat /\ Len(log) \in Nat /\ DOMAIN log = 1..Len(log)
      /\ log \in Seq(Callers) /\ admitted \in Seq(Callers)
  BY LenProperties DEF ActorInv, ActorTypeOK
<1>2. FirstInFirstOut
  <2>1. Len(log) <= Len(admitted) /\ \A i \in 1..Len(log) : log[i] = admitted[i]
    BY <1>1 DEF ActorInv, LogShape, Taken, Backlog
  <2>2. lifecycle = "Closed" => log = admitted
    BY <1>1, <2>1, SeqEqual DEF ActorInv, LogShape
  <2>q. QED
    BY <1>1, <2>1, <2>2 DEF FirstInFirstOut
<1>3. NobodyForgotten
  <2>1. SUFFICES ASSUME thread = "ended", NEW c \in Callers, call[c] = "accepted"
                 PROVE  FALSE
    BY DEF NobodyForgotten
  <2>2. queue = <<>> /\ doomed = <<>>
    BY <2>1 DEF ActorInv, StageShape
  <2>3. Taken = Len(admitted)
    BY <1>1, <2>2, EmptySeq DEF Taken, Backlog
  <2>q. QED
    BY <1>1, <2>1, <2>3 DEF ActorInv, AcceptedShape, Owing, Holding
<1>q. QED
  BY <1>2, <1>3 DEF ActorInv, ActorSafe

\* DbWorker: for any callers and any DB_WORKER_CAPACITY, whatever order calls,
\* dropped futures, shutdown and panics come in, permits are accounted for,
\* operations run in the order of acceptance, nobody who was accepted is left
\* without an answer and the thread never sleeps on work.
THEOREM ActorIsSafe == ActorSpec => []ActorSafe
  BY ActorInitInv, ActorStepInv, ActorInvSafe, PTL DEF ActorSpec

\* A change of one call, as a repository sees it.
LEMMA StatusUpdate ==
    ASSUME ActorTypeOK, NEW c \in Callers, NEW v, call' = [call EXCEPT ![c] = v]
    PROVE  CallStatus' = [CallStatus EXCEPT ![c] =
                            IF v \in {"waiting", "permitted", "accepted"} THEN "pending" ELSE v]
  BY DEF ActorTypeOK, CallStatus

\* An answer to someone who waits for it.
LEMMA AnswerGiven ==
    ASSUME ActorInv, NEW c \in Callers, call[c] \in {"waiting", "permitted", "accepted"},
           NEW v \in {"result", "shutting_down", "panicked"}, call' = [call EXCEPT ![c] = v]
    PROVE  CallStatus[c] = "pending" /\ CallStatus' = [CallStatus EXCEPT ![c] = v]
  BY StatusUpdate DEF ActorInv, CallStatus

\* Who was not accepted has no effect in the database.
LEMMA NotInLog ==
    ASSUME ActorInv, NEW c \in Callers, call[c] \in {"idle", "waiting", "permitted"}
    PROVE  \A i \in DOMAIN log : log[i] # c
<1>1. DOMAIN log = 1..Len(log) /\ Len(log) \in Nat /\ Len(log) <= Len(admitted)
      /\ Len(admitted) \in Nat
  BY ActorInvSafe, LenProperties DEF ActorInv, ActorTypeOK, ActorSafe, FirstInFirstOut
<1>q. QED
  BY <1>1, NotYetAdmitted DEF ActorInv, LogShape

\* Every step of the worker is one of SerialDatabase, or none.
LEMMA SerialStep ==
    ASSUME ActorInv, [ActorNext]_actorVars
    PROVE  [Serial!SerialNext]_(Serial!serialVars)
<1>1. ASSUME NEW c \in Callers, Ask(c)
      PROVE  [Serial!SerialNext]_(Serial!serialVars)
  <2>1. CallStatus[c] = "idle" /\ CallStatus' = [CallStatus EXCEPT ![c] = "pending"]
    BY <1>1, StatusUpdate DEF Ask, ActorInv, ActorTypeOK, CallStatus
  <2>q. QED
    BY <1>1, <2>1 DEF Ask, threadVars, Serial!SerialNext, Serial!Invoke
<1>2. ASSUME Acquire
      PROVE  [Serial!SerialNext]_(Serial!serialVars)
  <2>1. Head(waiters) \in Callers /\ CallStatus[Head(waiters)] = "pending"
        /\ CallStatus' = [CallStatus EXCEPT ![Head(waiters)] = "pending"]
    BY <1>2, FirstWaiter, StatusUpdate DEF Acquire, ActorInv, ActorTypeOK, CallStatus
  <2>2. UNCHANGED <<CallStatus, log>>
    BY <1>2, <2>1 DEF Acquire, threadVars, CallStatus
  <2>q. QED
    BY <2>2 DEF Serial!serialVars
<1>3. ASSUME Refuse
      PROVE  [Serial!SerialNext]_(Serial!serialVars)
  <2>1. Head(waiters) \in Callers /\ call[Head(waiters)] \in {"waiting", "permitted"}
    BY <1>3, FirstWaiter DEF Refuse
  <2>2. call' = [call EXCEPT ![Head(waiters)] = FailureFor(lifecycle)] /\ UNCHANGED log
    BY <1>3 DEF Refuse, threadVars
  <2>3. \A i \in DOMAIN log : log[i] # Head(waiters)
    BY <2>1, NotInLog
  <2>4. Serial!Return(Head(waiters), FailureFor(lifecycle))
    BY <2>1, <2>2, <2>3, AnswerGiven DEF FailureFor, Serial!Return
  <2>q. QED
    BY <2>1, <2>4 DEF FailureFor, Serial!SerialNext, Serial!Answers
<1>4. ASSUME NEW c \in Callers, Admit(c), lifecycle = "Running"
      PROVE  [Serial!SerialNext]_(Serial!serialVars)
  <2>1. c \in Callers /\ CallStatus[c] = "pending"
        /\ CallStatus' = [CallStatus EXCEPT ![c] = "pending"]
    BY <1>4, StatusUpdate DEF Admit, ActorInv, ActorTypeOK, CallStatus
  <2>2. UNCHANGED <<CallStatus, log>>
    BY <1>4, <2>1 DEF Admit, threadVars, CallStatus
  <2>q. QED
    BY <2>2 DEF Serial!serialVars
<1>5. ASSUME NEW c \in Callers, Admit(c), lifecycle # "Running"
      PROVE  [Serial!SerialNext]_(Serial!serialVars)
  <2>1. c \in Callers /\ call[c] \in {"waiting", "permitted"}
    BY <1>5 DEF Admit
  <2>2. call' = [call EXCEPT ![c] = FailureFor(lifecycle)] /\ UNCHANGED log
    BY <1>5 DEF Admit, threadVars
  <2>3. \A i \in DOMAIN log : log[i] # c
    BY <2>1, NotInLog
  <2>4. Serial!Return(c, FailureFor(lifecycle))
    BY <2>1, <2>2, <2>3, AnswerGiven DEF FailureFor, Serial!Return
  <2>q. QED
    BY <2>1, <2>4 DEF FailureFor, Serial!SerialNext, Serial!Answers
<1>6. ASSUME NEW c \in Callers, Abandon(c), call[c] = "waiting"
      PROVE  [Serial!SerialNext]_(Serial!serialVars)
  <2>1. CallStatus[c] = "pending" /\ CallStatus' = [CallStatus EXCEPT ![c] = "abandoned"]
    BY <1>6, StatusUpdate DEF Abandon, ActorInv, ActorTypeOK, CallStatus
  <2>q. QED
    BY <1>6, <2>1 DEF Abandon, threadVars, Serial!SerialNext, Serial!Abandon
<1>7. ASSUME NEW c \in Callers, Abandon(c), call[c] = "accepted"
      PROVE  [Serial!SerialNext]_(Serial!serialVars)
  <2>1. CallStatus[c] = "pending" /\ CallStatus' = [CallStatus EXCEPT ![c] = "abandoned"]
    BY <1>7, StatusUpdate DEF Abandon, ActorInv, ActorTypeOK, CallStatus
  <2>q. QED
    BY <1>7, <2>1 DEF Abandon, threadVars, Serial!SerialNext, Serial!Abandon
<1>8. ASSUME BeginShutdown
      PROVE  [Serial!SerialNext]_(Serial!serialVars)
  BY <1>8 DEF BeginShutdown, CallStatus, Serial!serialVars, threadVars
<1>9. ASSUME Open
      PROVE  [Serial!SerialNext]_(Serial!serialVars)
  BY <1>9 DEF Open, CallStatus, Serial!serialVars
<1>10. ASSUME Loop, queue # <<>>
      PROVE  [Serial!SerialNext]_(Serial!serialVars)
  BY <1>10 DEF Loop, CallStatus, Serial!serialVars
<1>11. ASSUME Loop, queue = <<>>
      PROVE  [Serial!SerialNext]_(Serial!serialVars)
  BY <1>11 DEF Loop, CallStatus, Serial!serialVars
<1>12. ASSUME Unpark
      PROVE  [Serial!SerialNext]_(Serial!serialVars)
  BY <1>12 DEF Unpark, CallStatus, Serial!serialVars
<1>13. ASSUME Execute
      PROVE  [Serial!SerialNext]_(Serial!serialVars)
  <2>1. thread = "execute" /\ UNCHANGED <<call, CallStatus>>
    BY <1>13 DEF Execute, CallStatus
  <2>2. current \in Callers /\ CallStatus[current] \in {"pending", "abandoned"}
    BY <2>1, JobAtHand DEF ActorInv, LogShape, Owing, Holding, CallStatus
  <2>3. \A i \in DOMAIN log : log[i] # current
    <3>1. Len(log) + 1 = Taken /\ \A i \in 1..Len(log) : log[i] = admitted[i]
      BY <2>1 DEF ActorInv, LogShape
    <3>2. Taken \in 1..Len(admitted) /\ current = admitted[Taken]
      BY <2>1, JobAtHand DEF Holding
    <3>3. DOMAIN log = 1..Len(log) /\ Len(log) \in Nat /\ Len(admitted) \in Nat
      BY LenProperties DEF ActorInv, ActorTypeOK
    <3>4. \A i \in 1..Len(log) : i \in 1..Len(admitted) /\ i # Taken
      BY <3>1, <3>2, <3>3
    <3>q. QED
      BY <3>1, <3>2, <3>3, <3>4 DEF ActorInv, AdmittedShape
  <2>4. CASE log' = Append(log, current)
    BY <2>1, <2>2, <2>3, <2>4 DEF Serial!SerialNext, Serial!Apply
  <2>5. CASE UNCHANGED log
    BY <2>1, <2>5 DEF Serial!serialVars
  <2>q. QED
    BY <1>13, <2>4, <2>5 DEF Execute
<1>14. ASSUME Respond
      PROVE  [Serial!SerialNext]_(Serial!serialVars)
  <2>1. /\ thread = "respond" /\ current \in Callers /\ UNCHANGED log
        /\ call' = Answered(current, "result")
    BY <1>14, JobAtHand DEF Respond, Holding
  <2>2. CASE call[current] = "accepted"
    <3>1. call' = [call EXCEPT ![current] = "result"]
      BY <2>1, <2>2 DEF Answered, ActorInv, ActorTypeOK
    <3>2. \E i \in DOMAIN log : log[i] = current
      <4>1. Len(log) = Taken /\ \A i \in 1..Len(log) : log[i] = admitted[i]
        BY <2>1 DEF ActorInv, LogShape
      <4>2. Taken \in 1..Len(admitted) /\ current = admitted[Taken]
        BY <2>1, JobAtHand DEF Holding
      <4>3. DOMAIN log = 1..Len(log) /\ Len(log) \in Nat
        BY LenProperties DEF ActorInv, ActorTypeOK
      <4>q. QED
        BY <4>1, <4>2, <4>3
    <3>3. Serial!Return(current, "result")
      BY <2>1, <2>2, <3>1, <3>2, AnswerGiven DEF Serial!Return
    <3>q. QED
      BY <2>1, <3>3 DEF Serial!SerialNext, Serial!Answers
  <2>3. CASE call[current] # "accepted"
    <3>1. UNCHANGED call
      BY <2>1, <2>3 DEF Answered, ActorInv, ActorTypeOK
    <3>q. QED
      BY <2>1, <3>1 DEF CallStatus, Serial!serialVars
  <2>q. QED
    BY <2>2, <2>3
<1>15. ASSUME Release
      PROVE  [Serial!SerialNext]_(Serial!serialVars)
  BY <1>15 DEF Release, CallStatus, Serial!serialVars
<1>16. ASSUME Panic
      PROVE  [Serial!SerialNext]_(Serial!serialVars)
  BY <1>16 DEF Panic, CallStatus, Serial!serialVars
<1>17. ASSUME FailCurrent
      PROVE  [Serial!SerialNext]_(Serial!serialVars)
  <2>1. current \in Callers /\ UNCHANGED log /\ call' = Answered(current, "panicked")
    BY <1>17, JobAtHand DEF FailCurrent, Holding
  <2>2. CASE call[current] = "accepted"
    <3>1. call' = [call EXCEPT ![current] = "panicked"]
      BY <2>1, <2>2 DEF Answered, ActorInv, ActorTypeOK
    <3>2. Serial!Return(current, "panicked")
      BY <2>1, <2>2, <3>1, AnswerGiven DEF Serial!Return
    <3>q. QED
      BY <2>1, <3>2 DEF Serial!SerialNext, Serial!Answers
  <2>3. CASE call[current] # "accepted"
    <3>1. UNCHANGED call
      BY <2>1, <2>3 DEF Answered, ActorInv, ActorTypeOK
    <3>q. QED
      BY <2>1, <3>1 DEF CallStatus, Serial!serialVars
  <2>q. QED
    BY <2>2, <2>3
<1>18. ASSUME FailQueued, doomed # <<>>
      PROVE  [Serial!SerialNext]_(Serial!serialVars)
  <2>1. Head(doomed) \in Callers /\ UNCHANGED log /\ call' = Answered(Head(doomed), "panicked")
    BY <1>18, FirstDoomed DEF FailQueued
  <2>2. CASE call[Head(doomed)] = "accepted"
    <3>1. call' = [call EXCEPT ![Head(doomed)] = "panicked"]
      BY <2>1, <2>2 DEF Answered, ActorInv, ActorTypeOK
    <3>2. Serial!Return(Head(doomed), "panicked")
      BY <2>1, <2>2, <3>1, AnswerGiven DEF Serial!Return
    <3>q. QED
      BY <2>1, <3>2 DEF Serial!SerialNext, Serial!Answers
  <2>3. CASE call[Head(doomed)] # "accepted"
    <3>1. UNCHANGED call
      BY <2>1, <2>3 DEF Answered, ActorInv, ActorTypeOK
    <3>q. QED
      BY <2>1, <3>1 DEF CallStatus, Serial!serialVars
  <2>q. QED
    BY <2>2, <2>3
<1>19. ASSUME FailQueued, doomed = <<>>
      PROVE  [Serial!SerialNext]_(Serial!serialVars)
  BY <1>19 DEF FailQueued, CallStatus, Serial!serialVars
<1>20. ASSUME Complete
      PROVE  [Serial!SerialNext]_(Serial!serialVars)
  BY <1>20 DEF Complete, CallStatus, Serial!serialVars
<1>21. ASSUME UNCHANGED actorVars
      PROVE  [Serial!SerialNext]_(Serial!serialVars)
  BY <1>21 DEF actorVars, CallStatus, Serial!serialVars
<1>q. QED
  BY <1>1, <1>2, <1>3, <1>4, <1>5, <1>6, <1>7, <1>8, <1>9, <1>10, <1>11, <1>12, <1>13,
     <1>14, <1>15, <1>16, <1>17, <1>18, <1>19, <1>20, <1>21, ActorCases

\* DbWorkerHandle::call, worker_loop: a repository may think of the worker as
\* a database that runs calls one at a time, each at most once, and answers
\* truly.
THEOREM ActorIsSerial == ActorSpec => CallsAreSerial
<1>1. ActorInit => Serial!SerialInit
  BY DEF ActorInit, CallStatus, Serial!SerialInit
<1>q. QED
  BY <1>1, SerialStep, ActorInitInv, ActorStepInv, PTL
     DEF ActorSpec, CallsAreSerial, Serial!SerialSpec
-----------------------------------------------------------------------------
(* The processes on one data directory *)

Startup == {"locked", "opened", "migrated", "checked", "stored"}
Outcome == {"none", "Ready", "Recovery"}

\* Type invariant.
ProcessTypeOK ==
    /\ lock \in Processes \cup {NoProcess}
    /\ pc \in [Processes -> Startup \cup {"down", "prepared", "serving", "stopping",
                                          "draining", "leaving"}]
    /\ outcome \in [Processes -> Outcome]
    /\ admitting \in [Processes -> BOOLEAN]
    /\ worker \in [Processes -> {"none", "idle", "turn", "dead", "done"}]
    /\ request \in [Processes -> BOOLEAN]
    /\ cancelled \in [Processes -> BOOLEAN]

\* A process has the lock from its first step until it releases it.
Locked ==
    \A p \in Processes :
       lock = p <=> pc[p] \in Startup \cup {"prepared", "serving", "stopping"}

\* What a process has in memory at each stage: no outcome before its startup
\* is over, a worker and requests only if it is Ready, no admission once it
\* stops.
Staged ==
    \A p \in Processes :
       /\ outcome[p] # "none" => pc[p] \notin Startup \cup {"down"}
       /\ worker[p] \in {"idle", "turn"} \/ request[p] => outcome[p] = "Ready"
       /\ pc[p] \in {"stopping", "draining", "leaving"} => ~admitting[p]

\* The inductive invariant.
ProcessInv == ProcessTypeOK /\ Locked /\ Staged /\ ServesItsSchema

\* Every step keeps the types.
LEMMA ProcessTypeStep ==
    ASSUME ProcessConstants, ProcessInv, [ProcessNext]_processVars
    PROVE  ProcessTypeOK'
<1> USE DEF Startup, Outcome
<1>1. ASSUME NEW p \in Processes, AcquireLock(p)
      PROVE  ProcessTypeOK'
  BY <1>1 DEF AcquireLock, memory, Goto, ProcessInv, ProcessTypeOK
<1>2. ASSUME NEW p \in Processes, OpenDatabase(p)
      PROVE  ProcessTypeOK'
  BY <1>2 DEF OpenDatabase, Goto, Fatal, Gone, memory, ProcessInv, ProcessTypeOK
<1>3. ASSUME NEW p \in Processes, ApplyMigrations(p)
      PROVE  ProcessTypeOK'
  BY <1>3 DEF ApplyMigrations, Goto, Recovery, Wrote, ProcessInv, ProcessTypeOK
<1>4. ASSUME NEW p \in Processes, CheckIntegrity(p)
      PROVE  ProcessTypeOK'
  BY <1>4 DEF CheckIntegrity, Goto, Recovery, Verify, ProcessInv, ProcessTypeOK
<1>5. ASSUME NEW p \in Processes, PrepareArtifacts(p)
      PROVE  ProcessTypeOK'
  BY <1>5 DEF PrepareArtifacts, Goto, Fatal, Gone, memory, ProcessInv, ProcessTypeOK
<1>6. ASSUME NEW p \in Processes, RecoverJobs(p)
      PROVE  ProcessTypeOK'
  BY <1>6 DEF RecoverJobs, Goto, Wrote, Recovery, ProcessInv, ProcessTypeOK
<1>7. ASSUME NEW p \in Processes, Serve(p)
      PROVE  ProcessTypeOK'
  BY <1>7 DEF Serve, Goto, Fatal, Gone, memory, ProcessInv, ProcessTypeOK
<1>8. ASSUME NEW p \in Processes, ReleaseResources(p)
      PROVE  ProcessTypeOK'
  BY <1>8 DEF ReleaseResources, Goto, ProcessInv, ProcessTypeOK
<1>9. ASSUME NEW p \in Processes, JoinWorker(p)
      PROVE  ProcessTypeOK'
  BY <1>9 DEF JoinWorker, Goto, ProcessInv, ProcessTypeOK
<1>10. ASSUME NEW p \in Processes, Leave(p)
      PROVE  ProcessTypeOK'
  BY <1>10 DEF Leave, Gone, Goto, ProcessInv, ProcessTypeOK
<1>11. ASSUME NEW p \in Processes, AdmitRequest(p)
      PROVE  ProcessTypeOK'
  BY <1>11 DEF AdmitRequest, Rest, Alive, ProcessInv, ProcessTypeOK
<1>12. ASSUME NEW p \in Processes, RunRequest(p)
      PROVE  ProcessTypeOK'
  BY <1>12 DEF RunRequest, Rest, Wrote, Alive, ProcessInv, ProcessTypeOK
<1>13. ASSUME NEW p \in Processes, BeginTurn(p)
      PROVE  ProcessTypeOK'
  BY <1>13 DEF BeginTurn, Rest, Wrote, Alive, ProcessInv, ProcessTypeOK
<1>14. ASSUME NEW p \in Processes, TurnWrites(p)
      PROVE  ProcessTypeOK'
  BY <1>14 DEF TurnWrites, Rest, Wrote, Alive, ProcessInv, ProcessTypeOK
<1>15. ASSUME NEW p \in Processes, WorkerStops(p)
      PROVE  ProcessTypeOK'
  BY <1>15 DEF WorkerStops, Rest, ProcessInv, ProcessTypeOK
<1>16. ASSUME NEW p \in Processes, ShutdownBegins(p)
      PROVE  ProcessTypeOK'
  BY <1>16 DEF ShutdownBegins, Goto, ProcessInv, ProcessTypeOK
<1>17. ASSUME NEW p \in Processes, Crash(p)
      PROVE  ProcessTypeOK'
  BY <1>17 DEF Crash, Gone, Goto, ProcessInv, ProcessTypeOK
<1>18. ASSUME UNCHANGED processVars
      PROVE  ProcessTypeOK'
  BY <1>18 DEF processVars, ProcessInv, ProcessTypeOK
<1>q. QED
  BY <1>1, <1>2, <1>3, <1>4, <1>5, <1>6, <1>7, <1>8, <1>9, <1>10, <1>11, <1>12, <1>13,
     <1>14, <1>15, <1>16, <1>17, <1>18 DEF ProcessNext, Starts, Stops

\* The lock goes with the stage.
LEMMA LockedStep ==
    ASSUME ProcessConstants, ProcessInv, [ProcessNext]_processVars
    PROVE  Locked'
<1> USE DEF Startup, ProcessConstants
<1>1. ASSUME NEW p \in Processes, AcquireLock(p)
      PROVE  Locked'
  BY <1>1 DEF AcquireLock, memory, Goto, ProcessInv, ProcessTypeOK, Locked
<1>2. ASSUME NEW p \in Processes, OpenDatabase(p)
      PROVE  Locked'
  BY <1>2 DEF OpenDatabase, Goto, Fatal, Gone, memory, ProcessInv, ProcessTypeOK, Locked
<1>3. ASSUME NEW p \in Processes, ApplyMigrations(p)
      PROVE  Locked'
  BY <1>3 DEF ApplyMigrations, Goto, Recovery, Wrote, ProcessInv, ProcessTypeOK, Locked
<1>4. ASSUME NEW p \in Processes, CheckIntegrity(p)
      PROVE  Locked'
  BY <1>4 DEF CheckIntegrity, Goto, Recovery, Verify, ProcessInv, ProcessTypeOK, Locked
<1>5. ASSUME NEW p \in Processes, PrepareArtifacts(p)
      PROVE  Locked'
  BY <1>5 DEF PrepareArtifacts, Goto, Fatal, Gone, memory, ProcessInv, ProcessTypeOK, Locked
<1>6. ASSUME NEW p \in Processes, RecoverJobs(p)
      PROVE  Locked'
  BY <1>6 DEF RecoverJobs, Goto, Wrote, Recovery, ProcessInv, ProcessTypeOK, Locked
<1>7. ASSUME NEW p \in Processes, Serve(p)
      PROVE  Locked'
  BY <1>7 DEF Serve, Goto, Fatal, Gone, memory, ProcessInv, ProcessTypeOK, Locked
<1>8. ASSUME NEW p \in Processes, ReleaseResources(p)
      PROVE  Locked'
  BY <1>8 DEF ReleaseResources, Goto, ProcessInv, ProcessTypeOK, Locked
<1>9. ASSUME NEW p \in Processes, JoinWorker(p)
      PROVE  Locked'
  BY <1>9 DEF JoinWorker, Goto, ProcessInv, ProcessTypeOK, Locked
<1>10. ASSUME NEW p \in Processes, Leave(p)
      PROVE  Locked'
  BY <1>10 DEF Leave, Gone, Goto, ProcessInv, ProcessTypeOK, Locked
<1>11. ASSUME NEW p \in Processes, AdmitRequest(p)
      PROVE  Locked'
  BY <1>11 DEF AdmitRequest, Rest, Alive, ProcessInv, ProcessTypeOK, Locked
<1>12. ASSUME NEW p \in Processes, RunRequest(p)
      PROVE  Locked'
  BY <1>12 DEF RunRequest, Rest, Wrote, Alive, ProcessInv, ProcessTypeOK, Locked
<1>13. ASSUME NEW p \in Processes, BeginTurn(p)
      PROVE  Locked'
  BY <1>13 DEF BeginTurn, Rest, Wrote, Alive, ProcessInv, ProcessTypeOK, Locked
<1>14. ASSUME NEW p \in Processes, TurnWrites(p)
      PROVE  Locked'
  BY <1>14 DEF TurnWrites, Rest, Wrote, Alive, ProcessInv, ProcessTypeOK, Locked
<1>15. ASSUME NEW p \in Processes, WorkerStops(p)
      PROVE  Locked'
  BY <1>15 DEF WorkerStops, Rest, ProcessInv, ProcessTypeOK, Locked
<1>16. ASSUME NEW p \in Processes, ShutdownBegins(p)
      PROVE  Locked'
  BY <1>16 DEF ShutdownBegins, Goto, ProcessInv, ProcessTypeOK, Locked
<1>17. ASSUME NEW p \in Processes, Crash(p)
      PROVE  Locked'
  BY <1>17 DEF Crash, Gone, Goto, ProcessInv, ProcessTypeOK, Locked
<1>18. ASSUME UNCHANGED processVars
      PROVE  Locked'
  BY <1>18 DEF processVars, ProcessInv, ProcessTypeOK, Locked
<1>q. QED
  BY <1>1, <1>2, <1>3, <1>4, <1>5, <1>6, <1>7, <1>8, <1>9, <1>10, <1>11, <1>12, <1>13,
     <1>14, <1>15, <1>16, <1>17, <1>18 DEF ProcessNext, Starts, Stops

\* What a process has in memory goes with the stage.
LEMMA StagedStep ==
    ASSUME ProcessConstants, ProcessInv, [ProcessNext]_processVars
    PROVE  Staged'
<1> USE DEF Startup, Outcome
<1>1. ASSUME NEW p \in Processes, AcquireLock(p)
      PROVE  Staged'
  BY <1>1 DEF AcquireLock, memory, Goto, ProcessInv, ProcessTypeOK, Staged
<1>2. ASSUME NEW p \in Processes, OpenDatabase(p)
      PROVE  Staged'
  BY <1>2 DEF OpenDatabase, Goto, Fatal, Gone, memory, ProcessInv, ProcessTypeOK, Staged
<1>3. ASSUME NEW p \in Processes, ApplyMigrations(p)
      PROVE  Staged'
  BY <1>3 DEF ApplyMigrations, Goto, Recovery, Wrote, ProcessInv, ProcessTypeOK, Staged
<1>4. ASSUME NEW p \in Processes, CheckIntegrity(p)
      PROVE  Staged'
  BY <1>4 DEF CheckIntegrity, Goto, Recovery, Verify, ProcessInv, ProcessTypeOK, Staged
<1>5. ASSUME NEW p \in Processes, PrepareArtifacts(p)
      PROVE  Staged'
  BY <1>5 DEF PrepareArtifacts, Goto, Fatal, Gone, memory, ProcessInv, ProcessTypeOK, Staged
<1>6. ASSUME NEW p \in Processes, RecoverJobs(p)
      PROVE  Staged'
  BY <1>6 DEF RecoverJobs, Goto, Wrote, Recovery, ProcessInv, ProcessTypeOK, Staged
<1>7. ASSUME NEW p \in Processes, Serve(p)
      PROVE  Staged'
  BY <1>7 DEF Serve, Goto, Fatal, Gone, memory, ProcessInv, ProcessTypeOK, Staged
<1>8. ASSUME NEW p \in Processes, ReleaseResources(p)
      PROVE  Staged'
  BY <1>8 DEF ReleaseResources, Goto, ProcessInv, ProcessTypeOK, Staged
<1>9. ASSUME NEW p \in Processes, JoinWorker(p)
      PROVE  Staged'
  BY <1>9 DEF JoinWorker, Goto, ProcessInv, ProcessTypeOK, Staged
<1>10. ASSUME NEW p \in Processes, Leave(p)
      PROVE  Staged'
  BY <1>10 DEF Leave, Gone, Goto, ProcessInv, ProcessTypeOK, Staged
<1>11. ASSUME NEW p \in Processes, AdmitRequest(p)
      PROVE  Staged'
  BY <1>11 DEF AdmitRequest, Rest, Alive, ProcessInv, ProcessTypeOK, Staged
<1>12. ASSUME NEW p \in Processes, RunRequest(p)
      PROVE  Staged'
  BY <1>12 DEF RunRequest, Rest, Wrote, Alive, ProcessInv, ProcessTypeOK, Staged
<1>13. ASSUME NEW p \in Processes, BeginTurn(p)
      PROVE  Staged'
  BY <1>13 DEF BeginTurn, Rest, Wrote, Alive, ProcessInv, ProcessTypeOK, Staged
<1>14. ASSUME NEW p \in Processes, TurnWrites(p)
      PROVE  Staged'
  BY <1>14 DEF TurnWrites, Rest, Wrote, Alive, ProcessInv, ProcessTypeOK, Staged
<1>15. ASSUME NEW p \in Processes, WorkerStops(p)
      PROVE  Staged'
  BY <1>15 DEF WorkerStops, Rest, ProcessInv, ProcessTypeOK, Staged
<1>16. ASSUME NEW p \in Processes, ShutdownBegins(p)
      PROVE  Staged'
  BY <1>16 DEF ShutdownBegins, Goto, ProcessInv, ProcessTypeOK, Staged
<1>17. ASSUME NEW p \in Processes, Crash(p)
      PROVE  Staged'
  BY <1>17 DEF Crash, Gone, Goto, ProcessInv, ProcessTypeOK, Staged
<1>18. ASSUME UNCHANGED processVars
      PROVE  Staged'
  BY <1>18 DEF processVars, ProcessInv, ProcessTypeOK, Staged
<1>q. QED
  BY <1>1, <1>2, <1>3, <1>4, <1>5, <1>6, <1>7, <1>8, <1>9, <1>10, <1>11, <1>12, <1>13,
     <1>14, <1>15, <1>16, <1>17, <1>18 DEF ProcessNext, Starts, Stops

\* Only a process that holds the lock and has no outcome yet changes the
\* schema.
LEMMA SchemaStep ==
    ASSUME ProcessConstants, ProcessInv, [ProcessNext]_processVars
    PROVE  ServesItsSchema'
<1> USE DEF Startup, ProcessConstants
<1>1. ASSUME NEW p \in Processes, AcquireLock(p)
      PROVE  ServesItsSchema'
  BY <1>1 DEF AcquireLock, memory, Goto, ProcessInv, ProcessTypeOK, Locked, Staged,
     ServesItsSchema
<1>2. ASSUME NEW p \in Processes, OpenDatabase(p)
      PROVE  ServesItsSchema'
  BY <1>2 DEF OpenDatabase, Goto, Fatal, Gone, memory, ProcessInv, ProcessTypeOK, Locked,
     Staged, ServesItsSchema
<1>3. ASSUME NEW p \in Processes, ApplyMigrations(p)
      PROVE  ServesItsSchema'
  BY <1>3 DEF ApplyMigrations, Goto, Recovery, Wrote, ProcessInv, ProcessTypeOK, Locked,
     Staged, ServesItsSchema
<1>4. ASSUME NEW p \in Processes, CheckIntegrity(p)
      PROVE  ServesItsSchema'
  BY <1>4 DEF CheckIntegrity, Goto, Recovery, Verify, ProcessInv, ProcessTypeOK, Locked,
     Staged, ServesItsSchema
<1>5. ASSUME NEW p \in Processes, PrepareArtifacts(p)
      PROVE  ServesItsSchema'
  BY <1>5 DEF PrepareArtifacts, Goto, Fatal, Gone, memory, ProcessInv, ProcessTypeOK,
     Locked, Staged, ServesItsSchema
<1>6. ASSUME NEW p \in Processes, RecoverJobs(p)
      PROVE  ServesItsSchema'
  BY <1>6 DEF RecoverJobs, Goto, Wrote, Recovery, ProcessInv, ProcessTypeOK, Locked, Staged,
     ServesItsSchema
<1>7. ASSUME NEW p \in Processes, Serve(p)
      PROVE  ServesItsSchema'
  BY <1>7 DEF Serve, Goto, Fatal, Gone, memory, ProcessInv, ProcessTypeOK, Locked, Staged,
     ServesItsSchema
<1>8. ASSUME NEW p \in Processes, ReleaseResources(p)
      PROVE  ServesItsSchema'
  BY <1>8 DEF ReleaseResources, Goto, ProcessInv, ProcessTypeOK, Locked, Staged,
     ServesItsSchema
<1>9. ASSUME NEW p \in Processes, JoinWorker(p)
      PROVE  ServesItsSchema'
  BY <1>9 DEF JoinWorker, Goto, ProcessInv, ProcessTypeOK, Locked, Staged, ServesItsSchema
<1>10. ASSUME NEW p \in Processes, Leave(p)
      PROVE  ServesItsSchema'
  BY <1>10 DEF Leave, Gone, Goto, ProcessInv, ProcessTypeOK, Locked, Staged, ServesItsSchema
<1>11. ASSUME NEW p \in Processes, AdmitRequest(p)
      PROVE  ServesItsSchema'
  BY <1>11 DEF AdmitRequest, Rest, Alive, ProcessInv, ProcessTypeOK, Locked, Staged,
     ServesItsSchema
<1>12. ASSUME NEW p \in Processes, RunRequest(p)
      PROVE  ServesItsSchema'
  BY <1>12 DEF RunRequest, Rest, Wrote, Alive, ProcessInv, ProcessTypeOK, Locked, Staged,
     ServesItsSchema
<1>13. ASSUME NEW p \in Processes, BeginTurn(p)
      PROVE  ServesItsSchema'
  BY <1>13 DEF BeginTurn, Rest, Wrote, Alive, ProcessInv, ProcessTypeOK, Locked, Staged,
     ServesItsSchema
<1>14. ASSUME NEW p \in Processes, TurnWrites(p)
      PROVE  ServesItsSchema'
  BY <1>14 DEF TurnWrites, Rest, Wrote, Alive, ProcessInv, ProcessTypeOK, Locked, Staged,
     ServesItsSchema
<1>15. ASSUME NEW p \in Processes, WorkerStops(p)
      PROVE  ServesItsSchema'
  BY <1>15 DEF WorkerStops, Rest, ProcessInv, ProcessTypeOK, Locked, Staged, ServesItsSchema
<1>16. ASSUME NEW p \in Processes, ShutdownBegins(p)
      PROVE  ServesItsSchema'
  BY <1>16 DEF ShutdownBegins, Goto, ProcessInv, ProcessTypeOK, Locked, Staged,
     ServesItsSchema
<1>17. ASSUME NEW p \in Processes, Crash(p)
      PROVE  ServesItsSchema'
  BY <1>17 DEF Crash, Gone, Goto, ProcessInv, ProcessTypeOK, Locked, Staged, ServesItsSchema
<1>18. ASSUME UNCHANGED processVars
      PROVE  ServesItsSchema'
  BY <1>18 DEF processVars, ProcessInv, ProcessTypeOK, Locked, Staged, ServesItsSchema
<1>q. QED
  BY <1>1, <1>2, <1>3, <1>4, <1>5, <1>6, <1>7, <1>8, <1>9, <1>10, <1>11, <1>12, <1>13,
     <1>14, <1>15, <1>16, <1>17, <1>18 DEF ProcessNext, Starts, Stops

\* The steps that write belong to a startup without an outcome or to a Ready
\* process.
LEMMA ServingOnly ==
    ASSUME ProcessConstants, ProcessInv, [ProcessNext]_processVars
    PROVE  ServingStep
<1> USE DEF Startup, ServingStep
<1>1. ASSUME NEW p \in Processes, AcquireLock(p)
      PROVE  ServingStep
  BY <1>1 DEF AcquireLock, memory, Goto, ProcessInv, ProcessTypeOK, Staged
<1>2. ASSUME NEW p \in Processes, OpenDatabase(p)
      PROVE  ServingStep
  BY <1>2 DEF OpenDatabase, Goto, Fatal, Gone, memory, ProcessInv, ProcessTypeOK, Staged
<1>3. ASSUME NEW p \in Processes, ApplyMigrations(p)
      PROVE  ServingStep
  BY <1>3 DEF ApplyMigrations, Goto, Recovery, Wrote, ProcessInv, ProcessTypeOK, Staged
<1>4. ASSUME NEW p \in Processes, CheckIntegrity(p)
      PROVE  ServingStep
  BY <1>4 DEF CheckIntegrity, Goto, Recovery, Verify, ProcessInv, ProcessTypeOK, Staged
<1>5. ASSUME NEW p \in Processes, PrepareArtifacts(p)
      PROVE  ServingStep
  BY <1>5 DEF PrepareArtifacts, Goto, Fatal, Gone, memory, ProcessInv, ProcessTypeOK, Staged
<1>6. ASSUME NEW p \in Processes, RecoverJobs(p)
      PROVE  ServingStep
  BY <1>6 DEF RecoverJobs, Goto, Wrote, Recovery, ProcessInv, ProcessTypeOK, Staged
<1>7. ASSUME NEW p \in Processes, Serve(p)
      PROVE  ServingStep
  BY <1>7 DEF Serve, Goto, Fatal, Gone, memory, ProcessInv, ProcessTypeOK, Staged
<1>8. ASSUME NEW p \in Processes, ReleaseResources(p)
      PROVE  ServingStep
  BY <1>8 DEF ReleaseResources, Goto, ProcessInv, ProcessTypeOK, Staged
<1>9. ASSUME NEW p \in Processes, JoinWorker(p)
      PROVE  ServingStep
  BY <1>9 DEF JoinWorker, Goto, ProcessInv, ProcessTypeOK, Staged
<1>10. ASSUME NEW p \in Processes, Leave(p)
      PROVE  ServingStep
  BY <1>10 DEF Leave, Gone, Goto, ProcessInv, ProcessTypeOK, Staged
<1>11. ASSUME NEW p \in Processes, AdmitRequest(p)
      PROVE  ServingStep
  BY <1>11 DEF AdmitRequest, Rest, Alive, ProcessInv, ProcessTypeOK, Staged
<1>12. ASSUME NEW p \in Processes, RunRequest(p)
      PROVE  ServingStep
  BY <1>12 DEF RunRequest, Rest, Wrote, Alive, ProcessInv, ProcessTypeOK, Staged
<1>13. ASSUME NEW p \in Processes, BeginTurn(p)
      PROVE  ServingStep
  BY <1>13 DEF BeginTurn, Rest, Wrote, Alive, ProcessInv, ProcessTypeOK, Staged
<1>14. ASSUME NEW p \in Processes, TurnWrites(p)
      PROVE  ServingStep
  BY <1>14 DEF TurnWrites, Rest, Wrote, Alive, ProcessInv, ProcessTypeOK, Staged
<1>15. ASSUME NEW p \in Processes, WorkerStops(p)
      PROVE  ServingStep
  BY <1>15 DEF WorkerStops, Rest, ProcessInv, ProcessTypeOK, Staged
<1>16. ASSUME NEW p \in Processes, ShutdownBegins(p)
      PROVE  ServingStep
  BY <1>16 DEF ShutdownBegins, Goto, ProcessInv, ProcessTypeOK, Staged
<1>17. ASSUME NEW p \in Processes, Crash(p)
      PROVE  ServingStep
  BY <1>17 DEF Crash, Gone, Goto, ProcessInv, ProcessTypeOK, Staged
<1>18. ASSUME UNCHANGED processVars
      PROVE  ServingStep
  BY <1>18 DEF processVars, ProcessInv, ProcessTypeOK, Staged
<1>q. QED
  BY <1>1, <1>2, <1>3, <1>4, <1>5, <1>6, <1>7, <1>8, <1>9, <1>10, <1>11, <1>12, <1>13,
     <1>14, <1>15, <1>16, <1>17, <1>18 DEF ProcessNext, Starts, Stops

\* The inductive invariant holds initially.
LEMMA ProcessInitInv == ProcessConstants /\ ProcessInit => ProcessInv
  BY DEF ProcessConstants, ProcessInit, ProcessInv, ProcessTypeOK, Locked, Staged,
         ServesItsSchema, Startup, Outcome

\* Every step keeps the inductive invariant.
LEMMA ProcessStepInv ==
    ASSUME ProcessConstants
    PROVE  ProcessInv /\ [ProcessNext]_processVars => ProcessInv'
  BY ProcessTypeStep, LockedStep, StagedStep, SchemaStep DEF ProcessInv

\* ProcessLock, apply_until, verify_with_connection: whatever builds start,
\* stop and crash on one data directory, and in whatever order, the one that
\* holds the lock and serves or recovers jobs has the schema it was built for.
THEOREM SchemaIsServed ==
    ASSUME ProcessConstants
    PROVE  ProcessSpec => []ServesItsSchema
<1>1. ProcessInit => ProcessInv
  BY ProcessInitInv
<1>2. ProcessInv => ServesItsSchema
  BY DEF ProcessInv
<1>q. QED
  BY <1>1, <1>2, ProcessStepInv, PTL DEF ProcessSpec

\* require_mutations, begin_shutdown: a process in Recovery Mode writes
\* nothing, and one that stops takes no new request.
THEOREM WritesAreServing ==
    ASSUME ProcessConstants
    PROVE  ProcessSpec => OnlyServingWrites
<1>1. ProcessInit => ProcessInv
  BY ProcessInitInv
<1>2. ProcessInv /\ [ProcessNext]_processVars => [ServingStep]_processVars
  BY ServingOnly
<1>q. QED
  BY <1>1, <1>2, ProcessStepInv, PTL DEF ProcessSpec, OnlyServingWrites

===============================================================================

----------------------------- MODULE WakeupProofs -----------------------------
(***************************************************************************)
(* The two components where a task sleeps until another one wakes it.      *)
(*                                                                         *)
(* Signals: TurnsAreSignalled holds for any jobs, threads and number of    *)
(* turns.                                                                  *)
(*                                                                         *)
(* Pacing: PacingSafe and GrantsArePolite hold for any tasks, origins,     *)
(* limits and bounds.  The inductive invariant describes the stack of      *)
(* guards by where its task is (Stacked), and bounds the pauses called for *)
(* by the deadlines of the origin's state (Paused), which is why a state   *)
(* that is retired takes no pause with it.                                 *)
(***************************************************************************)
EXTENDS Signals, Pacing, FiniteSetTheorems, SequenceTheorems, WellFoundedInduction, TLAPS

-----------------------------------------------------------------------------
(* Signals.                                                                 *)

InTurn == {"cancellable", "recheck", "handling"}

\* What each stage of a turn has registered, and that the handler waits only
\* while it runs: the tokens a thread may find under the lock.
TurnShape ==
    /\ active["cancel"] = IF stage \in InTurn THEN token ELSE NoToken
    /\ active["pressure"] = IF stage \in {"recheck", "handling"} THEN token ELSE NoToken
    /\ stage # "idle" => token # NoToken
    /\ wait # NotWaiting => stage = "handling"
    /\ \A p \in Thread : thread[p].pc \in {"swap", "notify"} => thread[p].tok # NoToken

\* A set storage token was notified or will be; none is notified before it is
\* set.
Notifying(t) == \E p \in Thread : thread[p] = [pc |-> "notify", kind |-> "pressure", tok |-> t]
NotifiedAfterSet ==
    /\ notified["pressure"] \subseteq flag["pressure"]
    /\ \A p \in Thread : thread[p].pc = "notify" => thread[p].tok \in flag[thread[p].kind]
    /\ \A t \in flag["pressure"] : t \in notified["pressure"] \/ Notifying(t)

\* A Notified future that was made too late is found out by the check after it.
CheckedAfterSubscribing ==
    /\ wait["pressure"] = "check" /\ seen["pressure"] => token \in notified["pressure"]
    /\ wait["pressure"] = "parked" => ~seen["pressure"]

\* The inductive invariant.
SignalsInv ==
    /\ SignalsTypeOK /\ TurnShape /\ NotifiedAfterSet /\ CheckedAfterSubscribing
    /\ RequestReachesToken /\ CriticalReachesToken

\* The steps of the handler's select! change only wait and seen.
WaitStep == EnterSelect \/ LeaveSelect \/ CancelledStep \/ SignalledStep

\* Next, one action at a time.
LEMMA NextCases ==
    ASSUME [Next]_vars
    PROVE  \/ \E p \in Thread :
                 \/ \E j \in Job : Request(p, j)
                 \/ CancelAll(p)
                 \/ \E l \in Level : Publish(p, l)
                 \/ Collect(p) \/ Swap(p) \/ Notify(p)
           \/ \E j \in Job : Begin(j)
           \/ RegisterCancel \/ RegisterPressure \/ Recheck
           \/ \E terminal \in BOOLEAN : Release(terminal)
           \/ WaitStep
           \/ UNCHANGED vars
  BY DEF Next, ThreadStep, Outside, WorkerStep, WaitStep

\* What a wait leaves alone.
LEMMA WaitFrame ==
    ASSUME WaitStep
    PROVE  UNCHANGED <<shared, thread, worker>>
  BY
     DEF WaitStep, EnterSelect, LeaveSelect, CancelledStep, CancelledCheck,
         CancelledSubscribe,
         SignalledStep, SignalledSubscribe, SignalledCheck, WakeTurn

\* Every step keeps the types.
LEMMA TypeStep ==
    ASSUME SignalsTypeOK, TurnShape, [Next]_vars
    PROVE  SignalsTypeOK'
<1>1. ASSUME NEW p \in Thread, NEW j \in Job, Request(p, j)
      PROVE  SignalsTypeOK'
  BY <1>1, SignalsAssumption
     DEF SignalsTypeOK, Request, SignalLater, Idle, worker, Kind, Token, NoToken, Level
<1>2. ASSUME NEW p \in Thread, CancelAll(p)
      PROVE  SignalsTypeOK'
  BY <1>2, SignalsAssumption
     DEF SignalsTypeOK, CancelAll, SignalLater, Idle, worker, Kind, Token, NoToken, Level
<1>3. ASSUME NEW p \in Thread, NEW l \in Level, Publish(p, l)
      PROVE  SignalsTypeOK'
  BY <1>3, SignalsAssumption DEF SignalsTypeOK, Publish, worker, Kind, Token, NoToken, Level
<1>4. ASSUME NEW p \in Thread, Collect(p)
      PROVE  SignalsTypeOK'
  BY <1>4, SignalsAssumption
     DEF SignalsTypeOK, Collect, SignalLater, Idle, shared, worker, Kind, Token, NoToken,
         Level
<1>5. ASSUME NEW p \in Thread, Swap(p)
      PROVE  SignalsTypeOK'
  <2>1. thread[p].kind \in Kind /\ thread[p].tok \in Token
    BY <1>5 DEF Swap, SignalsTypeOK, TurnShape
  <2>2. flag' \in [Kind -> SUBSET Token]
    BY <1>5, <2>1 DEF Swap, SignalsTypeOK
  <2>3. [thread[p] EXCEPT !.pc = "notify"] =
           [pc |-> "notify", kind |-> thread[p].kind, tok |-> thread[p].tok]
    BY DEF SignalsTypeOK
  <2>4. thread' \in [Thread -> [pc : {"idle", "collect", "swap", "notify"},
                                kind : Kind, tok : Token \cup {NoToken}]]
    BY <1>5, <2>1, <2>3 DEF Swap, SignalsTypeOK, Idle, Kind
  <2>q. QED
    BY <1>5, <2>2, <2>4 DEF Swap, SignalsTypeOK, worker
<1>6. ASSUME NEW p \in Thread, Notify(p)
      PROVE  SignalsTypeOK'
  <2>1. thread[p].kind \in Kind /\ thread[p].tok \in Token
    BY <1>6 DEF Notify, SignalsTypeOK, TurnShape
  <2>q. QED
    BY <1>6, <2>1 DEF Notify, SignalsTypeOK, Idle, Kind, worker
<1>7. ASSUME NEW j \in Job, Begin(j)
      PROVE  SignalsTypeOK'
  BY <1>7, SignalsAssumption
     DEF SignalsTypeOK, Begin, shared, worker, Kind, Token, NoToken, Level
<1>8. ASSUME RegisterCancel
      PROVE  SignalsTypeOK'
  <2>1. token \in Token
    BY <1>8 DEF RegisterCancel, SignalsTypeOK, TurnShape
  <2>q. QED
    BY <1>8, <2>1 DEF RegisterCancel, SignalsTypeOK, Kind
<1>9. ASSUME RegisterPressure
      PROVE  SignalsTypeOK'
  BY <1>9, SignalsAssumption
     DEF SignalsTypeOK, RegisterPressure, worker, Kind, Token, NoToken, Level
<1>10. ASSUME Recheck
      PROVE  SignalsTypeOK'
  <2>1. token \in Token
    BY <1>10 DEF Recheck, SignalsTypeOK, TurnShape
  <2>2. flag' \in [Kind -> SUBSET Token] /\ notified' \in [Kind -> SUBSET Token]
    BY <1>10, <2>1 DEF Recheck, SignalsTypeOK, Kind
  <2>q. QED
    BY <1>10, <2>2 DEF Recheck, SignalsTypeOK
<1>11. ASSUME NEW terminal \in BOOLEAN, Release(terminal)
      PROVE  SignalsTypeOK'
  BY <1>11, SignalsAssumption
     DEF SignalsTypeOK, Release, worker, Kind, Token, NoToken, Level
<1>12. ASSUME WaitStep
      PROVE  SignalsTypeOK'
  <2>1. UNCHANGED <<shared, thread, worker>>
    BY <1>12, WaitFrame
  <2>2. wait' \in [Kind -> Waiting \cup {"none", "done"}] /\ seen' \in [Kind -> BOOLEAN]
    <3>1. CASE EnterSelect
      BY <3>1 DEF EnterSelect, SignalsTypeOK, Kind, Waiting
    <3>2. CASE LeaveSelect
      BY <3>2 DEF LeaveSelect, SignalsTypeOK, Kind, NotWaiting
    <3>3. CASE CancelledCheck
      BY <3>3 DEF CancelledCheck, Go, SignalsTypeOK, Kind, Waiting
    <3>4. CASE CancelledSubscribe
      BY <3>4 DEF CancelledSubscribe, Go, MakeNotified, SignalsTypeOK, Kind, Waiting
    <3>5. CASE SignalledSubscribe
      BY <3>5 DEF SignalledSubscribe, Go, MakeNotified, SignalsTypeOK, Kind, Waiting
    <3>6. CASE SignalledCheck
      BY <3>6 DEF SignalledCheck, Go, SignalsTypeOK, Kind, Waiting
    <3>7. CASE WakeTurn("cancel") \/ WakeTurn("pressure")
      BY <3>7 DEF WakeTurn, Go, SignalsTypeOK, Kind, Waiting
    <3>q. QED
      BY <1>12, <3>1, <3>2, <3>3, <3>4, <3>5, <3>6, <3>7
         DEF WaitStep, CancelledStep, SignalledStep
  <2>q. QED
    BY <2>1, <2>2 DEF SignalsTypeOK, shared, worker
<1>13. ASSUME UNCHANGED vars
      PROVE  SignalsTypeOK'
  BY <1>13 DEF SignalsTypeOK, vars, shared, worker
<1>q. QED
  BY <1>1, <1>2, <1>3, <1>4, <1>5, <1>6, <1>7, <1>8, <1>9, <1>10, <1>11, <1>12, <1>13, NextCases

\* Every step keeps the shape of a turn.
LEMMA ShapeStep ==
    ASSUME SignalsTypeOK, TurnShape, [Next]_vars
    PROVE  TurnShape'
<1>1. ASSUME NEW p \in Thread, NEW j \in Job, Request(p, j)
      PROVE  TurnShape'
  BY <1>1 DEF SignalsTypeOK, TurnShape, Kind, InTurn, Request, SignalLater, Idle, worker
<1>2. ASSUME NEW p \in Thread, CancelAll(p)
      PROVE  TurnShape'
  BY <1>2
     DEF SignalsTypeOK, TurnShape, Kind, InTurn, CancelAll, SignalLater, Idle, worker
<1>3. ASSUME NEW p \in Thread, NEW l \in Level, Publish(p, l)
      PROVE  TurnShape'
  BY <1>3 DEF SignalsTypeOK, TurnShape, Kind, InTurn, Publish, worker
<1>4. ASSUME NEW p \in Thread, Collect(p)
      PROVE  TurnShape'
  BY <1>4
     DEF SignalsTypeOK, TurnShape, Kind, InTurn, Collect, SignalLater, Idle, shared,
         worker
<1>5. ASSUME NEW p \in Thread, Swap(p)
      PROVE  TurnShape'
  BY <1>5 DEF SignalsTypeOK, TurnShape, Kind, InTurn, Swap, Idle, worker
<1>6. ASSUME NEW p \in Thread, Notify(p)
      PROVE  TurnShape'
  BY <1>6 DEF SignalsTypeOK, TurnShape, Kind, InTurn, Notify, Idle, worker
<1>7. ASSUME NEW j \in Job, Begin(j)
      PROVE  TurnShape'
  <2>1. token' # NoToken
    BY <1>7, SignalsAssumption DEF Begin, SignalsTypeOK, Token, NoToken
  <2>q. QED
    BY <1>7, <2>1 DEF TurnShape, Begin, shared, InTurn
<1>8. ASSUME RegisterCancel
      PROVE  TurnShape'
  BY <1>8 DEF SignalsTypeOK, TurnShape, Kind, InTurn, RegisterCancel
<1>9. ASSUME RegisterPressure
      PROVE  TurnShape'
  BY <1>9 DEF SignalsTypeOK, TurnShape, Kind, InTurn, RegisterPressure
<1>10. ASSUME Recheck
      PROVE  TurnShape'
  BY <1>10 DEF SignalsTypeOK, TurnShape, Kind, InTurn, Recheck
<1>11. ASSUME NEW terminal \in BOOLEAN, Release(terminal)
      PROVE  TurnShape'
  BY <1>11 DEF SignalsTypeOK, TurnShape, Kind, InTurn, Release
<1>12. ASSUME WaitStep
      PROVE  TurnShape'
  <2>1. UNCHANGED <<shared, thread, worker>>
    BY <1>12, WaitFrame
  <2>2. wait' # NotWaiting => stage = "handling"
    <3>1. CASE EnterSelect \/ LeaveSelect
      BY <3>1 DEF EnterSelect, LeaveSelect
    <3>2. CASE CancelledStep \/ SignalledStep
      <4>1. wait # NotWaiting
        BY <3>2 DEF CancelledStep, CancelledCheck, CancelledSubscribe, SignalledStep,
                    SignalledSubscribe, SignalledCheck, WakeTurn, NotWaiting, Kind
      <4>q. QED
        BY <4>1 DEF TurnShape
    <3>q. QED
      BY <1>12, <3>1, <3>2 DEF WaitStep
  <2>q. QED
    BY <2>1, <2>2 DEF TurnShape, shared, worker
<1>13. ASSUME UNCHANGED vars
      PROVE  TurnShape'
  BY <1>13 DEF SignalsTypeOK, TurnShape, Kind, InTurn, vars, shared, worker
<1>q. QED
  BY <1>1, <1>2, <1>3, <1>4, <1>5, <1>6, <1>7, <1>8, <1>9, <1>10, <1>11, <1>12, <1>13, NextCases

\* Every step keeps flags and notifications in step.
LEMMA NotifiedStep ==
    ASSUME SignalsTypeOK, TurnShape, NotifiedAfterSet, [Next]_vars
    PROVE  NotifiedAfterSet'
<1>1. ASSUME NEW p \in Thread, NEW j \in Job, Request(p, j)
      PROVE  NotifiedAfterSet'
  BY <1>1
     DEF SignalsTypeOK, TurnShape, NotifiedAfterSet, Notifying, Kind, Request, SignalLater,
         Idle, worker
<1>2. ASSUME NEW p \in Thread, CancelAll(p)
      PROVE  NotifiedAfterSet'
  BY <1>2
     DEF SignalsTypeOK, TurnShape, NotifiedAfterSet, Notifying, Kind, CancelAll, SignalLater,
         Idle, worker
<1>3. ASSUME NEW p \in Thread, NEW l \in Level, Publish(p, l)
      PROVE  NotifiedAfterSet'
  BY <1>3 DEF SignalsTypeOK, TurnShape, NotifiedAfterSet, Notifying, Kind, Publish, worker
<1>4. ASSUME NEW p \in Thread, Collect(p)
      PROVE  NotifiedAfterSet'
  BY <1>4
     DEF SignalsTypeOK, TurnShape, NotifiedAfterSet, Notifying, Kind, Collect, SignalLater,
         Idle, shared, worker
<1>5. ASSUME NEW p \in Thread, Swap(p)
      PROVE  NotifiedAfterSet'
  BY <1>5
     DEF SignalsTypeOK, TurnShape, NotifiedAfterSet, Notifying, Kind, Swap, Idle, worker
<1>6. ASSUME NEW p \in Thread, Notify(p)
      PROVE  NotifiedAfterSet'
  BY <1>6
     DEF SignalsTypeOK, TurnShape, NotifiedAfterSet, Notifying, Kind, Notify, Idle, worker
<1>7. ASSUME NEW j \in Job, Begin(j)
      PROVE  NotifiedAfterSet'
  BY <1>7 DEF SignalsTypeOK, TurnShape, NotifiedAfterSet, Notifying, Kind, Begin, shared
<1>8. ASSUME RegisterCancel
      PROVE  NotifiedAfterSet'
  BY <1>8 DEF SignalsTypeOK, TurnShape, NotifiedAfterSet, Notifying, Kind, RegisterCancel
<1>9. ASSUME RegisterPressure
      PROVE  NotifiedAfterSet'
  BY <1>9 DEF SignalsTypeOK, TurnShape, NotifiedAfterSet, Notifying, Kind, RegisterPressure
<1>10. ASSUME Recheck
      PROVE  NotifiedAfterSet'
  BY <1>10 DEF SignalsTypeOK, TurnShape, NotifiedAfterSet, Notifying, Kind, Recheck
<1>11. ASSUME NEW terminal \in BOOLEAN, Release(terminal)
      PROVE  NotifiedAfterSet'
  BY <1>11 DEF SignalsTypeOK, TurnShape, NotifiedAfterSet, Notifying, Kind, Release
<1>12. ASSUME WaitStep
      PROVE  NotifiedAfterSet'
  BY <1>12, WaitFrame
     DEF SignalsTypeOK, TurnShape, NotifiedAfterSet, Notifying, Kind, shared, worker
<1>13. ASSUME UNCHANGED vars
      PROVE  NotifiedAfterSet'
  BY <1>13
     DEF SignalsTypeOK, TurnShape, NotifiedAfterSet, Notifying, Kind, vars, shared, worker
<1>q. QED
  BY <1>1, <1>2, <1>3, <1>4, <1>5, <1>6, <1>7, <1>8, <1>9, <1>10, <1>11, <1>12, <1>13, NextCases

\* Every step keeps a late subscription from going to sleep.
LEMMA CheckedStep ==
    ASSUME SignalsTypeOK, TurnShape, NotifiedAfterSet, CheckedAfterSubscribing, [Next]_vars
    PROVE  CheckedAfterSubscribing'
<1>1. ASSUME NEW p \in Thread, NEW j \in Job, Request(p, j)
      PROVE  CheckedAfterSubscribing'
  BY <1>1
     DEF SignalsTypeOK, TurnShape, CheckedAfterSubscribing, Kind, Request, SignalLater, Idle,
         worker
<1>2. ASSUME NEW p \in Thread, CancelAll(p)
      PROVE  CheckedAfterSubscribing'
  BY <1>2
     DEF SignalsTypeOK, TurnShape, CheckedAfterSubscribing, Kind, CancelAll, SignalLater,
         Idle, worker
<1>3. ASSUME NEW p \in Thread, NEW l \in Level, Publish(p, l)
      PROVE  CheckedAfterSubscribing'
  BY <1>3 DEF SignalsTypeOK, TurnShape, CheckedAfterSubscribing, Kind, Publish, worker
<1>4. ASSUME NEW p \in Thread, Collect(p)
      PROVE  CheckedAfterSubscribing'
  BY <1>4
     DEF SignalsTypeOK, TurnShape, CheckedAfterSubscribing, Kind, Collect, SignalLater, Idle,
         shared, worker
<1>5. ASSUME NEW p \in Thread, Swap(p)
      PROVE  CheckedAfterSubscribing'
  BY <1>5 DEF SignalsTypeOK, TurnShape, CheckedAfterSubscribing, Kind, Swap, Idle, worker
<1>6. ASSUME NEW p \in Thread, Notify(p)
      PROVE  CheckedAfterSubscribing'
  BY <1>6 DEF SignalsTypeOK, TurnShape, CheckedAfterSubscribing, Kind, Notify, Idle, worker
<1>7. ASSUME NEW j \in Job, Begin(j)
      PROVE  CheckedAfterSubscribing'
  <2>1. wait["pressure"] = "none"
    BY <1>7 DEF Begin, TurnShape, NotWaiting, Kind
  <2>q. QED
    BY <1>7, <2>1 DEF Begin, CheckedAfterSubscribing
<1>8. ASSUME RegisterCancel
      PROVE  CheckedAfterSubscribing'
  BY <1>8 DEF SignalsTypeOK, TurnShape, CheckedAfterSubscribing, Kind, RegisterCancel
<1>9. ASSUME RegisterPressure
      PROVE  CheckedAfterSubscribing'
  BY <1>9 DEF SignalsTypeOK, TurnShape, CheckedAfterSubscribing, Kind, RegisterPressure
<1>10. ASSUME Recheck
      PROVE  CheckedAfterSubscribing'
  BY <1>10 DEF SignalsTypeOK, TurnShape, CheckedAfterSubscribing, Kind, Recheck
<1>11. ASSUME NEW terminal \in BOOLEAN, Release(terminal)
      PROVE  CheckedAfterSubscribing'
  BY <1>11 DEF SignalsTypeOK, TurnShape, CheckedAfterSubscribing, Kind, Release
<1>12. ASSUME WaitStep
      PROVE  CheckedAfterSubscribing'
  <2>1. UNCHANGED <<shared, thread, worker>>
    BY <1>12, WaitFrame
  <2>2. CASE EnterSelect \/ LeaveSelect
    BY <2>2 DEF EnterSelect, LeaveSelect, NotWaiting, Kind, CheckedAfterSubscribing
  <2>3. CASE CancelledStep
    BY <2>1, <2>3
       DEF CancelledStep, CancelledCheck, CancelledSubscribe, WakeTurn, Go, MakeNotified,
                      SignalsTypeOK, Kind, shared, worker, CheckedAfterSubscribing
  <2>4. CASE SignalledSubscribe
    BY <2>1, <2>4
       DEF SignalledSubscribe, Go, MakeNotified, SignalsTypeOK, Kind, shared, worker,
                      CheckedAfterSubscribing
  <2>5. CASE SignalledCheck
    BY <2>1, <2>5 DEF SignalledCheck, Set, Go, SignalsTypeOK, Kind, shared, worker,
                      NotifiedAfterSet, CheckedAfterSubscribing
  <2>6. CASE WakeTurn("pressure")
    BY <2>1, <2>6 DEF WakeTurn, Go, SignalsTypeOK, Kind, CheckedAfterSubscribing
  <2>q. QED
    BY <1>12, <2>2, <2>3, <2>4, <2>5, <2>6 DEF WaitStep, SignalledStep
<1>13. ASSUME UNCHANGED vars
      PROVE  CheckedAfterSubscribing'
  BY <1>13 DEF SignalsTypeOK, TurnShape, CheckedAfterSubscribing, Kind, vars, shared, worker
<1>q. QED
  BY <1>1, <1>2, <1>3, <1>4, <1>5, <1>6, <1>7, <1>8, <1>9, <1>10, <1>11, <1>12, <1>13, NextCases

\* No step loses a request or a shutdown.
LEMMA RequestStep ==
    ASSUME SignalsTypeOK, TurnShape, RequestReachesToken, [Next]_vars
    PROVE  RequestReachesToken'
<1>1. ASSUME NEW p \in Thread, NEW j \in Job, Request(p, j)
      PROVE  RequestReachesToken'
  BY <1>1
     DEF SignalsTypeOK, TurnShape, RequestReachesToken, OnItsWay, Set, Kind, InTurn,
         Request, SignalLater, Idle, worker
<1>2. ASSUME NEW p \in Thread, CancelAll(p)
      PROVE  RequestReachesToken'
  BY <1>2
     DEF SignalsTypeOK, TurnShape, RequestReachesToken, OnItsWay, Set, Kind, InTurn,
         CancelAll, SignalLater, Idle, worker
<1>3. ASSUME NEW p \in Thread, NEW l \in Level, Publish(p, l)
      PROVE  RequestReachesToken'
  BY <1>3
     DEF SignalsTypeOK, TurnShape, RequestReachesToken, OnItsWay, Set, Kind, InTurn,
         Publish, worker
<1>4. ASSUME NEW p \in Thread, Collect(p)
      PROVE  RequestReachesToken'
  BY <1>4
     DEF SignalsTypeOK, TurnShape, RequestReachesToken, OnItsWay, Set, Kind, InTurn,
         Collect, SignalLater, Idle, shared, worker
<1>5. ASSUME NEW p \in Thread, Swap(p)
      PROVE  RequestReachesToken'
  BY <1>5
     DEF SignalsTypeOK, TurnShape, RequestReachesToken, OnItsWay, Set, Kind, InTurn,
         Swap, Idle, worker
<1>6. ASSUME NEW p \in Thread, Notify(p)
      PROVE  RequestReachesToken'
  BY <1>6
     DEF SignalsTypeOK, TurnShape, RequestReachesToken, OnItsWay, Set, Kind, InTurn,
         Notify, Idle, worker
<1>7. ASSUME NEW j \in Job, Begin(j)
      PROVE  RequestReachesToken'
  BY <1>7
     DEF SignalsTypeOK, TurnShape, RequestReachesToken, OnItsWay, Set, Kind, InTurn,
         Begin, shared
<1>8. ASSUME RegisterCancel
      PROVE  RequestReachesToken'
  BY <1>8
     DEF SignalsTypeOK, TurnShape, RequestReachesToken, OnItsWay, Set, Kind, InTurn,
         RegisterCancel
<1>9. ASSUME RegisterPressure
      PROVE  RequestReachesToken'
  BY <1>9
     DEF SignalsTypeOK, TurnShape, RequestReachesToken, OnItsWay, Set, Kind, InTurn,
         RegisterPressure
<1>10. ASSUME Recheck
      PROVE  RequestReachesToken'
  BY <1>10
     DEF SignalsTypeOK, TurnShape, RequestReachesToken, OnItsWay, Set, Kind, InTurn,
         Recheck
<1>11. ASSUME NEW terminal \in BOOLEAN, Release(terminal)
      PROVE  RequestReachesToken'
  BY <1>11
     DEF SignalsTypeOK, TurnShape, RequestReachesToken, OnItsWay, Set, Kind, InTurn,
         Release
<1>12. ASSUME WaitStep
      PROVE  RequestReachesToken'
  BY <1>12, WaitFrame
     DEF SignalsTypeOK, TurnShape, RequestReachesToken, OnItsWay, Set, Kind, InTurn,
         shared, worker
<1>13. ASSUME UNCHANGED vars
      PROVE  RequestReachesToken'
  BY <1>13
     DEF SignalsTypeOK, TurnShape, RequestReachesToken, OnItsWay, Set, Kind, InTurn,
         vars, shared, worker
<1>q. QED
  BY <1>1, <1>2, <1>3, <1>4, <1>5, <1>6, <1>7, <1>8, <1>9, <1>10, <1>11, <1>12, <1>13, NextCases

\* No step loses a critical observation.
LEMMA CriticalStep ==
    ASSUME SignalsTypeOK, TurnShape, CriticalReachesToken, [Next]_vars
    PROVE  CriticalReachesToken'
<1>1. ASSUME NEW p \in Thread, NEW j \in Job, Request(p, j)
      PROVE  CriticalReachesToken'
  BY <1>1
     DEF SignalsTypeOK, TurnShape, CriticalReachesToken, OnItsWay, Set, Kind, Request,
         SignalLater, Idle, worker
<1>2. ASSUME NEW p \in Thread, CancelAll(p)
      PROVE  CriticalReachesToken'
  BY <1>2
     DEF SignalsTypeOK, TurnShape, CriticalReachesToken, OnItsWay, Set, Kind, CancelAll,
         SignalLater, Idle, worker
<1>3. ASSUME NEW p \in Thread, NEW l \in Level, Publish(p, l)
      PROVE  CriticalReachesToken'
  BY <1>3
     DEF SignalsTypeOK, TurnShape, CriticalReachesToken, OnItsWay, Set, Kind, Publish, worker
<1>4. ASSUME NEW p \in Thread, Collect(p)
      PROVE  CriticalReachesToken'
  BY <1>4
     DEF SignalsTypeOK, TurnShape, CriticalReachesToken, OnItsWay, Set, Kind, Collect,
         SignalLater, Idle, shared, worker
<1>5. ASSUME NEW p \in Thread, Swap(p)
      PROVE  CriticalReachesToken'
  BY <1>5
     DEF SignalsTypeOK, TurnShape, CriticalReachesToken, OnItsWay, Set, Kind, Swap, Idle,
         worker
<1>6. ASSUME NEW p \in Thread, Notify(p)
      PROVE  CriticalReachesToken'
  BY <1>6
     DEF SignalsTypeOK, TurnShape, CriticalReachesToken, OnItsWay, Set, Kind, Notify, Idle,
         worker
<1>7. ASSUME NEW j \in Job, Begin(j)
      PROVE  CriticalReachesToken'
  BY <1>7
     DEF SignalsTypeOK, TurnShape, CriticalReachesToken, OnItsWay, Set, Kind, Begin, shared
<1>8. ASSUME RegisterCancel
      PROVE  CriticalReachesToken'
  BY <1>8
     DEF SignalsTypeOK, TurnShape, CriticalReachesToken, OnItsWay, Set, Kind, RegisterCancel
<1>9. ASSUME RegisterPressure
      PROVE  CriticalReachesToken'
  BY <1>9
     DEF SignalsTypeOK, TurnShape, CriticalReachesToken, OnItsWay, Set, Kind,
         RegisterPressure
<1>10. ASSUME Recheck
      PROVE  CriticalReachesToken'
  BY <1>10 DEF SignalsTypeOK, TurnShape, CriticalReachesToken, OnItsWay, Set, Kind, Recheck
<1>11. ASSUME NEW terminal \in BOOLEAN, Release(terminal)
      PROVE  CriticalReachesToken'
  BY <1>11 DEF SignalsTypeOK, TurnShape, CriticalReachesToken, OnItsWay, Set, Kind, Release
<1>12. ASSUME WaitStep
      PROVE  CriticalReachesToken'
  BY <1>12, WaitFrame
     DEF SignalsTypeOK, TurnShape, CriticalReachesToken, OnItsWay, Set, Kind, shared, worker
<1>13. ASSUME UNCHANGED vars
      PROVE  CriticalReachesToken'
  BY <1>13
     DEF SignalsTypeOK, TurnShape, CriticalReachesToken, OnItsWay, Set, Kind, vars, shared,
         worker
<1>q. QED
  BY <1>1, <1>2, <1>3, <1>4, <1>5, <1>6, <1>7, <1>8, <1>9, <1>10, <1>11, <1>12, <1>13, NextCases

\* At every granularity the code's threads can interleave in, no request, no
\* shutdown and no critical observation misses the turn it is meant for, and no
\* wait for storage pressure sleeps through its signal (register, request,
\* cancel_all, update, StoragePressureToken::signalled), for any jobs, threads
\* and number of turns.
THEOREM SignalsReachTurns == Spec => []TurnsAreSignalled
<1>1. Init => SignalsInv
  <2> SUFFICES ASSUME Init
               PROVE  SignalsInv
    OBVIOUS
  <2>1. SignalsTypeOK
    BY DEF Init, SignalsTypeOK, NotWaiting, Idle, Kind, Level, Waiting
  <2>2. TurnShape
    BY DEF Init, TurnShape, InTurn, Idle, Kind
  <2>3. NotifiedAfterSet /\ CheckedAfterSubscribing
    BY DEF Init, NotifiedAfterSet, CheckedAfterSubscribing, NotWaiting, Idle, Kind
  <2>4. RequestReachesToken /\ CriticalReachesToken
    BY DEF Init, RequestReachesToken, CriticalReachesToken, Kind
  <2>q. QED
    BY <2>1, <2>2, <2>3, <2>4 DEF SignalsInv
<1>2. SignalsInv /\ [Next]_vars => SignalsInv'
  <2> SUFFICES ASSUME SignalsInv, [Next]_vars
               PROVE  SignalsInv'
    OBVIOUS
  <2>q. QED
    BY TypeStep, ShapeStep, NotifiedStep, CheckedStep, RequestStep, CriticalStep
       DEF SignalsInv
<1>3. SignalsInv => TurnsAreSignalled
  <2> SUFFICES ASSUME SignalsInv
               PROVE  WakeupIsComing
    BY DEF SignalsInv, TurnsAreSignalled
  <2>q. QED
    BY
       DEF SignalsInv, NotifiedAfterSet, Notifying, CheckedAfterSubscribing, WakeupIsComing,
           Set
<1>q. QED
  BY <1>1, <1>2, <1>3, PTL DEF Spec

-----------------------------------------------------------------------------
(* Pacing.                                                                  *)

\* The steps and the invariant.

Place == {"new", "evaluate", "flight", "follow", "resolve", "enter", "loop", "inspect",
          "decided", "sleep", "granted", "fetching", "loading", "store", "admitted",
          "unwind", "done"}
Waits == {"loop", "inspect", "decided", "sleep", "granted"}

Reference  == Objects \cup {NoObject}
GuardValue == [kind : {"page", "flight", "fetch", "waiter", "permit"}, object : Reference]
Policy     == [kind : PolicyKind \cup {"none"}, delay : Nat, left : Nat]
TaskValue  == [pc : Place, guards : Seq(GuardValue), woken : BOOLEAN, notify : Reference,
               until : Nat \cup {-1}, leader : Tasks \cup {NoTask}, policy : Policy, floor : {0, 1}]
StateValue == [registrations : SUBSET (Tasks \X {"page", "fetch"}), in_flight : Nat, waiting : Nat,
               next : Nat, backoff : Nat, retry : Nat, limits : Nat]

Typed ==
    /\ registry \in [Origins -> Reference]
    /\ states \in [Objects -> StateValue]
    /\ task \in [Tasks -> TaskValue]
    /\ cache \in [Origins -> Policy]
    /\ flights \in [Origins -> Tasks \cup {NoTask}]
    /\ quiet \in [Origins -> Nat]

\* A stack of n guards: a page, and on it a robots fetch under its flight, or
\* none; on top of either a waiter or a permit.
StackShape(g, n, x) ==
    /\ g \in Seq(GuardValue) /\ n = Len(g)
    /\ n >= 1 => x # NoObject /\ g[1] = Guard("page", x)
    /\ n >= 2 => g[2] \in {Guard("flight", NoObject), Guard("waiter", x), Guard("permit", x)}
    /\ n >= 3 => g[2] = Guard("flight", NoObject) /\ g[3] = Guard("fetch", x)
    /\ n = 4 => g[4] \in {Guard("waiter", x), Guard("permit", x)}

\* What a task that holds n guards may be doing.
Fits(r, n) ==
    /\ r.pc \in {"new", "done"} => n = 0
    /\ r.pc \in {"evaluate", "flight", "follow", "admitted"} => n = 1
    /\ r.pc = "resolve" => n = 2 /\ r.guards[2].kind = "flight"
    /\ r.pc = "enter" => n \in {1, 3}
    /\ r.pc \in Waits => n \in {2, 4} /\ r.guards[n].kind = "waiter" /\ r.notify = NoObject
    /\ r.pc \in {"fetching", "store"} => n = 4 /\ r.guards[4].kind = "permit"
    /\ r.pc = "loading" => n = 2 /\ r.guards[2].kind = "permit"
    /\ r.floor = 1 => r.pc = "unwind" /\ n >= 1
Holds(r, n, x) == StackShape(r.guards, n, x) /\ Fits(r, n)
TaskShape(r, x) == \E n \in 0..4 : Holds(r, n, x)
Stacked == \A t \in Tasks : TaskShape(task[t], registry[Target[t]])

\* No pause called for is longer than a deadline of the origin's state.
Paused ==
    \A o \in Origins : quiet[o] # 0 =>
        /\ registry[o] # NoObject
        /\ \/ quiet[o] <= states[registry[o]].next
           \/ quiet[o] <= states[registry[o]].backoff
           \/ quiet[o] <= states[registry[o]].retry

RegistryBounded == IsFiniteSet(Registered) /\ Cardinality(Registered) <= Capacity
Cached == {o \in Origins : cache[o].left > 0}
CacheBounded == IsFiniteSet(Cached) /\ Cardinality(Cached) <= CacheCapacity

PacingInv ==
    /\ Typed
    /\ Stacked
    /\ CapacityAccounted
    /\ OneFlightPerOrigin
    /\ NoLostWakeup
    /\ Paused
    /\ RegistryBounded
    /\ CacheBounded

\* One task's record is replaced.
Turns(t, r) == r \in TaskValue /\ task' = [task EXCEPT ![t] = r]
-----------------------------------------------------------------------------
\* Numbers.

LEMMA LessIsLess ==
    /\ \A n \in Nat : Less(n) \in Nat /\ Less(n) <= n
    /\ \A m, n \in Nat : m <= n => Less(m) <= Less(n)
    /\ \A n \in Nat \cup {-1} : Less(n) \in Nat \cup {-1} /\ (n # -1 => Less(n) # -1) /\ (n = -1 => Less(n) = -1)
  BY DEF Less

LEMMA BackoffIsNat ==
    ASSUME PacingConstants, NEW n \in Nat \ {0}
    PROVE  Backoff(n) \in Nat
<1> DEFINE k == Min2(n - 1, 6)
<1>1. k \in 0..6
  BY DEF Min2
<1>2. 2^0 \in Nat /\ 2^1 \in Nat /\ 2^2 \in Nat /\ 2^3 \in Nat /\ 2^4 \in Nat /\ 2^5 \in Nat /\ 2^6 \in Nat
  OBVIOUS
<1>3. k = 0 \/ k = 1 \/ k = 2 \/ k = 3 \/ k = 4 \/ k = 5 \/ k = 6
  BY <1>1
<1>4. 2^k \in Nat
  BY <1>2, <1>3, Zenon
<1> DEFINE p == 2^k
<1>5. p \in Nat
  BY <1>4
<1>6. Backoff(n) = Min2(BackoffBase * p, MaxBackoff)
  BY DEF Backoff
<1> HIDE DEF k, p
<1>7. BackoffBase \in Nat /\ MaxBackoff \in Nat
  BY DEF PacingConstants
<1>8. BackoffBase * p \in Nat
  BY <1>5, <1>7
<1> QED
  BY <1>6, <1>7, <1>8 DEF Min2

LEMMA PauseIsNat ==
    ASSUME PacingConstants, NEW s \in StateValue, NEW c \in Outcomes
    PROVE  /\ Recorded(s, c) \in StateValue /\ Pause(s, c) \in Nat
           /\ Recorded(s, c).registrations = s.registrations
           /\ Recorded(s, c).in_flight = s.in_flight /\ Recorded(s, c).waiting = s.waiting
           /\ Recorded(s, c).next = s.next
           /\ Recorded(s, c).backoff >= s.backoff /\ Recorded(s, c).retry >= s.retry
           /\ Pause(s, c) <= Recorded(s, c).backoff \/ Pause(s, c) <= Recorded(s, c).retry
<1>1. s.limits + 1 \in Nat \ {0}
  BY DEF StateValue
<1>2. Backoff(s.limits + 1) \in Nat
  BY <1>1, BackoffIsNat
<1>3. CASE c.kind = "success"
  BY <1>3 DEF Recorded, Pause, StateValue
<1>4. CASE c.kind = "failed"
  BY <1>4 DEF Recorded, Pause, StateValue
<1>5. ASSUME NEW r \in RetryAfters, c = [kind |-> "limited", after |-> r]
      PROVE  /\ Recorded(s, c) \in StateValue /\ Pause(s, c) \in Nat
             /\ Recorded(s, c).registrations = s.registrations
             /\ Recorded(s, c).in_flight = s.in_flight /\ Recorded(s, c).waiting = s.waiting
             /\ Recorded(s, c).next = s.next
             /\ Recorded(s, c).backoff >= s.backoff /\ Recorded(s, c).retry >= s.retry
             /\ Pause(s, c) <= Recorded(s, c).backoff \/ Pause(s, c) <= Recorded(s, c).retry
  <2>1. r \in Nat /\ MaxDelay \in Nat
    BY DEF PacingConstants
  <2>2. RetryAfter(c.after) \in Nat
    BY <1>5, <2>1 DEF RetryAfter, Min2
  <2> DEFINE b == Backoff(s.limits + 1)
             a == RetryAfter(c.after)
  <2>3. /\ c.kind = "limited"
        /\ Recorded(s, c) = [s EXCEPT !.limits = @ + 1, !.backoff = Max2(@, b), !.retry = Max2(@, a)]
        /\ Pause(s, c) = Max2(b, a)
    BY <1>5 DEF Recorded, Pause
  <2>4. b \in Nat /\ a \in Nat
    BY <1>2, <2>2
  <2> HIDE DEF b, a
  <2>5. /\ s.backoff \in Nat /\ s.retry \in Nat /\ s.limits + 1 \in Nat
    BY DEF StateValue
  <2>6. /\ Max2(s.backoff, b) \in Nat /\ Max2(s.backoff, b) >= s.backoff /\ Max2(s.backoff, b) >= b
        /\ Max2(s.retry, a) \in Nat /\ Max2(s.retry, a) >= s.retry /\ Max2(s.retry, a) >= a
        /\ Max2(b, a) \in {b, a}
    BY <2>4, <2>5 DEF Max2
  <2> HIDE DEF b, a
  <2>7. /\ Recorded(s, c) \in StateValue
        /\ Recorded(s, c).registrations = s.registrations
        /\ Recorded(s, c).in_flight = s.in_flight /\ Recorded(s, c).waiting = s.waiting
        /\ Recorded(s, c).next = s.next
        /\ Recorded(s, c).backoff = Max2(s.backoff, b) /\ Recorded(s, c).retry = Max2(s.retry, a)
    BY <2>3, <2>5, <2>6 DEF StateValue
  <2> QED
    BY <2>3, <2>4, <2>6, <2>7
<1> QED
  BY <1>3, <1>4, <1>5 DEF Outcomes

LEMMA LatestIsNat ==
    ASSUME NEW s \in StateValue
    PROVE  LatestDeadline(s) \in Nat
<1> DEFINE S == {s.next, s.backoff, s.retry}
<1>1. S \subseteq Nat /\ s.next \in Nat /\ s.backoff \in Nat /\ s.retry \in Nat
  BY DEF StateValue
<1>2. \E m \in S : \A n \in S : m >= n
  BY <1>1
<1>3. LatestDeadline(s) \in S
  BY <1>2 DEF LatestDeadline, Max
<1> QED
  BY <1>1, <1>3
-----------------------------------------------------------------------------
\* Stacks.

LEMMA GuardIs ==
    ASSUME NEW k, NEW x
    PROVE  Guard(k, x).kind = k /\ Guard(k, x).object = x
  BY DEF Guard

\* One stack is another of n guards, and e on it.
Extends(h, g, n, e) == h[n + 1] = e /\ \A i \in 1..n : h[i] = g[i]

\* The guards a task may take next.
MayPush(g, n, x, e) ==
    \/ n = 0 /\ x # NoObject /\ e = Guard("page", x)
    \/ n = 1 /\ e \in {Guard("flight", NoObject), Guard("waiter", x), Guard("permit", x)}
    \/ n = 2 /\ g[2].kind = "flight" /\ e = Guard("fetch", x)
    \/ n = 3 /\ e \in {Guard("waiter", x), Guard("permit", x)}

LEMMA PushShape ==
    ASSUME NEW g, NEW n \in 0..3, NEW x \in Reference, StackShape(g, n, x), NEW e, MayPush(g, n, x, e)
    PROVE  StackShape(Append(g, e), n + 1, x) /\ Extends(Append(g, e), g, n, e)
<1>3. PICK h : h = Append(g, e)
  OBVIOUS
<1> USE DEF MayPush
<1>1. g \in Seq(GuardValue) /\ n = Len(g)
  BY DEF StackShape
<1>2. e \in GuardValue
  BY DEF GuardValue, Guard, Reference
<1>4. /\ h \in Seq(GuardValue) /\ Len(h) = n + 1 /\ h[n + 1] = e
      /\ \A i \in 1..n : h[i] = g[i]
  BY <1>1, <1>2, <1>3, AppendProperties
<1>9. Extends(h, g, n, e)
  BY <1>4 DEF Extends
<1>5. ASSUME n = 0 PROVE StackShape(h, n + 1, x)
  BY <1>4, <1>5 DEF StackShape
<1>6. ASSUME n = 1 PROVE StackShape(h, n + 1, x)
  <2>1. x # NoObject /\ g[1] = Guard("page", x)
    BY <1>6 DEF StackShape
  <2>2. h[1] = g[1] /\ h[2] = e
    BY <1>4, <1>6
  <2>3. e \in {Guard("flight", NoObject), Guard("waiter", x), Guard("permit", x)}
    BY <1>6
  <2> QED
    BY <1>4, <1>6, <2>1, <2>2, <2>3 DEF StackShape
<1>7. ASSUME n = 2 PROVE StackShape(h, n + 1, x)
  <2>1. g[2] = Guard("flight", NoObject) /\ g[1] = Guard("page", x) /\ x # NoObject
    BY <1>7, GuardIs DEF StackShape
  <2>2. h[1] = g[1] /\ h[2] = g[2] /\ h[3] = Guard("fetch", x)
    BY <1>4, <1>7
  <2> QED
    BY <1>4, <1>7, <2>1, <2>2 DEF StackShape
<1>8. ASSUME n = 3 PROVE StackShape(h, n + 1, x)
  <2>1. g[2] = Guard("flight", NoObject) /\ g[1] = Guard("page", x) /\ x # NoObject /\ g[3] = Guard("fetch", x)
    BY <1>8 DEF StackShape
  <2>2. h[1] = g[1] /\ h[2] = g[2] /\ h[3] = g[3] /\ h[4] = e
    BY <1>4, <1>8
  <2>3. e \in {Guard("waiter", x), Guard("permit", x)}
    BY <1>8
  <2> QED
    BY <1>4, <1>8, <2>1, <2>2, <2>3 DEF StackShape
<1>10. StackShape(h, n + 1, x)
  BY <1>5, <1>6, <1>7, <1>8
<1> QED
  BY <1>3, <1>9, <1>10, Zenon

LEMMA PopShape ==
    ASSUME NEW g, NEW n \in 0..3, NEW x \in Reference, StackShape(g, n + 1, x)
    PROVE  LET h == SubSeq(g, 1, Len(g) - 1)
           IN  StackShape(h, n, x) /\ Extends(g, h, n, g[n + 1])
<1>1. g \in Seq(GuardValue) /\ n = Len(g) - 1 /\ Len(g) = n + 1
  BY DEF StackShape
<1>4. \A i \in 1..n : g[i] \in GuardValue
  BY <1>1, ElementOfSeq
<1> DEFINE h == SubSeq(g, 1, n)
<1>5. h = SubSeq(g, 1, Len(g) - 1)
  BY <1>1
<1>7. /\ h \in Seq(GuardValue) /\ Len(h) = IF 1 <= n THEN n - 1 + 1 ELSE 0
      /\ \A i \in 1..n - 1 + 1 : h[i] = g[1 + i - 1]
  BY <1>4, SubSeqProperties
<1> HIDE DEF h
<1>2. /\ h \in Seq(GuardValue) /\ Len(h) = n
      /\ \A i \in 1..n : h[i] = g[i]
  BY <1>7
<1>3. StackShape(h, n, x) /\ Extends(g, h, n, g[n + 1])
  BY <1>2 DEF StackShape, Extends
<1> QED
  BY <1>3, <1>5

LEMMA StackOf ==
    ASSUME NEW g, NEW n \in 0..4, NEW x \in Reference, StackShape(g, n, x)
    PROVE  /\ g \in Seq(GuardValue) /\ n = Len(g) /\ DOMAIN g = 1..n
           /\ \A i \in 1..n : g[i] \in GuardValue
           /\ \A i \in 1..n : g[i].kind # "flight" => g[i] = Guard(g[i].kind, x) /\ x \in Objects
           /\ \A i \in 1..n : g[i].kind = "flight" <=> i = 2 /\ (n >= 3 \/ g[2].kind = "flight")
           /\ \A i \in 1..n : g[i].kind = "flight" => g[i] = Guard("flight", NoObject)
           /\ \A i \in 1..n : g[i].kind = "page" <=> i = 1
           /\ \A i \in 1..n : g[i].kind = "fetch" <=> i = 3
           /\ \A i \in 1..n : g[i].kind \in {"waiter", "permit"} => i = n
           /\ n = 4 => g[4].kind \in {"waiter", "permit"}
<1>1. g \in Seq(GuardValue) /\ n = Len(g)
  BY DEF StackShape
<1>3. DOMAIN g = 1..n
  BY <1>1, LenProperties
<1>4. \A i \in 1..n : g[i] \in GuardValue
  BY <1>1, ElementOfSeq
<1>5. ASSUME NEW i \in 1..n
      PROVE  /\ g[i].kind # "flight" => g[i] = Guard(g[i].kind, x) /\ x \in Objects
             /\ g[i].kind = "flight" <=> i = 2 /\ (n >= 3 \/ g[2].kind = "flight")
             /\ g[i].kind = "flight" => g[i] = Guard("flight", NoObject)
             /\ g[i].kind = "page" <=> i = 1
             /\ g[i].kind = "fetch" <=> i = 3
             /\ g[i].kind \in {"waiter", "permit"} => i = n
  <2>0. x \in Objects
    BY <1>5 DEF StackShape, Reference
  <2>1. CASE i = 1
    <3>1. g[1] = Guard("page", x)
      BY <2>1 DEF StackShape
    <3> QED
      BY <2>0, <2>1, <3>1, GuardIs
  <2>2. CASE i = 2
    <3>1. g[2] \in {Guard("flight", NoObject), Guard("waiter", x), Guard("permit", x)}
      BY <2>2 DEF StackShape
    <3>2. n >= 3 => g[2] = Guard("flight", NoObject)
      BY DEF StackShape
    <3>3. n >= 3 \/ n = 2
      BY <2>2
    <3> QED
      BY <2>0, <2>2, <3>1, <3>2, <3>3, GuardIs
  <2>3. CASE i = 3
    <3>1. g[3] = Guard("fetch", x)
      BY <2>3 DEF StackShape
    <3> QED
      BY <2>0, <2>3, <3>1, GuardIs
  <2>4. CASE i = 4
    <3>1. g[4] \in {Guard("waiter", x), Guard("permit", x)} /\ n = 4
      BY <2>4 DEF StackShape
    <3> QED
      BY <2>0, <2>4, <3>1, GuardIs
  <2> QED
    BY <2>1, <2>2, <2>3, <2>4
<1>6. n = 4 => g[4].kind \in {"waiter", "permit"}
  BY GuardIs DEF StackShape
<1> QED
  BY <1>1, <1>3, <1>4, <1>5, <1>6
Spans(g, n) == DOMAIN g = 1..n
LEMMA SpanOf ==
    ASSUME NEW g, NEW n \in 0..4, NEW x \in Reference, StackShape(g, n, x)
    PROVE  Spans(g, n)
<1>1. DOMAIN g = 1..n
  BY StackOf
<1> QED
  BY <1>1 DEF Spans
-----------------------------------------------------------------------------
\* What a step makes of its task.

LEMMA HolderOf ==
    ASSUME PacingConstants, Typed, Stacked, NEW t \in Tasks
    PROVE  /\ Target[t] \in Origins /\ registry[Target[t]] \in Reference /\ task[t] \in TaskValue
           /\ \E n \in 0..4 : Holds(task[t], n, registry[Target[t]])
  BY DEF PacingConstants, Typed, Stacked, TaskShape

\* The guard on top of a stack of n.
LEMMA TopIs ==
    ASSUME NEW t \in Tasks, NEW n \in 1..4, NEW x \in Reference, StackShape(task[t].guards, n, x)
    PROVE  /\ Top(t) = task[t].guards[n] /\ Object(t) = Top(t).object
           /\ Top(t).kind # "flight" => Top(t) = Guard(Top(t).kind, x) /\ Object(t) = x /\ x \in Objects
           /\ Top(t).kind = "flight" => Top(t) = Guard("flight", NoObject)
           /\ Top(t) \in GuardValue
<1> DEFINE g == task[t].guards
<1>1. n \in 0..4 /\ n \in 1..n
  OBVIOUS
<1>2. /\ n = Len(g) /\ \A i \in 1..n : g[i] \in GuardValue
      /\ \A i \in 1..n : g[i].kind # "flight" => g[i] = Guard(g[i].kind, x) /\ x \in Objects
      /\ \A i \in 1..n : g[i].kind = "flight" => g[i] = Guard("flight", NoObject)
  BY <1>1, StackOf
<1>3. /\ g[n] \in GuardValue
      /\ g[n].kind # "flight" => g[n] = Guard(g[n].kind, x) /\ x \in Objects
      /\ g[n].kind = "flight" => g[n] = Guard("flight", NoObject)
  BY <1>1, <1>2
<1>4. Top(t) = g[n] /\ Object(t) = Top(t).object
  BY <1>2 DEF Top, Object
<1> QED
  BY <1>3, <1>4, GuardIs

LEMMA FetchingIs ==
    ASSUME NEW t \in Tasks, NEW n \in 0..4, NEW x \in Reference, StackShape(task[t].guards, n, x)
    PROVE  /\ Fetching(t) <=> n >= 3
           /\ Holding(t, {"permit"}) # {} <=> n >= 1 /\ task[t].guards[n].kind = "permit"
           /\ Holding(t, {"flight"}) # {} <=> n >= 2 /\ task[t].guards[2].kind = "flight"
           /\ Holding(t, {"page", "fetch"}) # {} <=> n >= 1
<1> DEFINE g == task[t].guards
<1>1. /\ DOMAIN g = 1..n
      /\ \A i \in 1..n : g[i].kind = "flight" <=> i = 2 /\ (n >= 3 \/ g[2].kind = "flight")
      /\ \A i \in 1..n : g[i].kind = "page" <=> i = 1
      /\ \A i \in 1..n : g[i].kind = "fetch" <=> i = 3
      /\ \A i \in 1..n : g[i].kind \in {"waiter", "permit"} => i = n
  BY StackOf
<1>2. \A K : Holding(t, K) = {i \in 1..n : g[i].kind \in K}
  BY <1>1 DEF Holding
<1> HIDE DEF g
<1>3. Fetching(t) <=> n >= 3
  BY <1>1, <1>2 DEF Fetching
<1>4. Holding(t, {"permit"}) # {} <=> n >= 1 /\ g[n].kind = "permit"
  BY <1>1, <1>2
<1>5. Holding(t, {"flight"}) # {} <=> n >= 2 /\ g[2].kind = "flight"
  BY <1>1, <1>2
<1>6. Holding(t, {"page", "fetch"}) # {} <=> n >= 1
  BY <1>1, <1>2
<1> QED
  BY <1>3, <1>4, <1>5, <1>6 DEF g

\* The steps of a task that keep its guards, but for the end of an unwinding.
KeepStep(t) ==
    \/ Enable(t) \/ Inspect(t) \/ Await(t) \/ Wake(t)
    \/ Evaluate(t) \/ (JoinFlight(t) /\ flights[Target[t]] # NoTask) \/ Follow(t)
    \/ RobotsFetched(t) \/ RobotsUnavailable(t) \/ StorePolicy(t) \/ Admitted(t)
    \/ PageLoaded(t) \/ Cancel(t)
Keeps(t, r) == Turns(t, r) /\ r.guards = task[t].guards /\ TaskShape(r, registry[Target[t]])

LEMMA KeepTurns ==
    ASSUME PacingConstants, Typed, Stacked, NEW t \in Tasks, KeepStep(t)
    PROVE  \E r : Keeps(t, r)
<1> DEFINE q == task[t]
           x == registry[Target[t]]
<1>1. q \in TaskValue /\ x \in Reference /\ Target[t] \in Origins
  BY HolderOf
<1>2. PICK n \in 0..4 : StackShape(q.guards, n, x) /\ Fits(q, n)
  BY HolderOf DEF Holds
<1>3. ASSUME NEW r \in TaskValue, task' = [task EXCEPT ![t] = r], r.guards = q.guards, Fits(r, n)
      PROVE  \E s : Keeps(t, s)
  BY <1>2, <1>3 DEF Keeps, Turns, TaskShape, Holds
<1>4. n > 0 => Object(t) \in Reference
  BY <1>1, <1>2, TopIs DEF GuardValue
<1>5. q.pc \in {"fetching", "loading"} => n > 0
  BY <1>2 DEF Fits
<1>6. CASE Enable(t)
  <2> DEFINE r == [q EXCEPT !.pc = "inspect"]
  <2>1. r \in TaskValue /\ task' = [task EXCEPT ![t] = r] /\ r.guards = q.guards
    BY <1>1, <1>6 DEF Enable, Goto, TaskValue, Place
  <2>2. Fits(r, n)
    BY <1>1, <1>2, <1>6 DEF Fits, Enable, At, TaskValue, Waits
  <2> QED
    BY <1>3, <2>1, <2>2
<1>7. CASE Inspect(t)
  <2>1. CASE Admits(t, states[Object(t)])
    <3> DEFINE r == [q EXCEPT !.pc = "granted", !.woken = FALSE]
    <3>1. r \in TaskValue /\ task' = [task EXCEPT ![t] = r] /\ r.guards = q.guards
      BY <1>1, <1>7, <2>1 DEF Inspect, TaskValue, Place, Typed
    <3>2. Fits(r, n)
      BY <1>1, <1>2, <1>7 DEF Fits, Inspect, At, TaskValue, Waits
    <3> QED
      BY <1>3, <3>1, <3>2
  <2>2. CASE ~Admits(t, states[Object(t)])
    <3>0. Object(t) \in Objects
      BY <1>1, <1>2, <1>7, TopIs DEF Fits, Inspect, At, Waits
    <3>1. PICK u \in Nat \cup {-1} : u = IF Expired(states[Object(t)]) THEN -1 ELSE LatestDeadline(states[Object(t)])
      BY <3>0, LatestIsNat DEF Typed
    <3> DEFINE r == [q EXCEPT !.pc = "decided", !.until = u]
    <3>2. r \in TaskValue /\ task' = [task EXCEPT ![t] = r] /\ r.guards = q.guards
      BY <1>1, <1>7, <2>2, <3>1 DEF Inspect, TaskValue, Place, Typed
    <3>3. Fits(r, n)
      BY <1>1, <1>2, <1>7 DEF Fits, Inspect, At, TaskValue, Waits
    <3> QED
      BY <1>3, <3>2, <3>3
  <2> QED
    BY <2>1, <2>2
<1>8. CASE Await(t)
  <2> DEFINE r == [q EXCEPT !.pc = "sleep"]
  <2>1. r \in TaskValue /\ task' = [task EXCEPT ![t] = r] /\ r.guards = q.guards
    BY <1>1, <1>8 DEF Await, Goto, TaskValue, Place
  <2>2. Fits(r, n)
    BY <1>1, <1>2, <1>8 DEF Fits, Await, At, TaskValue, Waits
  <2> QED
    BY <1>3, <2>1, <2>2
<1>9. CASE Wake(t)
  <2> DEFINE r == [q EXCEPT !.pc = "loop", !.woken = FALSE, !.until = -1]
  <2>1. r \in TaskValue /\ task' = [task EXCEPT ![t] = r] /\ r.guards = q.guards
    BY <1>1, <1>9 DEF Wake, TaskValue, Place, Typed
  <2>2. Fits(r, n)
    BY <1>1, <1>2, <1>9 DEF Fits, Wake, At, TaskValue, Waits
  <2> QED
    BY <1>3, <2>1, <2>2
<1>10. CASE Evaluate(t)
  <2>1. CASE cache[Target[t]].left > 0
    <3>1. PICK p \in Policy : p = [cache[Target[t]] EXCEPT !.left = 0]
      BY <1>1 DEF Typed, Policy
    <3> DEFINE r == [q EXCEPT !.pc = "admitted", !.policy = p]
    <3>2. r \in TaskValue /\ task' = [task EXCEPT ![t] = r] /\ r.guards = q.guards
      BY <1>1, <1>10, <2>1, <3>1 DEF Evaluate, TaskValue, Place, Typed
    <3>3. Fits(r, n)
      BY <1>1, <1>2, <1>10 DEF Fits, Evaluate, At, TaskValue, Waits
    <3> QED
      BY <1>3, <3>2, <3>3
  <2>2. CASE ~(cache[Target[t]].left > 0)
    <3> DEFINE r == [q EXCEPT !.pc = "flight"]
    <3>2. r \in TaskValue /\ task' = [task EXCEPT ![t] = r] /\ r.guards = q.guards
      BY <1>1, <1>10, <2>2 DEF Evaluate, Goto, TaskValue, Place, Typed
    <3>3. Fits(r, n)
      BY <1>1, <1>2, <1>10 DEF Fits, Evaluate, At, TaskValue, Waits
    <3> QED
      BY <1>3, <3>2, <3>3
  <2> QED
    BY <2>1, <2>2
<1>11. CASE JoinFlight(t) /\ flights[Target[t]] # NoTask
  <2> DEFINE r == [q EXCEPT !.pc = "follow", !.leader = flights[Target[t]]]
  <2>1. flights[Target[t]] \in Tasks \cup {NoTask}
    BY <1>1 DEF Typed
  <2>2. r \in TaskValue /\ task' = [task EXCEPT ![t] = r] /\ r.guards = q.guards
    BY <1>1, <1>11, <2>1 DEF JoinFlight, TaskValue, Place, Typed
  <2>3. Fits(r, n)
    BY <1>1, <1>2, <1>11 DEF Fits, JoinFlight, At, TaskValue, Waits
  <2> QED
    BY <1>3, <2>2, <2>3
<1>12. CASE Follow(t)
  <2> DEFINE r == [q EXCEPT !.pc = "evaluate", !.leader = NoTask]
  <2>1. r \in TaskValue /\ task' = [task EXCEPT ![t] = r] /\ r.guards = q.guards
    BY <1>1, <1>12 DEF Follow, TaskValue, Place, Typed
  <2>2. Fits(r, n)
    BY <1>1, <1>2, <1>12 DEF Fits, Follow, At, TaskValue, Waits
  <2> QED
    BY <1>3, <2>1, <2>2
<1>13. CASE RobotsFetched(t)
  <2>0. Object(t) \in Reference
    BY <1>4, <1>5, <1>13 DEF RobotsFetched, At
  <2>1. PICK p \in Policies : task' = [task EXCEPT ![t].pc = "store", ![t].policy = p, ![t].notify = Object(t)]
    BY <1>13 DEF RobotsFetched
  <2>2. p \in Policy
    BY DEF PacingConstants, Policy
  <2>3. PICK y \in Reference : y = Object(t)
    BY <2>0
  <2> DEFINE r == [q EXCEPT !.pc = "store", !.policy = p, !.notify = y]
  <2>4. r \in TaskValue /\ task' = [task EXCEPT ![t] = r] /\ r.guards = q.guards
    BY <1>1, <2>1, <2>2, <2>3 DEF TaskValue, Place, Typed
  <2>5. Fits(r, n)
    BY <1>1, <1>2, <1>13 DEF Fits, RobotsFetched, At, TaskValue, Waits
  <2> QED
    BY <1>3, <2>4, <2>5
<1>14. CASE RobotsUnavailable(t)
  <2>0. Object(t) \in Reference
    BY <1>4, <1>5, <1>14 DEF RobotsUnavailable, At
  <2>1. PICK y \in Reference : task' = [task EXCEPT ![t].pc = "unwind", ![t].notify = y]
    BY <1>14, <2>0 DEF RobotsUnavailable, Reference
  <2> DEFINE r == [q EXCEPT !.pc = "unwind", !.notify = y]
  <2>2. r \in TaskValue /\ task' = [task EXCEPT ![t] = r] /\ r.guards = q.guards
    BY <1>1, <2>1 DEF TaskValue, Place, Typed
  <2>3. Fits(r, n)
    BY <1>1, <1>2, <1>14 DEF Fits, RobotsUnavailable, At, TaskValue, Waits
  <2> QED
    BY <1>3, <2>2, <2>3
<1>15. CASE StorePolicy(t)
  <2> DEFINE r == [q EXCEPT !.pc = "unwind", !.floor = 1]
  <2>1. r \in TaskValue /\ task' = [task EXCEPT ![t] = r] /\ r.guards = q.guards
    BY <1>1, <1>15 DEF StorePolicy, TaskValue, Place, Typed
  <2>2. Fits(r, n)
    BY <1>1, <1>2, <1>15 DEF Fits, StorePolicy, At, TaskValue, Waits
  <2> QED
    BY <1>3, <2>1, <2>2
<1>16. CASE Admitted(t)
  <2>1. PICK pc \in {"enter", "unwind"} : task' = [task EXCEPT ![t].pc = pc]
    BY <1>16 DEF Admitted, Goto
  <2> DEFINE r == [q EXCEPT !.pc = pc]
  <2>2. r \in TaskValue /\ task' = [task EXCEPT ![t] = r] /\ r.guards = q.guards
    BY <1>1, <2>1 DEF TaskValue, Place, Typed
  <2>3. Fits(r, n)
    BY <1>1, <1>2, <1>16 DEF Fits, Admitted, At, TaskValue, Waits
  <2> QED
    BY <1>3, <2>2, <2>3
<1>17. CASE PageLoaded(t)
  <2>0. Object(t) \in Reference
    BY <1>4, <1>5, <1>17 DEF PageLoaded, At
  <2>1. PICK y \in Reference : y = Object(t)
    BY <2>0
  <2>2. NoPolicy \in Policy
    BY DEF NoPolicy, Policy
  <2> DEFINE r == [q EXCEPT !.pc = "unwind", !.notify = y, !.policy = NoPolicy]
  <2>3. r \in TaskValue /\ task' = [task EXCEPT ![t] = r] /\ r.guards = q.guards
    BY <1>1, <1>17, <2>1, <2>2 DEF PageLoaded, TaskValue, Place, Typed
  <2>4. Fits(r, n)
    BY <1>1, <1>2, <1>17 DEF Fits, PageLoaded, At, TaskValue, Waits
  <2> QED
    BY <1>3, <2>3, <2>4
<1>18. CASE Cancel(t)
  <2> DEFINE r == [q EXCEPT !.pc = "unwind", !.woken = FALSE, !.until = -1, !.leader = NoTask]
  <2>1. r \in TaskValue /\ task' = [task EXCEPT ![t] = r] /\ r.guards = q.guards
    BY <1>1, <1>18 DEF Cancel, TaskValue, Place, Typed
  <2>2. Fits(r, n)
    BY <1>1, <1>2, <1>18 DEF Fits, Cancel, TaskValue, Waits
  <2> QED
    BY <1>3, <2>1, <2>2
<1> QED
  BY <1>6, <1>7, <1>8, <1>9, <1>10, <1>11, <1>12, <1>13, <1>14, <1>15, <1>16, <1>17, <1>18 DEF KeepStep
-----------------------------------------------------------------------------
\* An unused object can always be found.

LEMMA Image ==
    ASSUME NEW S, IsFiniteSet(S), NEW f
    PROVE  /\ IsFiniteSet({f[a] : a \in S})
           /\ Cardinality({f[a] : a \in S}) <= Cardinality(S)
<1> DEFINE T == {f[a] : a \in S}
           h == [a \in S |-> f[a]]
<1>1. h \in Surjection(S, T)
  BY DEF Surjection
<1> QED
  BY <1>1, FS_Surjection

\* A guard refers to nothing but the state of its task's origin.
LEMMA ReferencedIs ==
    ASSUME PacingConstants, Typed, Stacked, NEW x \in Objects
    PROVE  Referenced(x) <=> \/ \E o \in Origins : registry[o] = x
                             \/ \E t \in Tasks : task[t].notify = x
<1>1. ASSUME NEW t \in Tasks, NEW i \in DOMAIN task[t].guards, task[t].guards[i].object = x
      PROVE  \E o \in Origins : registry[o] = x
  <2> DEFINE g == task[t].guards
             y == registry[Target[t]]
  <2>1. y \in Reference /\ Target[t] \in Origins
    BY HolderOf
  <2>2. PICK n \in 0..4 : StackShape(g, n, y)
    BY HolderOf DEF Holds
  <2>3. /\ DOMAIN g = 1..n
        /\ \A j \in 1..n : g[j].kind # "flight" => g[j] = Guard(g[j].kind, y) /\ y \in Objects
        /\ \A j \in 1..n : g[j].kind = "flight" => g[j] = Guard("flight", NoObject)
    BY <2>1, <2>2, StackOf
  <2>4. i \in 1..n
    BY <2>3
  <2>5. g[i].object = y \/ g[i].object = NoObject
    BY <2>3, <2>4, GuardIs
  <2>6. x # NoObject
    BY DEF Objects, NoObject
  <2> QED
    BY <1>1, <2>1, <2>5, <2>6
<1> QED
  BY <1>1 DEF Referenced

LEMMA FreeObjectIsFree ==
    ASSUME PacingConstants, Typed, Stacked, RegistryBounded, NEW t \in Tasks, task[t].notify = NoObject
    PROVE  FreeObject \in Objects /\ ~Referenced(FreeObject)
<1> DEFINE R == {registry[o] : o \in Registered}
           notices == [u \in Tasks |-> task[u].notify]
           N == {notices[u] : u \in Tasks \ {t}}
           C == Cardinality(Tasks)
<1>1. IsFiniteSet(Tasks) /\ Capacity \in Nat
  BY DEF PacingConstants
<1>2. C \in Nat /\ IsFiniteSet(Tasks \ {t}) /\ Cardinality(Tasks \ {t}) = C - 1
  BY <1>1, FS_CardinalityType, FS_RemoveElement
<1>3. IsFiniteSet(R) /\ Cardinality(R) <= Capacity /\ Cardinality(R) \in Nat
  <2>1. IsFiniteSet(R) /\ Cardinality(R) <= Cardinality(Registered)
    BY Image DEF RegistryBounded
  <2>2. Cardinality(R) \in Nat /\ Cardinality(Registered) \in Nat
    BY <2>1, FS_CardinalityType DEF RegistryBounded
  <2> QED
    BY <1>1, <2>1, <2>2 DEF RegistryBounded
<1>4. IsFiniteSet(N) /\ Cardinality(N) <= C - 1 /\ Cardinality(N) \in Nat
  <2>1. IsFiniteSet(N) /\ Cardinality(N) <= Cardinality(Tasks \ {t})
    BY <1>2, Image
  <2>2. Cardinality(N) \in Nat
    BY <2>1, FS_CardinalityType
  <2> QED
    BY <1>2, <2>1, <2>2
<1>5. IsFiniteSet(R \cup N) /\ Cardinality(R \cup N) <= Capacity + C - 1 /\ Cardinality(R \cup N) \in Nat
  <2>1. IsFiniteSet(R \cup N) /\ Cardinality(R \cup N) = Cardinality(R) + Cardinality(N) - Cardinality(R \cap N)
    BY <1>3, <1>4, FS_Union
  <2>2. Cardinality(R \cap N) \in Nat /\ Cardinality(R \cup N) \in Nat
    BY <1>3, <2>1, FS_Intersection, FS_CardinalityType
  <2> QED
    BY <1>1, <1>2, <1>3, <1>4, <2>1, <2>2
<1>6. IsFiniteSet(Objects) /\ Cardinality(Objects) = 2 * C + Capacity
  <2>1. 2 * C + Capacity \in Nat
    BY <1>1, <1>2
  <2>2. IsFiniteSet(1..(2 * C + Capacity)) /\ Cardinality(1..(2 * C + Capacity)) = 2 * C + Capacity
    BY <2>1, FS_Interval
  <2> QED
    BY <2>2 DEF Objects
<1>7. ~(Objects \subseteq R \cup N)
  <2> SUFFICES ASSUME Objects \subseteq R \cup N
               PROVE  FALSE
    OBVIOUS
  <2>1. Cardinality(Objects) <= Cardinality(R \cup N)
    BY <1>5, FS_Subset
  <2> QED
    BY <1>1, <1>2, <1>5, <1>6, <2>1
<1>8. PICK x \in Objects : x \notin R /\ x \notin N
  BY <1>7
<1>9. x # NoObject
  BY DEF Objects, NoObject
<1>10. \A o \in Origins : registry[o] # x
  BY <1>8, <1>9 DEF Registered
<1>11. \A u \in Tasks : task[u].notify # x
  BY <1>8, <1>9
<1>12. ~Referenced(x)
  BY <1>10, <1>11, ReferencedIs
<1> QED
  BY <1>12 DEF FreeObject
-----------------------------------------------------------------------------
\* The outcomes of a registration: at the origin's state, at a new one, none.

Attaches(t, pc, kind, next, x, s) ==
    /\ At(t, pc)
    /\ states' = [states EXCEPT ![x] = [s EXCEPT !.registrations = @ \cup {<<t, kind>>}]]
    /\ task' = [task EXCEPT ![t].pc = next, ![t].guards = Push(t, Guard(kind, x)), ![t].notify = x]
    /\ UNCHANGED <<cache, flights, quiet>>
Joins(t, pc, kind, next) ==
    /\ Target[t] \in Registered /\ registry' = registry
    /\ Attaches(t, pc, kind, next, registry[Target[t]], states[registry[Target[t]]])
Creates(t, pc, kind, next) ==
    /\ Target[t] \notin Registered
    /\ Attaches(t, pc, kind, next, FreeObject, NewState)
    /\ registry' \in [Origins -> Reference] /\ registry'[Target[t]] = FreeObject
    /\ \A o \in Origins \ {Target[t]} :
          registry'[o] = registry[o] \/ (o \in Prunable /\ registry'[o] = NoObject)
Refuses(t, pc) ==
    /\ At(t, pc) /\ task' = [task EXCEPT ![t].pc = "unwind"]
    /\ UNCHANGED <<registry, states, cache, flights, quiet>>

LEMMA RegisterCases ==
    ASSUME PacingConstants, Typed, Stacked, RegistryBounded, NEW t \in Tasks,
           NEW pc, NEW kind, NEW next, Register(t, pc, kind, next)
    PROVE  /\ Joins(t, pc, kind, next) \/ Creates(t, pc, kind, next) \/ Refuses(t, pc)
           /\ RegistryBounded'
<1> DEFINE o == Target[t]
<1>1. o \in Origins /\ registry \in [Origins -> Reference] /\ FreeObject \in Objects /\ NoObject \notin Objects
  BY HolderOf, FreeObjectIsFree DEF Register, At, Typed, Objects, NoObject
<1>2. Cardinality(Registered) \in Nat /\ Capacity \in Nat
  BY FS_CardinalityType DEF RegistryBounded, PacingConstants
<1>3. CASE o \in Registered
  <2>1. Joins(t, pc, kind, next)
    BY <1>3 DEF Register, Joins, Attaches
  <2>2. RegistryBounded'
    BY <2>1 DEF Joins, RegistryBounded, Registered
  <2> QED
    BY <2>1, <2>2
<1>4. CASE /\ o \notin Registered /\ Cardinality(Registered) < Capacity
           /\ Attaches(t, pc, kind, next, FreeObject, NewState)
           /\ registry' = [registry EXCEPT ![o] = FreeObject]
  <2>1. Creates(t, pc, kind, next)
    BY <1>1, <1>4 DEF Creates, Reference
  <2>2. Registered' = Registered \cup {o}
    BY <1>1, <1>4 DEF Registered
  <2>3. IsFiniteSet(Registered') /\ Cardinality(Registered') = Cardinality(Registered) + 1
    BY <1>4, <2>2, FS_AddElement DEF RegistryBounded
  <2>4. RegistryBounded'
    BY <1>2, <1>4, <2>3 DEF RegistryBounded
  <2> QED
    BY <2>1, <2>4
<1>5. ASSUME o \notin Registered, NEW q \in Prunable,
             Attaches(t, pc, kind, next, FreeObject, NewState),
             registry' = [registry EXCEPT ![o] = FreeObject, ![q] = NoObject]
      PROVE  Creates(t, pc, kind, next) /\ RegistryBounded'
  <2>0. q \in Registered /\ q \in Origins /\ q # o
    BY <1>5 DEF Prunable, Registered
  <2>1. Creates(t, pc, kind, next)
    BY <1>1, <1>5, <2>0 DEF Creates, Reference
  <2>2. Registered' = (Registered \ {q}) \cup {o}
    BY <1>1, <1>5, <2>0 DEF Registered
  <2>3. IsFiniteSet(Registered \ {q}) /\ Cardinality(Registered \ {q}) = Cardinality(Registered) - 1
    BY <2>0, FS_RemoveElement DEF RegistryBounded
  <2>4. o \notin Registered \ {q}
    BY <1>5
  <2> DEFINE K == Registered \ {q}
  <2>7. IsFiniteSet(K \cup {o}) /\ Cardinality(K \cup {o}) = Cardinality(K) + 1
    BY <2>3, <2>4, FS_AddElement
  <2>5. IsFiniteSet(Registered') /\ Cardinality(Registered') = Cardinality(Registered)
    BY <1>2, <2>2, <2>3, <2>7
  <2>6. RegistryBounded'
    BY <2>5 DEF RegistryBounded
  <2> QED
    BY <2>1, <2>6
<1>6. CASE Refuses(t, pc)
  <2>1. RegistryBounded'
    BY <1>6 DEF Refuses, RegistryBounded, Registered
  <2> QED
    BY <1>6, <2>1
<1>7. \/ o \in Registered
      \/ /\ o \notin Registered /\ Cardinality(Registered) < Capacity
         /\ Attaches(t, pc, kind, next, FreeObject, NewState)
         /\ registry' = [registry EXCEPT ![o] = FreeObject]
      \/ \E q \in Prunable :
            /\ o \notin Registered
            /\ Attaches(t, pc, kind, next, FreeObject, NewState)
            /\ registry' = [registry EXCEPT ![o] = FreeObject, ![q] = NoObject]
      \/ Refuses(t, pc)
  BY DEF Register, Attaches, Refuses
<1> QED
  BY <1>3, <1>4, <1>5, <1>6, <1>7
-----------------------------------------------------------------------------
\* The other steps of a task: those that leave their stack, push on it, pop
\* from it, or replace its top.

LeaveStep(t) ==
    \/ Refuses(t, "new") \/ Refuses(t, "resolve")
    \/ Unwind(t) /\ ~(Len(task[t].guards) > task[t].floor)

LEMMA LeaveTurns ==
    ASSUME PacingConstants, Typed, Stacked, NEW t \in Tasks, LeaveStep(t)
    PROVE  \E r : Keeps(t, r)
<1> DEFINE q == task[t]
           x == registry[Target[t]]
<1>1. q \in TaskValue /\ x \in Reference /\ Target[t] \in Origins
  BY HolderOf
<1>2. PICK n \in 0..4 : StackShape(q.guards, n, x) /\ Fits(q, n)
  BY HolderOf DEF Holds
<1>3. ASSUME NEW r \in TaskValue, task' = [task EXCEPT ![t] = r], r.guards = q.guards, Fits(r, n)
      PROVE  \E s : Keeps(t, s)
  BY <1>2, <1>3 DEF Keeps, Turns, TaskShape, Holds
<1>4. CASE Refuses(t, "new") \/ Refuses(t, "resolve")
  <2> DEFINE r == [q EXCEPT !.pc = "unwind"]
  <2>1. r \in TaskValue /\ task' = [task EXCEPT ![t] = r] /\ r.guards = q.guards
    BY <1>1, <1>4 DEF Refuses, TaskValue, Place, Typed
  <2>2. Fits(r, n)
    BY <1>1, <1>2, <1>4 DEF Fits, Refuses, At, TaskValue, Waits
  <2> QED
    BY <1>3, <2>1, <2>2
<1>5. CASE Unwind(t) /\ ~(Len(q.guards) > q.floor)
  <2>1. n = Len(q.guards) /\ q.guards \in Seq(GuardValue) /\ q.floor \in {0, 1}
    BY <1>1, <1>2 DEF StackShape, TaskValue
  <2>2. q.pc = "unwind" /\ task' = [task EXCEPT ![t] = IF q.floor = 0 THEN TaskAt("done")
                                                      ELSE [q EXCEPT !.pc = "admitted", !.floor = 0]]
    BY <1>5 DEF Unwind, At, Typed
  <2>3. CASE q.floor = 0
    <3>6. ~(Len(q.guards) > q.floor)
      BY <1>5
    <3>7. ~(n > 0)
      BY <2>1, <2>3, <3>6
    <3>1. n = 0
      BY <3>7
    <3>2. q.guards = << >>
      BY <2>1, <3>1, EmptySeq
    <3> DEFINE r == TaskAt("done")
    <3>3. r \in TaskValue /\ r.guards = q.guards
      BY <3>2 DEF TaskAt, TaskValue, Place, Reference, NoPolicy, Policy
    <3>4. Fits(r, n)
      BY <3>1 DEF Fits, TaskAt, Waits
    <3>5. task' = [task EXCEPT ![t] = r]
      BY <2>2, <2>3
    <3> HIDE DEF r
    <3> QED
      BY <1>3, <3>3, <3>4, <3>5
  <2>4. CASE q.floor = 1
    <3> DEFINE r == [q EXCEPT !.pc = "admitted", !.floor = 0]
    <3>0. n >= 1
      BY <1>2, <2>4 DEF Fits
    <3>5. ~(Len(q.guards) > q.floor)
      BY <1>5
    <3>6. ~(n > 1)
      BY <2>1, <2>4, <3>5
    <3>1. n = 1
      BY <3>0, <3>6
    <3>2. task' = [task EXCEPT ![t] = r]
      BY <2>2, <2>4
    <3>4. r \in TaskValue /\ r.guards = q.guards
      BY <1>1 DEF TaskValue, Place
    <3>3. Fits(r, n)
      BY <1>1, <3>1 DEF Fits, TaskValue, Waits
    <3> QED
      BY <1>3, <3>2, <3>3, <3>4
  <2> QED
    BY <2>1, <2>3, <2>4
<1> QED
  BY <1>4, <1>5 DEF LeaveStep

Pushes(t, r, n, x, e) ==
    /\ Turns(t, r) /\ r.notify \in {NoObject, x}
    /\ StackShape(task[t].guards, n, x) /\ Holds(r, n + 1, x)
    /\ Extends(r.guards, task[t].guards, n, e)
Pops(t, r, n, x) ==
    /\ Turns(t, r)
    /\ StackShape(task[t].guards, n + 1, x) /\ Holds(r, n, x)
    /\ Extends(task[t].guards, r.guards, n, task[t].guards[n + 1])
Swaps(t, r, n, x, g) ==
    /\ Turns(t, r)
    /\ StackShape(g, n, x) /\ StackShape(task[t].guards, n + 1, x) /\ Holds(r, n + 1, x)
    /\ Extends(task[t].guards, g, n, Guard("waiter", x))
    /\ Extends(r.guards, g, n, Guard("permit", x))

\* Pushing on a task's stack.
Pushed(q, r, n, x, e, pc, y) ==
    /\ r = [q EXCEPT !.pc = pc, !.guards = Append(q.guards, e), !.notify = y]
    /\ StackShape(r.guards, n + 1, x) /\ Extends(r.guards, q.guards, n, e)
    /\ r.pc = pc /\ r.notify = y /\ r.floor = q.floor

LEMMA PushOf ==
    ASSUME NEW q \in TaskValue, NEW n \in 0..3, NEW x \in Reference, StackShape(q.guards, n, x),
           NEW e, MayPush(q.guards, n, x, e), NEW pc \in Place, NEW y \in Reference
    PROVE  \E r \in TaskValue : Pushed(q, r, n, x, e, pc, y)
<1>1. PICK h : h = Append(q.guards, e)
  OBVIOUS
<1>2. StackShape(h, n + 1, x) /\ Extends(h, q.guards, n, e)
  BY <1>1, PushShape, Zenon
<1>3. h \in Seq(GuardValue)
  BY <1>2 DEF StackShape
<1> DEFINE r == [q EXCEPT !.pc = pc, !.guards = h, !.notify = y]
<1>4. r \in TaskValue /\ r.guards = h /\ r.pc = pc /\ r.notify = y /\ r.floor = q.floor
  BY <1>3 DEF TaskValue
<1>5. r = [q EXCEPT !.pc = pc, !.guards = Append(q.guards, e), !.notify = y]
  BY <1>1, Zenon
<1> HIDE DEF r
<1> QED
  BY <1>2, <1>4, <1>5, Zenon DEF Pushed

LEMMA WaiterTurns ==
    ASSUME PacingConstants, Typed, Stacked, NEW t \in Tasks, RegisterWaiter(t)
    PROVE  LET x == registry[Target[t]]
           IN  /\ Object(t) = x /\ x \in Objects
               /\ \E r : \E n \in {1, 3} : Pushes(t, r, n, x, Guard("waiter", x)) /\ r.pc = "loop"
<1> DEFINE q == task[t]
           x == registry[Target[t]]
           e == Guard("waiter", x)
<1>1. q \in TaskValue /\ x \in Reference /\ Target[t] \in Origins
  BY HolderOf
<1>2. PICK n \in 0..4 : StackShape(q.guards, n, x) /\ Fits(q, n)
  BY HolderOf DEF Holds
<1>3. q.pc = "enter" /\ q.notify = NoObject /\ n \in {1, 3}
  BY <1>2 DEF RegisterWaiter, At, Fits
<1>4. n \in 1..4 /\ n \in 0..3 /\ \A i \in 1..n : i = n => i \in {1, 3}
  BY <1>3
<1>5. Top(t).kind # "flight"
  <2>1. Top(t) = q.guards[n]
    BY <1>1, <1>2, <1>4, TopIs
  <2>2. q.guards[n] \in {Guard("page", x), Guard("fetch", x)}
    <3>1. PICK g : g = q.guards
      OBVIOUS
    <3>2. StackShape(g, n, x)
      BY <1>2, <3>1
    <3>3. CASE n = 1
      BY <3>1, <3>2, <3>3 DEF StackShape
    <3>4. CASE n = 3
      BY <3>1, <3>2, <3>4 DEF StackShape
    <3> QED
      BY <1>3, <3>3, <3>4
  <2> QED
    BY <2>1, <2>2, GuardIs
<1>6. Object(t) = x /\ x \in Objects
  BY <1>1, <1>2, <1>4, <1>5, TopIs
<1>7. MayPush(q.guards, n, x, e)
  BY <1>3 DEF MayPush
<1>8. "loop" \in Place /\ NoObject \in Reference
  BY DEF Place, Reference
<1>9. PICK r \in TaskValue : Pushed(q, r, n, x, e, "loop", NoObject)
  BY <1>1, <1>2, <1>4, <1>7, <1>8, PushOf, Zenon
<1>10. task' = [task EXCEPT ![t] = r]
  <2>1. PICK h : h = Append(q.guards, e)
    OBVIOUS
  <2>2. task' = [task EXCEPT ![t].pc = "loop", ![t].guards = h] /\ task \in [Tasks -> TaskValue]
    BY <1>6, <2>1 DEF RegisterWaiter, Push, Typed
  <2>3. r = [q EXCEPT !.pc = "loop", !.guards = h, !.notify = NoObject]
    BY <1>9, <2>1 DEF Pushed
  <2>4. r = [q EXCEPT !.pc = "loop", !.guards = h]
    BY <1>1, <1>3, <2>3 DEF TaskValue
  <2> QED
    BY <2>2, <2>4
<1>11. r.guards[n + 1].kind = "waiter" /\ n + 1 \in {2, 4} /\ q.floor # 1
  <2>0. Extends(r.guards, q.guards, n, e)
    BY <1>9 DEF Pushed
  <2>1. r.guards[n + 1].kind = "waiter"
    BY <2>0, GuardIs DEF Extends
  <2>2. q.floor # 1
    BY <1>2, <1>3 DEF Fits
  <2> QED
    BY <1>3, <2>1, <2>2
<1>13. r.pc = "loop" /\ r.floor = q.floor /\ r.notify = NoObject
  BY <1>9 DEF Pushed
<1>12. Fits(r, n + 1)
  BY <1>11, <1>13 DEF Fits, Waits
<1> QED
  BY <1>2, <1>3, <1>6, <1>9, <1>10, <1>12 DEF Pushes, Turns, Holds, Pushed

LEMMA FlightTurns ==
    ASSUME PacingConstants, Typed, Stacked, NEW t \in Tasks, JoinFlight(t), flights[Target[t]] = NoTask
    PROVE  LET x == registry[Target[t]]
           IN  \E r : Pushes(t, r, 1, x, Guard("flight", NoObject)) /\ r.pc = "resolve"
<1> DEFINE q == task[t]
           x == registry[Target[t]]
           e == Guard("flight", NoObject)
<1>1. q \in TaskValue /\ x \in Reference /\ Target[t] \in Origins
  BY HolderOf
<1>2. PICK n \in 0..4 : StackShape(q.guards, n, x) /\ Fits(q, n)
  BY HolderOf DEF Holds
<1>3. q.pc = "flight" /\ q.notify = NoObject /\ n = 1 /\ n \in 0..3
  BY <1>2 DEF JoinFlight, At, Fits
<1>7. MayPush(q.guards, n, x, e)
  BY <1>3 DEF MayPush
<1>8. "resolve" \in Place /\ NoObject \in Reference
  BY DEF Place, Reference
<1>9. PICK r \in TaskValue : Pushed(q, r, n, x, e, "resolve", NoObject)
  BY <1>1, <1>2, <1>3, <1>7, <1>8, PushOf, Zenon
<1>10. task' = [task EXCEPT ![t] = r]
  <2>1. PICK h : h = Append(q.guards, e)
    OBVIOUS
  <2>2. task' = [task EXCEPT ![t].pc = "resolve", ![t].guards = h] /\ task \in [Tasks -> TaskValue]
    BY <2>1 DEF JoinFlight, Push, Typed
  <2>3. r = [q EXCEPT !.pc = "resolve", !.guards = h, !.notify = NoObject]
    BY <1>9, <2>1 DEF Pushed
  <2>4. r = [q EXCEPT !.pc = "resolve", !.guards = h]
    BY <1>1, <1>3, <2>3 DEF TaskValue
  <2> QED
    BY <2>2, <2>4
<1>11. r.guards[2].kind = "flight" /\ q.floor # 1
  <2>0. Extends(r.guards, q.guards, n, e) /\ n + 1 = 2
    BY <1>3, <1>9 DEF Pushed
  <2>1. r.guards[2].kind = "flight"
    BY <2>0, GuardIs DEF Extends
  <2>2. q.floor # 1
    BY <1>2, <1>3 DEF Fits
  <2> QED
    BY <1>3, <2>1, <2>2
<1>13. r.pc = "resolve" /\ r.floor = q.floor /\ r.notify = NoObject
  BY <1>9 DEF Pushed
<1>12. Fits(r, n + 1)
  BY <1>3, <1>11, <1>13 DEF Fits, Waits
<1>14. Pushes(t, r, n, x, e)
  BY <1>2, <1>9, <1>10, <1>12, <1>13 DEF Pushes, Turns, Holds, Pushed
<1> QED
  BY <1>3, <1>13, <1>14

\* A registration's guard; x is the object that the origin has from now on.
LEMMA AttachTurns ==
    ASSUME PacingConstants, Typed, Stacked, NEW t \in Tasks, NEW x \in Objects, NEW s, NEW pc, NEW kind, NEW next,
           Attaches(t, pc, kind, next, x, s), x = registry[Target[t]] \/ Target[t] \notin Registered,
           \/ pc = "new" /\ kind = "page" /\ next = "evaluate"
           \/ pc = "resolve" /\ kind = "fetch" /\ next = "enter"
    PROVE  /\ pc = "resolve" => Target[t] \in Registered
           /\ \E r : \E n \in {0, 2} :
                 /\ Pushes(t, r, n, x, Guard(kind, x)) /\ r.pc = next /\ r.notify = x
                 /\ n = IF kind = "page" THEN 0 ELSE 2
<1> DEFINE q == task[t]
           y == registry[Target[t]]
           e == Guard(kind, x)
<1>1. q \in TaskValue /\ y \in Reference /\ Target[t] \in Origins /\ x \in Reference /\ x # NoObject
  BY HolderOf DEF Reference, Objects, NoObject
<1>2. PICK n \in 0..4 : StackShape(q.guards, n, y) /\ Fits(q, n)
  BY HolderOf DEF Holds
<1>3. q.pc = pc /\ q.notify = NoObject /\ next \in Place
  BY DEF Attaches, At, Place
<1>4. /\ pc = "new" => n = 0
      /\ pc = "resolve" => n = 2 /\ q.guards[2].kind = "flight" /\ Target[t] \in Registered
  BY <1>1, <1>2, <1>3 DEF Fits, StackShape, Registered
<1>5. n \in 0..3 /\ StackShape(q.guards, n, x)
  BY <1>2, <1>4 DEF StackShape
<1>7. MayPush(q.guards, n, x, e)
  BY <1>1, <1>4 DEF MayPush
<1>9. PICK r \in TaskValue : Pushed(q, r, n, x, e, next, x)
  BY <1>1, <1>3, <1>5, <1>7, PushOf, Zenon
<1>10. task' = [task EXCEPT ![t] = r]
  <2>1. PICK h : h = Append(q.guards, e)
    OBVIOUS
  <2>2. task' = [task EXCEPT ![t].pc = next, ![t].guards = h, ![t].notify = x] /\ task \in [Tasks -> TaskValue]
    BY <2>1 DEF Attaches, Push, Typed
  <2>3. r = [q EXCEPT !.pc = next, !.guards = h, !.notify = x]
    BY <1>9, <2>1 DEF Pushed
  <2> QED
    BY <2>2, <2>3
<1>11. q.floor # 1
  BY <1>2, <1>3 DEF Fits
<1>13. r.pc = next /\ r.floor = q.floor /\ r.notify = x
  BY <1>9 DEF Pushed
<1>12. Fits(r, n + 1)
  BY <1>4, <1>11, <1>13 DEF Fits, Waits
<1>14. Pushes(t, r, n, x, e)
  BY <1>5, <1>9, <1>10, <1>12, <1>13 DEF Pushes, Turns, Holds, Pushed
<1> QED
  BY <1>4, <1>13, <1>14

LEMMA PopTurns ==
    ASSUME PacingConstants, Typed, Stacked, NEW t \in Tasks, Unwind(t), Len(task[t].guards) > task[t].floor
    PROVE  LET x == registry[Target[t]]
           IN  \E r : \E n \in 0..3 :
                 /\ Pops(t, r, n, x) /\ r.pc = "unwind" /\ r.notify = Top(t).object
                 /\ Top(t) = task[t].guards[n + 1]
<1> DEFINE q == task[t]
           x == registry[Target[t]]
<1>1. q \in TaskValue /\ x \in Reference /\ Target[t] \in Origins
  BY HolderOf
<1>2. PICK m \in 0..4 : StackShape(q.guards, m, x) /\ Fits(q, m)
  BY HolderOf DEF Holds
<1>3. q.pc = "unwind" /\ q.floor \in {0, 1} /\ m = Len(q.guards) /\ m > q.floor
  BY <1>1, <1>2 DEF Unwind, At, TaskValue, StackShape
<1>4. PICK n \in 0..3 : m = n + 1
  <2>1. m - 1 \in 0..3 /\ m = (m - 1) + 1
    BY <1>3
  <2> QED
    BY <2>1
<1>5. m \in 1..4
  BY <1>4
<1>6. Top(t) = q.guards[n + 1] /\ Top(t) \in GuardValue
  BY <1>1, <1>2, <1>4, <1>5, TopIs
<1>7. Top(t).object \in Reference
  BY <1>6 DEF GuardValue
<1>8. PICK h : h = Popped(t)
  OBVIOUS
<1>9. StackShape(h, n, x) /\ Extends(q.guards, h, n, q.guards[n + 1])
  BY <1>1, <1>2, <1>4, <1>8, PopShape DEF Popped
<1>10. PICK y \in Reference : y = Top(t).object
  BY <1>7
<1> DEFINE r == [q EXCEPT !.guards = h, !.notify = y]
<1>11. h \in Seq(GuardValue)
  BY <1>9 DEF StackShape
<1>12. r \in TaskValue /\ r.guards = h /\ r.pc = "unwind" /\ r.notify = y /\ r.floor = q.floor
  BY <1>1, <1>3, <1>11 DEF TaskValue
<1>13. task' = [task EXCEPT ![t] = r]
  <2>1. task' = [task EXCEPT ![t].guards = h, ![t].notify = y] /\ task \in [Tasks -> TaskValue]
    BY <1>8, <1>10 DEF Unwind, Typed
  <2> QED
    BY <2>1
<1> HIDE DEF r
<1>14. Fits(r, n)
  BY <1>3, <1>4, <1>12 DEF Fits, Waits
<1>15. Pops(t, r, n, x)
  BY <1>2, <1>4, <1>9, <1>12, <1>13, <1>14 DEF Pops, Turns, Holds
<1> QED
  BY <1>6, <1>10, <1>12, <1>15

LEMMA SwapTurns ==
    ASSUME PacingConstants, Typed, Stacked, NEW t \in Tasks, Granted(t)
    PROVE  LET x == registry[Target[t]]
           IN  /\ Object(t) = x /\ x \in Objects
               /\ \E r, g : \E n \in {1, 3} :
                    Swaps(t, r, n, x, g) /\ r.pc \in {"fetching", "loading"} /\ r.notify = x
<1> DEFINE q == task[t]
           x == registry[Target[t]]
           e == Guard("permit", x)
           pc == IF Fetching(t) THEN "fetching" ELSE "loading"
<1>1. q \in TaskValue /\ x \in Reference /\ Target[t] \in Origins
  BY HolderOf
<1>2. PICK m \in 0..4 : StackShape(q.guards, m, x) /\ Fits(q, m)
  BY HolderOf DEF Holds
<1>3. q.pc = "granted" /\ q.notify = NoObject
  BY DEF Granted, At
<1>16. m \in {2, 4} /\ q.guards[m].kind = "waiter" /\ q.floor # 1
  BY <1>2, <1>3 DEF Fits, Waits
<1>4. PICK n \in {1, 3} : m = n + 1
  <2>1. m - 1 \in {1, 3} /\ m = (m - 1) + 1
    BY <1>16
  <2> QED
    BY <2>1
<1>5. m \in 1..4 /\ n \in 0..3
  BY <1>4
<1>6. Top(t) = q.guards[m] /\ Top(t).kind = "waiter"
  BY <1>1, <1>2, <1>5, <1>16, TopIs
<1>7. Top(t) = Guard("waiter", x) /\ Object(t) = x /\ x \in Objects
  BY <1>1, <1>2, <1>5, <1>6, TopIs
<1>8. Fetching(t) <=> n = 3
  BY <1>1, <1>2, <1>4, FetchingIs
<1>9. PICK g : g = Popped(t)
  OBVIOUS
<1>10. StackShape(q.guards, n + 1, x)
  BY <1>2, <1>4
<1>11. StackShape(g, n, x) /\ Extends(q.guards, g, n, q.guards[n + 1])
  BY <1>1, <1>5, <1>9, <1>10, PopShape DEF Popped
<1>12. Extends(q.guards, g, n, Guard("waiter", x))
  BY <1>4, <1>6, <1>7, <1>11
<1>13. MayPush(g, n, x, e)
  BY DEF MayPush
<1>14. g \in Seq(GuardValue)
  BY <1>11 DEF StackShape
<1>15. PICK h : h = Append(g, e)
  OBVIOUS
<1>17. StackShape(h, n + 1, x) /\ Extends(h, g, n, e)
  BY <1>1, <1>5, <1>11, <1>13, <1>15, PushShape, Zenon
<1>18. h \in Seq(GuardValue)
  BY <1>17 DEF StackShape
<1> DEFINE r == [q EXCEPT !.pc = pc, !.guards = h, !.notify = x]
<1>19. pc \in {"fetching", "loading"} /\ pc \in Place
  BY DEF Place
<1> HIDE DEF pc
<1>20. r \in TaskValue /\ r.guards = h /\ r.pc = pc /\ r.notify = x /\ r.floor = q.floor
  BY <1>1, <1>18, <1>19 DEF TaskValue
<1>21. task' = [task EXCEPT ![t] = r]
  <2>1. task' = [task EXCEPT ![t].pc = pc, ![t].guards = h, ![t].notify = x] /\ task \in [Tasks -> TaskValue]
    BY <1>7, <1>9, <1>15 DEF Granted, Typed, pc
  <2> QED
    BY <2>1
<1> HIDE DEF r
<1>22. h[n + 1].kind = "permit"
  BY <1>17, GuardIs DEF Extends
<1>23. pc = IF n = 3 THEN "fetching" ELSE "loading"
  BY <1>8 DEF pc
<1>24. Fits(r, n + 1)
  BY <1>16, <1>20, <1>22, <1>23 DEF Fits, Waits
<1>25. Swaps(t, r, n, x, g)
  BY <1>10, <1>11, <1>12, <1>17, <1>20, <1>21, <1>24 DEF Swaps, Turns, Holds
<1> QED
  BY <1>7, <1>19, <1>20, <1>25
-----------------------------------------------------------------------------
\* Counting what refers to an object, whatever the tasks are.

In(T, x, kind) ==
    {p \in Tasks \X (1..4) : p[2] \in DOMAIN T[p[1]].guards /\ T[p[1]].guards[p[2]] = Guard(kind, x)}
Regs(T, x) ==
    {p \in Tasks \X {"page", "fetch"} :
        \E i \in DOMAIN T[p[1]].guards : T[p[1]].guards[i] = Guard(p[2], x)}

LEMMA InIsFinite ==
    ASSUME PacingConstants, NEW T, NEW x, NEW kind
    PROVE  IsFiniteSet(In(T, x, kind)) /\ Cardinality(In(T, x, kind)) \in Nat
<1>4. 1 \in Int /\ 4 \in Int
  OBVIOUS
<1>1. IsFiniteSet(Tasks) /\ IsFiniteSet(1..4)
  BY <1>4, FS_Interval, Zenon DEF PacingConstants
<1>2. IsFiniteSet(Tasks \X (1..4))
  BY <1>1, FS_Product
<1>3. In(T, x, kind) \in SUBSET (Tasks \X (1..4))
  BY DEF In
<1> QED
  BY <1>2, <1>3, FS_Subset, FS_CardinalityType

\* U is T but for one more guard on the stack of t.
OneMore(T, U, t, n, e) ==
    /\ \A v \in Tasks \ {t} : U[v].guards = T[v].guards
    /\ DOMAIN T[t].guards = 1..n /\ DOMAIN U[t].guards = 1..(n + 1)
    /\ Extends(U[t].guards, T[t].guards, n, e)

MoreGuards(T, U, e, x, kind) ==
    Cardinality(In(U, x, kind)) = Cardinality(In(T, x, kind)) + (IF e = Guard(kind, x) THEN 1 ELSE 0)
MoreRegs(T, U, t, n, e, x) ==
    /\ \A kind \in {"page", "fetch"} : e = Guard(kind, x) =>
          /\ Regs(U, x) = Regs(T, x) \cup {<<t, kind>>}
          /\ (\A i \in 1..n : T[t].guards[i].kind # kind) => Regs(T, x) = Regs(U, x) \ {<<t, kind>>}
    /\ (\A kind \in {"page", "fetch"} : e # Guard(kind, x)) => Regs(U, x) = Regs(T, x)

LEMMA InMore ==
    ASSUME PacingConstants, NEW T, NEW U, NEW t \in Tasks, NEW n \in 0..3, NEW e, OneMore(T, U, t, n, e),
           NEW x, NEW kind
    PROVE  MoreGuards(T, U, e, x, kind)
<1>1. /\ \A v \in Tasks \ {t} : U[v].guards = T[v].guards
      /\ DOMAIN T[t].guards = 1..n /\ DOMAIN U[t].guards = 1..(n + 1)
      /\ U[t].guards[n + 1] = e /\ \A i \in 1..n : U[t].guards[i] = T[t].guards[i]
  BY DEF OneMore, Extends
<1>2. <<t, n + 1>> \notin In(T, x, kind) /\ <<t, n + 1>> \in Tasks \X (1..4)
  BY <1>1 DEF In
<1>3. IsFiniteSet(In(T, x, kind)) /\ Cardinality(In(T, x, kind)) \in Nat
  BY InIsFinite
<1>4. ASSUME NEW p \in Tasks \X (1..4), p # <<t, n + 1>>
      PROVE  p \in In(U, x, kind) <=> p \in In(T, x, kind)
  <2>1. p[1] \in Tasks /\ p[2] \in 1..4 /\ (p[1] = t => p[2] # n + 1)
    BY <1>4
  <2>2. CASE p[1] # t
    BY <1>1, <2>1, <2>2 DEF In
  <2>3. CASE p[1] = t
    <3>1. p[2] \in 1..n <=> p[2] \in 1..(n + 1)
      BY <2>1, <2>3
    <3> QED
      BY <1>1, <2>1, <2>3, <3>1 DEF In
  <2> QED
    BY <2>2, <2>3
<1>5. <<t, n + 1>> \in In(U, x, kind) <=> e = Guard(kind, x)
  BY <1>1, <1>2 DEF In
<1>6. In(U, x, kind) \subseteq Tasks \X (1..4) /\ In(T, x, kind) \subseteq Tasks \X (1..4)
  BY DEF In
<1>7. CASE e = Guard(kind, x)
  <2>1. In(U, x, kind) = In(T, x, kind) \cup {<<t, n + 1>>}
    BY <1>2, <1>4, <1>5, <1>6, <1>7
  <2> QED
    BY <1>2, <1>3, <1>7, <2>1, FS_AddElement DEF MoreGuards
<1>8. CASE e # Guard(kind, x)
  <2>1. In(U, x, kind) = In(T, x, kind)
    BY <1>2, <1>4, <1>5, <1>6, <1>8
  <2> QED
    BY <1>3, <1>8, <2>1 DEF MoreGuards
<1> QED
  BY <1>7, <1>8

LEMMA RegsMore ==
    ASSUME NEW T, NEW U, NEW t \in Tasks, NEW n \in 0..3, NEW e, OneMore(T, U, t, n, e), NEW x
    PROVE  MoreRegs(T, U, t, n, e, x)
<1>1. /\ \A v \in Tasks \ {t} : U[v].guards = T[v].guards
      /\ DOMAIN T[t].guards = 1..n /\ DOMAIN U[t].guards = 1..(n + 1)
      /\ U[t].guards[n + 1] = e /\ \A i \in 1..n : U[t].guards[i] = T[t].guards[i]
  BY DEF OneMore, Extends
<1>2. \A p \in Tasks \X {"page", "fetch"} : p[1] # t => (p \in Regs(U, x) <=> p \in Regs(T, x))
  BY <1>1 DEF Regs
<1>3. ASSUME NEW p \in Tasks \X {"page", "fetch"}, p[1] = t
      PROVE  p \in Regs(U, x) <=> p \in Regs(T, x) \/ e = Guard(p[2], x)
  <2>1. p \in Regs(U, x) <=> \E i \in 1..(n + 1) : U[t].guards[i] = Guard(p[2], x)
    BY <1>1, <1>3 DEF Regs
  <2>2. p \in Regs(T, x) <=> \E i \in 1..n : T[t].guards[i] = Guard(p[2], x)
    BY <1>1, <1>3 DEF Regs
  <2>3. (\E i \in 1..(n + 1) : U[t].guards[i] = Guard(p[2], x))
        <=> (\E i \in 1..n : U[t].guards[i] = Guard(p[2], x)) \/ U[t].guards[n + 1] = Guard(p[2], x)
    BY SMT
  <2> QED
    BY <1>1, <2>1, <2>2, <2>3
<1>4. Regs(U, x) \subseteq Tasks \X {"page", "fetch"} /\ Regs(T, x) \subseteq Tasks \X {"page", "fetch"}
  BY DEF Regs
<1>5. ASSUME NEW kind \in {"page", "fetch"}, e = Guard(kind, x)
      PROVE  Regs(U, x) = Regs(T, x) \cup {<<t, kind>>}
  <2>1. <<t, kind>> \in Tasks \X {"page", "fetch"} /\ <<t, kind>>[1] = t /\ <<t, kind>>[2] = kind
    OBVIOUS
  <2>2. \A p \in Tasks \X {"page", "fetch"} : p[1] = t /\ e = Guard(p[2], x) => p = <<t, kind>>
    <3>1. \A k : e = Guard(k, x) => k = kind
      BY <1>5 DEF Guard
    <3> QED
      BY <3>1
  <2>3. <<t, kind>> \in Regs(U, x)
    BY <1>3, <1>5, <2>1
  <2> QED
    BY <1>2, <1>3, <1>4, <2>2, <2>3
<1>6. ASSUME NEW kind \in {"page", "fetch"}, e = Guard(kind, x), \A i \in 1..n : T[t].guards[i].kind # kind
      PROVE  <<t, kind>> \notin Regs(T, x)
  BY <1>1, <1>6, GuardIs DEF Regs
<1>7. ASSUME \A kind \in {"page", "fetch"} : e # Guard(kind, x)
      PROVE  Regs(U, x) = Regs(T, x)
  BY <1>2, <1>3, <1>4, <1>7
<1>8. ASSUME NEW kind \in {"page", "fetch"}, e = Guard(kind, x), \A i \in 1..n : T[t].guards[i].kind # kind
      PROVE  Regs(T, x) = Regs(U, x) \ {<<t, kind>>}
  BY <1>5, <1>6, <1>8
<1> QED
  BY <1>5, <1>7, <1>8 DEF MoreRegs
-----------------------------------------------------------------------------
\* What a step that leaves the stacks makes of the states.

Admission(t) == Inspect(t) /\ Admits(t, states[Object(t)])

SameUse(y) ==
    /\ states'[y].registrations = states[y].registrations
    /\ states'[y].in_flight = states[y].in_flight /\ states'[y].waiting = states[y].waiting
Later(y) ==
    /\ states'[y].next >= states[y].next
    /\ states'[y].backoff >= states[y].backoff /\ states'[y].retry >= states[y].retry
Covered(q, s) == q <= s.next \/ q <= s.backoff \/ q <= s.retry
Eased(t) ==
    /\ states' \in [Objects -> StateValue] /\ quiet' \in [Origins -> Nat]
    /\ \A y \in Objects : SameUse(y) /\ Later(y)
    /\ \A o \in Origins : \/ quiet'[o] = quiet[o]
                          \/ /\ o = Target[t] /\ registry[o] \in Objects
                             /\ Covered(quiet'[o], states'[registry[o]])

LEMMA Unchanged ==
    ASSUME Typed, NEW t \in Tasks, states' = states, quiet' = quiet
    PROVE  Eased(t)
<1>1. \A y \in Objects : states[y] \in StateValue
  BY DEF Typed
<1>2. \A y \in Objects : Later(y) /\ SameUse(y)
  BY <1>1 DEF Later, SameUse, StateValue
<1> QED
  BY <1>2 DEF Eased, Typed

LEMMA OutcomeEases ==
    ASSUME PacingConstants, Typed, NEW t \in Tasks, NEW c \in Outcomes, RecordOutcome(t, c),
           Object(t) = registry[Target[t]], Object(t) \in Objects
    PROVE  Eased(t)
<1> DEFINE x == Object(t)
           s == states[x]
           o == Target[t]
<1>1. s \in StateValue /\ o \in Origins /\ quiet \in [Origins -> Nat] /\ states \in [Objects -> StateValue]
  BY DEF Typed, PacingConstants
<1>2. PICK w \in StateValue : w = Recorded(s, c)
  BY <1>1, PauseIsNat
<1>3. PICK p \in Nat : p = Pause(s, c)
  BY <1>1, PauseIsNat
<1>4. states' = [states EXCEPT ![x] = w] /\ quiet' = [quiet EXCEPT ![o] = Max2(@, p)]
  BY <1>2, <1>3 DEF RecordOutcome
<1>5. /\ w.registrations = s.registrations
      /\ w.in_flight = s.in_flight /\ w.waiting = s.waiting
      /\ w.next = s.next /\ w.backoff >= s.backoff /\ w.retry >= s.retry
      /\ p <= w.backoff \/ p <= w.retry
  BY <1>1, <1>2, <1>3, PauseIsNat
<1>6. states' \in [Objects -> StateValue] /\ states'[x] = w /\ \A y \in Objects \ {x} : states'[y] = states[y]
  BY <1>1, <1>4
<1>7. ASSUME NEW y \in Objects
      PROVE  SameUse(y) /\ Later(y)
  <2>1. CASE y = x
    <3>1. w.next \in Nat /\ s.next \in Nat
      BY <1>1 DEF StateValue
    <3> QED
      BY <1>5, <1>6, <2>1, <3>1 DEF SameUse, Later
  <2>2. CASE y # x
    <3>1. states[y] \in StateValue /\ states'[y] = states[y]
      BY <1>1, <1>6, <2>2
    <3> QED
      BY <3>1 DEF SameUse, Later, StateValue
  <2> QED
    BY <2>1, <2>2
<1>8. quiet' \in [Origins -> Nat]
  <2>1. quiet[o] \in Nat
    BY <1>1
  <2>2. Max2(quiet[o], p) \in Nat
    BY <2>1 DEF Max2
  <2> QED
    BY <1>1, <1>4, <2>2
<1>9. ASSUME NEW u \in Origins
      PROVE  \/ quiet'[u] = quiet[u]
             \/ /\ u = Target[t] /\ registry[u] \in Objects
                /\ Covered(quiet'[u], states'[registry[u]])
  <2>1. CASE u # o
    BY <1>1, <1>4, <2>1
  <2>2. CASE u = o
    <3>1. quiet'[u] = Max2(quiet[u], p) /\ quiet[u] \in Nat
      BY <1>1, <1>4, <2>2
    <3>2. quiet'[u] = quiet[u] \/ quiet'[u] = p
      BY <3>1 DEF Max2
    <3>3. registry[u] = x
      BY <2>2
    <3> QED
      BY <1>5, <1>6, <2>2, <3>2, <3>3 DEF Covered
  <2> QED
    BY <2>1, <2>2
<1> QED
  BY <1>6, <1>7, <1>8, <1>9 DEF Eased

LEMMA QuietEases ==
    ASSUME PacingConstants, Typed, Stacked, NEW t \in Tasks, KeepStep(t) \/ LeaveStep(t), ~Admission(t)
    PROVE  /\ registry' = registry /\ Eased(t)
           /\ task[t].pc # "granted" /\ task'[t].pc # "granted"
<1> DEFINE q == task[t]
           x == registry[Target[t]]
<1>1. q \in TaskValue /\ x \in Reference /\ Target[t] \in Origins /\ task \in [Tasks -> TaskValue]
  BY HolderOf DEF Typed
<1>2. PICK n \in 0..4 : StackShape(q.guards, n, x) /\ Fits(q, n)
  BY HolderOf DEF Holds
<1>3. registry' = registry
  BY DEF KeepStep, LeaveStep, Enable, Inspect, Await, Wake, Evaluate, JoinFlight, Follow, RobotsFetched,
         RobotsUnavailable, StorePolicy, Admitted, PageLoaded, Cancel, Refuses, Unwind
<1>4. q.pc # "granted"
  BY DEF KeepStep, LeaveStep, Enable, Inspect, Await, Wake, Evaluate, JoinFlight, Follow, RobotsFetched,
         RobotsUnavailable, StorePolicy, Admitted, PageLoaded, Cancel, Refuses, Unwind, At
<1>5. task'[t].pc # "granted"
  <2>1. CASE KeepStep(t)
    <3>1. CASE Enable(t) \/ Await(t) \/ Wake(t) \/ Follow(t) \/ Cancel(t)
      BY <1>1, <3>1 DEF Enable, Await, Wake, Follow, Cancel, Goto, TaskValue
    <3>2. CASE Inspect(t)
      BY <1>1, <3>2 DEF Admission, Inspect, TaskValue
    <3>3. CASE Evaluate(t)
      BY <1>1, <3>3 DEF Evaluate, Goto, TaskValue
    <3>4. CASE JoinFlight(t) /\ flights[Target[t]] # NoTask
      BY <1>1, <3>4 DEF JoinFlight, TaskValue
    <3>5. CASE RobotsFetched(t)
      BY <1>1, <3>5 DEF RobotsFetched, TaskValue
    <3>6. CASE RobotsUnavailable(t) \/ StorePolicy(t) \/ PageLoaded(t)
      BY <1>1, <3>6 DEF RobotsUnavailable, StorePolicy, PageLoaded, TaskValue
    <3>7. CASE Admitted(t)
      BY <1>1, <3>7 DEF Admitted, Goto, TaskValue
    <3> QED
      BY <2>1, <3>1, <3>2, <3>3, <3>4, <3>5, <3>6, <3>7 DEF KeepStep
  <2>2. CASE LeaveStep(t)
    <3>1. CASE Refuses(t, "new") \/ Refuses(t, "resolve")
      BY <1>1, <3>1 DEF Refuses, TaskValue
    <3>2. CASE Unwind(t) /\ ~(Len(q.guards) > q.floor)
      <4>1. task'[t] = IF q.floor = 0 THEN TaskAt("done") ELSE [q EXCEPT !.pc = "admitted", !.floor = 0]
        BY <1>1, <3>2 DEF Unwind
      <4>2. TaskAt("done").pc = "done"
        BY DEF TaskAt
      <4>3. [q EXCEPT !.pc = "admitted", !.floor = 0].pc = "admitted"
        BY <1>1 DEF TaskValue
      <4> QED
        BY <4>1, <4>2, <4>3
    <3> QED
      BY <2>2, <3>1, <3>2 DEF LeaveStep
  <2> QED
    BY <2>1, <2>2
<1>6. q.pc \in {"fetching", "loading"} => Object(t) = x /\ x \in Objects
  <2>1. SUFFICES ASSUME q.pc \in {"fetching", "loading"}
                 PROVE  Object(t) = x /\ x \in Objects
    OBVIOUS
  <2>2. n \in 1..4 /\ q.guards[n].kind = "permit"
    BY <1>2, <2>1 DEF Fits
  <2>3. Top(t) = q.guards[n]
    BY <1>1, <1>2, <2>2, TopIs
  <2> QED
    BY <1>1, <1>2, <2>2, <2>3, TopIs
<1>7. ASSUME \E c \in Outcomes : RecordOutcome(t, c) /\ q.pc \in {"fetching", "loading"}
      PROVE  Eased(t)
  BY <1>6, <1>7, OutcomeEases
<1>8. ASSUME states' = states, quiet' = quiet
      PROVE  Eased(t)
  BY <1>8, Unchanged
<1>9. [kind |-> "success"] \in Outcomes
  BY DEF Outcomes
<1>10. \/ \E c \in Outcomes : RecordOutcome(t, c) /\ q.pc \in {"fetching", "loading"}
       \/ states' = states /\ quiet' = quiet
  BY <1>9 DEF Admission, KeepStep, LeaveStep, Enable, Inspect, Await, Wake, Evaluate, JoinFlight, Follow, RobotsFetched,
         RobotsUnavailable, StorePolicy, Admitted, PageLoaded, Cancel, Refuses, Unwind, At
<1> QED
  BY <1>3, <1>4, <1>5, <1>7, <1>8, <1>10
-----------------------------------------------------------------------------
\* The counters of an object, and how a step moves what they count.

GrantsIn(T, x) == {t \in Tasks : T[t].pc = "granted" /\ T[t].guards[Len(T[t].guards)].object = x}
Reckoned(T, s, x) ==
    /\ s.waiting = Cardinality(In(T, x, "waiter"))
    /\ s.in_flight = Cardinality(In(T, x, "permit")) + Cardinality(GrantsIn(T, x))
    /\ s.registrations = Regs(T, x)

LEMMA AccountedIs ==
    /\ \A x : Accounted(x) <=> Reckoned(task, states[x], x)
    /\ CapacityAccounted <=> \A o \in Registered : Reckoned(task, states[registry[o]], registry[o])
    /\ CapacityAccounted' <=> \A o \in Registered' : Reckoned(task', states'[registry'[o]], registry'[o])
<1>1. \A x, k : In(task, x, k) = GuardsOf(x, k)
  BY DEF In, GuardsOf
<1>2. \A x : Regs(task, x) = RegistrationsOf(x) /\ GrantsIn(task, x) = GrantsOf(x)
  BY DEF Regs, RegistrationsOf, GrantsIn, GrantsOf, Object, Top
<1>3. \A x : Accounted(x) <=> Reckoned(task, states[x], x)
  BY <1>1, <1>2 DEF Accounted, Reckoned
<1>4. CapacityAccounted <=> \A o \in Registered : Reckoned(task, states[registry[o]], registry[o])
  BY <1>3 DEF CapacityAccounted
<1>5. CapacityAccounted' <=> \A o \in Registered' : Reckoned(task', states'[registry'[o]], registry'[o])
  BY DEF CapacityAccounted, Accounted, Reckoned, GuardsOf, In, RegistrationsOf, Regs, GrantsOf, GrantsIn, Object, Top
<1> QED
  BY <1>3, <1>4, <1>5

LEMMA GrantsFinite ==
    ASSUME PacingConstants, NEW T, NEW x
    PROVE  IsFiniteSet(GrantsIn(T, x)) /\ Cardinality(GrantsIn(T, x)) \in Nat
<1>1. GrantsIn(T, x) \in SUBSET Tasks /\ IsFiniteSet(Tasks)
  BY DEF GrantsIn, PacingConstants
<1> QED
  BY <1>1, FS_Subset, FS_CardinalityType

\* One task may be granted a permit, or lose its grant.
OnlyOne(T, U, t) ==
    /\ \A v \in Tasks \ {t} : U[v].pc = T[v].pc /\ U[v].guards = T[v].guards
    /\ T[t].pc # "granted"
MoreGrants(T, U, t, x) ==
    Cardinality(GrantsIn(U, x)) =
        IF U[t].pc = "granted" /\ U[t].guards[Len(U[t].guards)].object = x
        THEN Cardinality(GrantsIn(T, x)) + 1 ELSE Cardinality(GrantsIn(T, x))

LEMMA GrantsBut ==
    ASSUME PacingConstants, NEW T, NEW U, NEW t \in Tasks, NEW x, OnlyOne(T, U, t)
    PROVE  MoreGrants(T, U, t, x)
<1>1. t \notin GrantsIn(T, x) /\ \A v \in Tasks \ {t} : v \in GrantsIn(U, x) <=> v \in GrantsIn(T, x)
  BY DEF GrantsIn, OnlyOne
<1>2. t \in GrantsIn(U, x) <=> U[t].pc = "granted" /\ U[t].guards[Len(U[t].guards)].object = x
  BY DEF GrantsIn
<1>3. GrantsIn(U, x) \subseteq Tasks /\ GrantsIn(T, x) \subseteq Tasks
  BY DEF GrantsIn
<1>4. t \notin GrantsIn(U, x) => GrantsIn(U, x) = GrantsIn(T, x)
  <2>1. SUFFICES ASSUME t \notin GrantsIn(U, x)
                 PROVE  \A v : v \in GrantsIn(U, x) <=> v \in GrantsIn(T, x)
    OBVIOUS
  <2> QED
    BY <1>1, <1>3, <2>1
<1>5. t \in GrantsIn(U, x) => GrantsIn(U, x) = GrantsIn(T, x) \cup {t}
  BY <1>1, <1>3
<1>6. IsFiniteSet(GrantsIn(T, x)) /\ Cardinality(GrantsIn(T, x)) \in Nat
  BY GrantsFinite
<1>7. Cardinality(GrantsIn(T, x) \cup {t}) = Cardinality(GrantsIn(T, x)) + 1
  BY <1>1, <1>6, FS_AddElement
<1>9. CASE t \in GrantsIn(U, x)
  BY <1>2, <1>5, <1>7, <1>9 DEF MoreGrants
<1>10. CASE t \notin GrantsIn(U, x)
  BY <1>2, <1>4, <1>6, <1>10 DEF MoreGrants
<1> QED
  BY <1>9, <1>10

LEMMA GuardsDiffer ==
    \A j, k, x, y : Guard(j, x) = Guard(k, y) <=> j = k /\ x = y
  BY DEF Guard

LEMMA PushIsMore ==
    ASSUME PacingConstants, Typed, Stacked, NEW t \in Tasks, NEW r, NEW n \in 0..3, NEW x \in Reference, NEW e,
           Pushes(t, r, n, x, e)
    PROVE  /\ OneMore(task, task', t, n, e)
           /\ task[t].pc # "granted" => OnlyOne(task, task', t)
           /\ task'[t] = r /\ \A i \in 1..n : task[t].guards[i] \in GuardValue
<1>1. task' = [task EXCEPT ![t] = r] /\ task \in [Tasks -> TaskValue]
  BY DEF Pushes, Turns, Typed
<1>2. task'[t] = r /\ \A v \in Tasks \ {t} : task'[v] = task[v]
  BY <1>1
<1>7. n \in 0..4 /\ StackShape(task[t].guards, n, x)
  BY DEF Pushes
<1>3. DOMAIN task[t].guards = 1..n /\ \A i \in 1..n : task[t].guards[i] \in GuardValue
  BY <1>7, StackOf
<1>4. StackShape(r.guards, n + 1, x) /\ n + 1 \in 0..4
  BY DEF Pushes, Holds
<1>5. DOMAIN r.guards = 1..(n + 1)
  BY <1>4, StackOf
<1>6. Extends(r.guards, task[t].guards, n, e)
  BY DEF Pushes
<1> QED
  BY <1>2, <1>3, <1>5, <1>6 DEF OneMore, OnlyOne

\* What a guard more on the stack of t means for the state of y.
Grown(s, w, t, e, y) ==
    /\ w.waiting = s.waiting + (IF e = Guard("waiter", y) THEN 1 ELSE 0)
    /\ w.in_flight = s.in_flight + (IF e = Guard("permit", y) THEN 1 ELSE 0)
    /\ \A k \in {"page", "fetch"} : e = Guard(k, y) => w.registrations = s.registrations \cup {<<t, k>>}
    /\ (\A k \in {"page", "fetch"} : e # Guard(k, y)) => w.registrations = s.registrations

LEMMA ReckonPush ==
    ASSUME PacingConstants, Typed, Stacked, NEW t \in Tasks, NEW r, NEW n \in 0..3, NEW x \in Reference, NEW e,
           Pushes(t, r, n, x, e), task[t].pc # "granted", r.pc # "granted",
           NEW y \in Objects, NEW s, NEW w, Reckoned(task, s, y), Grown(s, w, t, e, y)
    PROVE  Reckoned(task', w, y)
<1>4. /\ OneMore(task, task', t, n, e)
      /\ task[t].pc # "granted" => OnlyOne(task, task', t)
      /\ task'[t] = r
  BY PushIsMore
<1>6. MoreGrants(task, task', t, y)
  BY <1>4, GrantsBut
<1>7. MoreGuards(task, task', e, y, "waiter") /\ MoreGuards(task, task', e, y, "permit")
  BY <1>4, InMore
<1>8. MoreRegs(task, task', t, n, e, y)
  BY <1>4, RegsMore
<1>9. w.registrations = Regs(task', y)
  <2>1. CASE \E k \in {"page", "fetch"} : e = Guard(k, y)
    <3>1. PICK k \in {"page", "fetch"} : e = Guard(k, y)
      BY <2>1
    <3>2. Regs(task', y) = Regs(task, y) \cup {<<t, k>>}
      BY <1>8, <3>1 DEF MoreRegs
    <3>3. w.registrations = s.registrations \cup {<<t, k>>}
      BY <3>1 DEF Grown
    <3> QED
      BY <3>2, <3>3 DEF Reckoned
  <2>2. CASE \A k \in {"page", "fetch"} : e # Guard(k, y)
    BY <1>8, <2>2 DEF MoreRegs, Grown, Reckoned
  <2> QED
    BY <2>1, <2>2
<1>10. w.waiting = Cardinality(In(task', y, "waiter"))
  BY <1>7 DEF MoreGuards, Grown, Reckoned
<1>11. w.in_flight = Cardinality(In(task', y, "permit")) + Cardinality(GrantsIn(task', y))
  <2>1. /\ Cardinality(In(task, y, "permit")) \in Nat /\ Cardinality(GrantsIn(task, y)) \in Nat
    BY InIsFinite, GrantsFinite
  <2>2. Cardinality(GrantsIn(task', y)) = Cardinality(GrantsIn(task, y))
    BY <1>4, <1>6 DEF MoreGrants
  <2> QED
    BY <1>7, <2>1, <2>2 DEF MoreGuards, Grown, Reckoned
<1> QED
  BY <1>9, <1>10, <1>11 DEF Reckoned

LEMMA ReckonWaiter ==
    ASSUME PacingConstants, Typed, Stacked, NEW t \in Tasks, RegisterWaiter(t), NEW y \in Objects, Accounted(y)
    PROVE  Reckoned(task', states'[y], y)
<1> DEFINE x == registry[Target[t]]
           e == Guard("waiter", x)
<1>1. Object(t) = x /\ x \in Objects /\ x \in Reference
  BY WaiterTurns DEF Reference
<1>2. PICK r : \E n \in {1, 3} : Pushes(t, r, n, x, e) /\ r.pc = "loop"
  BY WaiterTurns
<1>3. PICK n \in 0..3 : Pushes(t, r, n, x, e) /\ r.pc = "loop"
  BY <1>2
<1>5. task[t].pc # "granted" /\ r.pc # "granted"
  BY <1>3 DEF RegisterWaiter, At
<1>9. Grown(states[y], states'[y], t, e, y)
  <2>1. states' = [states EXCEPT ![x].waiting = @ + 1] /\ states \in [Objects -> StateValue]
    BY <1>1 DEF RegisterWaiter, Typed
  <2>2. states[y] \in StateValue
    BY <2>1
  <2>4. states'[y] = IF y = x THEN [states[y] EXCEPT !.waiting = @ + 1] ELSE states[y]
    BY <1>1, <2>1
  <2> QED
    BY <2>2, <2>4, GuardsDiffer DEF StateValue, Grown
<1>13. Reckoned(task, states[y], y)
  BY AccountedIs
<1> HIDE DEF e, x
<1> QED
  BY <1>1, <1>3, <1>5, <1>9, <1>13, ReckonPush

LEMMA ReckonFlight ==
    ASSUME PacingConstants, Typed, Stacked, NEW t \in Tasks, JoinFlight(t), flights[Target[t]] = NoTask,
           NEW y \in Objects, Accounted(y)
    PROVE  Reckoned(task', states'[y], y)
<1> DEFINE x == registry[Target[t]]
           e == Guard("flight", NoObject)
<1>1. x \in Reference
  BY HolderOf
<1>3. PICK r : Pushes(t, r, 1, x, e) /\ r.pc = "resolve"
  BY FlightTurns
<1>5. task[t].pc # "granted" /\ r.pc # "granted" /\ 1 \in 0..3
  BY <1>3 DEF JoinFlight, At
<1>9. Grown(states[y], states'[y], t, e, y)
  <2>1. states' = states /\ states[y] \in StateValue
    BY DEF JoinFlight, Typed
  <2> QED
    BY <2>1, GuardsDiffer DEF StateValue, Grown
<1>13. Reckoned(task, states[y], y)
  BY AccountedIs
<1> HIDE DEF e, x
<1> QED
  BY <1>1, <1>3, <1>5, <1>9, <1>13, ReckonPush

LEMMA ReckonAttach ==
    ASSUME PacingConstants, Typed, Stacked, NEW t \in Tasks, NEW x \in Objects, NEW s \in StateValue,
           NEW pc, NEW kind, NEW next, Attaches(t, pc, kind, next, x, s),
           x = registry[Target[t]] \/ Target[t] \notin Registered,
           \/ pc = "new" /\ kind = "page" /\ next = "evaluate"
           \/ pc = "resolve" /\ kind = "fetch" /\ next = "enter",
           NEW y \in Objects, Reckoned(task, IF y = x THEN s ELSE states[y], y)
    PROVE  Reckoned(task', states'[y], y)
<1> DEFINE e == Guard(kind, x)
           w == IF y = x THEN s ELSE states[y]
<1>1. x \in Reference
  BY DEF Reference
<1>2. PICK r : \E n \in {0, 2} : Pushes(t, r, n, x, e) /\ r.pc = next /\ r.notify = x
  BY AttachTurns
<1>3. PICK n \in 0..3 : Pushes(t, r, n, x, e) /\ r.pc = next
  BY <1>2
<1>5. task[t].pc # "granted" /\ r.pc # "granted" /\ kind \in {"page", "fetch"}
  BY <1>3 DEF Attaches, At
<1>6. w \in StateValue
  BY DEF Typed
<1>7. states'[y] = IF y = x THEN [w EXCEPT !.registrations = @ \cup {<<t, kind>>}] ELSE w
  BY DEF Attaches, Typed
<1> HIDE DEF w
<1>8. /\ states'[y].waiting = w.waiting /\ states'[y].in_flight = w.in_flight
      /\ w.waiting \in Nat /\ w.in_flight \in Nat
      /\ states'[y].registrations = IF y = x THEN w.registrations \cup {<<t, kind>>} ELSE w.registrations
  BY <1>6, <1>7 DEF StateValue
<1>10. \A k : e = Guard(k, y) <=> k = kind /\ y = x
  BY GuardsDiffer
<1> HIDE DEF e
<1>9. Grown(w, states'[y], t, e, y)
  BY <1>5, <1>8, <1>10 DEF Grown
<1>13. Reckoned(task, w, y)
  BY DEF w
<1> QED
  BY <1>1, <1>3, <1>5, <1>9, <1>13, ReckonPush

\* Nothing counts for an object that nothing refers to.
LEMMA FreeIsReckoned ==
    ASSUME PacingConstants, Typed, Stacked, NEW x \in Objects, ~Referenced(x)
    PROVE  Reckoned(task, NewState, x)
<1>1. \A v \in Tasks : \A i \in DOMAIN task[v].guards : task[v].guards[i].object # x
  BY DEF Referenced
<1>2. \A k : In(task, x, k) = {}
  BY <1>1, GuardIs DEF In
<1>3. Regs(task, x) = {}
  BY <1>1, GuardIs DEF Regs
<1>4. ASSUME NEW v \in Tasks, v \in GrantsIn(task, x)
      PROVE  FALSE
  <2>1. registry[Target[v]] \in Reference
    BY HolderOf
  <2>2. PICK n \in 0..4 : StackShape(task[v].guards, n, registry[Target[v]]) /\ Fits(task[v], n)
    BY HolderOf DEF Holds
  <2>3. n = Len(task[v].guards) /\ DOMAIN task[v].guards = 1..n
    BY <2>1, <2>2, StackOf
  <2>4. task[v].pc = "granted" /\ task[v].guards[n].object = x
    BY <1>4, <2>3 DEF GrantsIn
  <2>5. n \in {2, 4}
    BY <2>2, <2>4 DEF Fits, Waits
  <2>7. n \in 1..n
    BY <2>5
  <2>6. n \in DOMAIN task[v].guards
    BY <2>3, <2>7
  <2> QED
    BY <1>1, <2>4, <2>6
<1>5. GrantsIn(task, x) = {}
  BY <1>4 DEF GrantsIn
<1>6. /\ Cardinality(In(task, x, "waiter")) = 0 /\ Cardinality(In(task, x, "permit")) = 0
      /\ Cardinality(GrantsIn(task, x)) = 0
  BY <1>2, <1>5, FS_EmptySet
<1> QED
  BY <1>3, <1>6 DEF Reckoned, NewState

LEMMA ReckonSwap ==
    ASSUME PacingConstants, Typed, Stacked, NEW t \in Tasks, Granted(t), NEW y \in Objects, Accounted(y)
    PROVE  Reckoned(task', states'[y], y)
<1> DEFINE x == registry[Target[t]]
           a == Guard("waiter", x)
           b == Guard("permit", x)
<1>1. Object(t) = x /\ x \in Objects /\ x \in Reference
  BY SwapTurns DEF Reference
<1>2. PICK r, g : \E n \in {1, 3} :
         Swaps(t, r, n, x, g) /\ r.pc \in {"fetching", "loading"} /\ r.notify = x
  BY SwapTurns
<1>3. PICK n \in {1, 3} : Swaps(t, r, n, x, g)
  BY <1>2
<1>4. n \in 0..3 /\ n \in 0..4 /\ n + 1 \in 0..4
  BY <1>3
<1>5. task'[t] = r /\ \A v \in Tasks \ {t} : task'[v] = task[v]
  BY <1>3 DEF Swaps, Turns, Typed
<1>6. /\ StackShape(g, n, x) /\ StackShape(task[t].guards, n + 1, x) /\ StackShape(r.guards, n + 1, x)
      /\ Extends(task[t].guards, g, n, a) /\ Extends(r.guards, g, n, b)
  BY <1>3 DEF Swaps, Holds
<1>24. Spans(g, n) /\ Spans(task[t].guards, n + 1) /\ Spans(r.guards, n + 1)
  BY <1>1, <1>4, <1>6, SpanOf
<1>7. DOMAIN g = 1..n /\ DOMAIN task[t].guards = 1..(n + 1) /\ DOMAIN r.guards = 1..(n + 1)
  BY <1>24 DEF Spans
<1> DEFINE T == [v \in Tasks |-> [guards |-> IF v = t THEN g ELSE task[v].guards]]
<1>8. T[t].guards = g /\ \A v \in Tasks \ {t} : T[v].guards = task[v].guards
  OBVIOUS
<1> HIDE DEF T
<1>9. OneMore(T, task, t, n, a) /\ OneMore(T, task', t, n, b)
  BY <1>5, <1>6, <1>7, <1>8 DEF OneMore
<1>10. MoreGuards(T, task, a, y, "waiter") /\ MoreGuards(T, task, a, y, "permit") /\ MoreRegs(T, task, t, n, a, y)
  BY <1>4, <1>9, InMore, RegsMore
<1>11. MoreGuards(T, task', b, y, "waiter") /\ MoreGuards(T, task', b, y, "permit") /\ MoreRegs(T, task', t, n, b, y)
  BY <1>4, <1>9, InMore, RegsMore
<1>12. task[t].pc = "granted" /\ task'[t].pc # "granted"
  BY <1>2, <1>5 DEF Granted, At
<1>13. OnlyOne(task', task, t)
  BY <1>5, <1>12 DEF OnlyOne
<1>14. MoreGrants(task', task, t, y)
  BY <1>13, GrantsBut
<1>15. task[t].guards[Len(task[t].guards)].object = x
  BY <1>1 DEF Object, Top
<1>16. Reckoned(task, states[y], y)
  BY AccountedIs
<1>17. Regs(task', y) = Regs(task, y)
  BY <1>10, <1>11, GuardsDiffer DEF MoreRegs
<1>18. \A j, k : Guard(j, x) = Guard(k, y) <=> j = k /\ x = y
  BY GuardsDiffer
<1>19. states[y] \in StateValue /\ states'[y] = IF y = x THEN [states[y] EXCEPT !.waiting = @ - 1] ELSE states[y]
  BY <1>1 DEF Granted, Typed
<1>20. /\ states'[y].waiting = IF y = x THEN states[y].waiting - 1 ELSE states[y].waiting
       /\ states'[y].in_flight = states[y].in_flight /\ states'[y].registrations = states[y].registrations
       /\ states[y].waiting \in Nat /\ states[y].in_flight \in Nat
  BY <1>19 DEF StateValue
<1>21. /\ Cardinality(In(T, y, "waiter")) \in Nat /\ Cardinality(In(T, y, "permit")) \in Nat
       /\ Cardinality(GrantsIn(task', y)) \in Nat
  BY InIsFinite, GrantsFinite
<1>22. /\ a = Guard("waiter", y) <=> y = x
       /\ b = Guard("permit", y) <=> y = x
       /\ a # Guard("permit", y) /\ b # Guard("waiter", y)
  BY <1>18
<1> HIDE DEF x, a, b
<1>23. states'[y].waiting = Cardinality(In(task', y, "waiter"))
  BY <1>10, <1>11, <1>16, <1>20, <1>21, <1>22 DEF Reckoned, MoreGuards
<1>25. states'[y].in_flight = Cardinality(In(task', y, "permit")) + Cardinality(GrantsIn(task', y))
  BY <1>10, <1>11, <1>12, <1>14, <1>15, <1>16, <1>20, <1>21, <1>22 DEF Reckoned, MoreGuards, MoreGrants
<1> QED
  BY <1>16, <1>17, <1>20, <1>23, <1>25 DEF Reckoned

LEMMA ReckonPop ==
    ASSUME PacingConstants, Typed, Stacked, NEW t \in Tasks, Unwind(t), Len(task[t].guards) > task[t].floor,
           NEW y \in Objects, Accounted(y)
    PROVE  Reckoned(task', states'[y], y)
<1> DEFINE x == registry[Target[t]]
           e == Top(t)
<1>1. x \in Reference
  BY HolderOf
<1>2. PICK r : \E n \in 0..3 :
         Pops(t, r, n, x) /\ r.pc = "unwind" /\ r.notify = Top(t).object /\ Top(t) = task[t].guards[n + 1]
  BY PopTurns
<1>3. PICK n \in 0..3 : Pops(t, r, n, x) /\ e = task[t].guards[n + 1]
  BY <1>2
<1>4. n \in 0..4 /\ n + 1 \in 0..4 /\ n + 1 \in 1..4
  BY <1>3
<1>5. task'[t] = r /\ \A v \in Tasks \ {t} : task'[v] = task[v]
  BY <1>3 DEF Pops, Turns, Typed
<1>6. /\ StackShape(task[t].guards, n + 1, x) /\ StackShape(r.guards, n, x)
      /\ Extends(task[t].guards, r.guards, n, e)
  BY <1>3 DEF Pops, Holds
<1>7. DOMAIN r.guards = 1..n /\ DOMAIN task[t].guards = 1..(n + 1)
  BY <1>1, <1>4, <1>6, SpanOf DEF Spans
<1>9. OneMore(task', task, t, n, e)
  BY <1>5, <1>6, <1>7 DEF OneMore
<1>10. MoreGuards(task', task, e, y, "waiter") /\ MoreGuards(task', task, e, y, "permit") /\ MoreRegs(task', task, t, n, e, y)
  BY <1>9, InMore, RegsMore
<1>12. task[t].pc # "granted" /\ task'[t].pc # "granted"
  BY <1>2, <1>5 DEF Unwind, At
<1>13. OnlyOne(task', task, t)
  BY <1>5, <1>12 DEF OnlyOne
<1>14. MoreGrants(task', task, t, y)
  BY <1>13, GrantsBut
<1>16. Reckoned(task, states[y], y)
  BY AccountedIs
<1>17. /\ e.kind # "flight" => e = Guard(e.kind, x) /\ x \in Objects
       /\ e.kind = "flight" => e = Guard("flight", NoObject)
       /\ e \in GuardValue
  BY <1>1, <1>4, <1>6, TopIs
<1>18. e.kind \in {"page", "flight", "fetch", "waiter", "permit"}
  BY <1>17 DEF GuardValue
<1>19. \A k : e = Guard(k, y) <=> e.kind = k /\ k # "flight" /\ y = x
  <2>1. y # NoObject
    BY DEF Objects, NoObject
  <2> QED
    BY <1>17, <2>1, GuardsDiffer
<1>20. states[y] \in StateValue /\ states \in [Objects -> StateValue]
  BY DEF Typed
<1>21. states' = Released(e, t)
  BY DEF Unwind
<1>22. states'[y] = IF y # x \/ e.kind = "flight" THEN states[y]
                    ELSE IF e.kind = "permit" THEN [states[y] EXCEPT !.in_flight = @ - 1]
                    ELSE IF e.kind = "waiter" THEN [states[y] EXCEPT !.waiting = @ - 1]
                    ELSE [states[y] EXCEPT !.registrations = @ \ {<<t, e.kind>>}]
  <2>1. CASE e.kind = "flight"
    BY <1>21, <2>1 DEF Released
  <2>2. CASE e.kind = "permit"
    <3>1. e.object = x
      BY <1>17, <2>2, GuardIs
    <3> QED
      BY <1>20, <1>21, <2>2, <3>1 DEF Released
  <2>3. CASE e.kind = "waiter"
    <3>1. e.object = x
      BY <1>17, <2>3, GuardIs
    <3> QED
      BY <1>20, <1>21, <2>3, <3>1 DEF Released
  <2>4. CASE e.kind \in {"page", "fetch"}
    <3>1. e.object = x
      BY <1>17, <2>4, GuardIs
    <3> QED
      BY <1>20, <1>21, <2>4, <3>1 DEF Released
  <2> QED
    BY <1>18, <2>1, <2>2, <2>3, <2>4
<1>23. /\ \A i \in 1..n : r.guards[i].kind = "page" <=> i = 1
       /\ \A i \in 1..n : r.guards[i].kind = "fetch" <=> i = 3
  BY <1>1, <1>4, <1>6, StackOf
<1>24. (e.kind = "page" => n + 1 = 1) /\ (e.kind = "fetch" => n + 1 = 3)
  <2>1. \A i \in 1..(n + 1) : task[t].guards[i].kind = "page" <=> i = 1
    BY <1>1, <1>4, <1>6, StackOf
  <2>2. \A i \in 1..(n + 1) : task[t].guards[i].kind = "fetch" <=> i = 3
    BY <1>1, <1>4, <1>6, StackOf
  <2>3. n + 1 \in 1..(n + 1)
    BY <1>4
  <2> QED
    BY <1>3, <2>1, <2>2, <2>3
<1>25. \A k \in {"page", "fetch"} : e.kind = k => \A i \in 1..n : r.guards[i].kind # k
  BY <1>23, <1>24
<1> HIDE DEF x, e
<1>26. states'[y].registrations = Regs(task', y)
  <2>1. CASE y = x /\ e.kind \in {"page", "fetch"}
    <3>1. Regs(task', y) = Regs(task, y) \ {<<t, e.kind>>}
      BY <1>5, <1>10, <1>19, <1>25, <2>1 DEF MoreRegs
    <3>2. states'[y].registrations = states[y].registrations \ {<<t, e.kind>>}
      BY <1>20, <1>22, <2>1 DEF StateValue
    <3> QED
      BY <1>16, <3>1, <3>2 DEF Reckoned
  <2>2. CASE ~(y = x /\ e.kind \in {"page", "fetch"})
    <3>1. Regs(task', y) = Regs(task, y)
      BY <1>10, <1>19, <2>2 DEF MoreRegs
    <3>2. states'[y].registrations = states[y].registrations
      BY <1>18, <1>20, <1>22, <2>2 DEF StateValue
    <3> QED
      BY <1>16, <3>1, <3>2 DEF Reckoned
  <2> QED
    BY <2>1, <2>2
<1>27. /\ states'[y].waiting = IF y = x /\ e.kind = "waiter" THEN states[y].waiting - 1 ELSE states[y].waiting
       /\ states'[y].in_flight = IF y = x /\ e.kind = "permit" THEN states[y].in_flight - 1 ELSE states[y].in_flight
       /\ states[y].waiting \in Nat /\ states[y].in_flight \in Nat
  BY <1>18, <1>20, <1>22 DEF StateValue
<1>28. /\ e = Guard("waiter", y) <=> y = x /\ e.kind = "waiter"
       /\ e = Guard("permit", y) <=> y = x /\ e.kind = "permit"
  BY <1>19
<1>29. /\ Cardinality(In(task', y, "waiter")) \in Nat /\ Cardinality(In(task', y, "permit")) \in Nat
       /\ Cardinality(GrantsIn(task', y)) \in Nat
  BY InIsFinite, GrantsFinite
<1>30. states'[y].waiting = Cardinality(In(task', y, "waiter"))
  BY <1>10, <1>16, <1>27, <1>28, <1>29 DEF Reckoned, MoreGuards
<1>31. states'[y].in_flight = Cardinality(In(task', y, "permit")) + Cardinality(GrantsIn(task', y))
  BY <1>10, <1>12, <1>14, <1>16, <1>27, <1>28, <1>29 DEF Reckoned, MoreGuards, MoreGrants
<1> QED
  BY <1>26, <1>30, <1>31 DEF Reckoned

\* The stacks, the grants and the use of y are the same.
LEMMA ReckonSame ==
    ASSUME PacingConstants, \A v \in Tasks : task'[v].guards = task[v].guards,
           \A v \in Tasks : task'[v].pc = "granted" <=> task[v].pc = "granted",
           NEW y, SameUse(y), Accounted(y)
    PROVE  Reckoned(task', states'[y], y)
<1>1. /\ \A k : In(task', y, k) = In(task, y, k)
      /\ Regs(task', y) = Regs(task, y) /\ GrantsIn(task', y) = GrantsIn(task, y)
  <2>1. \A k : In(task', y, k) = In(task, y, k)
    BY DEF In
  <2>2. Regs(task', y) = Regs(task, y)
    BY DEF Regs
  <2>3. GrantsIn(task', y) = GrantsIn(task, y)
    BY DEF GrantsIn
  <2> QED
    BY <2>1, <2>2, <2>3
<1>2. Reckoned(task, states[y], y)
  BY AccountedIs
<1> QED
  BY <1>1, <1>2 DEF Reckoned, SameUse

LEMMA KeptIs ==
    ASSUME Typed, NEW t \in Tasks, NEW r, Keeps(t, r)
    PROVE  /\ task'[t] = r /\ \A v \in Tasks \ {t} : task'[v] = task[v]
           /\ \A v \in Tasks : task'[v].guards = task[v].guards
<1>1. task'[t] = r /\ r.guards = task[t].guards /\ \A v \in Tasks \ {t} : task'[v] = task[v]
  BY DEF Keeps, Turns, Typed
<1> QED
  BY <1>1

LEMMA ReckonQuiet ==
    ASSUME PacingConstants, Typed, Stacked, NEW t \in Tasks, KeepStep(t) \/ LeaveStep(t), ~Admission(t),
           NEW y \in Objects, Accounted(y)
    PROVE  Reckoned(task', states'[y], y)
<1>1. PICK r : Keeps(t, r)
  BY KeepTurns, LeaveTurns
<1>2. /\ task'[t] = r /\ \A v \in Tasks \ {t} : task'[v] = task[v]
      /\ \A v \in Tasks : task'[v].guards = task[v].guards
  BY <1>1, KeptIs
<1>3. SameUse(y) /\ task[t].pc # "granted" /\ task'[t].pc # "granted"
  BY QuietEases DEF Eased
<1>4. \A v \in Tasks : task'[v].pc = "granted" <=> task[v].pc = "granted"
  BY <1>2, <1>3
<1> QED
  BY <1>2, <1>3, <1>4, ReckonSame

\* Where a task that waits stands.
LEMMA WaiterIs ==
    ASSUME PacingConstants, Typed, Stacked, NEW t \in Tasks, task[t].pc \in Waits
    PROVE  /\ Object(t) = registry[Target[t]] /\ Object(t) \in Objects
           /\ Top(t) = Guard("waiter", Object(t))
<1> DEFINE x == registry[Target[t]]
<1>1. x \in Reference
  BY HolderOf
<1>2. PICK n \in 0..4 : StackShape(task[t].guards, n, x) /\ Fits(task[t], n)
  BY HolderOf DEF Holds
<1>3. n \in 1..4 /\ task[t].guards[n].kind = "waiter"
  BY <1>2 DEF Fits
<1>4. Top(t) = task[t].guards[n]
  BY <1>1, <1>2, <1>3, TopIs
<1>5. Top(t).kind = "waiter"
  BY <1>3, <1>4
<1>6. Top(t) = Guard(Top(t).kind, x) /\ Object(t) = x /\ x \in Objects
  BY <1>1, <1>2, <1>3, <1>5, TopIs
<1> QED
  BY <1>5, <1>6

LEMMA ReckonAdmission ==
    ASSUME PacingConstants, Typed, Stacked, NEW t \in Tasks, Admission(t), NEW y \in Objects, Accounted(y)
    PROVE  Reckoned(task', states'[y], y)
<1>0. task[t].pc = "inspect" /\ task[t].pc \in Waits /\ KeepStep(t)
  BY DEF Admission, Inspect, At, Waits, KeepStep
<1>1. PICK r : Keeps(t, r)
  BY <1>0, KeepTurns
<1>2. /\ task'[t] = r /\ \A v \in Tasks \ {t} : task'[v] = task[v]
      /\ \A v \in Tasks : task'[v].guards = task[v].guards
  BY <1>1, KeptIs
<1> DEFINE x == Object(t)
<1>3. x \in Objects
  BY <1>0, WaiterIs
<1>4. task'[t].pc = "granted" /\ task[t].pc # "granted"
  <2>1. task' = [task EXCEPT ![t].pc = "granted", ![t].woken = FALSE] /\ task[t] \in TaskValue /\ task \in [Tasks -> TaskValue]
    BY DEF Admission, Inspect, Typed
  <2> QED
    BY <1>0, <2>1 DEF TaskValue
<1>5. OnlyOne(task, task', t)
  BY <1>2, <1>4 DEF OnlyOne
<1>6. MoreGrants(task, task', t, y)
  BY <1>5, GrantsBut
<1>7. task'[t].guards[Len(task'[t].guards)].object = x
  BY <1>2 DEF Object, Top
<1>8. \A k : In(task', y, k) = In(task, y, k)
  BY <1>2 DEF In
<1>9. Regs(task', y) = Regs(task, y)
  BY <1>2 DEF Regs
<1>10. states[y] \in StateValue /\ states \in [Objects -> StateValue]
  BY DEF Typed
<1>11. states'[y] = IF y = x THEN [states[y] EXCEPT !.in_flight = @ + 1, !.next = EffectiveDelay(t)] ELSE states[y]
  BY <1>3, <1>10 DEF Admission, Inspect
<1>12. /\ states'[y].in_flight = IF y = x THEN states[y].in_flight + 1 ELSE states[y].in_flight
       /\ states'[y].waiting = states[y].waiting /\ states'[y].registrations = states[y].registrations
  BY <1>10, <1>11 DEF StateValue
<1>13. Reckoned(task, states[y], y)
  BY AccountedIs
<1>14. Cardinality(In(task, y, "permit")) \in Nat /\ Cardinality(GrantsIn(task, y)) \in Nat
  BY InIsFinite, GrantsFinite
<1> HIDE DEF x
<1>15. states'[y].in_flight = Cardinality(In(task', y, "permit")) + Cardinality(GrantsIn(task', y))
  BY <1>4, <1>6, <1>7, <1>8, <1>12, <1>13, <1>14 DEF Reckoned, MoreGrants
<1> QED
  BY <1>8, <1>9, <1>12, <1>13, <1>15 DEF Reckoned
-----------------------------------------------------------------------------
\* The kinds of steps.

Pops1(t) == Unwind(t) /\ Len(task[t].guards) > task[t].floor
Leads(t) == JoinFlight(t) /\ flights[Target[t]] = NoTask
Stays(t) == (KeepStep(t) \/ LeaveStep(t)) /\ ~Admission(t)
Entry == {<<"new", "page", "evaluate">>, <<"resolve", "fetch", "enter">>}
AnyStep(t) ==
    \/ Stays(t) \/ Admission(t) \/ RegisterWaiter(t) \/ Leads(t) \/ Granted(t) \/ Pops1(t) \/ NotifyWaiters(t)
    \/ \E p \in Entry : Joins(t, p[1], p[2], p[3]) \/ Creates(t, p[1], p[2], p[3])

LEMMA StepCases ==
    ASSUME PacingConstants, Typed, Stacked, RegistryBounded, NEW t \in Tasks, TaskStep(t) \/ Cancel(t)
    PROVE  AnyStep(t) /\ RegistryBounded'
<1>1. CASE Register(t, "new", "page", "evaluate")
  <2>1. /\ \/ Joins(t, "new", "page", "evaluate") \/ Creates(t, "new", "page", "evaluate")
           \/ Refuses(t, "new")
        /\ RegistryBounded'
    BY <1>1, RegisterCases
  <2>2. Refuses(t, "new") => Stays(t)
    BY DEF Stays, LeaveStep, Refuses, At, Admission, Inspect
  <2>3. LET p == <<"new", "page", "evaluate">> IN p \in Entry /\ p[1] = "new" /\ p[2] = "page" /\ p[3] = "evaluate"
    BY DEF Entry
  <2> QED
    BY <2>1, <2>2, <2>3 DEF AnyStep
<1>2. CASE Register(t, "resolve", "fetch", "enter")
  <2>1. /\ \/ Joins(t, "resolve", "fetch", "enter") \/ Creates(t, "resolve", "fetch", "enter")
           \/ Refuses(t, "resolve")
        /\ RegistryBounded'
    BY <1>2, RegisterCases
  <2>2. Refuses(t, "resolve") => Stays(t)
    BY DEF Stays, LeaveStep, Refuses, At, Admission, Inspect
  <2>3. LET p == <<"resolve", "fetch", "enter">> IN p \in Entry /\ p[1] = "resolve" /\ p[2] = "fetch" /\ p[3] = "enter"
    BY DEF Entry
  <2> QED
    BY <2>1, <2>2, <2>3 DEF AnyStep
<1>3. CASE ~Register(t, "new", "page", "evaluate") /\ ~Register(t, "resolve", "fetch", "enter")
  <2>1. AnyStep(t)
    <3>1. \/ KeepStep(t) \/ Unwind(t) \/ JoinFlight(t)
          \/ RegisterWaiter(t) \/ Granted(t) \/ NotifyWaiters(t)
      BY <1>3 DEF TaskStep, KeepStep
    <3>2. Unwind(t) => LeaveStep(t) \/ Pops1(t)
      BY DEF LeaveStep, Pops1
    <3>3. JoinFlight(t) => KeepStep(t) \/ Leads(t)
      BY DEF KeepStep, Leads
    <3> QED
      BY <3>1, <3>2, <3>3 DEF AnyStep, Stays
  <2>2. registry' = registry
    BY <1>3 DEF TaskStep, RegisterWaiter, Enable, Inspect, Await, Wake, Granted, Evaluate, JoinFlight, Follow,
           RobotsFetched, RobotsUnavailable, StorePolicy, Admitted, PageLoaded, Unwind, NotifyWaiters, Cancel
  <2>3. RegistryBounded'
    BY <2>2 DEF RegistryBounded, Registered
  <2> QED
    BY <2>1, <2>3
<1> QED
  BY <1>1, <1>2, <1>3

LEMMA EntryIs ==
    ASSUME NEW p \in Entry
    PROVE  /\ \/ p[1] = "new" /\ p[2] = "page" /\ p[3] = "evaluate"
              \/ p[1] = "resolve" /\ p[2] = "fetch" /\ p[3] = "enter"
           /\ p[2] \in {"page", "fetch"}
  BY DEF Entry

LEMMA NotifyIs ==
    ASSUME Typed, NEW t \in Tasks, NotifyWaiters(t)
    PROVE  /\ registry' = registry /\ states' = states /\ cache' = cache /\ flights' = flights /\ quiet' = quiet
           /\ task' \in [Tasks -> TaskValue]
           /\ \A v \in Tasks :
                 /\ task'[v].pc = task[v].pc /\ task'[v].guards = task[v].guards
                 /\ task'[v].until = task[v].until /\ task'[v].floor = task[v].floor
                 /\ v # t => task'[v].notify = task[v].notify
                 /\ v # t /\ task[v].pc \in {"decided", "sleep"} /\ Object(v) = task[t].notify => task'[v].woken
                 /\ task[v].woken => task'[v].woken
           /\ task'[t].notify = NoObject
<1>1. task \in [Tasks -> TaskValue] /\ NoObject \in Reference
  BY DEF Typed, Reference
<1>2. ASSUME NEW v \in Tasks
      PROVE  /\ task'[v] \in TaskValue
             /\ task'[v].pc = task[v].pc /\ task'[v].guards = task[v].guards
             /\ task'[v].until = task[v].until /\ task'[v].floor = task[v].floor
             /\ v # t => task'[v].notify = task[v].notify
             /\ v # t /\ task[v].pc \in {"decided", "sleep"} /\ Object(v) = task[t].notify => task'[v].woken
             /\ task[v].woken => task'[v].woken
             /\ v = t => task'[v].notify = NoObject
  <2>1. task[v] \in TaskValue
    BY <1>1
  <2>2. task'[v] = IF v = t THEN [task[v] EXCEPT !.notify = NoObject]
                   ELSE IF task[v].pc \in {"inspect", "decided", "sleep"} /\ Top(v).object = task[t].notify
                   THEN [task[v] EXCEPT !.woken = TRUE]
                   ELSE task[v]
    BY DEF NotifyWaiters
  <2>3. CASE v = t
    <3>1. task'[v] = [task[v] EXCEPT !.notify = NoObject]
      BY <2>2, <2>3
    <3> QED
      BY <1>1, <2>1, <2>3, <3>1 DEF TaskValue
  <2>4. CASE v # t /\ task[v].pc \in {"inspect", "decided", "sleep"} /\ Top(v).object = task[t].notify
    <3>1. task'[v] = [task[v] EXCEPT !.woken = TRUE]
      BY <2>2, <2>4
    <3> QED
      BY <1>1, <2>1, <2>4, <3>1 DEF TaskValue
  <2>5. CASE v # t /\ ~(task[v].pc \in {"inspect", "decided", "sleep"} /\ Top(v).object = task[t].notify)
    BY <2>1, <2>2, <2>5 DEF Object
  <2> QED
    BY <2>3, <2>4, <2>5
<1>3. task' = [v \in Tasks |-> task'[v]]
  BY DEF NotifyWaiters
<1>4. task' \in [Tasks -> TaskValue]
  BY <1>2, <1>3
<1> QED
  BY <1>2, <1>4 DEF NotifyWaiters

LEMMA TickIs ==
    ASSUME Typed, Tick
    PROVE  /\ registry' = registry /\ flights' = flights /\ task' \in [Tasks -> TaskValue]
           /\ states' \in [Objects -> StateValue] /\ quiet' \in [Origins -> Nat] /\ cache' \in [Origins -> Policy]
           /\ \A v \in Tasks :
                 /\ task'[v].pc = task[v].pc /\ task'[v].guards = task[v].guards
                 /\ task'[v].notify = task[v].notify /\ task'[v].woken = task[v].woken
                 /\ task'[v].floor = task[v].floor
                 /\ task'[v].until = -1 => task[v].until = -1
           /\ \A y \in Objects : /\ SameUse(y) /\ states'[y].next = Less(states[y].next)
                                 /\ states'[y].backoff = Less(states[y].backoff) /\ states'[y].retry = Less(states[y].retry)
           /\ \A o \in Origins : quiet'[o] = Less(quiet[o]) /\ (cache'[o].left > 0 => cache[o].left > 0)
<1>1. /\ task \in [Tasks -> TaskValue] /\ states \in [Objects -> StateValue]
      /\ quiet \in [Origins -> Nat] /\ cache \in [Origins -> Policy]
  BY DEF Typed
<1>2. ASSUME NEW v \in Tasks
      PROVE  /\ task'[v] \in TaskValue
             /\ task'[v].pc = task[v].pc /\ task'[v].guards = task[v].guards
             /\ task'[v].notify = task[v].notify /\ task'[v].woken = task[v].woken
             /\ task'[v].floor = task[v].floor
             /\ task'[v].until = -1 => task[v].until = -1
  <2>1. task[v] \in TaskValue /\ task[v].until \in Nat \cup {-1}
    BY <1>1 DEF TaskValue
  <2>2. PICK u \in Nat \cup {-1} : u = Less(task[v].until) /\ (u = -1 => task[v].until = -1)
    BY <2>1, LessIsLess
  <2>3. task'[v] = [task[v] EXCEPT !.until = u]
    BY <2>2 DEF Tick
  <2> QED
    BY <2>1, <2>2, <2>3 DEF TaskValue
<1>3. ASSUME NEW y \in Objects
      PROVE  /\ states'[y] \in StateValue /\ SameUse(y) /\ states'[y].next = Less(states[y].next)
             /\ states'[y].backoff = Less(states[y].backoff) /\ states'[y].retry = Less(states[y].retry)
  <2>1. states[y] \in StateValue /\ states[y].next \in Nat /\ states[y].backoff \in Nat /\ states[y].retry \in Nat
    BY <1>1 DEF StateValue
  <2>2. PICK i \in Nat : i = Less(states[y].next)
    BY <2>1, LessIsLess
  <2>3. PICK j \in Nat : j = Less(states[y].backoff)
    BY <2>1, LessIsLess
  <2>4. PICK k \in Nat : k = Less(states[y].retry)
    BY <2>1, LessIsLess
  <2>5. states'[y] = [states[y] EXCEPT !.next = i, !.backoff = j, !.retry = k]
    BY <2>2, <2>3, <2>4 DEF Tick
  <2> QED
    BY <2>1, <2>2, <2>3, <2>4, <2>5 DEF StateValue, SameUse
<1>4. ASSUME NEW o \in Origins
      PROVE  /\ quiet'[o] \in Nat /\ cache'[o] \in Policy
             /\ quiet'[o] = Less(quiet[o]) /\ (cache'[o].left > 0 => cache[o].left > 0)
  <2>1. quiet'[o] = Less(quiet[o]) /\ quiet[o] \in Nat
    BY <1>1 DEF Tick
  <2>2. cache[o] \in Policy /\ cache[o].left \in Nat
    BY <1>1 DEF Policy
  <2>3. cache'[o] = IF cache[o].left > 1 THEN [cache[o] EXCEPT !.left = @ - 1] ELSE NoPolicy
    BY DEF Tick
  <2>4. NoPolicy \in Policy /\ NoPolicy.left = 0
    BY DEF NoPolicy, Policy
  <2>5. cache'[o] \in Policy /\ (cache'[o].left > 0 => cache[o].left > 0)
    <3>1. CASE cache[o].left > 1
      <4>1. cache'[o] = [cache[o] EXCEPT !.left = cache[o].left - 1] /\ cache[o].left - 1 \in Nat
        BY <2>2, <2>3, <3>1
      <4> QED
        BY <2>2, <3>1, <4>1 DEF Policy
    <3>2. CASE ~(cache[o].left > 1)
      BY <2>3, <2>4, <3>2
    <3> QED
      BY <3>1, <3>2
  <2> QED
    BY <2>1, <2>5, LessIsLess
<1>5. /\ task' = [v \in Tasks |-> task'[v]] /\ states' = [y \in Objects |-> states'[y]]
      /\ quiet' = [o \in Origins |-> quiet'[o]] /\ cache' = [o \in Origins |-> cache'[o]]
  BY DEF Tick
<1>6. task' \in [Tasks -> TaskValue] /\ states' \in [Objects -> StateValue]
  BY <1>2, <1>3, <1>5
<1>7. quiet' \in [Origins -> Nat] /\ cache' \in [Origins -> Policy]
  BY <1>4, <1>5
<1>8. registry' = registry /\ flights' = flights
  BY DEF Tick
<1> QED
  BY <1>2, <1>3, <1>4, <1>6, <1>7, <1>8
-----------------------------------------------------------------------------
\* Every step keeps the accounts.

LEMMA SameRegistry ==
    ASSUME Typed, CapacityAccounted, registry' = registry,
           \A y \in Objects : Accounted(y) => Reckoned(task', states'[y], y)
    PROVE  CapacityAccounted'
<1>1. ASSUME NEW o \in Registered'
      PROVE  Reckoned(task', states'[registry'[o]], registry'[o])
  <2>1. o \in Registered /\ registry[o] \in Objects
    BY DEF Registered, Typed, Reference
  <2>2. Accounted(registry[o])
    BY <2>1 DEF CapacityAccounted
  <2> QED
    BY <2>1, <2>2
<1> QED
  BY <1>1, AccountedIs

LEMMA CreatedAccounts ==
    ASSUME PacingConstants, Typed, Stacked, CapacityAccounted, RegistryBounded, NEW t \in Tasks, NEW p \in Entry,
           Creates(t, p[1], p[2], p[3])
    PROVE  CapacityAccounted'
<1> DEFINE x == FreeObject
<1>1. x \in Objects /\ ~Referenced(x) /\ Target[t] \in Origins
  BY FreeObjectIsFree, HolderOf DEF Creates, Attaches, At
<1>2. NewState \in StateValue /\ Reckoned(task, NewState, x)
  BY <1>1, FreeIsReckoned DEF NewState, StateValue
<1>3. Attaches(t, p[1], p[2], p[3], x, NewState) /\ Target[t] \notin Registered
  BY DEF Creates
<1>4. \/ p[1] = "new" /\ p[2] = "page" /\ p[3] = "evaluate"
      \/ p[1] = "resolve" /\ p[2] = "fetch" /\ p[3] = "enter"
  BY EntryIs
<1> HIDE DEF x
<1>5. ASSUME NEW y \in Objects, y # x => Accounted(y)
      PROVE  Reckoned(task', states'[y], y)
  <2>1. Reckoned(task, IF y = x THEN NewState ELSE states[y], y)
    BY <1>2, <1>5, AccountedIs
  <2> QED
    BY <1>1, <1>2, <1>3, <1>4, <2>1, ReckonAttach
<1>6. ASSUME NEW o \in Registered'
      PROVE  registry'[o] \in Objects /\ (registry'[o] # x => Accounted(registry'[o]))
  <2>1. o \in Origins /\ registry'[o] # NoObject
    BY DEF Registered
  <2>2. CASE o = Target[t]
    BY <1>1, <2>2 DEF Creates, x
  <2>3. CASE o # Target[t]
    <3>1. registry'[o] = registry[o]
      BY <2>1, <2>3 DEF Creates
    <3>2. o \in Registered /\ registry[o] \in Objects
      BY <2>1, <3>1 DEF Registered, Typed, Reference
    <3> QED
      BY <3>1, <3>2 DEF CapacityAccounted
  <2> QED
    BY <2>2, <2>3
<1>7. \A o \in Registered' : Reckoned(task', states'[registry'[o]], registry'[o])
  BY <1>5, <1>6
<1> QED
  BY <1>7, AccountedIs

LEMMA ReckonStep ==
    ASSUME PacingConstants, Typed, Stacked, RegistryBounded, NEW t \in Tasks, AnyStep(t),
           \A p \in Entry : ~Creates(t, p[1], p[2], p[3]), NEW y \in Objects, Accounted(y)
    PROVE  registry' = registry /\ Reckoned(task', states'[y], y)
<1>1. CASE Stays(t)
  BY <1>1, ReckonQuiet, QuietEases DEF Stays
<1>2. CASE Admission(t)
  BY <1>2, ReckonAdmission DEF Admission, Inspect
<1>3. CASE RegisterWaiter(t)
  BY <1>3, ReckonWaiter DEF RegisterWaiter
<1>4. CASE Leads(t)
  BY <1>4, ReckonFlight DEF Leads, JoinFlight
<1>5. CASE Granted(t)
  BY <1>5, ReckonSwap DEF Granted
<1>6. CASE Pops1(t)
  BY <1>6, ReckonPop DEF Pops1, Unwind
<1>7. CASE NotifyWaiters(t)
  <2>1. SameUse(y) /\ registry' = registry
    BY <1>7 DEF NotifyWaiters, SameUse
  <2>2. /\ \A v \in Tasks : task'[v].guards = task[v].guards
        /\ \A v \in Tasks : task'[v].pc = "granted" <=> task[v].pc = "granted"
    BY <1>7, NotifyIs
  <2> QED
    BY <2>1, <2>2, ReckonSame
<1>8. ASSUME NEW p \in Entry, Joins(t, p[1], p[2], p[3])
      PROVE  registry' = registry /\ Reckoned(task', states'[y], y)
  <2> DEFINE x == registry[Target[t]]
  <2>1. x \in Objects /\ states[x] \in StateValue
    BY <1>8 DEF Joins, Registered, Typed, Reference
  <2>2. Attaches(t, p[1], p[2], p[3], x, states[x]) /\ registry' = registry
    BY <1>8 DEF Joins
  <2>3. \/ p[1] = "new" /\ p[2] = "page" /\ p[3] = "evaluate"
        \/ p[1] = "resolve" /\ p[2] = "fetch" /\ p[3] = "enter"
    BY EntryIs
  <2>4. Reckoned(task, IF y = x THEN states[x] ELSE states[y], y)
    BY AccountedIs
  <2> QED
    BY <2>1, <2>2, <2>3, <2>4, ReckonAttach
<1> QED
  BY <1>1, <1>2, <1>3, <1>4, <1>5, <1>6, <1>7, <1>8 DEF AnyStep

LEMMA KeptRegistry ==
    ASSUME PacingConstants, Typed, Stacked, NEW t \in Tasks, AnyStep(t), \A p \in Entry : ~Creates(t, p[1], p[2], p[3])
    PROVE  registry' = registry
<1>1. Stays(t) => registry' = registry
  BY QuietEases DEF Stays
<1> QED
  BY <1>1 DEF AnyStep, Admission, Inspect, RegisterWaiter, Leads, JoinFlight, Granted, Pops1, Unwind, NotifyWaiters, Joins

LEMMA AccountedStep ==
    ASSUME PacingConstants, Typed, Stacked, CapacityAccounted, RegistryBounded, NEW t \in Tasks, AnyStep(t)
    PROVE  CapacityAccounted'
<1>1. CASE \E p \in Entry : Creates(t, p[1], p[2], p[3])
  BY <1>1, CreatedAccounts
<1>2. CASE \A p \in Entry : ~Creates(t, p[1], p[2], p[3])
  BY <1>2, KeptRegistry, ReckonStep, SameRegistry
<1> QED
  BY <1>1, <1>2

LEMMA AccountedTick ==
    ASSUME PacingConstants, Typed, CapacityAccounted, Tick
    PROVE  CapacityAccounted'
<1>1. registry' = registry /\ \A y \in Objects : SameUse(y)
  BY TickIs
<1>2. /\ \A v \in Tasks : task'[v].guards = task[v].guards
      /\ \A v \in Tasks : task'[v].pc = "granted" <=> task[v].pc = "granted"
  BY TickIs
<1>3. \A y \in Objects : Accounted(y) => Reckoned(task', states'[y], y)
  BY <1>1, <1>2, ReckonSame
<1> QED
  BY <1>1, <1>3, SameRegistry
-----------------------------------------------------------------------------
\* Types.

\* A task that holds a guard has the state of its origin, which is accounted.
LEMMA HeldIs ==
    ASSUME PacingConstants, Typed, CapacityAccounted, NEW t \in Tasks, registry[Target[t]] # NoObject
    PROVE  /\ Target[t] \in Registered /\ registry[Target[t]] \in Objects
           /\ Accounted(registry[Target[t]])
<1>1. Target[t] \in Registered /\ registry[Target[t]] \in Objects
  BY DEF PacingConstants, Typed, Reference, Registered
<1> QED
  BY <1>1 DEF CapacityAccounted

LEMMA TaskTyped ==
    ASSUME PacingConstants, Typed, Stacked, RegistryBounded, NEW t \in Tasks, AnyStep(t)
    PROVE  task' \in [Tasks -> TaskValue]
<1> DEFINE x == registry[Target[t]]
<1>1. ASSUME NEW r, Turns(t, r)
      PROVE  task' \in [Tasks -> TaskValue]
  BY <1>1 DEF Turns, Typed
<1>2. CASE Stays(t) \/ Admission(t)
  <2>1. KeepStep(t) \/ LeaveStep(t)
    BY <1>2 DEF Stays, Admission, KeepStep
  <2>2. PICK r : Keeps(t, r)
    BY <2>1, KeepTurns, LeaveTurns
  <2> QED
    BY <1>1, <2>2 DEF Keeps
<1>3. CASE RegisterWaiter(t)
  <2>1. PICK r : \E n \in {1, 3} : Pushes(t, r, n, x, Guard("waiter", x)) /\ r.pc = "loop"
    BY <1>3, WaiterTurns
  <2> QED
    BY <1>1, <2>1 DEF Pushes
<1>4. CASE Leads(t)
  <2>1. PICK r : Pushes(t, r, 1, x, Guard("flight", NoObject)) /\ r.pc = "resolve"
    BY <1>4, FlightTurns DEF Leads
  <2> QED
    BY <1>1, <2>1 DEF Pushes
<1>5. CASE Granted(t)
  <2>1. PICK r, g : \E n \in {1, 3} :
           Swaps(t, r, n, x, g) /\ r.pc \in {"fetching", "loading"} /\ r.notify = x
    BY <1>5, SwapTurns
  <2> QED
    BY <1>1, <2>1 DEF Swaps
<1>6. CASE Pops1(t)
  <2>1. PICK r : \E n \in 0..3 :
           Pops(t, r, n, x) /\ r.pc = "unwind" /\ r.notify = Top(t).object /\ Top(t) = task[t].guards[n + 1]
    BY <1>6, PopTurns DEF Pops1
  <2> QED
    BY <1>1, <2>1 DEF Pops
<1>7. CASE NotifyWaiters(t)
  BY <1>7, NotifyIs
<1>8. ASSUME NEW p \in Entry, NEW y \in Objects, NEW s, Attaches(t, p[1], p[2], p[3], y, s),
             y = x \/ Target[t] \notin Registered
      PROVE  task' \in [Tasks -> TaskValue]
  <2>1. \/ p[1] = "new" /\ p[2] = "page" /\ p[3] = "evaluate"
        \/ p[1] = "resolve" /\ p[2] = "fetch" /\ p[3] = "enter"
    BY EntryIs
  <2>2. PICK r : \E n \in {0, 2} : Pushes(t, r, n, y, Guard(p[2], y)) /\ r.pc = p[3] /\ r.notify = y
    BY <1>8, <2>1, AttachTurns
  <2> QED
    BY <1>1, <2>2 DEF Pushes
<1>9. ASSUME NEW p \in Entry, Joins(t, p[1], p[2], p[3])
      PROVE  task' \in [Tasks -> TaskValue]
  <2>1. x \in Objects
    BY <1>9 DEF Joins, Registered, Typed, Reference
  <2> QED
    BY <1>8, <1>9, <2>1 DEF Joins
<1>10. ASSUME NEW p \in Entry, Creates(t, p[1], p[2], p[3])
       PROVE  task' \in [Tasks -> TaskValue]
  <2>1. FreeObject \in Objects
    BY <1>10, FreeObjectIsFree DEF Creates, Attaches, At
  <2> QED
    BY <1>8, <1>10, <2>1 DEF Creates
<1> QED
  BY <1>2, <1>3, <1>4, <1>5, <1>6, <1>7, <1>9, <1>10 DEF AnyStep

LEMMA EffectiveDelayIsNat ==
    ASSUME PacingConstants, Typed, NEW t \in Tasks
    PROVE  EffectiveDelay(t) \in Nat
<1>1. Delay[t] \in Nat
  BY DEF PacingConstants
<1>2. task[t].policy.delay \in Nat
  BY DEF Typed, TaskValue, Policy
<1> QED
  BY <1>1, <1>2 DEF EffectiveDelay, Max2

LEMMA StatesTyped ==
    ASSUME PacingConstants, Typed, Stacked, CapacityAccounted, RegistryBounded, NEW t \in Tasks, AnyStep(t)
    PROVE  states' \in [Objects -> StateValue]
<1> DEFINE x == registry[Target[t]]
<1>0. states \in [Objects -> StateValue] /\ x \in Reference
  BY HolderOf DEF Typed
<1>1. CASE Stays(t)
  BY <1>1, QuietEases DEF Stays, Eased
<1>2. CASE Admission(t)
  <2>1. Object(t) \in Objects
    BY <1>2, WaiterIs DEF Admission, Inspect, At, Waits
  <2>2. PICK d \in Nat : d = EffectiveDelay(t)
    BY EffectiveDelayIsNat
  <2>3. states' = [states EXCEPT ![Object(t)].in_flight = @ + 1, ![Object(t)].next = d]
    BY <1>2, <2>2 DEF Admission, Inspect
  <2>4. PICK w : w = [states[Object(t)] EXCEPT !.in_flight = @ + 1, !.next = d]
    OBVIOUS
  <2>7. states[Object(t)] \in StateValue
    BY <1>0, <2>1
  <2>5. w \in StateValue
    <3>1. PICK s \in StateValue : s = states[Object(t)]
      BY <2>7
    <3>2. PICK i \in Nat : i = s.in_flight + 1
      BY DEF StateValue
    <3>3. w = [s EXCEPT !.in_flight = i, !.next = d]
      BY <2>4, <3>1, <3>2
    <3> QED
      BY <2>2, <3>3 DEF StateValue
  <2>6. states' = [states EXCEPT ![Object(t)] = w]
    BY <1>0, <2>1, <2>3, <2>4
  <2> QED
    BY <1>0, <2>5, <2>6
<1>3. CASE RegisterWaiter(t)
  <2>1. Object(t) \in Objects
    BY <1>3, WaiterTurns
  <2>2. PICK w : w = [states[Object(t)] EXCEPT !.waiting = @ + 1]
    OBVIOUS
  <2>3. w \in StateValue
    BY <1>0, <2>1, <2>2 DEF StateValue
  <2>4. states' = [states EXCEPT ![Object(t)] = w]
    BY <1>0, <1>3, <2>1, <2>2 DEF RegisterWaiter
  <2> QED
    BY <1>0, <2>3, <2>4
<1>4. CASE Leads(t) \/ NotifyWaiters(t)
  BY <1>0, <1>4 DEF Leads, JoinFlight, NotifyWaiters
<1>5. ASSUME x \in Objects, NEW w, states' = [states EXCEPT ![x] = w],
             w \in [registrations : SUBSET (Tasks \X {"page", "fetch"}), in_flight : Int, waiting : Int,
                    next : Nat, backoff : Nat, retry : Nat, limits : Nat],
             Reckoned(task', states'[x], x)
      PROVE  states' \in [Objects -> StateValue]
  <2>1. states'[x] = w
    BY <1>0, <1>5
  <2>2. /\ Cardinality(In(task', x, "waiter")) \in Nat /\ Cardinality(In(task', x, "permit")) \in Nat
        /\ Cardinality(GrantsIn(task', x)) \in Nat
    BY InIsFinite, GrantsFinite
  <2>3. w.waiting \in Nat /\ w.in_flight \in Nat
    BY <1>5, <2>1, <2>2 DEF Reckoned
  <2>4. w \in StateValue
    BY <1>5, <2>3 DEF StateValue
  <2> QED
    BY <1>0, <1>5, <2>4
<1>6. CASE Granted(t)
  <2>1. Object(t) = x /\ x \in Objects
    BY <1>6, SwapTurns
  <2>2. Accounted(x)
    BY <2>1, HeldIs DEF Objects, NoObject
  <2>3. PICK w : w = [states[x] EXCEPT !.waiting = @ - 1]
    OBVIOUS
  <2>4. states' = [states EXCEPT ![x] = w]
    BY <1>0, <1>6, <2>1, <2>3 DEF Granted
  <2>5. w \in [registrations : SUBSET (Tasks \X {"page", "fetch"}), in_flight : Int, waiting : Int,
               next : Nat, backoff : Nat, retry : Nat, limits : Nat]
    BY <1>0, <2>1, <2>3 DEF StateValue
  <2>6. Reckoned(task', states'[x], x)
    BY <1>6, <2>1, <2>2, ReckonSwap
  <2> HIDE DEF x
  <2> QED
    BY <1>5, <2>1, <2>4, <2>5, <2>6
<1>7. CASE Pops1(t)
  <2>1. PICK n \in 0..3 : StackShape(task[t].guards, n + 1, x) /\ Top(t) = task[t].guards[n + 1]
    BY <1>7, PopTurns DEF Pops1, Pops
  <2>2. x \in Objects
    BY <1>0, <2>1 DEF StackShape, Reference
  <2>3. Accounted(x)
    BY <2>2, HeldIs DEF Objects, NoObject
  <2>4. Reckoned(task', states'[x], x)
    BY <1>7, <2>2, <2>3, ReckonPop DEF Pops1
  <2>5. states' = Released(Top(t), t)
    BY <1>7 DEF Pops1, Unwind
  <2>6. n + 1 \in 1..4
    BY <2>1
  <2>7. /\ Top(t) \in GuardValue
        /\ Top(t).kind # "flight" => Top(t) = Guard(Top(t).kind, x)
    BY <1>0, <2>1, <2>6, TopIs
  <2>8. Top(t).kind # "flight" => Top(t).object = x
    BY <2>7, GuardIs
  <2>9. Top(t).kind \in {"page", "flight", "fetch", "waiter", "permit"}
    BY <2>7 DEF GuardValue
  <2>10. CASE Top(t).kind = "flight"
    BY <1>0, <2>5, <2>10 DEF Released
  <2>11. CASE Top(t).kind = "permit"
    <3>1. PICK w : w = [states[x] EXCEPT !.in_flight = @ - 1]
      OBVIOUS
    <3>2. states' = [states EXCEPT ![x] = w]
      BY <1>0, <2>2, <2>5, <2>8, <2>11, <3>1 DEF Released
    <3>3. w \in [registrations : SUBSET (Tasks \X {"page", "fetch"}), in_flight : Int, waiting : Int,
                 next : Nat, backoff : Nat, retry : Nat, limits : Nat]
      BY <1>0, <2>2, <3>1 DEF StateValue
    <3> HIDE DEF x
    <3> QED
      BY <1>5, <2>2, <2>4, <3>2, <3>3
  <2>12. CASE Top(t).kind = "waiter"
    <3>1. PICK w : w = [states[x] EXCEPT !.waiting = @ - 1]
      OBVIOUS
    <3>2. states' = [states EXCEPT ![x] = w]
      BY <1>0, <2>2, <2>5, <2>8, <2>12, <3>1 DEF Released
    <3>3. w \in [registrations : SUBSET (Tasks \X {"page", "fetch"}), in_flight : Int, waiting : Int,
                 next : Nat, backoff : Nat, retry : Nat, limits : Nat]
      BY <1>0, <2>2, <3>1 DEF StateValue
    <3> HIDE DEF x
    <3> QED
      BY <1>5, <2>2, <2>4, <3>2, <3>3
  <2>13. CASE Top(t).kind \in {"page", "fetch"}
    <3>1. PICK w : w = [states[x] EXCEPT !.registrations = @ \ {<<t, Top(t).kind>>}]
      OBVIOUS
    <3>2. states' = [states EXCEPT ![x] = w]
      BY <1>0, <2>2, <2>5, <2>8, <2>13, <3>1 DEF Released
    <3>3. w \in StateValue
      BY <1>0, <2>2, <3>1 DEF StateValue
    <3> QED
      BY <1>0, <3>2, <3>3
  <2> QED
    BY <2>9, <2>10, <2>11, <2>12, <2>13
<1>8. ASSUME NEW p \in Entry, NEW y \in Objects, NEW s \in StateValue, Attaches(t, p[1], p[2], p[3], y, s)
      PROVE  states' \in [Objects -> StateValue]
  <2>1. PICK w : w = [s EXCEPT !.registrations = @ \cup {<<t, p[2]>>}]
    OBVIOUS
  <2>2. p[2] \in {"page", "fetch"}
    BY EntryIs
  <2>3. w \in StateValue
    BY <2>1, <2>2 DEF StateValue
  <2> QED
    BY <1>0, <1>8, <2>1, <2>3 DEF Attaches
<1>9. ASSUME NEW p \in Entry, Joins(t, p[1], p[2], p[3])
      PROVE  states' \in [Objects -> StateValue]
  <2>1. x \in Objects /\ states[x] \in StateValue
    BY <1>9 DEF Joins, Registered, Typed, Reference
  <2> QED
    BY <1>8, <1>9, <2>1 DEF Joins
<1>10. ASSUME NEW p \in Entry, Creates(t, p[1], p[2], p[3])
       PROVE  states' \in [Objects -> StateValue]
  <2>1. FreeObject \in Objects /\ NewState \in StateValue
    BY <1>10, FreeObjectIsFree DEF Creates, Attaches, At, NewState, StateValue
  <2> QED
    BY <1>8, <1>10, <2>1 DEF Creates
<1> QED
  BY <1>1, <1>2, <1>3, <1>4, <1>6, <1>7, <1>9, <1>10 DEF AnyStep

\* What a step makes of the flights.
Flies(t) ==
    \/ Leads(t) /\ flights' = [flights EXCEPT ![Target[t]] = t]
    \/ Pops1(t) /\ Top(t).kind = "flight" /\ flights' = [flights EXCEPT ![Target[t]] = NoTask]
    \/ ~Leads(t) /\ ~(Pops1(t) /\ Top(t).kind = "flight") /\ flights' = flights

LEMMA FlightsAre ==
    ASSUME NEW t \in Tasks, AnyStep(t)
    PROVE  Flies(t)
<1>1. CASE Leads(t)
  BY <1>1 DEF Leads, JoinFlight, Flies
<1>2. CASE Pops1(t)
  <2>1. ~Leads(t)
    BY <1>2 DEF Pops1, Unwind, Leads, JoinFlight, At
  <2> QED
    BY <1>2, <2>1 DEF Pops1, Unwind, Landed, Flies
<1>3. CASE ~Leads(t) /\ ~Pops1(t)
  <2>1. KeepStep(t) => flights' = flights
    BY <1>3 DEF Leads, KeepStep, Enable, Inspect, Await, Wake, Evaluate, JoinFlight, Follow, RobotsFetched,
           RobotsUnavailable, StorePolicy, Admitted, PageLoaded, Cancel
  <2>2. LeaveStep(t) => flights' = flights
    BY DEF LeaveStep, Refuses, Unwind
  <2>3. flights' = flights
    BY <1>3, <2>1, <2>2 DEF AnyStep, Stays, Admission, KeepStep, RegisterWaiter, Granted, NotifyWaiters, Joins, Creates, Attaches
  <2> QED
    BY <1>3, <2>3 DEF Flies
<1> QED
  BY <1>1, <1>2, <1>3

LEMMA FlightsTyped ==
    ASSUME PacingConstants, Typed, NEW t \in Tasks, AnyStep(t)
    PROVE  flights' \in [Origins -> Tasks \cup {NoTask}]
  BY FlightsAre DEF Flies, Typed

\* What a step makes of the cache.
LEMMA CacheIs ==
    ASSUME NEW t \in Tasks, AnyStep(t)
    PROVE  StorePolicy(t) \/ cache' = cache
<1>1. KeepStep(t) => StorePolicy(t) \/ cache' = cache
  BY DEF KeepStep, Enable, Inspect, Await, Wake, Evaluate, JoinFlight, Follow, RobotsFetched,
         RobotsUnavailable, Admitted, PageLoaded, Cancel
<1>2. LeaveStep(t) => cache' = cache
  BY DEF LeaveStep, Refuses, Unwind
<1>3. Admission(t) => cache' = cache
  BY DEF Admission, Inspect
<1> QED
  BY <1>1, <1>2, <1>3 DEF AnyStep, Stays, RegisterWaiter, Leads, JoinFlight, Granted, Pops1, Unwind, NotifyWaiters,
         Joins, Creates, Attaches

\* An insertion: q gives way, or is the origin itself.
Stores(t, q) ==
    LET o == Target[t]
        kept == {u \in Origins \ {o} : cache[u].left > 0}
    IN  /\ q \in Origins
        /\ \/ cache[o].left = 0 /\ Cardinality(kept) >= CacheCapacity /\ q \in kept
           \/ ~(cache[o].left = 0 /\ Cardinality(kept) >= CacheCapacity) /\ q = o
        /\ cache' = [cache EXCEPT ![q] = NoPolicy, ![o] = [task[t].policy EXCEPT !.left = CacheTTL]]

LEMMA StoresIs ==
    ASSUME PacingConstants, NEW t \in Tasks, StorePolicy(t)
    PROVE  \E q : Stores(t, q)
<1>1. Target[t] \in Origins
  BY DEF PacingConstants
<1> QED
  BY <1>1 DEF StorePolicy, Stores

LEMMA CacheTyped ==
    ASSUME PacingConstants, Typed, NEW t \in Tasks, AnyStep(t)
    PROVE  cache' \in [Origins -> Policy]
<1>1. CASE cache' = cache
  BY <1>1 DEF Typed
<1>2. CASE StorePolicy(t)
  <2>1. PICK q : Stores(t, q)
    BY <1>2, StoresIs
  <2>2. task[t].policy \in Policy /\ CacheTTL \in Nat
    BY DEF Typed, TaskValue, PacingConstants
  <2>3. PICK p \in Policy : p = [task[t].policy EXCEPT !.left = CacheTTL]
    BY <2>2 DEF Policy
  <2>4. NoPolicy \in Policy
    BY DEF NoPolicy, Policy
  <2>5. cache' = [cache EXCEPT ![q] = NoPolicy, ![Target[t]] = p]
    BY <2>1, <2>3 DEF Stores
  <2> QED
    BY <2>3, <2>4, <2>5 DEF Typed
<1> QED
  BY <1>1, <1>2, CacheIs

\* What a step makes of the pauses.
Pauses(t) ==
    \/ Stays(t) /\ Eased(t)
    \/ Admission(t) /\ quiet' = [quiet EXCEPT ![Target[t]] = Max2(@, EffectiveDelay(t))]
    \/ ~Stays(t) /\ ~Admission(t) /\ quiet' = quiet

LEMMA PausesAre ==
    ASSUME PacingConstants, Typed, Stacked, NEW t \in Tasks, AnyStep(t)
    PROVE  Pauses(t)
<1>1. CASE Stays(t)
  BY <1>1, QuietEases DEF Stays, Pauses
<1>2. CASE Admission(t)
  BY <1>2 DEF Admission, Inspect, Pauses
<1>3. CASE ~Stays(t) /\ ~Admission(t)
  BY <1>3 DEF AnyStep, RegisterWaiter, Leads, JoinFlight, Granted, Pops1, Unwind, NotifyWaiters,
         Joins, Creates, Attaches, Pauses
<1> QED
  BY <1>1, <1>2, <1>3

LEMMA QuietTyped ==
    ASSUME PacingConstants, Typed, Stacked, NEW t \in Tasks, AnyStep(t)
    PROVE  quiet' \in [Origins -> Nat]
<1>1. CASE Eased(t)
  BY <1>1 DEF Eased
<1>2. CASE quiet' = quiet
  BY <1>2 DEF Typed
<1>3. CASE quiet' = [quiet EXCEPT ![Target[t]] = Max2(@, EffectiveDelay(t))]
  <2>1. PICK d \in Nat : d = EffectiveDelay(t)
    BY EffectiveDelayIsNat
  <2> QED
    BY <1>3, <2>1 DEF Typed, Max2
<1> QED
  BY <1>1, <1>2, <1>3, PausesAre DEF Pauses

LEMMA TypedStep ==
    ASSUME PacingConstants, Typed, Stacked, CapacityAccounted, RegistryBounded, NEW t \in Tasks, AnyStep(t)
    PROVE  Typed'
<1>1. registry' \in [Origins -> Reference]
  <2>1. CASE \E p \in Entry : Creates(t, p[1], p[2], p[3])
    BY <2>1 DEF Creates
  <2>2. CASE \A p \in Entry : ~Creates(t, p[1], p[2], p[3])
    BY <2>2, KeptRegistry DEF Typed
  <2> QED
    BY <2>1, <2>2
<1> QED
  BY <1>1, StatesTyped, TaskTyped, CacheTyped, FlightsTyped, QuietTyped DEF Typed
-----------------------------------------------------------------------------
\* The stacks keep their shape.

\* What the step of t makes of its record.
Acts(t, r) == Turns(t, r) /\ TaskShape(r, registry'[Target[t]])

LEMMA ActsIs ==
    ASSUME PacingConstants, Typed, Stacked, RegistryBounded, NEW t \in Tasks, AnyStep(t), ~NotifyWaiters(t)
    PROVE  \E r : Acts(t, r)
<1> DEFINE x == registry[Target[t]]
<1>0. x \in Reference
  BY HolderOf
<1>2. CASE Stays(t) \/ Admission(t)
  <2>1. (KeepStep(t) \/ LeaveStep(t)) /\ registry' = registry
    BY <1>2, QuietEases DEF Stays, Admission, KeepStep, Inspect
  <2>2. PICK r : Keeps(t, r)
    BY <2>1, KeepTurns, LeaveTurns
  <2> QED
    BY <2>1, <2>2 DEF Keeps, Acts
<1>3. CASE RegisterWaiter(t)
  <2>1. PICK r : \E n \in {1, 3} : Pushes(t, r, n, x, Guard("waiter", x)) /\ r.pc = "loop"
    BY <1>3, WaiterTurns
  <2>2. PICK m \in 0..4 : Holds(r, m, x)
    BY <2>1 DEF Pushes
  <2>3. registry' = registry
    BY <1>3 DEF RegisterWaiter
  <2> QED
    BY <2>1, <2>2, <2>3 DEF Pushes, Acts, TaskShape
<1>4. CASE Leads(t)
  <2>1. PICK r : Pushes(t, r, 1, x, Guard("flight", NoObject)) /\ r.pc = "resolve"
    BY <1>4, FlightTurns DEF Leads
  <2>2. PICK m \in 0..4 : Holds(r, m, x)
    BY <2>1 DEF Pushes
  <2>3. registry' = registry
    BY <1>4 DEF Leads, JoinFlight
  <2> QED
    BY <2>1, <2>2, <2>3 DEF Pushes, Acts, TaskShape
<1>5. CASE Granted(t)
  <2>1. PICK r, g : \E n \in {1, 3} :
           Swaps(t, r, n, x, g) /\ r.pc \in {"fetching", "loading"} /\ r.notify = x
    BY <1>5, SwapTurns
  <2>2. PICK m \in 0..4 : Holds(r, m, x)
    BY <2>1 DEF Swaps
  <2>3. registry' = registry
    BY <1>5 DEF Granted
  <2> QED
    BY <2>1, <2>2, <2>3 DEF Swaps, Acts, TaskShape
<1>6. CASE Pops1(t)
  <2>1. PICK r : \E n \in 0..3 :
           Pops(t, r, n, x) /\ r.pc = "unwind" /\ r.notify = Top(t).object /\ Top(t) = task[t].guards[n + 1]
    BY <1>6, PopTurns DEF Pops1
  <2>2. PICK m \in 0..4 : Holds(r, m, x)
    BY <2>1 DEF Pops
  <2>3. registry' = registry
    BY <1>6 DEF Pops1, Unwind
  <2> QED
    BY <2>1, <2>2, <2>3 DEF Pops, Acts, TaskShape
<1>8. ASSUME NEW p \in Entry, NEW y \in Objects, NEW s, Attaches(t, p[1], p[2], p[3], y, s),
             y = x \/ Target[t] \notin Registered, registry'[Target[t]] = y
      PROVE  \E r : Acts(t, r)
  <2>1. \/ p[1] = "new" /\ p[2] = "page" /\ p[3] = "evaluate"
        \/ p[1] = "resolve" /\ p[2] = "fetch" /\ p[3] = "enter"
    BY EntryIs
  <2>2. PICK r : \E n \in {0, 2} : Pushes(t, r, n, y, Guard(p[2], y)) /\ r.pc = p[3] /\ r.notify = y
    BY <1>8, <2>1, AttachTurns
  <2>3. PICK m \in 0..4 : Holds(r, m, y)
    BY <2>2 DEF Pushes
  <2> QED
    BY <1>8, <2>2, <2>3 DEF Pushes, Acts, TaskShape
<1>9. ASSUME NEW p \in Entry, Joins(t, p[1], p[2], p[3])
      PROVE  \E r : Acts(t, r)
  <2>1. x \in Objects
    BY <1>9 DEF Joins, Registered, Typed, Reference
  <2> QED
    BY <1>8, <1>9, <2>1 DEF Joins
<1>10. ASSUME NEW p \in Entry, Creates(t, p[1], p[2], p[3])
       PROVE  \E r : Acts(t, r)
  <2>1. FreeObject \in Objects
    BY <1>10, FreeObjectIsFree DEF Creates, Attaches, At
  <2> QED
    BY <1>8, <1>10, <2>1 DEF Creates
<1> QED
  BY <1>2, <1>3, <1>4, <1>5, <1>6, <1>9, <1>10 DEF AnyStep

LEMMA SameShape ==
    ASSUME NEW q, NEW r, NEW x, TaskShape(q, x), r.pc = q.pc, r.guards = q.guards, r.floor = q.floor,
           r.notify \in {q.notify, NoObject}
    PROVE  TaskShape(r, x)
<1>1. PICK n \in 0..4 : StackShape(q.guards, n, x) /\ Fits(q, n)
  BY DEF TaskShape, Holds
<1>2. Fits(r, n)
  BY <1>1 DEF Fits
<1> QED
  BY <1>1, <1>2 DEF TaskShape, Holds

\* A task with guards is registered with its origin's state.
LEMMA HolderRegistered ==
    ASSUME PacingConstants, Typed, Stacked, NEW v \in Tasks, NEW n \in 1..4,
           StackShape(task[v].guards, n, registry[Target[v]])
    PROVE  /\ Target[v] \in Registered
           /\ <<v, "page">> \in RegistrationsOf(registry[Target[v]])
<1> DEFINE x == registry[Target[v]]
<1>1. x \in Reference /\ Target[v] \in Origins
  BY HolderOf
<1>2. x # NoObject /\ task[v].guards[1] = Guard("page", x)
  BY DEF StackShape
<1>3. 1 \in DOMAIN task[v].guards
  BY <1>1, SpanOf DEF Spans
<1> QED
  BY <1>1, <1>2, <1>3 DEF RegistrationsOf, Registered

\* A state that a step takes from an origin is not in use there.
LEMMA ShapeSurvives ==
    ASSUME PacingConstants, Typed, Stacked, CapacityAccounted, NEW t \in Tasks, NEW p \in Entry,
           Creates(t, p[1], p[2], p[3]), NEW v \in Tasks
    PROVE  TaskShape(task[v], registry'[Target[v]])
<1> DEFINE o == Target[v]
           x == registry[o]
<1>1. x \in Reference /\ o \in Origins
  BY HolderOf
<1>2. PICK n \in 0..4 : StackShape(task[v].guards, n, x) /\ Fits(task[v], n)
  BY HolderOf DEF Holds
<1>3. CASE registry'[o] = x
  BY <1>2, <1>3 DEF TaskShape, Holds
<1>4. CASE registry'[o] # x
  <2>1. n = 0
    <3> SUFFICES ASSUME n # 0
                 PROVE  FALSE
      OBVIOUS
    <3>1. n \in 1..4
      OBVIOUS
    <3>2. o \in Registered /\ <<v, "page">> \in RegistrationsOf(x)
      BY <1>2, <3>1, HolderRegistered
    <3>3. o \in Prunable
      BY <1>1, <1>4, <3>2 DEF Creates
    <3>4. states[x].registrations = {}
      BY <3>3 DEF Prunable, SafeToRetire
    <3>5. states[x].registrations = RegistrationsOf(x)
      BY <3>2 DEF CapacityAccounted, Accounted
    <3> QED
      BY <3>2, <3>4, <3>5
  <2>2. StackShape(task[v].guards, 0, registry'[o])
    BY <1>2, <2>1 DEF StackShape
  <2> QED
    BY <1>2, <2>1, <2>2 DEF TaskShape, Holds
<1> QED
  BY <1>3, <1>4

LEMMA StackedStep ==
    ASSUME PacingConstants, Typed, Stacked, CapacityAccounted, RegistryBounded, NEW t \in Tasks, AnyStep(t)
    PROVE  Stacked'
<1>1. CASE NotifyWaiters(t)
  <2>1. registry' = registry
    BY <1>1, NotifyIs
  <2>2. ASSUME NEW v \in Tasks
        PROVE  TaskShape(task'[v], registry'[Target[v]])
    <3>1. /\ task'[v].pc = task[v].pc /\ task'[v].guards = task[v].guards /\ task'[v].floor = task[v].floor
          /\ task'[v].notify \in {task[v].notify, NoObject}
      BY <1>1, NotifyIs
    <3>2. TaskShape(task[v], registry[Target[v]])
      BY DEF Stacked
    <3> QED
      BY <2>1, <3>1, <3>2, SameShape
  <2> QED
    BY <2>2 DEF Stacked
<1>2. CASE ~NotifyWaiters(t)
  <2>1. PICK r : Acts(t, r)
    BY <1>2, ActsIs
  <2>2. task'[t] = r /\ \A v \in Tasks \ {t} : task'[v] = task[v]
    BY <2>1 DEF Acts, Turns, Typed
  <2>3. ASSUME NEW v \in Tasks, v # t
        PROVE  TaskShape(task[v], registry'[Target[v]])
    <3>1. CASE \E p \in Entry : Creates(t, p[1], p[2], p[3])
      BY <3>1, ShapeSurvives
    <3>2. CASE \A p \in Entry : ~Creates(t, p[1], p[2], p[3])
      BY <3>2, KeptRegistry DEF Stacked
    <3> QED
      BY <3>1, <3>2
  <2> QED
    BY <2>1, <2>2, <2>3 DEF Stacked, Acts
<1> QED
  BY <1>1, <1>2

LEMMA StackedTick ==
    ASSUME PacingConstants, Typed, Stacked, Tick
    PROVE  Stacked'
<1>1. registry' = registry
  BY TickIs
<1>2. ASSUME NEW v \in Tasks
      PROVE  TaskShape(task'[v], registry'[Target[v]])
  <2>1. /\ task'[v].pc = task[v].pc /\ task'[v].guards = task[v].guards /\ task'[v].floor = task[v].floor
        /\ task'[v].notify \in {task[v].notify, NoObject}
    BY TickIs
  <2>2. TaskShape(task[v], registry[Target[v]])
    BY DEF Stacked
  <2> QED
    BY <1>1, <2>1, <2>2, SameShape
<1> QED
  BY <1>2 DEF Stacked
-----------------------------------------------------------------------------
\* One flight for each origin.

Flying(g) == {i \in DOMAIN g : g[i].kind \in {"flight"}}

LEMMA FlyingIs ==
    /\ OneFlightPerOrigin <=> \A v \in Tasks : Flying(task[v].guards) # {} => flights[Target[v]] = v
    /\ OneFlightPerOrigin' <=> \A v \in Tasks : Flying(task'[v].guards) # {} => flights'[Target[v]] = v
  BY DEF OneFlightPerOrigin, Holding, Flying

LEMMA FlyingExtends ==
    ASSUME NEW g, NEW h, NEW n \in 0..3, NEW e, Spans(g, n), Spans(h, n + 1), Extends(h, g, n, e)
    PROVE  /\ Flying(g) # {} => Flying(h) # {}
           /\ e.kind # "flight" => (Flying(h) # {} => Flying(g) # {})
<1>1. /\ DOMAIN g = 1..n /\ DOMAIN h = 1..(n + 1) /\ h[n + 1] = e
      /\ \A i \in 1..n : h[i] = g[i]
  BY DEF Spans, Extends
<1>2. \A i \in 1..n : i \in 1..(n + 1)
  OBVIOUS
<1>3. \A i \in 1..(n + 1) : i \in 1..n \/ i = n + 1
  OBVIOUS
<1>4. Flying(g) # {} => Flying(h) # {}
  BY <1>1, <1>2 DEF Flying
<1>5. ASSUME e.kind # "flight", Flying(h) # {}
      PROVE  Flying(g) # {}
  <2>1. PICK i \in 1..(n + 1) : h[i].kind = "flight"
    BY <1>1, <1>5 DEF Flying
  <2>2. i \in 1..n
    BY <1>1, <1>3, <1>5, <2>1
  <2> QED
    BY <1>1, <2>1, <2>2 DEF Flying
<1> QED
  BY <1>4, <1>5

\* Only a task that leads a flight gets one.
LEMMA FlyingKept ==
    ASSUME PacingConstants, Typed, Stacked, RegistryBounded, NEW t \in Tasks, AnyStep(t), ~Leads(t),
           Flying(task'[t].guards) # {}
    PROVE  Flying(task[t].guards) # {}
<1> DEFINE x == registry[Target[t]]
           g == task[t].guards
<1>0. x \in Reference
  BY HolderOf
<1>1. ASSUME NEW r, Turns(t, r)
      PROVE  task'[t] = r
  BY <1>1 DEF Turns, Typed
<1>2. CASE (Stays(t) \/ Admission(t)) \/ NotifyWaiters(t)
  <2>1. CASE NotifyWaiters(t)
    BY <2>1, NotifyIs
  <2>2. CASE Stays(t) \/ Admission(t)
    <3>1. KeepStep(t) \/ LeaveStep(t)
      BY <2>2 DEF Stays, Admission, KeepStep
    <3>2. PICK r : Keeps(t, r)
      BY <3>1, KeepTurns, LeaveTurns
    <3> QED
      BY <1>1, <3>2 DEF Keeps
  <2> QED
    BY <1>2, <2>1, <2>2
<1>3. ASSUME NEW r, NEW n \in 0..3, NEW y \in Reference, NEW e, Pushes(t, r, n, y, e), e.kind # "flight"
      PROVE  Flying(g) # {}
  <2>1. StackShape(g, n, y) /\ StackShape(r.guards, n + 1, y) /\ Extends(r.guards, g, n, e) /\ task'[t] = r
    BY <1>1, <1>3 DEF Pushes, Holds
  <2>2. n \in 0..4 /\ n + 1 \in 0..4
    OBVIOUS
  <2>3. Spans(g, n) /\ Spans(r.guards, n + 1)
    BY <2>1, <2>2, SpanOf
  <2> QED
    BY <1>3, <2>1, <2>3, FlyingExtends
<1>4. CASE RegisterWaiter(t)
  <2>1. PICK r : \E n \in {1, 3} : Pushes(t, r, n, x, Guard("waiter", x)) /\ r.pc = "loop"
    BY <1>4, WaiterTurns
  <2>2. PICK n \in 0..3 : Pushes(t, r, n, x, Guard("waiter", x))
    BY <2>1
  <2> QED
    BY <1>0, <1>3, <2>2, GuardIs
<1>5. CASE Granted(t)
  <2>1. PICK r, h : \E n \in {1, 3} :
           Swaps(t, r, n, x, h) /\ r.pc \in {"fetching", "loading"} /\ r.notify = x
    BY <1>5, SwapTurns
  <2>2. PICK n \in 0..3 : Swaps(t, r, n, x, h)
    BY <2>1
  <2>3. /\ StackShape(h, n, x) /\ StackShape(g, n + 1, x) /\ StackShape(r.guards, n + 1, x) /\ task'[t] = r
        /\ Extends(g, h, n, Guard("waiter", x)) /\ Extends(r.guards, h, n, Guard("permit", x))
    BY <1>1, <2>2 DEF Swaps, Holds
  <2>4. n \in 0..4 /\ n + 1 \in 0..4
    OBVIOUS
  <2>5. Spans(h, n) /\ Spans(g, n + 1) /\ Spans(r.guards, n + 1)
    BY <1>0, <2>3, <2>4, SpanOf
  <2>6. Flying(h) # {}
    BY <2>3, <2>5, FlyingExtends, GuardIs
  <2> QED
    BY <2>3, <2>5, <2>6, FlyingExtends
<1>6. CASE Pops1(t)
  <2>1. PICK r : \E n \in 0..3 :
           Pops(t, r, n, x) /\ r.pc = "unwind" /\ r.notify = Top(t).object /\ Top(t) = task[t].guards[n + 1]
    BY <1>6, PopTurns DEF Pops1
  <2>2. PICK n \in 0..3 : Pops(t, r, n, x)
    BY <2>1
  <2>3. /\ StackShape(g, n + 1, x) /\ StackShape(r.guards, n, x) /\ task'[t] = r
        /\ Extends(g, r.guards, n, g[n + 1])
    BY <1>1, <2>2 DEF Pops, Holds
  <2>4. n \in 0..4 /\ n + 1 \in 0..4
    OBVIOUS
  <2>5. Spans(g, n + 1) /\ Spans(r.guards, n)
    BY <1>0, <2>3, <2>4, SpanOf
  <2> QED
    BY <2>3, <2>5, FlyingExtends
<1>8. ASSUME NEW p \in Entry, NEW y \in Objects, NEW s, Attaches(t, p[1], p[2], p[3], y, s),
             y = x \/ Target[t] \notin Registered
      PROVE  Flying(g) # {}
  <2>1. \/ p[1] = "new" /\ p[2] = "page" /\ p[3] = "evaluate"
        \/ p[1] = "resolve" /\ p[2] = "fetch" /\ p[3] = "enter"
    BY EntryIs
  <2>2. PICK r : \E n \in {0, 2} : Pushes(t, r, n, y, Guard(p[2], y)) /\ r.pc = p[3] /\ r.notify = y
    BY <1>8, <2>1, AttachTurns
  <2>3. PICK n \in 0..3 : Pushes(t, r, n, y, Guard(p[2], y))
    BY <2>2
  <2>4. Guard(p[2], y).kind # "flight" /\ y \in Reference
    BY <2>1, GuardIs DEF Reference
  <2> QED
    BY <1>3, <2>3, <2>4
<1>9. ASSUME NEW p \in Entry, Joins(t, p[1], p[2], p[3])
      PROVE  Flying(g) # {}
  <2>1. x \in Objects
    BY <1>9 DEF Joins, Registered, Typed, Reference
  <2> QED
    BY <1>8, <1>9, <2>1 DEF Joins
<1>10. ASSUME NEW p \in Entry, Creates(t, p[1], p[2], p[3])
       PROVE  Flying(g) # {}
  <2>1. FreeObject \in Objects
    BY <1>10, FreeObjectIsFree DEF Creates, Attaches, At
  <2> QED
    BY <1>8, <1>10, <2>1 DEF Creates
<1> QED
  BY <1>2, <1>4, <1>5, <1>6, <1>9, <1>10 DEF AnyStep

LEMMA OthersKept ==
    ASSUME PacingConstants, Typed, Stacked, RegistryBounded, NEW t \in Tasks, AnyStep(t), NEW v \in Tasks, v # t
    PROVE  /\ task'[v].guards = task[v].guards /\ task'[v].pc = task[v].pc
           /\ task'[v].until = task[v].until /\ task'[v].notify = task[v].notify
           /\ ~NotifyWaiters(t) => task'[v] = task[v]
<1>1. CASE NotifyWaiters(t)
  BY <1>1, NotifyIs
<1>2. CASE ~NotifyWaiters(t)
  <2>1. PICK r : Acts(t, r)
    BY <1>2, ActsIs
  <2>2. task'[v] = task[v]
    BY <2>1 DEF Acts, Turns, Typed
  <2> QED
    BY <2>2
<1> QED
  BY <1>1, <1>2

LEMMA FlightStep ==
    ASSUME PacingConstants, Typed, Stacked, RegistryBounded, OneFlightPerOrigin, NEW t \in Tasks, AnyStep(t)
    PROVE  OneFlightPerOrigin'
<1> DEFINE o == Target[t]
<1>1. \A v \in Tasks : Flying(task[v].guards) # {} => flights[Target[v]] = v
  BY FlyingIs
<1>2. flights \in [Origins -> Tasks \cup {NoTask}] /\ NoTask \notin Tasks /\ \A v \in Tasks : Target[v] \in Origins
  BY DEF Typed, PacingConstants
<1>3. ASSUME NEW v \in Tasks, v # t, Flying(task'[v].guards) # {}
      PROVE  flights[Target[v]] = v
  BY <1>1, <1>3, OthersKept
<1>4. CASE Leads(t) /\ flights' = [flights EXCEPT ![o] = t]
  <2>1. flights[o] = NoTask
    BY <1>4 DEF Leads
  <2>2. ASSUME NEW v \in Tasks, Flying(task'[v].guards) # {}
        PROVE  flights'[Target[v]] = v
    BY <1>2, <1>3, <1>4, <2>1, <2>2
  <2> QED
    BY <2>2, FlyingIs
<1>5. CASE Pops1(t) /\ Top(t).kind = "flight" /\ flights' = [flights EXCEPT ![o] = NoTask]
  <2> DEFINE x == registry[o]
             g == task[t].guards
  <2>0. x \in Reference
    BY HolderOf
  <2>1. PICK r : \E n \in 0..3 :
           Pops(t, r, n, x) /\ r.pc = "unwind" /\ r.notify = Top(t).object /\ Top(t) = g[n + 1]
    BY <1>5, PopTurns DEF Pops1
  <2>2. PICK n \in 0..3 : Pops(t, r, n, x) /\ Top(t) = g[n + 1]
    BY <2>1
  <2>3. StackShape(g, n + 1, x) /\ StackShape(r.guards, n, x) /\ task'[t] = r /\ n + 1 \in 0..4 /\ n \in 0..4
    BY <2>2 DEF Pops, Holds, Turns, Typed
  <2>4. \A i \in 1..(n + 1) : g[i].kind = "flight" => i = 2
    BY <2>0, <2>3, StackOf
  <2>5. n = 1
    BY <1>5, <2>2, <2>4
  <2>6. DOMAIN g = 1..2 /\ DOMAIN r.guards = 1..1 /\ \A i \in 1..1 : r.guards[i].kind = "flight" => i = 2
    <3>1. DOMAIN g = 1..(n + 1) /\ DOMAIN r.guards = 1..n
      BY <2>0, <2>3, SpanOf DEF Spans
    <3>2. \A i \in 1..n : r.guards[i].kind = "flight" => i = 2
      BY <2>0, <2>3, StackOf
    <3> QED
      BY <2>5, <3>1, <3>2
  <2>7. Flying(task'[t].guards) = {}
    BY <2>3, <2>6 DEF Flying
  <2>8. Flying(g) # {}
    BY <1>5, <2>2, <2>5, <2>6 DEF Flying
  <2>9. flights[o] = t
    BY <1>1, <2>8
  <2>10. ASSUME NEW v \in Tasks, Flying(task'[v].guards) # {}
         PROVE  flights'[Target[v]] = v
    BY <1>2, <1>3, <1>5, <2>7, <2>9, <2>10
  <2> QED
    BY <2>10, FlyingIs
<1>6. CASE ~Leads(t) /\ flights' = flights
  <2>1. ASSUME NEW v \in Tasks, Flying(task'[v].guards) # {}
        PROVE  flights'[Target[v]] = v
    <3>1. CASE v = t
      BY <1>1, <1>6, <2>1, <3>1, FlyingKept
    <3>2. CASE v # t
      BY <1>3, <1>6, <2>1, <3>2
    <3> QED
      BY <3>1, <3>2
  <2> QED
    BY <2>1, FlyingIs
<1> QED
  BY <1>4, <1>5, <1>6, FlightsAre DEF Flies
-----------------------------------------------------------------------------
\* The pauses and the robots cache.

LEMMA PausedIs ==
    /\ Paused <=> \A o \in Origins : quiet[o] # 0 => registry[o] # NoObject /\ Covered(quiet[o], states[registry[o]])
    /\ Paused' <=> \A o \in Origins : quiet'[o] # 0 => registry'[o] # NoObject /\ Covered(quiet'[o], states'[registry'[o]])
  BY DEF Paused, Covered

LEMMA CoveredLater ==
    ASSUME Typed, states' \in [Objects -> StateValue], NEW y \in Objects, Later(y), NEW q \in Nat, Covered(q, states[y])
    PROVE  Covered(q, states'[y])
<1>1. states[y] \in StateValue /\ states'[y] \in StateValue
  BY DEF Typed
<1>2. /\ states[y].next \in Nat /\ states[y].backoff \in Nat /\ states[y].retry \in Nat
      /\ states'[y].next \in Nat /\ states'[y].backoff \in Nat /\ states'[y].retry \in Nat
  BY <1>1 DEF StateValue
<1> QED
  BY <1>2 DEF Later, Covered

LEMMA ExpiredIsQuiet ==
    ASSUME Typed, Paused, NEW o \in Origins, registry[o] # NoObject => Expired(states[registry[o]])
    PROVE  quiet[o] = 0
<1>1. quiet[o] \in Nat
  BY DEF Typed
<1>2. CASE quiet[o] # 0
  <2>1. registry[o] # NoObject /\ Covered(quiet[o], states[registry[o]])
    BY <1>2, PausedIs
  <2>2. quiet[o] <= 0
    BY <2>1 DEF Expired, Covered
  <2> QED
    BY <1>1, <2>2
<1> QED
  BY <1>2

\* A step that neither records an outcome nor admits a request leaves the
\* deadlines of a state.
LEMMA DeadlinesKept ==
    ASSUME PacingConstants, Typed, Stacked, NEW t \in Tasks, AnyStep(t), ~Stays(t), ~Admission(t), NEW y \in Objects,
           \A p \in Entry : Creates(t, p[1], p[2], p[3]) => y # FreeObject
    PROVE  Later(y)
<1>0. states \in [Objects -> StateValue] /\ states[y] \in StateValue
  BY DEF Typed
<1>1. ASSUME /\ states'[y].next = states[y].next /\ states'[y].backoff = states[y].backoff
             /\ states'[y].retry = states[y].retry
      PROVE  Later(y)
  BY <1>0, <1>1 DEF Later, StateValue
<1>2. CASE RegisterWaiter(t)
  BY <1>0, <1>1, <1>2 DEF RegisterWaiter, StateValue
<1>3. CASE Granted(t)
  BY <1>0, <1>1, <1>3 DEF Granted, StateValue
<1>4. CASE Leads(t) \/ NotifyWaiters(t)
  BY <1>1, <1>4 DEF Leads, JoinFlight, NotifyWaiters
<1>5. CASE Pops1(t)
  <2>1. states' = Released(Top(t), t)
    BY <1>5 DEF Pops1, Unwind
  <2>2. PICK n \in 0..3 : StackShape(task[t].guards, n + 1, registry[Target[t]]) /\ Top(t) = task[t].guards[n + 1]
    BY <1>5, PopTurns DEF Pops1, Pops
  <2>3. n + 1 \in 1..4 /\ registry[Target[t]] \in Reference
    BY <2>2, HolderOf
  <2>4. Top(t) \in GuardValue
    BY <2>2, <2>3, TopIs
  <2>5. Top(t).kind \in {"page", "flight", "fetch", "waiter", "permit"}
    BY <2>4 DEF GuardValue
  <2>6. CASE Top(t).kind = "flight"
    BY <1>1, <2>1, <2>6 DEF Released
  <2>7. CASE Top(t).kind = "permit"
    BY <1>0, <1>1, <2>1, <2>7 DEF Released, StateValue
  <2>8. CASE Top(t).kind = "waiter"
    BY <1>0, <1>1, <2>1, <2>8 DEF Released, StateValue
  <2>9. CASE Top(t).kind \in {"page", "fetch"}
    BY <1>0, <1>1, <2>1, <2>9 DEF Released, StateValue
  <2> QED
    BY <2>5, <2>6, <2>7, <2>8, <2>9
<1>6. ASSUME NEW p \in Entry, Joins(t, p[1], p[2], p[3])
      PROVE  Later(y)
  BY <1>0, <1>1, <1>6 DEF Joins, Attaches, StateValue
<1>7. ASSUME NEW p \in Entry, Creates(t, p[1], p[2], p[3])
      PROVE  Later(y)
  <2>1. y # FreeObject
    BY <1>7
  <2> QED
    BY <1>0, <1>1, <1>7, <2>1 DEF Creates, Attaches
<1> QED
  BY <1>2, <1>3, <1>4, <1>5, <1>6, <1>7 DEF AnyStep

LEMMA PausedStep ==
    ASSUME PacingConstants, Typed, Stacked, CapacityAccounted, RegistryBounded, Paused, NEW t \in Tasks, AnyStep(t)
    PROVE  Paused'
<1> DEFINE x == registry[Target[t]]
<1>0. /\ quiet \in [Origins -> Nat] /\ registry \in [Origins -> Reference] /\ Target[t] \in Origins
      /\ states' \in [Objects -> StateValue] /\ quiet' \in [Origins -> Nat] /\ states \in [Objects -> StateValue]
  BY StatesTyped, QuietTyped DEF Typed, PacingConstants
<1>1. \A o \in Origins : quiet[o] # 0 => registry[o] \in Objects /\ Covered(quiet[o], states[registry[o]])
  BY <1>0, PausedIs DEF Reference
<1>2. CASE Stays(t)
  <2>1. Eased(t) /\ registry' = registry
    BY <1>2, QuietEases DEF Stays
  <2>2. ASSUME NEW o \in Origins, quiet'[o] # 0
        PROVE  registry'[o] # NoObject /\ Covered(quiet'[o], states'[registry'[o]])
    <3>1. CASE quiet'[o] = quiet[o]
      <4>1. registry[o] \in Objects /\ Covered(quiet[o], states[registry[o]]) /\ quiet[o] \in Nat
        BY <1>0, <1>1, <2>2, <3>1
      <4>2. Later(registry[o])
        BY <2>1, <4>1 DEF Eased
      <4>3. Covered(quiet[o], states'[registry[o]])
        BY <1>0, <4>1, <4>2, CoveredLater
      <4> QED
        BY <2>1, <3>1, <4>1, <4>3 DEF Objects, NoObject
    <3>2. CASE registry[o] \in Objects /\ Covered(quiet'[o], states'[registry[o]])
      BY <2>1, <3>2 DEF Objects, NoObject
    <3> QED
      BY <2>1, <3>1, <3>2 DEF Eased
  <2> QED
    BY <2>2, PausedIs
<1>3. CASE Admission(t)
  <2>1. task[t].pc \in Waits
    BY <1>3 DEF Admission, Inspect, At, Waits
  <2>2. Object(t) = x /\ x \in Objects
    BY <2>1, WaiterIs
  <2>3. PICK d \in Nat : d = EffectiveDelay(t)
    BY EffectiveDelayIsNat
  <2>4. /\ Expired(states[x]) /\ registry' = registry
        /\ states' = [states EXCEPT ![x].in_flight = @ + 1, ![x].next = d]
        /\ quiet' = [quiet EXCEPT ![Target[t]] = Max2(@, d)]
    BY <1>3, <2>2, <2>3 DEF Admission, Inspect, Admits
  <2>5. states'[x].next = d /\ \A y \in Objects : y # x => states'[y] = states[y]
    BY <1>0, <2>2, <2>4 DEF StateValue
  <2>6. quiet'[Target[t]] = d
    <3>1. quiet[Target[t]] = 0
      BY <1>0, <2>4, ExpiredIsQuiet
    <3> QED
      BY <1>0, <2>4, <3>1 DEF Max2
  <2>7. ASSUME NEW o \in Origins, quiet'[o] # 0
        PROVE  registry'[o] # NoObject /\ Covered(quiet'[o], states'[registry'[o]])
    <3>1. CASE o = Target[t]
      <4>1. Covered(quiet'[o], states'[x])
        BY <2>5, <2>6, <3>1 DEF Covered
      <4> QED
        BY <2>2, <2>4, <3>1, <4>1 DEF Objects, NoObject
    <3>2. CASE o # Target[t]
      <4>1. quiet'[o] = quiet[o]
        BY <1>0, <2>4, <3>2
      <4>2. registry[o] \in Objects /\ Covered(quiet[o], states[registry[o]])
        BY <1>1, <2>7, <4>1
      <4>3. registry[o] # x
        BY <2>4, <2>7, <4>1, ExpiredIsQuiet
      <4>4. states'[registry[o]] = states[registry[o]]
        BY <2>5, <4>2, <4>3
      <4> QED
        BY <2>4, <4>1, <4>2, <4>4 DEF Objects, NoObject
    <3> QED
      BY <3>1, <3>2
  <2> QED
    BY <2>7, PausedIs
<1>4. CASE ~Stays(t) /\ ~Admission(t)
  <2>1. quiet' = quiet
    BY <1>4, PausesAre DEF Pauses
  <2>2. ASSUME NEW o \in Origins, quiet'[o] # 0
        PROVE  registry'[o] # NoObject /\ Covered(quiet'[o], states'[registry'[o]])
    <3>1. registry[o] \in Objects /\ Covered(quiet[o], states[registry[o]]) /\ quiet[o] \in Nat
      BY <1>0, <1>1, <2>1, <2>2
    <3>2. registry'[o] = registry[o] /\ \A p \in Entry : Creates(t, p[1], p[2], p[3]) => registry[o] # FreeObject
      <4>1. CASE \A p \in Entry : ~Creates(t, p[1], p[2], p[3])
        BY <4>1, KeptRegistry
      <4>2. ASSUME NEW p \in Entry, Creates(t, p[1], p[2], p[3])
            PROVE  registry'[o] = registry[o] /\ registry[o] # FreeObject
        <5>1. ~Referenced(FreeObject)
          BY <4>2, FreeObjectIsFree DEF Creates, Attaches, At
        <5>2. registry[o] # FreeObject
          BY <5>1 DEF Referenced
        <5>3. o \in Registered
          BY <3>1 DEF Registered, Objects, NoObject
        <5>4. o # Target[t]
          BY <4>2, <5>3 DEF Creates
        <5>5. o \notin Prunable
          BY <2>1, <2>2, ExpiredIsQuiet DEF Prunable, SafeToRetire
        <5> QED
          BY <4>2, <5>2, <5>4, <5>5 DEF Creates
      <4> QED
        BY <4>1, <4>2
    <3>3. Later(registry[o])
      BY <1>4, <3>1, <3>2, DeadlinesKept
    <3>4. Covered(quiet[o], states'[registry[o]])
      BY <1>0, <3>1, <3>3, CoveredLater
    <3> QED
      BY <2>1, <3>1, <3>2, <3>4 DEF Objects, NoObject
  <2> QED
    BY <2>2, PausedIs
<1> QED
  BY <1>2, <1>3, <1>4

LEMMA PausedTick ==
    ASSUME PacingConstants, Typed, Paused, Tick
    PROVE  Paused'
<1>1. ASSUME NEW o \in Origins, quiet'[o] # 0
      PROVE  registry'[o] # NoObject /\ Covered(quiet'[o], states'[registry'[o]])
  <2>1. quiet'[o] = Less(quiet[o]) /\ registry' = registry /\ quiet[o] \in Nat
    BY TickIs DEF Typed
  <2>2. quiet[o] # 0
    BY <1>1, <2>1 DEF Less
  <2>3. registry[o] # NoObject /\ Covered(quiet[o], states[registry[o]])
    BY <2>2, PausedIs
  <2> DEFINE y == registry[o]
  <2>4. y \in Objects
    BY <2>3 DEF Typed, Reference
  <2>5. /\ states'[y].next = Less(states[y].next)
        /\ states'[y].backoff = Less(states[y].backoff) /\ states'[y].retry = Less(states[y].retry)
    BY <2>4, TickIs
  <2>6. states[y] \in StateValue
    BY <2>4 DEF Typed
  <2>7. states[y].next \in Nat /\ states[y].backoff \in Nat /\ states[y].retry \in Nat
    BY <2>6 DEF StateValue
  <2>8. Covered(quiet'[o], states'[y])
    BY <2>1, <2>3, <2>5, <2>7, LessIsLess DEF Covered
  <2> QED
    BY <2>1, <2>3, <2>8
<1> QED
  BY <1>1, PausedIs

LEMMA CacheStep ==
    ASSUME PacingConstants, Typed, CacheBounded, NEW t \in Tasks, AnyStep(t)
    PROVE  CacheBounded'
<1> DEFINE o == Target[t]
           kept == {u \in Origins \ {o} : cache[u].left > 0}
<1>1. CASE cache' = cache
  BY <1>1 DEF CacheBounded, Cached
<1>2. CASE StorePolicy(t)
  <2>1. PICK q : Stores(t, q)
    BY <1>2, StoresIs
  <2>2. /\ cache \in [Origins -> Policy] /\ o \in Origins /\ q \in Origins /\ NoPolicy.left = 0
        /\ CacheCapacity \in Nat /\ CacheTTL \in Nat
    BY <2>1 DEF Typed, PacingConstants, Stores, NoPolicy
  <2>3. cache[o].left \in Nat
    BY <2>2 DEF Policy
  <2>4. IsFiniteSet(Cached) /\ Cardinality(Cached) \in Nat /\ Cardinality(Cached) <= CacheCapacity
    BY FS_CardinalityType DEF CacheBounded
  <2>5. ASSUME NEW u \in Origins
        PROVE  cache'[u] = cache[u] \/ u = o \/ (u = q /\ cache'[u].left = 0)
    BY <2>1, <2>2 DEF Stores
  <2>6. CASE cache[o].left = 0 /\ Cardinality(kept) >= CacheCapacity /\ q \in kept
    <3>1. q \in Cached /\ q # o /\ o \notin Cached
      BY <2>6 DEF Cached
    <3>2. IsFiniteSet(Cached \ {q}) /\ Cardinality(Cached \ {q}) = Cardinality(Cached) - 1
      BY <2>4, <3>1, FS_RemoveElement
    <3> DEFINE K == Cached \ {q}
    <3>3. o \notin K
      BY <3>1
    <3>4. IsFiniteSet(K \cup {o}) /\ Cardinality(K \cup {o}) = Cardinality(K) + 1
      BY <3>2, <3>3, FS_AddElement
    <3>8. ASSUME NEW u \in Origins, cache'[u].left > 0
          PROVE  u \in K \cup {o}
      <4>1. u # o => cache'[u] = cache[u] \/ (u = q /\ cache'[u].left = 0)
        BY <2>5
      <4>2. u # o => cache'[u] = cache[u] /\ u # q
        <5>1. CASE u = q /\ u # o
          <6>1. cache'[u] = NoPolicy
            BY <2>1, <2>2, <5>1 DEF Stores
          <6> QED
            BY <2>2, <3>8, <6>1
        <5> QED
          BY <3>8, <4>1, <5>1
      <4> QED
        BY <3>8, <4>2 DEF Cached
    <3>5. Cached' \subseteq K \cup {o}
      BY <3>8 DEF Cached
    <3> HIDE DEF K
    <3>6. IsFiniteSet(Cached') /\ Cardinality(Cached') <= Cardinality(K \cup {o}) /\ Cardinality(Cached') \in Nat
      BY <3>4, <3>5, FS_Subset, FS_CardinalityType
    <3>7. Cardinality(K) = Cardinality(Cached) - 1
      BY <3>2 DEF K
    <3> QED
      BY <2>2, <2>4, <3>4, <3>6, <3>7 DEF CacheBounded
  <2>7. CASE ~(cache[o].left = 0 /\ Cardinality(kept) >= CacheCapacity) /\ q = o
    <3>1. Cached' \subseteq Cached \cup {o}
      BY <2>5, <2>7 DEF Cached
    <3>2. CASE o \in Cached
      <4>1. Cached' \subseteq Cached
        BY <3>1, <3>2
      <4>2. IsFiniteSet(Cached') /\ Cardinality(Cached') <= Cardinality(Cached) /\ Cardinality(Cached') \in Nat
        BY <2>4, <4>1, FS_Subset, FS_CardinalityType
      <4> QED
        BY <2>2, <2>4, <4>2 DEF CacheBounded
    <3>3. CASE o \notin Cached
      <4>1. kept = Cached /\ cache[o].left = 0
        BY <2>2, <2>3, <3>3 DEF Cached
      <4>2. Cardinality(Cached) < CacheCapacity
        <5>1. ~(Cardinality(kept) >= CacheCapacity)
          BY <2>7, <4>1
        <5> HIDE DEF kept
        <5> QED
          BY <2>2, <2>4, <4>1, <5>1
      <4>3. IsFiniteSet(Cached \cup {o}) /\ Cardinality(Cached \cup {o}) = Cardinality(Cached) + 1
        BY <2>4, <3>3, FS_AddElement
      <4>4. IsFiniteSet(Cached') /\ Cardinality(Cached') <= Cardinality(Cached \cup {o}) /\ Cardinality(Cached') \in Nat
        BY <3>1, <4>3, FS_Subset, FS_CardinalityType
      <4> QED
        BY <2>2, <2>4, <4>2, <4>3, <4>4 DEF CacheBounded
    <3> QED
      BY <3>2, <3>3
  <2> QED
    BY <2>1, <2>6, <2>7 DEF Stores
<1> QED
  BY <1>1, <1>2, CacheIs

LEMMA CacheTick ==
    ASSUME PacingConstants, Typed, CacheBounded, Tick
    PROVE  CacheBounded'
<1>1. Cached' \subseteq Cached
  BY TickIs DEF Cached
<1>2. IsFiniteSet(Cached) /\ Cardinality(Cached) \in Nat /\ Cardinality(Cached) <= CacheCapacity /\ CacheCapacity \in Nat
  BY FS_CardinalityType DEF CacheBounded, PacingConstants
<1>3. IsFiniteSet(Cached') /\ Cardinality(Cached') <= Cardinality(Cached) /\ Cardinality(Cached') \in Nat
  BY <1>1, <1>2, FS_Subset, FS_CardinalityType
<1> QED
  BY <1>2, <1>3 DEF CacheBounded
-----------------------------------------------------------------------------
\* No lost wake-up.

LEMMA ConcurrencyIs ==
    ASSUME PacingConstants, NEW s \in StateValue, s.registrations # {}
    PROVE  /\ EffectiveConcurrency(s) \in Nat
           /\ \A r \in s.registrations : EffectiveConcurrency(s) <= Concurrency[r[1]]
<1> DEFINE S == {Concurrency[r[1]] : r \in s.registrations}
<1>1. \A r \in s.registrations : r[1] \in Tasks /\ Concurrency[r[1]] \in Nat
  BY DEF StateValue, PacingConstants
<1>2. S \subseteq Nat /\ S # {}
  BY <1>1
<1>3. PICK m \in S : \A n \in S : ~(<<n, m>> \in OpToRel(<, Nat))
  BY <1>2, NatLessThanWellFounded, WFMin
<1>4. \A n \in S : ~(n < m)
  BY <1>2, <1>3 DEF OpToRel
<1>5. \A n \in S : m <= n
  <2> HIDE DEF S
  <2>1. m \in Nat /\ \A n \in S : n \in Nat
    BY <1>2
  <2> QED
    BY <1>4, <2>1
<1>6. EffectiveConcurrency(s) \in S /\ \A n \in S : EffectiveConcurrency(s) <= n
  BY <1>5 DEF EffectiveConcurrency, Min
<1>7. EffectiveConcurrency(s) \in Nat
  BY <1>2, <1>6
<1> QED
  BY <1>6, <1>7

Busy(s) == s.in_flight >= EffectiveConcurrency(s)
Owed(T, y) == \E u \in Tasks : T[u].notify = y
WaitsUnwoken(r) == r.pc \in {"decided", "sleep"} /\ ~r.woken /\ r.until = -1
WakeIsDue(v) == WaitsUnwoken(task[v]) => Busy(states[Object(v)]) \/ Owed(task, Object(v))

LEMMA WakeupsAre ==
    /\ NoLostWakeup <=> \A v \in Tasks : WakeIsDue(v)
    /\ NoLostWakeup' <=> \A v \in Tasks : WakeIsDue(v)'
<1>1. NoLostWakeup <=> \A v \in Tasks : WakeIsDue(v)
  BY DEF NoLostWakeup, WakeIsDue, WaitsUnwoken, Busy, Owed
<1>2. NoLostWakeup' <=> \A v \in Tasks : WakeIsDue(v)'
  BY DEF NoLostWakeup, WakeIsDue, WaitsUnwoken, Busy, Owed
<1> QED
  BY <1>1, <1>2

\* A waiting task is registered with the state it waits for.
LEMMA WaiterRegistered ==
    ASSUME PacingConstants, Typed, Stacked, CapacityAccounted, NEW v \in Tasks, task[v].pc \in Waits
    PROVE  LET s == states[Object(v)]
           IN  s \in StateValue /\ <<v, "page">> \in s.registrations /\ EffectiveConcurrency(s) \in Nat
<1> DEFINE x == registry[Target[v]]
           s == states[x]
<1>1. Object(v) = x /\ x \in Objects
  BY WaiterIs
<1>2. PICK n \in 0..4 : StackShape(task[v].guards, n, x) /\ Fits(task[v], n)
  BY HolderOf DEF Holds
<1>3. n \in 1..4
  BY <1>2 DEF Fits
<1>4. Target[v] \in Registered /\ <<v, "page">> \in RegistrationsOf(x)
  BY <1>2, <1>3, HolderRegistered
<1>5. s.registrations = RegistrationsOf(x)
  BY <1>4 DEF CapacityAccounted, Accounted
<1>6. s \in StateValue
  BY <1>1 DEF Typed
<1>7. EffectiveConcurrency(s) \in Nat
  BY <1>4, <1>5, <1>6, ConcurrencyIs
<1> QED
  BY <1>1, <1>4, <1>5, <1>6, <1>7

\* A step leaves the registrations and the permits of a state, or adds a permit,
\* or its task owes the notification.
Uses(t, y) ==
    \/ /\ states'[y].registrations = states[y].registrations
       /\ states'[y].in_flight \in {states[y].in_flight, states[y].in_flight + 1}
    \/ task'[t].notify = y

LEMMA UsesAre ==
    ASSUME PacingConstants, Typed, Stacked, RegistryBounded, NEW t \in Tasks, AnyStep(t), NEW y \in Objects
    PROVE  Uses(t, y)
<1>0. states \in [Objects -> StateValue] /\ states[y] \in StateValue
  BY DEF Typed
<1>1. ASSUME SameUse(y)
      PROVE  Uses(t, y)
  BY <1>1 DEF SameUse, Uses
<1>2. CASE Stays(t)
  BY <1>1, <1>2, QuietEases DEF Stays, Eased
<1>3. CASE Admission(t)
  <2>1. states' = [states EXCEPT ![Object(t)].in_flight = @ + 1, ![Object(t)].next = EffectiveDelay(t)]
    BY <1>3 DEF Admission, Inspect
  <2>2. states'[y] = IF y = Object(t) THEN [states[y] EXCEPT !.in_flight = @ + 1, !.next = EffectiveDelay(t)] ELSE states[y]
    BY <1>0, <2>1
  <2> QED
    BY <1>0, <2>2 DEF StateValue, Uses
<1>4. CASE RegisterWaiter(t)
  BY <1>0, <1>4 DEF RegisterWaiter, StateValue, Uses
<1>5. CASE Leads(t) \/ NotifyWaiters(t)
  BY <1>1, <1>5 DEF Leads, JoinFlight, NotifyWaiters, SameUse
<1>6. CASE Granted(t)
  BY <1>0, <1>6 DEF Granted, StateValue, Uses
<1>7. CASE Pops1(t)
  <2>1. PICK r : \E n \in 0..3 :
           Pops(t, r, n, registry[Target[t]]) /\ r.pc = "unwind" /\ r.notify = Top(t).object /\ Top(t) = task[t].guards[n + 1]
    BY <1>7, PopTurns DEF Pops1
  <2>2. task'[t] = r
    BY <2>1 DEF Pops, Turns, Typed
  <2>3. task'[t].notify = Top(t).object
    BY <2>1, <2>2
  <2>4. states' = Released(Top(t), t)
    BY <1>7 DEF Pops1, Unwind
  <2>5. CASE Top(t).object = y
    BY <2>3, <2>5 DEF Uses
  <2>6. CASE Top(t).object # y
    <3>1. PICK n \in 0..3 : StackShape(task[t].guards, n + 1, registry[Target[t]])
      BY <2>1 DEF Pops
    <3>2. n + 1 \in 1..4 /\ registry[Target[t]] \in Reference
      BY HolderOf
    <3>3. Top(t) \in GuardValue
      BY <3>1, <3>2, TopIs
    <3>4. Top(t).kind \in {"page", "flight", "fetch", "waiter", "permit"}
      BY <3>3 DEF GuardValue
    <3>5. states'[y] = states[y]
      BY <1>0, <2>4, <2>6, <3>4 DEF Released
    <3> QED
      BY <3>5 DEF Uses
  <2> QED
    BY <2>5, <2>6
<1>8. ASSUME NEW p \in Entry, NEW x \in Objects, NEW s, Attaches(t, p[1], p[2], p[3], x, s),
             x = registry[Target[t]] \/ Target[t] \notin Registered
      PROVE  Uses(t, y)
  <2>1. \/ p[1] = "new" /\ p[2] = "page" /\ p[3] = "evaluate"
        \/ p[1] = "resolve" /\ p[2] = "fetch" /\ p[3] = "enter"
    BY EntryIs
  <2>2. PICK r : \E n \in {0, 2} : Pushes(t, r, n, x, Guard(p[2], x)) /\ r.pc = p[3] /\ r.notify = x
    BY <1>8, <2>1, AttachTurns
  <2>3. task'[t] = r
    BY <2>2 DEF Pushes, Turns, Typed
  <2>4. y # x => states'[y] = states[y]
    BY <1>0, <1>8 DEF Attaches
  <2> QED
    BY <2>2, <2>3, <2>4 DEF Uses
<1>9. ASSUME NEW p \in Entry, Joins(t, p[1], p[2], p[3])
      PROVE  Uses(t, y)
  <2>1. registry[Target[t]] \in Objects
    BY <1>9 DEF Joins, Registered, Typed, Reference
  <2> QED
    BY <1>8, <1>9, <2>1 DEF Joins
<1>10. ASSUME NEW p \in Entry, Creates(t, p[1], p[2], p[3])
       PROVE  Uses(t, y)
  <2>1. FreeObject \in Objects
    BY <1>10, FreeObjectIsFree DEF Creates, Attaches, At
  <2> QED
    BY <1>8, <1>10, <2>1 DEF Creates
<1> QED
  BY <1>2, <1>3, <1>4, <1>5, <1>6, <1>7, <1>9, <1>10 DEF AnyStep

\* A task that owes a notification sends it first.
LEMMA NotifiesFirst ==
    ASSUME NEW t \in Tasks, AnyStep(t), task[t].notify # NoObject
    PROVE  NotifyWaiters(t)
<1>1. KeepStep(t) => FALSE
  BY DEF KeepStep, Enable, Inspect, Await, Wake, Evaluate, JoinFlight, Follow, RobotsFetched,
         RobotsUnavailable, StorePolicy, Admitted, PageLoaded, Cancel, At
<1>2. LeaveStep(t) => FALSE
  BY DEF LeaveStep, Refuses, Unwind, At
<1> QED
  BY <1>1, <1>2 DEF AnyStep, Stays, Admission, Inspect, RegisterWaiter, Leads, JoinFlight, Granted, Pops1, Unwind,
         Joins, Creates, Attaches, At

\* A task that begins to wait has just looked at the state.
LEMMA WaitsFrom ==
    ASSUME PacingConstants, Typed, Stacked, RegistryBounded, NEW t \in Tasks, AnyStep(t), ~NotifyWaiters(t),
           task'[t].pc \in {"decided", "sleep"}
    PROVE  Await(t) \/ (Inspect(t) /\ ~Admission(t))
<1>0. task \in [Tasks -> TaskValue] /\ task[t] \in TaskValue
  BY DEF Typed
<1>1. CASE KeepStep(t)
  <2>1. CASE Enable(t) \/ Wake(t) \/ Follow(t) \/ Cancel(t)
    BY <1>0, <2>1 DEF Enable, Wake, Follow, Cancel, Goto, TaskValue
  <2>2. CASE Inspect(t) \/ Await(t)
    <3>1. Inspect(t) /\ Admission(t) => task'[t].pc = "granted"
      BY <1>0 DEF Admission, Inspect, TaskValue
    <3> QED
      BY <2>2, <3>1
  <2>3. CASE Evaluate(t)
    BY <1>0, <2>3 DEF Evaluate, Goto, TaskValue
  <2>4. CASE JoinFlight(t) /\ flights[Target[t]] # NoTask
    BY <1>0, <2>4 DEF JoinFlight, TaskValue
  <2>5. CASE RobotsFetched(t)
    BY <1>0, <2>5 DEF RobotsFetched, TaskValue
  <2>6. CASE RobotsUnavailable(t) \/ StorePolicy(t) \/ PageLoaded(t)
    BY <1>0, <2>6 DEF RobotsUnavailable, StorePolicy, PageLoaded, TaskValue
  <2>7. CASE Admitted(t)
    BY <1>0, <2>7 DEF Admitted, Goto, TaskValue
  <2> QED
    BY <1>1, <2>1, <2>2, <2>3, <2>4, <2>5, <2>6, <2>7 DEF KeepStep
<1>2. CASE LeaveStep(t)
  <2>1. CASE Refuses(t, "new") \/ Refuses(t, "resolve")
    BY <1>0, <2>1 DEF Refuses, TaskValue
  <2>2. CASE Unwind(t) /\ ~(Len(task[t].guards) > task[t].floor)
    <3>1. task' = [task EXCEPT ![t] = IF @.floor = 0 THEN TaskAt("done") ELSE [@ EXCEPT !.pc = "admitted", !.floor = 0]]
      BY <1>0, <2>2 DEF Unwind
    <3>2. TaskAt("done").pc = "done"
      BY DEF TaskAt
    <3>3. [task[t] EXCEPT !.pc = "admitted", !.floor = 0].pc = "admitted"
      BY <1>0 DEF TaskValue
    <3> QED
      BY <1>0, <3>1, <3>2, <3>3
  <2> QED
    BY <1>2, <2>1, <2>2 DEF LeaveStep
<1>3. CASE ~KeepStep(t) /\ ~LeaveStep(t)
  <2>1. CASE RegisterWaiter(t)
    BY <1>0, <2>1 DEF RegisterWaiter, TaskValue
  <2>2. CASE Leads(t)
    BY <1>0, <2>2 DEF Leads, JoinFlight, TaskValue
  <2>3. CASE Granted(t)
    BY <1>0, <2>3 DEF Granted, TaskValue
  <2>4. CASE Pops1(t)
    BY <1>0, <2>4 DEF Pops1, Unwind, At, TaskValue
  <2>5. ASSUME NEW p \in Entry, Joins(t, p[1], p[2], p[3]) \/ Creates(t, p[1], p[2], p[3])
        PROVE  FALSE
    <3>1. p[3] \notin {"decided", "sleep"}
      BY EntryIs
    <3>2. PICK g, x : task' = [task EXCEPT ![t].pc = p[3], ![t].guards = g, ![t].notify = x]
      BY <2>5 DEF Joins, Creates, Attaches
    <3>3. task'[t].pc = p[3]
      BY <1>0, <3>2 DEF TaskValue
    <3> QED
      BY <3>1, <3>3
  <2>6. Admission(t) => KeepStep(t)
    BY DEF Admission, KeepStep
  <2> QED
    BY <1>3, <2>1, <2>2, <2>3, <2>4, <2>5, <2>6 DEF AnyStep, Stays
<1> QED
  BY <1>1, <1>2, <1>3

LEMMA WakeupStep ==
    ASSUME PacingConstants, Typed, Stacked, CapacityAccounted, RegistryBounded, NoLostWakeup, NEW t \in Tasks, AnyStep(t)
    PROVE  NoLostWakeup'
<1>0. task \in [Tasks -> TaskValue] /\ states \in [Objects -> StateValue]
  BY DEF Typed
<1>1. \A v \in Tasks : WakeIsDue(v)
  BY WakeupsAre
<1>2. ASSUME NEW v \in Tasks, v # t, WaitsUnwoken(task'[v])
      PROVE  Busy(states'[Object(v)']) \/ Owed(task', Object(v)')
  <2>1. /\ task'[v].guards = task[v].guards /\ task'[v].pc = task[v].pc
        /\ task'[v].until = task[v].until
        /\ ~NotifyWaiters(t) => task'[v] = task[v]
    BY <1>2, OthersKept
  <2>2. WaitsUnwoken(task[v])
    <3>1. task[v].woken => task'[v].woken
      BY <2>1, NotifyIs
    <3> QED
      BY <1>2, <2>1, <3>1 DEF WaitsUnwoken
  <2> DEFINE x == Object(v)
  <2>3. Object(v)' = x
    BY <2>1 DEF Object, Top
  <2>4. task[v].pc \in Waits /\ task[v].pc \in {"decided", "sleep"}
    BY <2>2 DEF WaitsUnwoken, Waits
  <2>5. x \in Objects
    BY <2>4, WaiterIs
  <2>6. states[x] \in StateValue /\ EffectiveConcurrency(states[x]) \in Nat
    BY <2>4, WaiterRegistered
  <2>7. Busy(states[x]) \/ Owed(task, x)
    BY <1>1, <2>2 DEF WakeIsDue
  <2> HIDE DEF x
  <2>8. CASE Owed(task, x)
    <3>1. PICK u \in Tasks : task[u].notify = x
      BY <2>8 DEF Owed
    <3>2. CASE u # t
      <4>1. task'[u].notify = x
        BY <3>1, <3>2, OthersKept
      <4> QED
        BY <2>3, <4>1 DEF Owed
    <3>3. CASE u = t
      <4>1. NotifyWaiters(t)
        BY <2>5, <3>1, <3>3, NotifiesFirst DEF Objects, NoObject
      <4>2. task'[v].woken
        BY <1>2, <2>4, <3>1, <3>3, <4>1, NotifyIs DEF x
      <4> QED
        BY <1>2, <4>2 DEF WaitsUnwoken
    <3> QED
      BY <3>2, <3>3
  <2>9. CASE Busy(states[x])
    <3>1. CASE task'[t].notify = x
      BY <2>3, <3>1 DEF Owed
    <3>2. CASE /\ states'[x].registrations = states[x].registrations
               /\ states'[x].in_flight \in {states[x].in_flight, states[x].in_flight + 1}
      <4>1. EffectiveConcurrency(states'[x]) = EffectiveConcurrency(states[x])
        BY <3>2 DEF EffectiveConcurrency
      <4>2. states[x].in_flight \in Nat
        BY <2>6 DEF StateValue
      <4>3. Busy(states'[x])
        BY <2>6, <2>9, <3>2, <4>1, <4>2 DEF Busy
      <4> QED
        BY <2>3, <4>3
    <3> QED
      BY <2>5, <3>1, <3>2, UsesAre DEF Uses
  <2> QED
    BY <2>7, <2>8, <2>9
<1>3. ASSUME WaitsUnwoken(task'[t])
      PROVE  Busy(states'[Object(t)']) \/ Owed(task', Object(t)')
  <2>1. ~NotifyWaiters(t)
    <3> SUFFICES ASSUME NotifyWaiters(t)
                 PROVE  FALSE
      OBVIOUS
    <3>1. task[t].pc \in Waits
      BY <1>3, NotifyIs DEF WaitsUnwoken, Waits
    <3>2. task[t].notify = NoObject
      BY <3>1, HolderOf DEF Holds, Fits
    <3> QED
      BY <3>2 DEF NotifyWaiters
  <2>2. Await(t) \/ (Inspect(t) /\ ~Admission(t))
    BY <1>3, <2>1, WaitsFrom DEF WaitsUnwoken
  <2> DEFINE x == Object(t)
  <2>3. task[t].pc \in Waits /\ task[t].notify = NoObject /\ states' = states
    BY <2>2 DEF Await, Inspect, Admission, At, Waits
  <2>4. x \in Objects
    BY <2>3, WaiterIs
  <2>5. states[x] \in StateValue /\ EffectiveConcurrency(states[x]) \in Nat /\ states[x].in_flight \in Nat
    BY <2>3, WaiterRegistered DEF StateValue
  <2>6. CASE Await(t)
    <3>1. /\ task'[t].guards = task[t].guards /\ task[t].pc = "decided"
          /\ task'[t].woken = task[t].woken /\ task'[t].until = task[t].until
          /\ \A u \in Tasks : task'[u].notify = task[u].notify
      BY <1>0, <2>6 DEF Await, At, Goto, TaskValue
    <3>2. WaitsUnwoken(task[t])
      BY <1>3, <3>1 DEF WaitsUnwoken
    <3>3. Object(t)' = x
      BY <3>1 DEF Object, Top
    <3>4. Busy(states[x]) \/ Owed(task, x)
      BY <1>1, <3>2 DEF WakeIsDue
    <3> HIDE DEF x
    <3>5. Owed(task, x) => Owed(task', x)
      BY <3>1 DEF Owed
    <3> QED
      BY <2>3, <3>3, <3>4, <3>5
  <2>7. CASE Inspect(t) /\ ~Admission(t)
    <3>1. ~Admits(t, states[x])
      BY <2>7 DEF Admission
    <3>2. task' = [task EXCEPT ![t].pc = "decided",
                               ![t].until = IF Expired(states[x]) THEN -1 ELSE LatestDeadline(states[x])]
      BY <2>7, <3>1 DEF Inspect
    <3>3. /\ task'[t].guards = task[t].guards
          /\ task'[t].until = IF Expired(states[x]) THEN -1 ELSE LatestDeadline(states[x])
      BY <1>0, <3>2 DEF TaskValue
    <3>4. LatestDeadline(states[x]) \in Nat
      BY <2>5, LatestIsNat
    <3>5. Expired(states[x])
      BY <1>3, <3>3, <3>4 DEF WaitsUnwoken
    <3>6. Busy(states[x])
      BY <2>5, <3>1, <3>5 DEF Admits, Busy
    <3>7. Object(t)' = x
      BY <3>3 DEF Object, Top
    <3> QED
      BY <2>3, <3>6, <3>7
  <2> QED
    BY <2>2, <2>6, <2>7
<1>4. ASSUME NEW v \in Tasks
      PROVE  WakeIsDue(v)'
  BY <1>2, <1>3 DEF WakeIsDue
<1> QED
  BY <1>4, WakeupsAre

LEMMA WakeupTick ==
    ASSUME PacingConstants, Typed, Stacked, NoLostWakeup, Tick
    PROVE  NoLostWakeup'
<1>1. \A v \in Tasks : WakeIsDue(v)
  BY WakeupsAre
<1>2. ASSUME NEW v \in Tasks, WaitsUnwoken(task'[v])
      PROVE  Busy(states'[Object(v)']) \/ Owed(task', Object(v)')
  <2>1. /\ task'[v].guards = task[v].guards /\ task'[v].pc = task[v].pc /\ task'[v].woken = task[v].woken
        /\ task'[v].until = -1 => task[v].until = -1
        /\ \A u \in Tasks : task'[u].notify = task[u].notify
    BY TickIs
  <2>2. WaitsUnwoken(task[v])
    BY <1>2, <2>1 DEF WaitsUnwoken
  <2> DEFINE x == Object(v)
  <2>3. Object(v)' = x
    BY <2>1 DEF Object, Top
  <2>4. x \in Objects
    BY <2>2, WaiterIs DEF WaitsUnwoken, Waits
  <2>5. Busy(states[x]) \/ Owed(task, x)
    BY <1>1, <2>2 DEF WakeIsDue
  <2>6. SameUse(x)
    BY <2>4, TickIs
  <2> HIDE DEF x
  <2>7. Busy(states[x]) => Busy(states'[x])
    BY <2>6 DEF Busy, EffectiveConcurrency, SameUse
  <2>8. Owed(task, x) => Owed(task', x)
    BY <2>1 DEF Owed
  <2> QED
    BY <2>3, <2>5, <2>7, <2>8
<1>3. ASSUME NEW v \in Tasks
      PROVE  WakeIsDue(v)'
  BY <1>2 DEF WakeIsDue
<1> QED
  BY <1>3, WakeupsAre
-----------------------------------------------------------------------------
\* The invariant.

LEMMA InitInv ==
    ASSUME PacingConstants, PacingInit
    PROVE  PacingInv
<1>0. CacheCapacity \in Nat /\ Capacity \in Nat /\ \A v \in Tasks : Target[v] \in Origins
  BY DEF PacingConstants
<1>1. << >> \in Seq(GuardValue) /\ Len(<< >>) = 0
  OBVIOUS
<1>2. TaskAt("new") \in TaskValue
  BY <1>1 DEF TaskAt, TaskValue, Place, Reference, NoPolicy, Policy
<1>3. Typed
  BY <1>2 DEF PacingInit, Typed, Reference, NewState, StateValue, NoPolicy, Policy
<1>4. ASSUME NEW v \in Tasks
      PROVE  /\ task[v].pc = "new" /\ task[v].guards = << >> /\ task[v].floor = 0 /\ task[v].notify = NoObject
  BY DEF PacingInit, TaskAt
<1>5. Stacked
  <2>1. ASSUME NEW v \in Tasks
        PROVE  TaskShape(task[v], registry[Target[v]])
    <3>3. PICK g \in Seq(GuardValue) : g = << >> /\ Len(g) = 0
      BY <1>1
    <3>1. StackShape(task[v].guards, 0, registry[Target[v]])
      <4>1. StackShape(g, 0, registry[Target[v]])
        BY <3>3 DEF StackShape
      <4> QED
        BY <1>4, <3>3, <4>1
    <3>2. Fits(task[v], 0)
      BY <1>4 DEF Fits, Waits
    <3> QED
      BY <3>1, <3>2 DEF TaskShape, Holds
  <2> QED
    BY <2>1 DEF Stacked
<1>6. Registered = {} /\ Cached = {}
  BY DEF PacingInit, Registered, Cached, NoPolicy
<1>7. CapacityAccounted /\ RegistryBounded /\ CacheBounded
  BY <1>0, <1>6, FS_EmptySet DEF CapacityAccounted, RegistryBounded, CacheBounded
<1>8. OneFlightPerOrigin
  BY <1>4, FlyingIs DEF Flying
<1>9. NoLostWakeup
  BY <1>4 DEF NoLostWakeup
<1>10. Paused
  BY DEF PacingInit, Paused
<1> QED
  BY <1>3, <1>5, <1>7, <1>8, <1>9, <1>10 DEF PacingInv

LEMMA TickInv ==
    ASSUME PacingConstants, PacingInv, Tick
    PROVE  PacingInv'
<1> USE DEF PacingInv
<1>1. Typed'
  BY TickIs DEF Typed
<1>2. RegistryBounded'
  BY TickIs DEF RegistryBounded, Registered
<1>3. OneFlightPerOrigin'
  <2>1. ASSUME NEW v \in Tasks, Flying(task'[v].guards) # {}
        PROVE  flights'[Target[v]] = v
    <3>1. task'[v].guards = task[v].guards /\ flights' = flights
      BY TickIs
    <3> QED
      BY <2>1, <3>1, FlyingIs
  <2> QED
    BY <2>1, FlyingIs
<1> QED
  BY <1>1, <1>2, <1>3, StackedTick, AccountedTick, WakeupTick, PausedTick, CacheTick

LEMMA TaskInv ==
    ASSUME PacingConstants, PacingInv, NEW t \in Tasks, TaskStep(t) \/ Cancel(t)
    PROVE  PacingInv' /\ AnyStep(t)
<1> USE DEF PacingInv
<1>1. AnyStep(t) /\ RegistryBounded'
  BY StepCases
<1>2. Typed' /\ Stacked' /\ CapacityAccounted'
  BY <1>1, TypedStep, StackedStep, AccountedStep
<1>3. OneFlightPerOrigin' /\ NoLostWakeup'
  BY <1>1, FlightStep, WakeupStep
<1>4. Paused' /\ CacheBounded'
  BY <1>1, PausedStep, CacheStep
<1> QED
  BY <1>1, <1>2, <1>3, <1>4

LEMMA SameInv ==
    ASSUME PacingInv, UNCHANGED pacingVars
    PROVE  PacingInv'
<1> USE DEF pacingVars
<1>1. Typed' /\ Stacked'
  BY DEF PacingInv, Typed, Stacked
<1>2. CapacityAccounted'
  <2>1. \A o \in Registered : Reckoned(task, states[registry[o]], registry[o])
    BY AccountedIs DEF PacingInv
  <2>2. Registered' = Registered
    BY DEF Registered
  <2> QED
    BY <2>1, <2>2, AccountedIs
<1>3. OneFlightPerOrigin'
  BY FlyingIs DEF PacingInv
<1>4. NoLostWakeup'
  BY DEF PacingInv, NoLostWakeup, Object, Top, EffectiveConcurrency
<1>5. Paused'
  BY PausedIs DEF PacingInv
<1>6. RegistryBounded' /\ CacheBounded'
  BY DEF PacingInv, RegistryBounded, CacheBounded, Registered, Cached
<1> QED
  BY <1>1, <1>2, <1>3, <1>4, <1>5, <1>6 DEF PacingInv

LEMMA StepInv ==
    ASSUME PacingConstants, PacingInv, [PacingNext]_pacingVars
    PROVE  PacingInv'
<1>1. CASE Tick
  BY <1>1, TickInv
<1>2. ASSUME NEW t \in Tasks, TaskStep(t) \/ Cancel(t)
      PROVE  PacingInv'
  BY <1>2, TaskInv
<1>3. CASE UNCHANGED pacingVars
  BY <1>3, SameInv
<1> QED
  BY <1>1, <1>2, <1>3 DEF PacingNext

LEMMA PacingInvariant ==
    ASSUME PacingConstants
    PROVE  PacingSpec => []PacingInv
<1>1. PacingInit => PacingInv
  BY InitInv
<1>2. PacingInv /\ [PacingNext]_pacingVars => PacingInv'
  BY StepInv
<1> QED
  BY <1>1, <1>2, PTL DEF PacingSpec

\* Whatever a task ends with, and wherever it is cancelled, no capacity of its
\* origin leaks or is given back twice, no waiting task misses its wake-up, one
\* task at a time fetches an origin's robots policy, and an origin has one
\* pacing state that is retired only when nobody uses it, with any number of
\* tasks, origins and states (Drop of the guards, notify_waiters,
\* RobotsFetchFlight, retire_idle).
THEOREM PacingIsSafe ==
    ASSUME PacingConstants
    PROVE  PacingSpec => []PacingSafe
<1>1. PacingInv => PacingSafe
  <2> SUFFICES ASSUME PacingInv
               PROVE  PacingSafe
    OBVIOUS
  <2> USE DEF PacingInv
  <2>1. ASSUME NEW t \in Tasks
        PROVE  /\ Len(task[t].guards) <= 4 /\ task[t].until >= -1
               /\ \A i \in DOMAIN task[t].guards :
                    task[t].guards[i].kind # "flight" => task[t].guards[i].object = registry[Target[t]]
    <3> DEFINE x == registry[Target[t]]
               g == task[t].guards
    <3>1. x \in Reference /\ task[t] \in TaskValue
      BY HolderOf
    <3>2. PICK n \in 0..4 : StackShape(g, n, x)
      BY HolderOf DEF Holds
    <3>3. /\ n = Len(g) /\ DOMAIN g = 1..n
          /\ \A i \in 1..n : g[i].kind # "flight" => g[i] = Guard(g[i].kind, x) /\ x \in Objects
      BY <3>1, <3>2, StackOf
    <3>4. task[t].until >= -1
      BY <3>1 DEF TaskValue
    <3> HIDE DEF x, g
    <3>5. Len(g) <= 4
      BY <3>3
    <3>6. \A i \in DOMAIN g : g[i].kind # "flight" => g[i].object = x
      BY <3>3, GuardIs
    <3> QED
      BY <3>4, <3>5, <3>6 DEF g, x
  <2>2. registry \in [Origins -> Objects \cup {NoObject}] /\ Cardinality(Registered) <= Capacity
    BY DEF Typed, Reference, RegistryBounded
  <2>3. Cardinality({o \in Origins : cache[o].left > 0}) <= CacheCapacity
    BY DEF CacheBounded, Cached
  <2>4. \A x \in Objects : states[x].in_flight \in Nat /\ states[x].waiting \in Nat
    BY DEF Typed, StateValue
  <2>5. PacingTypeOK
    BY <2>1, <2>2, <2>3, <2>4 DEF PacingTypeOK
  <2>6. OneStatePerOrigin
    BY <2>1 DEF OneStatePerOrigin
  <2> QED
    BY <2>5, <2>6 DEF PacingSafe
<1> QED
  BY <1>1, PacingInvariant, PTL

\* The users of an origin are counted by its state.
LEMMA UsersAreCounted ==
    ASSUME PacingConstants, Typed, Stacked, NEW o \in Origins, Accounted(registry[o]),
           registry[o] \in Objects
    PROVE  /\ Cardinality(Using(o)) \in Nat
           /\ Cardinality(Using(o)) <= states[registry[o]].in_flight
<1> DEFINE x == registry[o]
           P == In(task, x, "permit")
           G == GrantsIn(task, x)
           first == [p \in P |-> p[1]]
           Q == {first[p] : p \in P}
<1>1. IsFiniteSet(P) /\ Cardinality(P) \in Nat /\ IsFiniteSet(G) /\ Cardinality(G) \in Nat
  BY InIsFinite, GrantsFinite
<1>2. IsFiniteSet(Q) /\ Cardinality(Q) <= Cardinality(P)
  BY <1>1, Image
<1>3. IsFiniteSet(Q \cup G) /\ Cardinality(Q \cup G) <= Cardinality(Q) + Cardinality(G)
      /\ Cardinality(Q) \in Nat /\ Cardinality(Q \cup G) \in Nat
  <2>1. IsFiniteSet(Q \cup G) /\ Cardinality(Q \cup G) = Cardinality(Q) + Cardinality(G) - Cardinality(Q \cap G)
    BY <1>1, <1>2, FS_Union
  <2>2. Cardinality(Q \cap G) \in Nat /\ Cardinality(Q) \in Nat /\ Cardinality(Q \cup G) \in Nat
    BY <1>1, <1>2, <2>1, FS_Intersection, FS_CardinalityType
  <2> QED
    BY <1>1, <2>1, <2>2
<1>4. ASSUME NEW v \in Tasks, Target[v] = o, Holding(v, {"permit"}) # {} \/ task[v].pc = "granted"
      PROVE  v \in Q \cup G
  <2>1. x \in Reference
    BY DEF Reference
  <2>2. PICK n \in 0..4 : StackShape(task[v].guards, n, x) /\ Fits(task[v], n)
    BY <1>4, HolderOf DEF Holds
  <2>3. CASE task[v].pc = "granted"
    <3>1. Object(v) = x
      BY <1>4, <2>3, WaiterIs DEF Waits
    <3> QED
      BY <2>3, <3>1 DEF GrantsIn, Object, Top
  <2>4. CASE Holding(v, {"permit"}) # {}
    <3>1. n >= 1 /\ task[v].guards[n].kind = "permit"
      BY <2>1, <2>2, <2>4, FetchingIs
    <3>2. DOMAIN task[v].guards = 1..n
      BY <2>1, <2>2, SpanOf DEF Spans
    <3>6. n \in 1..4 /\ StackShape(task[v].guards, n, x)
      BY <2>2, <3>1
    <3>7. Top(v) = task[v].guards[n]
      BY <2>1, <3>6, TopIs
    <3>8. Top(v).kind # "flight" => Top(v) = Guard(Top(v).kind, x) /\ Object(v) = x /\ x \in Objects
      BY <2>1, <3>6, TopIs
    <3>3. task[v].guards[n] = Guard("permit", x)
      BY <3>1, <3>7, <3>8
    <3>4. <<v, n>> \in P
      BY <3>1, <3>2, <3>3 DEF In
    <3>5. first[<<v, n>>] = v
      BY <3>4
    <3> HIDE DEF first, P
    <3> QED
      BY <3>4, <3>5
  <2> QED
    BY <1>4, <2>3, <2>4
<1>5. Using(o) \subseteq Q \cup G
  BY <1>4 DEF Using
<1>6. Cardinality(Using(o)) <= Cardinality(Q \cup G) /\ Cardinality(Using(o)) \in Nat
  BY <1>3, <1>5, FS_Subset, FS_CardinalityType
<1>7. states[x].in_flight = Cardinality(P) + Cardinality(G)
  BY AccountedIs DEF Reckoned
<1> HIDE DEF x, P, G, Q
<1> QED
  BY <1>1, <1>2, <1>3, <1>6, <1>7 DEF x

LEMMA AdmissionIsPolite ==
    ASSUME PacingConstants, PacingInv, NEW t \in Tasks, Admission(t)
    PROVE  /\ quiet[Target[t]] = 0
           /\ \A u \in Present(Target[t]) : Cardinality(Using(Target[t])) < Concurrency[u]
<1> USE DEF PacingInv
<1> DEFINE o == Target[t]
           x == registry[o]
           s == states[x]
<1>1. task[t].pc \in Waits /\ o \in Origins
  BY DEF Admission, Inspect, At, Waits, PacingConstants
<1>2. Object(t) = x /\ x \in Objects
  BY <1>1, WaiterIs
<1>3. s.in_flight < EffectiveConcurrency(s) /\ Expired(s)
  BY <1>2 DEF Admission, Admits
<1>4. quiet[o] = 0
  BY <1>1, <1>3, ExpiredIsQuiet
<1>5. o \in Registered
  BY <1>1, <1>2 DEF Registered, Objects, NoObject
<1>6. Accounted(x)
  BY <1>5 DEF CapacityAccounted
<1>7. Cardinality(Using(o)) \in Nat /\ Cardinality(Using(o)) <= s.in_flight
  BY <1>1, <1>2, <1>6, UsersAreCounted
<1>8. s \in StateValue /\ s.in_flight \in Nat
  BY <1>2 DEF Typed, StateValue
<1>9. ASSUME NEW u \in Present(o)
      PROVE  Cardinality(Using(o)) < Concurrency[u]
  <2>1. u \in Tasks /\ Target[u] = o /\ Holding(u, {"page", "fetch"}) # {}
    BY DEF Present
  <2>2. PICK n \in 0..4 : StackShape(task[u].guards, n, registry[Target[u]])
    BY <2>1, HolderOf DEF Holds
  <2>3. registry[Target[u]] \in Reference
    BY <2>1, HolderOf
  <2>4. n \in 1..4
    BY <2>1, <2>2, <2>3, FetchingIs
  <2>5. <<u, "page">> \in RegistrationsOf(x)
    BY <2>1, <2>2, <2>4, HolderRegistered
  <2>6. <<u, "page">> \in s.registrations
    BY <1>6, <2>5 DEF Accounted
  <2>7. EffectiveConcurrency(s) \in Nat /\ EffectiveConcurrency(s) <= Concurrency[<<u, "page">>[1]]
    BY <1>8, <2>6, ConcurrencyIs
  <2>8. Concurrency[u] \in Nat /\ <<u, "page">>[1] = u
    BY <2>1 DEF PacingConstants
  <2> HIDE DEF s, x
  <2> QED
    BY <1>3, <1>7, <1>8, <2>7, <2>8
<1> QED
  BY <1>4, <1>9

LEMMA StepIsPolite ==
    ASSUME PacingConstants, PacingInv, [PacingNext]_pacingVars
    PROVE  [PoliteStep]_pacingVars
<1> SUFFICES ASSUME PacingNext, NEW v \in Tasks, task[v].pc = "inspect", task'[v].pc = "granted"
             PROVE  Admission(v)
  BY AdmissionIsPolite DEF PoliteStep
<1> USE DEF PacingInv
<1>1. ~Tick
  BY TickIs
<1>2. PICK t \in Tasks : TaskStep(t) \/ Cancel(t)
  BY <1>1 DEF PacingNext
<1>3. AnyStep(t)
  BY <1>2, TaskInv
<1>4. t = v
  BY <1>3, OthersKept
<1>5. ~NotifyWaiters(v)
  BY NotifyIs
<1>6. Inspect(v)
  BY <1>2, <1>4, <1>5 DEF TaskStep, Register, RegisterWaiter, Enable, Inspect, Await, Wake, Granted, Evaluate, JoinFlight,
         Follow, RobotsFetched, RobotsUnavailable, StorePolicy, Admitted, PageLoaded, Unwind, Cancel, At
<1>7. KeepStep(v)
  BY <1>6 DEF KeepStep
<1> QED
  BY <1>6, <1>7, QuietEases

\* A request starts only when every pause that an earlier request of any task
\* asked for has passed, and below the smallest concurrency of the tasks at
\* work on the origin, also where its state was retired in between (inspect,
\* record_outcome, retire_idle).
THEOREM PacingIsPolite ==
    ASSUME PacingConstants
    PROVE  PacingSpec => GrantsArePolite
<1>1. PacingInv /\ [PacingNext]_pacingVars => [PoliteStep]_pacingVars
  BY StepIsPolite
<1> QED
  BY <1>1, PacingInvariant, PTL DEF PacingSpec, GrantsArePolite
=============================================================================

------------------------- MODULE QuickScrapeProofs -------------------------
(***************************************************************************)
(* Proofs about a Quick Scrape run, for any handlers, jobs, budgets,       *)
(* answers and faults: its results have their evidence, no result is       *)
(* replaced within its generation, retries stay within the budget, and     *)
(* while no lease is lost run and job end as the unit of work did.         *)
(***************************************************************************)
EXTENDS QuickScrape, FiniteSetTheorems, SequenceTheorems, TLAPS

UnitState == Outcome \cup {"NONE", "PENDING", "RUNNING"}
File      == {"none", "temporary", "renamed", "published"}
\* The kinds of job that open a generation, and those there are.
Opening == {"RETRY", "RETRY_FAILED_PARTS", "RESTART_FROM_BEGINNING"}
JobKind == Opening \cup {"QUICK_SCRAPE", "RESUME_CHECKPOINT"}
Openers == {j \in DOMAIN jobs : jobs[j] \in Opening}

\* Where a handler is: before its result, on the way of an artifact to its row,
\* and after it.
Loading == {"load", "mark", "prepare", "begin", "initialize", "save", "ready", "fetch"}
Writing == {"write", "rename", "sync", "record"}
Ending  == {"persist", "close", "again", "decide", "finalize", "settle"}
HandlerState ==
    [pc : {"idle"} \cup Loading \cup Writing \cup Ending, ck : BOOLEAN, dur : UnitState,
     own : BOOLEAN, gen : Nat, out : Outcome \cup {"NONE"}, again : BOOLEAN,
     art : Art \cup {NoArt}, arg : {"NONE", "RUNNING", "FAILED", "CANCELLED"},
     to : TerminalRun \cup {"NONE"}, done : BOOLEAN, job : Nat, try : Nat]

Active(w) == h[w].pc # "idle"

\* The tables.
RowsOK ==
    /\ work \in [state : UnitState, gen : Nat]
    /\ \A e \in execs : e.outcome \in Outcome /\ e.job \in DOMAIN jobs
    /\ disk \in [Art -> File] /\ recorded \subseteq Art
    /\ status \in TerminalRun \cup {"QUEUED", "RUNNING"}
    /\ ResultHasEvidence
QueueOK ==
    /\ jobs \in Seq(JobKind) /\ Len(jobs) \in 1..MaxJobs
    /\ setting \in Setting
    /\ budget \in 1..MaxTries /\ tries \in 0..budget /\ spent \in Nat
    /\ jobState \in {"QUEUED", "RUNNING", "SUCCEEDED", "FAILED", "CANCELLED"}
    /\ owner \in Handler \cup {NoHandler}
    /\ jobState = "RUNNING" <=> owner # NoHandler

\* The attempts that are left of a budget and those its chain has spent add up.
BudgetOK == tries <= spent /\ spent + (budget - tries) <= setting.tries
\* A generation is opened with the row of the action that opens it.
GenerationsOK ==
    /\ prepared \subseteq Openers /\ IsFiniteSet(prepared)
    /\ work.gen <= Cardinality(prepared)

\* A handler r works for an attempt that was made of a job of js, whose last one
\* has made t attempts; it carries a result once it has one, and only a handler
\* that has finalized the run is done.
HandlerOK(r, js, t) ==
    /\ r \in HandlerState
    /\ r.pc # "idle" => /\ r.job \in 1..Len(js) /\ r.try \in 1..MaxTries
                        /\ r.job = Len(js) => r.try <= t
    /\ r.pc \in {"mark", "prepare"} => js[r.job] \in Opening
    /\ r.pc \in Writing \cup {"persist", "close"} => r.out \in Outcome
    /\ r.pc = "decide" => r.arg # "NONE"
    /\ r.pc = "finalize" => r.to \in TerminalRun
    /\ r.done <=> r.pc = "settle"

\* An attempt's file is its own until its row is written, and is then durable.
FileOK(r, rows, d) ==
    r.pc \in Loading \cup Writing =>
        /\ r.art = <<r.job, r.try>>
        /\ r.art \notin rows
        /\ r.pc = "rename" => d[r.art] = "temporary"
        /\ r.pc = "sync" => d[r.art] = "renamed"
        /\ r.pc = "record" => d[r.art] = "published"
FilesOK ==
    /\ RecordedArtifactsExist
    /\ \A a \in recorded : a[1] \in DOMAIN jobs /\ (a[1] = This => a[2] <= tries)
    /\ \A w, v \in Handler : Active(w) /\ Active(v) /\ w # v =>
          <<h[w].job, h[w].try>> # <<h[v].job, h[v].try>>

\* While no lease is lost, the one active handler is the owner, and what it knows
\* is so: of the unit, whose state is u, and of the run, whose status is s.
KnownUnit(r, js, u) ==
    /\ r.pc \in {"mark", "prepare", "begin"} /\ r.dur = "COMPLETED"
          /\ js[r.job] # "RESTART_FROM_BEGINNING" => u = "COMPLETED"
    /\ r.pc = "close" => u = r.out
    /\ r.pc = "decide" /\ r.arg = "RUNNING" => u \in {"COMPLETED", "PARTIAL"}
    /\ r.pc = "finalize" => /\ r.to = "SUCCEEDED" => u = "COMPLETED"
                            /\ r.to = "PARTIAL_RESULT" => u = "PARTIAL"
KnownRun(r, s) ==
    r.pc # "idle" => IF r.done THEN s \in TerminalRun ELSE s \in {"QUEUED", "RUNNING"}
Alone ==
    "lease" \notin setting.faults =>
        /\ \A w \in Handler : /\ Active(w) <=> owner = w
                              /\ KnownUnit(h[w], jobs, work.state) /\ KnownRun(h[w], status)
        /\ jobState = "QUEUED" => status \in {"QUEUED", "RUNNING"}
        /\ EndAgreesWithUnit /\ JobFollowsRun

QuickInv ==
    /\ RowsOK /\ QueueOK /\ BudgetOK /\ GenerationsOK
    /\ h \in [Handler -> HandlerState]
    /\ \A w \in Handler : HandlerOK(h[w], jobs, tries) /\ FileOK(h[w], recorded, disk)
    /\ FilesOK /\ Alone
-----------------------------------------------------------------------------
(***************************************************************************)
(* The queue.                                                              *)
(***************************************************************************)
JobStatus == {"QUEUED", "RUNNING", "SUCCEEDED", "FAILED", "CANCELLED"}
RunStatus == TerminalRun \cup {"QUEUED", "RUNNING"}

\* The owner's job is put back or ends; nothing else of the queue changes.
Released ==
    /\ \E s \in JobStatus \ {"RUNNING"} : Settled(s)
    /\ status' \in RunStatus

LEMMA RecoveredReleases ==
    ASSUME status \in RunStatus, Recovered
    PROVE  Released
<1>1. CASE status \in TerminalRun
  BY <1>1 DEF Recovered, Released, JobStatus, JobStateOf
<1>2. CASE status \notin TerminalRun
  BY <1>2 DEF Recovered, Released, JobStatus, RunStatus, TerminalRun
<1> QED
  BY <1>1, <1>2

LEMMA SettleReleases ==
    ASSUME status \in RunStatus, NEW w, NEW r, Settle(w, r)
    PROVE  UNCHANGED <<queueVars, status>> \/ (owner = w /\ Released)
<1>1. CASE owner # w
  BY <1>1 DEF Settle
<1>2. CASE owner = w /\ h[w].done
  BY <1>2 DEF Settle, Released, JobStatus, JobStateOf
<1>3. CASE owner = w /\ ~h[w].done /\ token
  BY <1>3 DEF Settle, Released, JobStatus, RunStatus, TerminalRun, JobStateOf
<1>4. CASE owner = w /\ ~h[w].done /\ ~token /\ pressed
  BY <1>4, RecoveredReleases DEF Settle
<1>5. CASE owner = w /\ ~h[w].done /\ ~token /\ ~pressed
  BY <1>5 DEF Settle, Released, JobStatus
<1> QED
  BY <1>1, <1>2, <1>3, <1>4, <1>5

QueueKept == UNCHANGED <<jobs, budget, jobState, tries, owner, spent>> /\ status' \in RunStatus

LEMMA ReturnQueue ==
    ASSUME RowsOK, NEW w, NEW r, Return(w, r)
    PROVE  QueueKept \/ Released
<1>1. status \in RunStatus
  BY DEF RowsOK, RunStatus
<1> QED
  BY <1>1, SettleReleases DEF Return, QueueKept, queueVars

\* Every step keeps the queue, releases the job, acquires it or adds one.
LEMMA StepQueue ==
    ASSUME QuickInv, QuickNext
    PROVE  \/ QueueKept \/ Released
           \/ \E w \in Handler : Acquire(w)
           \/ \E k \in setting.actions : Ask(k)
<1> DEFINE Goal == QueueKept \/ Released
<1>0. RowsOK /\ status \in RunStatus
  BY DEF QuickInv, RowsOK, RunStatus
<1>1. ASSUME UNCHANGED <<queueVars, status>>
      PROVE  Goal
  BY <1>0, <1>1 DEF QueueKept, queueVars
<1>2. ASSUME NEW w, NEW r, Return(w, r)
      PROVE  Goal
  BY <1>0, <1>2, ReturnQueue
<1>3. ASSUME NEW w, NEW pc, Checkpointed(w, pc)
      PROVE  Goal
  BY <1>0, <1>2, <1>3 DEF Checkpointed, QueueKept
<1>4. ASSUME NEW w \in Handler, Step(w)
      PROVE  Goal
  <2>1. CASE Load(w)
    BY <1>1, <1>2, <2>1 DEF Load
  <2>2. CASE Mark(w)
    BY <1>3, <2>2 DEF Mark
  <2>3. CASE Prepare(w)
    BY <1>1, <1>2, <2>3 DEF Prepare
  <2>4. CASE Begin(w)
    <3>1. CASE status' = "RUNNING" /\ UNCHANGED queueVars
      BY <3>1 DEF QueueKept, queueVars, RunStatus
    <3> QED
      BY <1>1, <1>2, <2>4, <3>1 DEF Begin
  <2>5. CASE Initialize(w)
    BY <1>1, <2>5 DEF Initialize
  <2>6. CASE Save(w)
    BY <1>3, <2>6 DEF Save
  <2>7. CASE Activate(w)
    BY <1>1, <1>2, <2>7 DEF Activate
  <2>8. CASE Interrupted(w)
    BY <1>1, <1>2, <2>8 DEF Interrupted
  <2>9. CASE ProviderCancelled(w)
    BY <1>1, <2>9 DEF ProviderCancelled
  <2>10. ASSUME NEW a, Answered(w, a)
         PROVE  Goal
    BY <1>1, <2>10 DEF Answered
  <2>11. ASSUME NEW a, TerminalFailure(w, a)
         PROVE  Goal
    BY <1>1, <1>2, <2>11 DEF TerminalFailure
  <2>12. CASE WriteTemporary(w) \/ Rename(w) \/ SyncDirectory(w) \/ Record(w) \/ Decide(w)
    BY <1>1, <2>12 DEF WriteTemporary, Rename, SyncDirectory, Record, Decide
  <2>13. CASE Persist(w)
    BY <1>1, <1>2, <2>13 DEF Persist
  <2>14. CASE Close(w)
    BY <1>0, <1>2, <2>14 DEF Close, QueueKept
  <2>15. CASE Again(w) \/ Reconcile(w)
    BY <1>2, <2>15 DEF Again, Reconcile
  <2>16. CASE Finalize(w)
    <3>1. h[w].to \in TerminalRun
      BY <2>16 DEF QuickInv, HandlerOK, Finalize
    <3>2. CASE status' = h[w].to /\ UNCHANGED queueVars
      BY <3>1, <3>2 DEF QueueKept, queueVars, RunStatus
    <3> QED
      BY <1>2, <2>16, <3>2 DEF Finalize
  <2> QED
    BY <1>4, <2>1, <2>2, <2>3, <2>4, <2>5, <2>6, <2>7, <2>8, <2>9, <2>10, <2>11, <2>12,
       <2>13, <2>14, <2>15, <2>16 DEF Step
<1>5. ASSUME NEW w \in Handler, ArtifactFails(w)
      PROVE  Goal
  BY <1>0, <1>1, <1>5, SettleReleases DEF ArtifactFails
<1>6. CASE Crash
  BY <1>0, <1>1, <1>6, RecoveredReleases DEF Crash
<1>7. CASE LeaseExpires
  BY <1>0, <1>7, RecoveredReleases DEF LeaseExpires
<1>8. CASE Cancel
  <2>1. ASSUME Settled("CANCELLED"), status' = IF status \in TerminalRun THEN status ELSE "CANCELLED"
        PROVE  Released
    BY <1>0, <2>1 DEF Released, JobStatus, RunStatus, TerminalRun
  <2> QED
    BY <1>1, <1>8, <2>1 DEF Cancel
<1>9. CASE Pressure
  BY <1>1, <1>9 DEF Pressure
<1> QED
  BY <1>4, <1>5, <1>6, <1>7, <1>8, <1>9 DEF QuickNext

\* The queue keeps its shape, and jobs are only added, when nobody holds the last.
LEMMA QueueStep ==
    ASSUME QuickAssumption, QuickInv, QuickNext
    PROVE  /\ QueueOK' /\ BudgetOK' /\ status' \in RunStatus
           /\ \/ jobs' = jobs /\ budget' = budget /\ tries \in Nat /\ tries' \in {tries, tries + 1}
              \/ /\ \E k \in setting.actions : jobs' = Append(jobs, k)
                 /\ tries' = 0 /\ owner = NoHandler
<1>0. /\ QueueOK /\ BudgetOK /\ NoHandler \notin Handler /\ MaxTries \in Nat
      /\ MaxJobs \in Nat /\ setting' = setting /\ status \in RunStatus
  BY DEF QuickInv, QuickAssumption, QuickNext, RowsOK, RunStatus
<1>1. setting.actions \subseteq JobKind /\ setting.tries \in 1..MaxTries
  BY <1>0 DEF QueueOK, Setting, JobKind, Opening
<1>2. CASE QueueKept
  BY <1>0, <1>2 DEF QueueKept, QueueOK, BudgetOK
<1>3. CASE Released
  BY <1>0, <1>3 DEF Released, JobStatus, Settled, QueueOK, BudgetOK
<1>4. ASSUME NEW w \in Handler, Acquire(w)
      PROVE  /\ QueueOK' /\ BudgetOK' /\ status' \in RunStatus
             /\ jobs' = jobs /\ budget' = budget /\ tries \in Nat /\ tries' = tries + 1
  BY <1>0, <1>1, <1>4 DEF Acquire, QueueOK, BudgetOK
<1>5. ASSUME NEW k \in setting.actions, Ask(k)
      PROVE  /\ QueueOK' /\ BudgetOK' /\ status' \in RunStatus
             /\ jobs' = Append(jobs, k) /\ tries' = 0 /\ owner = NoHandler
  <2>1. jobs' = Append(jobs, k) /\ Len(jobs) < MaxJobs /\ k \in JobKind /\ jobs \in Seq(JobKind)
    BY <1>0, <1>1, <1>5 DEF Ask, QueueOK
  <2>2. jobs' \in Seq(JobKind) /\ Len(jobs') = Len(jobs) + 1
    BY <2>1
  <2>3. Len(jobs') \in 1..MaxJobs
    BY <1>0, <2>1, <2>2 DEF QueueOK
  <2>4. jobState # "RUNNING" /\ owner = NoHandler
    BY <1>0, <1>5 DEF Ask, AskAccepts, Failed, QueueOK
  <2>5. /\ budget' \in 1..MaxTries /\ spent' \in Nat /\ tries' = 0
        /\ spent' + budget' <= setting.tries
    <3>1. CASE k \in {"RETRY", "RETRY_FAILED_PARTS"}
      <4>1. tries < budget
        BY <1>5, <3>1 DEF Ask, AskAccepts
      <4> QED
        BY <1>0, <1>1, <1>5, <3>1, <4>1 DEF Ask, ChildBudget, QueueOK, BudgetOK
    <3>2. CASE k \notin {"RETRY", "RETRY_FAILED_PARTS"}
      BY <1>0, <1>1, <1>5, <3>2 DEF Ask, ChildBudget, QueueOK, BudgetOK
    <3> QED
      BY <3>1, <3>2
  <2>6. jobState' = "QUEUED" /\ owner' = owner /\ status' = "QUEUED"
    BY <1>5 DEF Ask
  <2> QED
    BY <1>0, <2>1, <2>2, <2>3, <2>4, <2>5, <2>6 DEF QueueOK, BudgetOK, RunStatus
<1> QED
  BY <1>0, <1>2, <1>3, <1>4, <1>5, StepQueue DEF QueueKept, Released, Settled, QueueOK
-----------------------------------------------------------------------------
(***************************************************************************)
(* The handlers.                                                           *)
(***************************************************************************)
LEMMA IdleHandler ==
    \A js, t : HandlerOK(Idle, js, t)
BY DEF HandlerOK, Idle, HandlerState, UnitState, Outcome, Writing

\* A handler keeps the attempt it works for, and its artifact until its row.
SameTurn(q, r) ==
    /\ q.pc # "idle" /\ r.pc # "idle" /\ r.job = q.job /\ r.try = q.try
    /\ r.pc \in Loading \cup Writing => q.pc \in Loading \cup Writing /\ r.art = q.art

\* The next record of a handler: what a step of w makes of it is sound.
StepsTo(w, r) ==
    /\ h' = [h EXCEPT ![w] = r] /\ HandlerOK(r, jobs, tries)
    /\ r = Idle \/ SameTurn(h[w], r)

LEMMA StepHandler ==
    ASSUME QuickAssumption, QuickInv, NEW w \in Handler, Step(w) \/ ArtifactFails(w)
    PROVE  \E r : StepsTo(w, r)
<1>0. /\ HandlerOK(h[w], jobs, tries) /\ h[w] \in HandlerState
      /\ work \in [state : UnitState, gen : Nat]
  BY DEF QuickInv, RowsOK
<1>1. ASSUME NEW r, Return(w, r)
      PROVE  StepsTo(w, Idle)
  BY <1>1, IdleHandler DEF Return, Become, StepsTo
<1>2. ASSUME NEW r, Become(w, r), r \in HandlerState, SameTurn(h[w], r),
             r.pc \in {"mark", "prepare"} => KindOf(w) \in Opening,
             r.pc \in Writing \cup {"persist", "close"} => r.out \in Outcome,
             r.pc = "decide" => r.arg # "NONE",
             r.pc = "finalize" => r.to \in TerminalRun,
             r.done <=> r.pc = "settle"
      PROVE  StepsTo(w, r)
  BY <1>0, <1>2 DEF HandlerOK, StepsTo, SameTurn, Become, KindOf, SameTurn
<1>3. ASSUME NEW pc \in Loading \cup Writing \cup Ending, Goto(w, pc),
             h[w].pc \notin {"idle", "settle"}, pc \notin {"settle", "mark", "decide", "finalize"},
             pc = "prepare" => h[w].pc = "mark",
             pc \in Writing \cup {"persist", "close"} => h[w].pc \in Writing \cup {"persist", "close"},
             pc \in Loading \cup Writing => h[w].pc \in Loading \cup Writing
      PROVE  StepsTo(w, [h[w] EXCEPT !.pc = pc])
  <2> DEFINE r == [h[w] EXCEPT !.pc = pc]
  <2>1. /\ r \in HandlerState /\ r.pc = pc /\ r.job = h[w].job /\ r.try = h[w].try
        /\ r.art = h[w].art /\ r.out = h[w].out /\ r.done = h[w].done
    BY <1>0, <1>3 DEF HandlerState
  <2>2. SameTurn(h[w], r)
    BY <1>3, <2>1 DEF SameTurn, Loading, Writing, Ending
  <2>3. pc \in {"mark", "prepare"} => KindOf(w) \in Opening
    BY <1>0, <1>3 DEF HandlerOK, KindOf
  <2>4. pc \in Writing \cup {"persist", "close"} => r.out \in Outcome
    BY <1>0, <1>3, <2>1 DEF HandlerOK
  <2>5. r.done <=> r.pc = "settle"
    BY <1>0, <1>3, <2>1 DEF HandlerOK
  <2> HIDE DEF r
  <2> QED
    BY <1>2, <1>3, <2>1, <2>2, <2>3, <2>4, <2>5 DEF Goto, r
<1>4. ASSUME NEW pc \in Loading, Checkpointed(w, pc), h[w].pc \in Loading,
             pc # "mark", pc = "prepare" => h[w].pc = "mark"
      PROVE  \E r : StepsTo(w, r)
  BY <1>1, <1>3, <1>4 DEF Checkpointed, Loading, Writing, Ending
<1>5. CASE Load(w)
  <2>1. ASSUME NEW ck \in BOOLEAN, NEW pc \in {"mark", "begin"}, h[w].pc = "load",
               pc = "mark" => KindOf(w) \in Opening,
               Become(w, [h[w] EXCEPT !.ck = ck, !.dur = work.state, !.pc = pc])
        PROVE  StepsTo(w, [h[w] EXCEPT !.ck = ck, !.dur = work.state, !.pc = pc])
    BY <1>0, <2>1, ZenonT(60) DEF HandlerOK, StepsTo, SameTurn, Become, HandlerState, KindOf, Loading, Writing
  <2>2. (~Restarting(w) /\ ckpt) \in BOOLEAN
    OBVIOUS
  <2>3. Restarting(w) \/ Retrying(w) => KindOf(w) \in Opening
    BY DEF Restarting, Retrying, Opening
  <2> QED
    BY <1>1, <1>5, <2>1, <2>2, <2>3 DEF Load
<1>6. CASE Mark(w) \/ Save(w)
  BY <1>4, <1>6 DEF Mark, Save, Loading
<1>7. CASE Prepare(w) \/ Initialize(w)
  BY <1>1, <1>3, <1>7 DEF Prepare, Initialize, Loading, Writing
<1>8. CASE Begin(w)
  <2>1. ASSUME h[w].pc = "begin", Become(w, [h[w] EXCEPT !.pc = "decide", !.arg = "RUNNING"])
        PROVE  StepsTo(w, [h[w] EXCEPT !.pc = "decide", !.arg = "RUNNING"])
    BY <1>0, <2>1, ZenonT(60) DEF HandlerOK, StepsTo, SameTurn, Become, HandlerState, Loading, Ending, Writing
  <2>2. ASSUME NEW own \in BOOLEAN, NEW pc \in {"ready", "initialize", "save"}, h[w].pc = "begin",
               Become(w, [h[w] EXCEPT !.own = own, !.pc = pc])
        PROVE  StepsTo(w, [h[w] EXCEPT !.own = own, !.pc = pc])
    <3> DEFINE r == [h[w] EXCEPT !.own = own, !.pc = pc]
    <3>1. r \in HandlerState
      BY <1>0, <2>2 DEF HandlerState, Loading, Writing
    <3>2. /\ r.pc = pc /\ r.job = h[w].job /\ r.try = h[w].try /\ r.art = h[w].art
          /\ r.out = h[w].out /\ r.done = h[w].done /\ h' = [h EXCEPT ![w] = r]
      BY <1>0, <2>2 DEF HandlerState, Become
    <3>3. HandlerOK(r, jobs, tries)
      BY <1>0, <2>2, <3>1, <3>2 DEF HandlerOK, Loading, Writing
    <3>4. SameTurn(h[w], r)
      BY <2>2, <3>2 DEF SameTurn, Loading, Writing
    <3> QED
      BY <3>2, <3>3, <3>4 DEF StepsTo
  <2>3. (OwnExecution(w) = {}) \in BOOLEAN
    OBVIOUS
  <2> QED
    BY <1>1, <1>8, <2>1, <2>2, <2>3 DEF Begin
<1>9. ASSUME h[w].pc \in {"ready", "fetch"},
             Become(w, [h[w] EXCEPT !.pc = "decide", !.arg = "CANCELLED"])
      PROVE  StepsTo(w, [h[w] EXCEPT !.pc = "decide", !.arg = "CANCELLED"])
  <2> DEFINE r == [h[w] EXCEPT !.pc = "decide", !.arg = "CANCELLED"]
  <2>1. /\ r \in HandlerState /\ r.pc = "decide" /\ r.arg = "CANCELLED"
        /\ r.job = h[w].job /\ r.try = h[w].try /\ r.done = h[w].done
    BY <1>0, <1>9 DEF HandlerState, Ending
  <2>2. SameTurn(h[w], r) /\ (r.done <=> r.pc = "settle")
    BY <1>0, <1>9, <2>1 DEF SameTurn, HandlerOK, Loading, Writing
  <2> HIDE DEF r
  <2> QED
    BY <1>2, <1>9, <2>1, <2>2 DEF Writing, r
<1>10. CASE Activate(w)
  <2> DEFINE file == [h[w] EXCEPT !.gen = work.gen, !.out = "COMPLETED", !.art = NoArt, !.pc = "persist"]
             page == [h[w] EXCEPT !.gen = work.gen, !.out = h[w].out, !.art = h[w].art, !.pc = "fetch"]
  <2>1. ASSUME h[w].pc = "ready", Become(w, file)
        PROVE  StepsTo(w, file)
    BY <1>0, <2>1, ZenonT(60) DEF HandlerOK, StepsTo, SameTurn, Become, HandlerState, Loading, Ending, Writing, Outcome
  <2>2. ASSUME h[w].pc = "ready", Become(w, page)
        PROVE  StepsTo(w, page)
    BY <1>0, <2>2, ZenonT(60) DEF HandlerOK, StepsTo, SameTurn, Become, HandlerState, Loading, Ending, Writing, Outcome
  <2>3. CASE target = "FILE"
    BY <1>1, <1>9, <1>10, <2>1, <2>3 DEF Activate
  <2>4. CASE target # "FILE"
    BY <1>1, <1>9, <1>10, <2>2, <2>4 DEF Activate
  <2> QED
    BY <2>3, <2>4
<1>11. CASE Interrupted(w) \/ ProviderCancelled(w)
  BY <1>1, <1>9, <1>11 DEF Interrupted, ProviderCancelled
<1>12. ASSUME NEW a, Answered(w, a)
       PROVE  \E r : StepsTo(w, r)
  <2>1. ASSUME h[w].pc = "fetch", a \in Outcome, NEW pc \in {"write", "persist"},
               NEW art \in {h[w].art, NoArt}, pc = "write" => art = h[w].art,
               Become(w, [h[w] EXCEPT !.out = a, !.pc = pc, !.art = art])
        PROVE  StepsTo(w, [h[w] EXCEPT !.out = a, !.pc = pc, !.art = art])
    BY <1>0, <2>1, ZenonT(60) DEF HandlerOK, StepsTo, SameTurn, Become, HandlerState, Loading, Ending, Writing
  <2>2. PICK pc \in {"write", "persist"} :
            Become(w, [h[w] EXCEPT !.out = a, !.pc = pc,
                                   !.art = IF pc = "write" THEN @ ELSE NoArt])
    BY <1>12 DEF Answered
  <2> QED
    BY <1>12, <2>1, <2>2 DEF Answered, Outcome
<1>13. ASSUME NEW a, TerminalFailure(w, a)
       PROVE  \E r : StepsTo(w, r)
  <2>1. ASSUME h[w].pc = "fetch", NEW out \in Outcome, NEW again \in BOOLEAN,
               Become(w, [h[w] EXCEPT !.out = out, !.again = again, !.art = NoArt, !.pc = "persist"])
        PROVE  StepsTo(w, [h[w] EXCEPT !.out = out, !.again = again, !.art = NoArt, !.pc = "persist"])
    <3> DEFINE r == [h[w] EXCEPT !.out = out, !.again = again, !.art = NoArt, !.pc = "persist"]
    <3>1. /\ r \in HandlerState /\ r.pc = "persist" /\ r.out \in Outcome
          /\ r.job = h[w].job /\ r.try = h[w].try /\ r.done = h[w].done
      BY <1>0, <2>1 DEF HandlerState, Ending
    <3>2. SameTurn(h[w], r) /\ (r.done <=> r.pc = "settle")
      BY <1>0, <2>1, <3>1 DEF SameTurn, HandlerOK, Loading, Writing
    <3> HIDE DEF r
    <3> QED
      BY <1>2, <2>1, <3>1, <3>2 DEF r
  <2>2. (~token /\ a = "RETRYABLE" /\ ~TerminalAttempt(w)) \in BOOLEAN
    OBVIOUS
  <2>3. (IF token THEN "CANCELLED" ELSE "FAILED") \in Outcome
    BY DEF Outcome
  <2> QED
    BY <1>1, <1>13, <2>1, <2>2, <2>3 DEF TerminalFailure
<1>14. CASE WriteTemporary(w) \/ Rename(w) \/ SyncDirectory(w) \/ Record(w)
  BY <1>3, <1>14 DEF WriteTemporary, Rename, SyncDirectory, Record, Writing, Ending
<1>15. CASE ArtifactFails(w)
  BY <1>15, IdleHandler DEF ArtifactFails, Become, StepsTo
<1>16. CASE Persist(w)
  BY <1>1, <1>3, <1>16 DEF Persist, Loading, Writing, Ending
<1>17. CASE Close(w)
  <2>1. StatusAfter(h[w].out) \in {"RUNNING", "FAILED", "CANCELLED"}
    BY DEF StatusAfter
  <2>2. ASSUME h[w].pc = "close", NEW pc \in {"again", "decide"},
               NEW arg \in {"RUNNING", "FAILED", "CANCELLED"},
               Become(w, [h[w] EXCEPT !.pc = pc, !.arg = arg])
        PROVE  StepsTo(w, [h[w] EXCEPT !.pc = pc, !.arg = arg])
    BY <1>0, <2>2, ZenonT(60) DEF HandlerOK, StepsTo, SameTurn, Become, HandlerState, Loading, Ending, Writing
  <2> QED
    BY <1>1, <1>17, <2>1, <2>2 DEF Close
<1>18. CASE Again(w) \/ Reconcile(w)
  BY <1>1, <1>18 DEF Again, Reconcile
<1>19. CASE Decide(w)
  <2>1. DecidedStatus(h[w].arg) \in TerminalRun
    BY <1>0, <1>19 DEF Decide, DecidedStatus, HandlerOK, HandlerState, TerminalRun
  <2>2. ASSUME h[w].pc = "decide", NEW to \in TerminalRun,
               Become(w, [h[w] EXCEPT !.pc = "finalize", !.to = to])
        PROVE  StepsTo(w, [h[w] EXCEPT !.pc = "finalize", !.to = to])
    BY <1>0, <2>2, ZenonT(60) DEF HandlerOK, StepsTo, SameTurn, Become, HandlerState, Loading, Ending, Writing
  <2> QED
    BY <1>19, <2>1, <2>2 DEF Decide
<1>20. CASE Finalize(w)
  <2>1. ASSUME h[w].pc = "finalize", Become(w, [h[w] EXCEPT !.pc = "settle", !.done = TRUE])
        PROVE  StepsTo(w, [h[w] EXCEPT !.pc = "settle", !.done = TRUE])
    BY <1>0, <2>1, ZenonT(60) DEF HandlerOK, StepsTo, SameTurn, Become, HandlerState, Loading, Ending, Writing
  <2> QED
    BY <1>1, <1>20, <2>1 DEF Finalize
<1> QED
  BY <1>5, <1>6, <1>7, <1>8, <1>10, <1>11, <1>12, <1>13, <1>14, <1>15, <1>16, <1>17, <1>18,
     <1>19, <1>20 DEF Step

\* What holds of a handler outlives the steps of the queue.
LEMMA HandlersGrow ==
    ASSUME QuickAssumption, QuickInv, QuickNext
    PROVE  \A r : HandlerOK(r, jobs, tries) => HandlerOK(r, jobs', tries')
<1> SUFFICES ASSUME NEW r, HandlerOK(r, jobs, tries)
             PROVE  HandlerOK(r, jobs', tries')
  OBVIOUS
<1>0. jobs \in Seq(JobKind) /\ r \in HandlerState /\ MaxTries \in Nat
  BY DEF QuickInv, QueueOK, HandlerOK, QuickAssumption
<1>1. CASE jobs' = jobs /\ tries \in Nat /\ tries' \in {tries, tries + 1}
  BY <1>0, <1>1 DEF HandlerOK
<1>2. ASSUME NEW k, jobs' = Append(jobs, k)
      PROVE  HandlerOK(r, jobs', tries')
  <2>1. Len(jobs') = Len(jobs) + 1 /\ Len(jobs) \in Nat
        /\ \A i \in 1..Len(jobs) : jobs'[i] = jobs[i]
    BY <1>0, <1>2
  <2>2. r.pc \in {"mark", "prepare"} => r.pc # "idle"
    OBVIOUS
  <2> QED
    BY <1>0, <2>1, <2>2 DEF HandlerOK
<1> QED
  BY <1>1, <1>2, QueueStep

\* The handler a worker starts for the attempt it has acquired.
Started == [Idle EXCEPT !.pc = "load", !.job = This, !.try = tries + 1,
                        !.art = <<This, tries + 1>>]

LEMMA StartedHandler ==
    ASSUME QuickAssumption, QuickInv, NEW w \in Handler, Acquire(w)
    PROVE  /\ h' = [h EXCEPT ![w] = Started] /\ HandlerOK(Started, jobs', tries')
           /\ jobs' = jobs /\ tries' = tries + 1 /\ tries \in Nat
           /\ Started.pc = "load" /\ Started.art = <<Started.job, Started.try>>
           /\ Started.job = This /\ Started.try = tries + 1 /\ Started.done = FALSE
<1>1. /\ tries \in 0..budget /\ budget \in 1..MaxTries /\ tries < budget
      /\ MaxTries \in Nat /\ MaxJobs \in Nat /\ This \in 1..MaxJobs
  BY DEF QuickInv, QueueOK, QuickAssumption, Acquire, This
<1>2. tries + 1 \in 1..MaxTries /\ tries \in Nat
  BY <1>1
<1>3. /\ Started.pc = "load" /\ Started.job = This /\ Started.try = tries + 1
      /\ Started.art = <<This, tries + 1>> /\ Started.done = FALSE
  BY DEF Started, Idle
<1>4. Started \in HandlerState
  <2>1. <<This, tries + 1>> \in Art
    BY <1>1, <1>2 DEF Art
  <2>2. Idle \in HandlerState
    BY IdleHandler DEF HandlerOK
  <2>3. This \in Nat /\ tries + 1 \in Nat
    BY <1>1
  <2> QED
    BY <2>1, <2>2, <2>3 DEF Started, HandlerState, Loading
<1>5. jobs' = jobs /\ tries' = tries + 1 /\ h' = [h EXCEPT ![w] = Started]
  BY DEF Acquire, Become, Started
<1> HIDE DEF Started
<1>6. HandlerOK(Started, jobs', tries')
  BY <1>1, <1>2, <1>3, <1>4, <1>5 DEF HandlerOK, Writing, This
<1> QED
  BY <1>2, <1>3, <1>5, <1>6

\* The handlers that do not take a step themselves stay or die with the process.
LEMMA HandlersStep ==
    ASSUME QuickAssumption, QuickInv, QuickNext
    PROVE  /\ h' \in [Handler -> HandlerState]
           /\ \A w \in Handler : HandlerOK(h'[w], jobs', tries')
<1>0. h \in [Handler -> HandlerState] /\ \A w \in Handler : HandlerOK(h[w], jobs, tries)
  BY DEF QuickInv
<1>1. SUFFICES h' \in [Handler -> HandlerState] /\ \A v \in Handler : HandlerOK(h'[v], jobs', tries')
  OBVIOUS
<1>2. ASSUME NEW w \in Handler, NEW r, HandlerOK(r, jobs', tries'), h' = [h EXCEPT ![w] = r]
      PROVE  h' \in [Handler -> HandlerState] /\ \A v \in Handler : HandlerOK(h'[v], jobs', tries')
  <2>1. r \in HandlerState
    BY <1>2 DEF HandlerOK
  <2> QED
    BY <1>0, <1>2, <2>1, HandlersGrow
<1>3. ASSUME NEW w \in Handler, Acquire(w)
      PROVE  h' \in [Handler -> HandlerState] /\ \A v \in Handler : HandlerOK(h'[v], jobs', tries')
  BY <1>2, <1>3, StartedHandler
<1>4. ASSUME NEW w \in Handler, Step(w) \/ ArtifactFails(w)
      PROVE  h' \in [Handler -> HandlerState] /\ \A v \in Handler : HandlerOK(h'[v], jobs', tries')
  BY <1>2, <1>4, StepHandler, HandlersGrow DEF StepsTo
<1>5. CASE Crash
  <2>1. h' = [w \in Handler |-> Idle]
    BY <1>5 DEF Crash
  <2>2. Idle \in HandlerState
    BY IdleHandler DEF HandlerOK
  <2> QED
    BY <2>1, <2>2, IdleHandler
<1>6. CASE LeaseExpires \/ Cancel \/ Pressure \/ \E k \in setting.actions : Ask(k)
  <2>1. h' = h
    BY <1>6 DEF LeaseExpires, Cancel, Pressure, Ask
  <2> QED
    BY <1>0, <2>1, HandlersGrow
<1> QED
  BY <1>3, <1>4, <1>5, <1>6 DEF QuickNext
-----------------------------------------------------------------------------
(***************************************************************************)
(* The unit of work.                                                       *)
(***************************************************************************)
unitVars == <<work, execs, prepared>>

\* What a step may do to the unit, its evidence and the rows of the actions.
Opened(w) ==
    /\ h[w].pc = "prepare" /\ execs' = execs /\ prepared' = prepared \cup {h[w].job}
    /\ \/ work' = work
       \/ h[w].job \notin prepared /\ work' = [state |-> "PENDING", gen |-> work.gen + 1]
Created == work.state = "NONE" /\ work' = [state |-> "PENDING", gen |-> 0]
Taken   == Activatable /\ work' = [work EXCEPT !.state = "RUNNING"]
Earned(w) ==
    /\ h[w].pc = "persist" /\ work.state \in {"PENDING", "RUNNING"} /\ work.gen = h[w].gen
    /\ execs' = execs \cup {ExecutionOf(w)}
    /\ work' = [work EXCEPT !.state = h[w].out]
    /\ prepared' = prepared

LEMMA UnitStep ==
    ASSUME QuickNext
    PROVE  \/ UNCHANGED unitVars
           \/ \E w \in Handler : Opened(w) \/ Earned(w)
           \/ (Created \/ Taken) /\ UNCHANGED <<execs, prepared>>
<1>1. ASSUME NEW w, NEW r, Return(w, r)
      PROVE  UNCHANGED unitVars
  BY <1>1 DEF Return, unitVars, crawlData
<1>2. ASSUME NEW w, NEW pc, Checkpointed(w, pc)
      PROVE  UNCHANGED unitVars
  BY <1>1, <1>2 DEF Checkpointed, unitVars, crawlData
<1>3. ASSUME NEW w \in Handler, Prepare(w)
      PROVE  UNCHANGED unitVars \/ Opened(w)
  BY <1>1, <1>3 DEF Prepare, Selects, Opened
<1>4. ASSUME NEW w \in Handler, Persist(w)
      PROVE  UNCHANGED unitVars \/ Earned(w)
  BY <1>1, <1>4 DEF Persist, PersistAccepts, Earned
<1>5. ASSUME NEW w \in Handler, Initialize(w) \/ Activate(w)
      PROVE  UNCHANGED unitVars \/ ((Created \/ Taken) /\ UNCHANGED <<execs, prepared>>)
  BY <1>1, <1>5 DEF Initialize, Activate, Created, Taken, unitVars, crawlData
<1>6. ASSUME NEW w \in Handler, Load(w) \/ Mark(w) \/ Begin(w) \/ Save(w)
      PROVE  UNCHANGED unitVars
  BY <1>1, <1>2, <1>6 DEF Load, Mark, Begin, Save, unitVars, crawlData
<1>7. ASSUME NEW w \in Handler, NEW a, Answered(w, a) \/ TerminalFailure(w, a)
      PROVE  UNCHANGED unitVars
  BY <1>1, <1>7 DEF Answered, TerminalFailure, unitVars, crawlData
<1>8. ASSUME NEW w \in Handler,
             \/ Interrupted(w) \/ ProviderCancelled(w) \/ WriteTemporary(w) \/ Rename(w)
             \/ SyncDirectory(w) \/ Record(w) \/ ArtifactFails(w)
      PROVE  UNCHANGED unitVars
  BY <1>1, <1>8 DEF Interrupted, ProviderCancelled, WriteTemporary, Rename, SyncDirectory,
                    Record, ArtifactFails, unitVars, crawlData
<1>9. ASSUME NEW w \in Handler,
             Close(w) \/ Again(w) \/ Decide(w) \/ Finalize(w) \/ Reconcile(w) \/ Acquire(w)
      PROVE  UNCHANGED unitVars
  BY <1>1, <1>9 DEF Close, Again, Decide, Finalize, Reconcile, Acquire, unitVars, crawlData
<1>10. CASE Crash \/ LeaseExpires \/ Cancel \/ Pressure \/ \E k \in setting.actions : Ask(k)
  BY <1>10 DEF Crash, LeaseExpires, Cancel, Pressure, Ask, unitVars, crawlData
<1>11. ASSUME NEW w \in Handler, Step(w) \/ ArtifactFails(w) \/ Acquire(w)
       PROVE  \/ UNCHANGED unitVars \/ Opened(w) \/ Earned(w)
              \/ (Created \/ Taken) /\ UNCHANGED <<execs, prepared>>
  BY <1>3, <1>4, <1>5, <1>6, <1>7, <1>8, <1>9, <1>11 DEF Step
<1> QED
  BY <1>10, <1>11 DEF QuickNext

\* A result that stands is replaced only in a later generation.
LEMMA StableByStep ==
    ASSUME QuickInv, QuickNext
    PROVE  StableStep
<1>0. work \in [state : UnitState, gen : Nat]
  BY DEF QuickInv, RowsOK
<1>1. CASE UNCHANGED unitVars
  BY <1>1 DEF unitVars, StableStep
<1>2. ASSUME NEW w \in Handler, Opened(w) \/ Earned(w)
      PROVE  StableStep
  BY <1>0, <1>2 DEF Opened, Earned, StableStep, Outcome
<1>3. CASE Created \/ Taken
  BY <1>3 DEF Created, Taken, Activatable, StableStep, Outcome
<1> QED
  BY <1>1, <1>2, <1>3, UnitStep

\* The jobs that have a row keep their kind.
LEMMA KindsKept ==
    ASSUME QuickAssumption, QuickInv, QuickNext
    PROVE  /\ DOMAIN jobs \subseteq DOMAIN jobs' /\ Openers \subseteq Openers'
           /\ \A j \in DOMAIN jobs : jobs'[j] = jobs[j]
<1>0. jobs \in Seq(JobKind)
  BY DEF QuickInv, QueueOK
<1>1. CASE jobs' = jobs
  BY <1>1 DEF Openers
<1>2. ASSUME NEW k, jobs' = Append(jobs, k)
      PROVE  DOMAIN jobs \subseteq DOMAIN jobs' /\ \A j \in DOMAIN jobs : jobs'[j] = jobs[j]
  BY <1>0, <1>2
<1> QED
  BY <1>1, <1>2, QueueStep DEF Openers

\* The results have their evidence, and the generations their actions.
LEMMA UnitKept ==
    ASSUME QuickAssumption, QuickInv, QuickNext
    PROVE  /\ (work \in [state : UnitState, gen : Nat])'
           /\ (\A e \in execs : e.outcome \in Outcome /\ e.job \in DOMAIN jobs)'
           /\ ResultHasEvidence' /\ GenerationsOK'
<1>0. /\ work \in [state : UnitState, gen : Nat] /\ ResultHasEvidence /\ GenerationsOK
      /\ \A e \in execs : e.outcome \in Outcome /\ e.job \in DOMAIN jobs
      /\ jobs \in Seq(JobKind)
  BY DEF QuickInv, RowsOK, QueueOK
<1>1. DOMAIN jobs \subseteq DOMAIN jobs' /\ Openers \subseteq Openers'
  BY KindsKept
<1>2. ASSUME UNCHANGED prepared, work'.gen = work.gen \/ work'.gen = 0
      PROVE  GenerationsOK'
  <2>1. Cardinality(prepared) \in Nat
    BY <1>0, FS_CardinalityType DEF GenerationsOK
  <2> QED
    BY <1>0, <1>1, <1>2, <2>1 DEF GenerationsOK
<1>3. CASE UNCHANGED unitVars
  <2>1. UNCHANGED <<work, execs, prepared>>
    BY <1>3 DEF unitVars
  <2>2. GenerationsOK' /\ ResultHasEvidence'
    BY <1>0, <1>2, <2>1 DEF ResultHasEvidence
  <2> QED
    BY <1>0, <1>1, <2>1, <2>2
<1>4. ASSUME NEW w \in Handler, Opened(w)
      PROVE  /\ (work \in [state : UnitState, gen : Nat])'
             /\ ResultHasEvidence' /\ GenerationsOK' /\ execs' = execs
  <2>1. h[w].job \in Openers
    BY <1>0, <1>4 DEF Opened, QuickInv, HandlerOK, Openers
  <2>2. /\ IsFiniteSet(prepared') /\ Cardinality(prepared) \in Nat
        /\ Cardinality(prepared') = IF h[w].job \in prepared THEN Cardinality(prepared)
                                    ELSE Cardinality(prepared) + 1
    BY <1>0, <1>4, FS_AddElement, FS_CardinalityType DEF GenerationsOK, Opened
  <2>3. GenerationsOK'
    BY <1>0, <1>1, <1>4, <2>1, <2>2 DEF GenerationsOK, Opened
  <2>4. (work \in [state : UnitState, gen : Nat])' /\ ResultHasEvidence'
    BY <1>0, <1>4 DEF Opened, ResultHasEvidence, UnitState, Outcome
  <2> QED
    BY <1>4, <2>3, <2>4 DEF Opened
<1>5. ASSUME NEW w \in Handler, Earned(w)
      PROVE  /\ (work \in [state : UnitState, gen : Nat])'
             /\ (\A e \in execs : e.outcome \in Outcome /\ e.job \in DOMAIN jobs)'
             /\ ResultHasEvidence' /\ GenerationsOK'
  <2>1. h[w].out \in Outcome /\ h[w].job \in DOMAIN jobs
    BY <1>0, <1>5 DEF Earned, QuickInv, HandlerOK
  <2>2. /\ ExecutionOf(w).outcome = h[w].out /\ ExecutionOf(w).gen = h[w].gen
        /\ ExecutionOf(w).job = h[w].job
    BY DEF ExecutionOf
  <2>3. /\ work'.state = h[w].out /\ work'.gen = work.gen /\ work.gen = h[w].gen
        /\ (work \in [state : UnitState, gen : Nat])'
        /\ execs' = execs \cup {ExecutionOf(w)} /\ prepared' = prepared
    BY <1>0, <1>5, <2>1 DEF Earned, UnitState
  <2>4. ResultHasEvidence'
    BY <2>2, <2>3 DEF ResultHasEvidence
  <2>5. GenerationsOK'
    BY <1>2, <2>3
  <2> QED
    BY <1>0, <1>1, <2>1, <2>2, <2>3, <2>4, <2>5
<1>6. CASE (Created \/ Taken) /\ UNCHANGED <<execs, prepared>>
  <2>1. /\ (work \in [state : UnitState, gen : Nat])' /\ work'.state \in {"PENDING", "RUNNING"}
        /\ work'.gen = work.gen \/ work'.gen = 0
    BY <1>0, <1>6 DEF Created, Taken, UnitState
  <2>2. ResultHasEvidence' /\ GenerationsOK'
    BY <1>2, <1>6, <2>1 DEF ResultHasEvidence, Outcome
  <2> QED
    BY <1>0, <1>1, <1>6, <2>1, <2>2
<1> QED
  BY <1>0, <1>1, <1>3, <1>4, <1>5, <1>6, UnitStep
-----------------------------------------------------------------------------
(***************************************************************************)
(* The artifact files.                                                     *)
(***************************************************************************)
FileSteps(w) == WriteTemporary(w) \/ Rename(w) \/ SyncDirectory(w) \/ Record(w) \/ ArtifactFails(w)

\* The other steps of a handler leave the files alone and do not bring it to a
\* place where it counts on one.
LEMMA FilesLeft ==
    ASSUME QuickInv, NEW w \in Handler, Step(w), ~FileSteps(w)
    PROVE  UNCHANGED files /\ h'[w].pc \notin {"rename", "sync", "record"}
<1> DEFINE Goal == UNCHANGED files /\ h'[w].pc \notin {"rename", "sync", "record"}
<1>0. h \in [Handler -> HandlerState] /\ h[w] \in HandlerState
  BY DEF QuickInv
<1>1. ASSUME NEW r, Return(w, r)
      PROVE  Goal
  BY <1>0, <1>1 DEF Return, Become, Idle, files
<1>2. ASSUME NEW r, Become(w, r), r.pc \notin {"rename", "sync", "record"}, UNCHANGED files
      PROVE  Goal
  BY <1>0, <1>2 DEF Become
<1>3. ASSUME NEW pc, Goto(w, pc), pc \notin {"rename", "sync", "record"}, UNCHANGED files
      PROVE  Goal
  BY <1>0, <1>2, <1>3 DEF Goto, HandlerState
<1>4. ASSUME NEW pc, Checkpointed(w, pc), pc \notin {"rename", "sync", "record"}
      PROVE  Goal
  BY <1>1, <1>3, <1>4 DEF Checkpointed
<1>5. CASE Load(w)
  BY <1>0, <1>1, <1>2, <1>5 DEF Load, HandlerState
<1>6. CASE Mark(w) \/ Save(w)
  BY <1>4, <1>6 DEF Mark, Save
<1>7. CASE Prepare(w) \/ Initialize(w) \/ Persist(w)
  BY <1>1, <1>3, <1>7 DEF Prepare, Initialize, Persist
<1>8. CASE Begin(w)
  BY <1>0, <1>1, <1>2, <1>8 DEF Begin, HandlerState
<1>9. CASE Activate(w)
  BY <1>0, <1>1, <1>2, <1>9 DEF Activate, HandlerState, files
<1>10. CASE Interrupted(w) \/ ProviderCancelled(w)
  BY <1>0, <1>1, <1>2, <1>10 DEF Interrupted, ProviderCancelled, HandlerState
<1>11. ASSUME NEW a, Answered(w, a)
       PROVE  Goal
  BY <1>0, <1>2, <1>11 DEF Answered, HandlerState
<1>12. ASSUME NEW a, TerminalFailure(w, a)
       PROVE  Goal
  BY <1>0, <1>1, <1>2, <1>12 DEF TerminalFailure, HandlerState
<1>13. CASE Close(w)
  BY <1>0, <1>1, <1>2, <1>13 DEF Close, HandlerState
<1>14. CASE Again(w) \/ Reconcile(w)
  BY <1>1, <1>14 DEF Again, Reconcile
<1>15. CASE Decide(w) \/ Finalize(w)
  BY <1>0, <1>1, <1>2, <1>15 DEF Decide, Finalize, HandlerState
<1> QED
  BY <1>5, <1>6, <1>7, <1>8, <1>9, <1>10, <1>11, <1>12, <1>13, <1>14, <1>15 DEF Step, FileSteps

\* No two handlers work for the same attempt.
OneAttemptEach ==
    \A w, v \in Handler : Active(w) /\ Active(v) /\ w # v =>
        <<h[w].job, h[w].try>> # <<h[v].job, h[v].try>>

LEMMA AttemptsApart ==
    ASSUME QuickAssumption, QuickInv, QuickNext
    PROVE  OneAttemptEach'
<1>0. /\ OneAttemptEach /\ h \in [Handler -> HandlerState]
      /\ \A v \in Handler : HandlerOK(h[v], jobs, tries)
  BY DEF QuickInv, FilesOK, OneAttemptEach
<1>1. CASE h' = h
  BY <1>0, <1>1 DEF OneAttemptEach, Active
<1>2. ASSUME NEW w \in Handler, NEW r, h' = [h EXCEPT ![w] = r],
             r.pc # "idle" => \A v \in Handler : Active(v) /\ v # w =>
                 <<r.job, r.try>> # <<h[v].job, h[v].try>>
      PROVE  OneAttemptEach'
  <2> SUFFICES ASSUME NEW u \in Handler, NEW v \in Handler, u # v,
                      h'[u].pc # "idle", h'[v].pc # "idle"
               PROVE  <<h'[u].job, h'[u].try>> # <<h'[v].job, h'[v].try>>
    BY DEF OneAttemptEach, Active
  <2>1. CASE u = w
    BY <1>0, <1>2, <2>1 DEF Active
  <2>2. CASE v = w
    BY <1>0, <1>2, <2>2 DEF Active
  <2>3. CASE u # w /\ v # w
    BY <1>0, <1>2, <2>3 DEF Active, OneAttemptEach
  <2> QED
    BY <2>1, <2>2, <2>3
<1>3. ASSUME NEW w \in Handler, Step(w) \/ ArtifactFails(w)
      PROVE  OneAttemptEach'
  <2>1. PICK r : StepsTo(w, r)
    BY <1>3, StepHandler
  <2>2. r.pc # "idle" => Active(w) /\ r.job = h[w].job /\ r.try = h[w].try
    BY <2>1 DEF StepsTo, SameTurn, Idle, Active
  <2>3. r.pc # "idle" => \A v \in Handler : Active(v) /\ v # w =>
            <<r.job, r.try>> # <<h[v].job, h[v].try>>
    BY <1>0, <2>2 DEF OneAttemptEach
  <2>4. h' = [h EXCEPT ![w] = r]
    BY <2>1 DEF StepsTo
  <2> QED
    BY <1>2, <2>3, <2>4
<1>4. ASSUME NEW w \in Handler, Acquire(w)
      PROVE  OneAttemptEach'
  <2>1. /\ h' = [h EXCEPT ![w] = Started] /\ Started.job = Len(jobs) /\ Started.try = tries + 1
        /\ tries \in Nat
    BY <1>4, StartedHandler DEF This
  <2>2. \A v \in Handler : Active(v) /\ h[v].job = Len(jobs) => h[v].try \in Nat /\ h[v].try <= tries
    BY <1>0 DEF HandlerOK, HandlerState, Active
  <2>3. \A v \in Handler : Active(v) => <<Started.job, Started.try>> # <<h[v].job, h[v].try>>
    BY <2>1, <2>2
  <2> QED
    BY <1>2, <2>1, <2>3
<1>5. CASE Crash
  BY <1>5 DEF Crash, OneAttemptEach, Active, Idle
<1>6. CASE LeaseExpires \/ Cancel \/ Pressure \/ \E k \in setting.actions : Ask(k)
  BY <1>1, <1>6 DEF LeaseExpires, Cancel, Pressure, Ask
<1> QED
  BY <1>3, <1>4, <1>5, <1>6 DEF QuickNext

\* The rows of the artifacts belong to attempts that were made.
RowsOfAttempts ==
    \A a \in recorded : a[1] \in DOMAIN jobs /\ (a[1] = This => a[2] <= tries)

FilesGood ==
    /\ disk \in [Art -> File] /\ recorded \subseteq Art
    /\ RecordedArtifactsExist /\ RowsOfAttempts
    /\ \A w \in Handler : FileOK(h[w], recorded, disk)

LEMMA FilesStep ==
    ASSUME QuickAssumption, QuickInv, QuickNext
    PROVE  FilesGood'
<1>0. /\ FilesGood /\ OneAttemptEach /\ h \in [Handler -> HandlerState]
      /\ \A v \in Handler : HandlerOK(h[v], jobs, tries)
      /\ jobs \in Seq(JobKind) /\ tries \in Nat
  BY DEF QuickInv, RowsOK, FilesOK, OneAttemptEach, FilesGood, RowsOfAttempts, QueueOK
<1>1. ASSUME NEW rows, rows \subseteq Art,
             \A a \in rows : a[1] \in DOMAIN jobs /\ (a[1] = Len(jobs) => a[2] <= tries)
      PROVE  \A a \in rows : a[1] \in DOMAIN jobs' /\ (a[1] = Len(jobs') => a[2] <= tries')
  <2>1. \A a \in Art : a[1] \in Nat /\ a[2] \in Nat
    BY DEF Art
  <2>2. CASE jobs' = jobs /\ tries' \in {tries, tries + 1}
    BY <1>0, <1>1, <2>1, <2>2
  <2>3. ASSUME NEW k, jobs' = Append(jobs, k)
        PROVE  /\ DOMAIN jobs \subseteq DOMAIN jobs'
               /\ \A i \in DOMAIN jobs : i # Len(jobs')
    BY <1>0, <2>3
  <2> QED
    BY <1>1, <2>2, <2>3, QueueStep
<1>2. CASE UNCHANGED files /\ h' = h
  BY <1>0, <1>1, <1>2 DEF FilesGood, files, RowsOfAttempts, RecordedArtifactsExist, This
<1>3. ASSUME NEW w \in Handler, NEW r, h' = [h EXCEPT ![w] = r], UNCHANGED files,
             FileOK(r, recorded, disk)
      PROVE  FilesGood'
  BY <1>0, <1>1, <1>3 DEF FilesGood, files, RowsOfAttempts, RecordedArtifactsExist, This
<1>4. ASSUME NEW w \in Handler, Step(w), ~FileSteps(w)
      PROVE  FilesGood'
  <2>1. PICK r : StepsTo(w, r)
    BY <1>4, StepHandler
  <2>2. UNCHANGED files /\ r.pc \notin {"rename", "sync", "record"} /\ h' = [h EXCEPT ![w] = r]
    BY <1>0, <1>4, <2>1, FilesLeft DEF StepsTo
  <2>3. CASE r = Idle
    BY <1>3, <2>2, <2>3 DEF FileOK, Idle, Loading, Writing
  <2>4. CASE SameTurn(h[w], r)
    <3>1. FileOK(h[w], recorded, disk)
      BY <1>0 DEF FilesGood
    <3>2. FileOK(r, recorded, disk)
      BY <2>2, <2>4, <3>1 DEF FileOK, SameTurn
    <3> QED
      BY <1>3, <2>2, <3>2
  <2> QED
    BY <2>1, <2>3, <2>4 DEF StepsTo
<1>5. ASSUME NEW w \in Handler, Acquire(w)
      PROVE  FilesGood'
  <2>1. /\ h' = [h EXCEPT ![w] = Started] /\ Started.pc = "load"
        /\ Started.art = <<Started.job, Started.try>>
        /\ Started.job = This /\ Started.try = tries + 1
    BY <1>5, StartedHandler
  <2>2. UNCHANGED files
    BY <1>5 DEF Acquire, files
  <2>3. Started.art \notin recorded
    <3>1. Started.art[1] = This /\ Started.art[2] = tries + 1
      BY <2>1
    <3> QED
      BY <1>0, <3>1 DEF FilesGood, RowsOfAttempts
  <2>4. FileOK(Started, recorded, disk)
    BY <2>1, <2>3 DEF FileOK
  <2> QED
    BY <1>3, <2>1, <2>2, <2>4
<1>6. ASSUME NEW w \in Handler, h[w].pc \in Writing
      PROVE  /\ h[w].art \in Art /\ h[w].art \notin recorded /\ h[w].art = <<h[w].job, h[w].try>>
             /\ \A v \in Handler \ {w} : h[v].pc \in Loading \cup Writing => h[v].art # h[w].art
  <2>1. /\ h[w].art = <<h[w].job, h[w].try>> /\ h[w].art \notin recorded
        /\ \A v \in Handler : h[v].pc \in Loading \cup Writing => h[v].art = <<h[v].job, h[v].try>>
    BY <1>0, <1>6 DEF FilesGood, FileOK
  <2>2. \A v \in Handler : h[v].pc \in Loading \cup Writing => Active(v)
    BY DEF Active, Loading, Writing
  <2>3. h[w].job \in 1..Len(jobs) /\ h[w].art \in Art \cup {NoArt}
    BY <1>0, <1>6, <2>2 DEF HandlerOK, HandlerState, Active
  <2>4. h[w].art # NoArt
    BY <2>1, <2>3 DEF NoArt
  <2> QED
    BY <1>0, <1>6, <2>1, <2>2, <2>3, <2>4 DEF OneAttemptEach
<1>7. ASSUME NEW w \in Handler, NEW r, NEW x \in File, h[w].pc \in Writing,
             h' = [h EXCEPT ![w] = r], disk' = [disk EXCEPT ![h[w].art] = x],
             recorded' = recorded, FileOK(r, recorded, disk')
      PROVE  FilesGood'
  <2>1. /\ h[w].art \in Art /\ h[w].art \notin recorded
        /\ \A v \in Handler \ {w} : h[v].pc \in Loading \cup Writing => h[v].art # h[w].art
    BY <1>6, <1>7
  <2>2. /\ disk' \in [Art -> File] /\ recorded' \subseteq Art
        /\ \A a \in Art \ {h[w].art} : disk'[a] = disk[a]
    BY <1>0, <1>7 DEF FilesGood
  <2>3. ASSUME NEW v \in Handler, v # w
        PROVE  FileOK(h[v], recorded, disk')
    <3>1. FileOK(h[v], recorded, disk)
      BY <1>0 DEF FilesGood
    <3>2. h[v].pc \in Loading \cup Writing => disk'[h[v].art] = disk[h[v].art]
      BY <2>1, <2>3, <2>2, <1>7, <1>0 DEF FilesGood
    <3> QED
      BY <3>1, <3>2 DEF FileOK
  <2>4. \A v \in Handler : FileOK(h'[v], recorded', disk')
    BY <1>0, <1>7, <2>3
  <2>5. RecordedArtifactsExist' /\ RowsOfAttempts'
    BY <1>0, <1>1, <1>7, <2>1, <2>2 DEF FilesGood, RecordedArtifactsExist, RowsOfAttempts, This
  <2> QED
    BY <2>2, <2>4, <2>5 DEF FilesGood
<1>8. ASSUME NEW w \in Handler, FileSteps(w)
      PROVE  FilesGood'
  <2>0. h[w] \in HandlerState /\ FileOK(h[w], recorded, disk)
    BY <1>0 DEF FilesGood
  <2>1. ASSUME NEW pc \in {"rename", "sync", "record"}, NEW x \in File, h[w].pc \in Writing,
               Goto(w, pc), disk' = [disk EXCEPT ![h[w].art] = x], recorded' = recorded,
               pc = "rename" => x = "temporary", pc = "sync" => x = "renamed",
               pc = "record" => x = "published"
        PROVE  FilesGood'
    <3> DEFINE r == [h[w] EXCEPT !.pc = pc]
    <3>1. r.pc = pc /\ r.art = h[w].art /\ r.job = h[w].job /\ r.try = h[w].try
      BY <2>0 DEF HandlerState
    <3>2. h[w].art \in Art /\ h[w].art \notin recorded /\ h[w].art = <<h[w].job, h[w].try>>
      BY <1>6, <2>1
    <3>3. disk'[h[w].art] = x
      BY <1>0, <2>1, <3>2 DEF FilesGood
    <3>4. h' = [h EXCEPT ![w] = r]
      BY <2>1 DEF Goto, Become
    <3> HIDE DEF r
    <3>5. FileOK(r, recorded, disk')
      BY <2>1, <3>1, <3>2, <3>3 DEF FileOK
    <3> QED
      BY <1>7, <2>1, <3>4, <3>5
  <2>2. CASE WriteTemporary(w)
    BY <2>1, <2>2 DEF WriteTemporary, Writing, File
  <2>3. CASE Rename(w)
    BY <2>1, <2>3 DEF Rename, Writing, File
  <2>4. CASE SyncDirectory(w)
    BY <2>1, <2>4 DEF SyncDirectory, Writing, File
  <2>5. CASE ArtifactFails(w)
    <3>1. h[w].pc \in Writing /\ h' = [h EXCEPT ![w] = Idle] /\ recorded' = recorded
      BY <2>5 DEF ArtifactFails, Become, Writing
    <3>2. disk[h[w].art] \in File
      BY <1>0, <1>6, <3>1 DEF FilesGood
    <3>3. PICK x \in File : disk' = [disk EXCEPT ![h[w].art] = x]
      BY <2>5, <3>2 DEF ArtifactFails, File
    <3>4. FileOK(Idle, recorded, disk')
      BY DEF FileOK, Idle, Loading, Writing
    <3> QED
      BY <1>7, <3>1, <3>3, <3>4
  <2>6. CASE Record(w)
    <3> DEFINE r == [h[w] EXCEPT !.pc = "persist"]
    <3>1. /\ h[w].pc = "record" /\ recorded' = recorded \cup {h[w].art} /\ disk' = disk
          /\ h' = [h EXCEPT ![w] = r] /\ r.pc = "persist"
      BY <2>0, <2>6 DEF Record, Goto, Become, HandlerState
    <3>2. /\ h[w].art \in Art /\ h[w].art = <<h[w].job, h[w].try>>
          /\ \A v \in Handler \ {w} : h[v].pc \in Loading \cup Writing => h[v].art # h[w].art
      BY <1>6, <3>1 DEF Writing
    <3>3. disk[h[w].art] = "published"
      BY <2>0, <3>1 DEF FileOK, Writing
    <3>4. /\ h[w].art[1] \in DOMAIN jobs
          /\ h[w].art[1] = Len(jobs) => h[w].art[2] <= tries
      <4>1. HandlerOK(h[w], jobs, tries) /\ h[w].pc # "idle"
        BY <1>0, <3>1
      <4> QED
        BY <1>0, <3>2, <4>1 DEF HandlerOK
    <3> HIDE DEF r
    <3>5. ASSUME NEW v \in Handler
          PROVE  FileOK(h'[v], recorded', disk')
      <4>1. CASE v = w
        BY <1>0, <3>1, <4>1 DEF FileOK, Loading, Writing
      <4>2. CASE v # w
        <5>1. h'[v] = h[v] /\ FileOK(h[v], recorded, disk)
          BY <1>0, <3>1, <4>2 DEF FilesGood
        <5> QED
          BY <3>1, <3>2, <4>2, <5>1 DEF FileOK
      <4> QED
        BY <4>1, <4>2
    <3>6. RowsOfAttempts'
      <4>1. /\ recorded' \subseteq Art
            /\ \A a \in recorded' : a[1] \in DOMAIN jobs /\ (a[1] = Len(jobs) => a[2] <= tries)
        BY <1>0, <3>1, <3>2, <3>4 DEF FilesGood, RowsOfAttempts, This
      <4> QED
        BY <1>1, <4>1 DEF RowsOfAttempts, This
    <3> QED
      BY <1>0, <3>1, <3>2, <3>3, <3>5, <3>6 DEF FilesGood, RecordedArtifactsExist
  <2> QED
    BY <1>8, <2>2, <2>3, <2>4, <2>5, <2>6 DEF FileSteps
<1>9. CASE Crash
  <2>1. h' = [w \in Handler |-> Idle] /\ recorded' = recorded
    BY <1>9 DEF Crash
  <2>2. PICK lost \in SUBSET {a \in Art : "power" \in setting.faults /\ disk[a] = "renamed"} :
            disk' = [a \in Art |-> IF a \in lost THEN "none" ELSE disk[a]]
    BY <1>9 DEF Crash
  <2>3. disk' \in [Art -> File] /\ \A a \in Art : disk[a] = "published" => disk'[a] = "published"
    BY <1>0, <2>2 DEF FilesGood, File
  <2>4. \A w \in Handler : FileOK(h'[w], recorded', disk')
    BY <2>1 DEF FileOK, Idle, Loading, Writing
  <2>5. RowsOfAttempts'
    BY <1>0, <1>1, <2>1 DEF FilesGood, RowsOfAttempts, This
  <2> QED
    BY <1>0, <2>1, <2>3, <2>4, <2>5 DEF FilesGood, RecordedArtifactsExist
<1>10. CASE LeaseExpires \/ Cancel \/ Pressure \/ \E k \in setting.actions : Ask(k)
  BY <1>2, <1>10 DEF LeaseExpires, Cancel, Pressure, Ask
<1> QED
  BY <1>4, <1>5, <1>8, <1>9, <1>10 DEF QuickNext, FileSteps
-----------------------------------------------------------------------------
(***************************************************************************)
(* One handler at a time: what it knows of the unit and of the run is so.  *)
(***************************************************************************)
\* An idle handler knows nothing that a step could make false.
LEMMA OthersKnow ==
    \A r, js, u, s : r.pc = "idle" => KnownUnit(r, js, u) /\ KnownRun(r, s)
BY DEF KnownUnit, KnownRun

\* Nobody works after a step that puts everyone to rest.
LEMMA NobodyWorks ==
    ASSUME QuickAssumption, setting' = setting, owner' = NoHandler,
           \A v \in Handler : h'[v].pc = "idle",
           jobState' = "QUEUED" => status' \in {"QUEUED", "RUNNING"},
           EndAgreesWithUnit', JobFollowsRun'
    PROVE  Alone'
BY OthersKnow DEF Alone, Active, QuickAssumption

\* The owner w goes on as r.
LEMMA OwnerWorks ==
    ASSUME QuickAssumption, h \in [Handler -> HandlerState], setting' = setting,
           NEW w \in Handler, \A v \in Handler \ {w} : h[v].pc = "idle",
           NEW r, h' = [h EXCEPT ![w] = r], r.pc # "idle", owner' = w, jobState' = "RUNNING",
           KnownUnit(r, jobs', work'.state), KnownRun(r, status'), EndAgreesWithUnit'
    PROVE  Alone'
<1>1. JobFollowsRun'
  BY DEF JobFollowsRun
<1>2. ASSUME NEW v \in Handler
      PROVE  /\ h'[v].pc # "idle" <=> owner' = v
             /\ KnownUnit(h'[v], jobs', work'.state) /\ KnownRun(h'[v], status')
  BY <1>2, OthersKnow
<1> QED
  BY <1>1, <1>2 DEF Alone, Active

\* The turn of the owner ends; its handler returns Ok only for a signal or after
\* it has finalized the run.
LEMMA TurnEnds ==
    ASSUME QuickAssumption, QuickInv, "lease" \notin setting.faults, setting' = setting,
           NEW w \in Handler, Active(w), NEW res, Settle(w, res),
           res \in {"ok", "failed"}, res = "ok" => pressed \/ h[w].done,
           h' = [h EXCEPT ![w] = Idle], work' = work
    PROVE  Alone'
<1>1. /\ owner = w /\ KnownRun(h[w], status) /\ EndAgreesWithUnit
      /\ h \in [Handler -> HandlerState] /\ \A v \in Handler \ {w} : h[v].pc = "idle"
      /\ h[w].done \in BOOLEAN
  BY DEF QuickInv, Alone, Active, HandlerState
<1>2. \A v \in Handler : h'[v].pc = "idle"
  BY <1>1 DEF Idle
<1>3. /\ owner' = NoHandler
      /\ jobState' = "QUEUED" => status' \in {"QUEUED", "RUNNING"}
      /\ JobFollowsRun' /\ (status' = status \/ status' \in {"FAILED", "CANCELLED"})
  <2>1. CASE h[w].done
    <3>1. status \in TerminalRun /\ Settled(JobStateOf(status)) /\ status' = status
      BY <1>1, <2>1 DEF Settle, KnownRun, Active
    <3> QED
      BY <3>1 DEF Settled, JobStateOf, TerminalRun, JobFollowsRun
  <2>2. CASE ~h[w].done
    <3>1. status \in {"QUEUED", "RUNNING"} /\ status \notin TerminalRun
      BY <1>1, <2>2 DEF KnownRun, Active, TerminalRun
    <3>2. CASE token
      <4>1. Settled("CANCELLED") /\ status' = "CANCELLED"
        BY <1>1, <2>2, <3>1, <3>2 DEF Settle, JobStateOf
      <4> QED
        BY <4>1 DEF Settled, JobFollowsRun
    <3>3. CASE ~token /\ pressed
      <4>1. \/ Settled("QUEUED") /\ status' = status
            \/ Settled("FAILED") /\ status' = "FAILED"
        BY <1>1, <2>2, <3>1, <3>3 DEF Settle, Recovered
      <4> QED
        BY <3>1, <4>1 DEF Settled, JobFollowsRun
    <3>4. CASE ~token /\ ~pressed
      <4>1. (Settled("QUEUED") \/ Settled("FAILED")) /\ status' = status
        BY <1>1, <2>2, <3>4 DEF Settle
      <4> QED
        BY <3>1, <4>1 DEF Settled, JobFollowsRun
    <3> QED
      BY <3>2, <3>3, <3>4
  <2> QED
    BY <2>1, <2>2
<1>4. EndAgreesWithUnit'
  BY <1>1, <1>3 DEF EndAgreesWithUnit
<1> QED
  BY <1>2, <1>3, <1>4, NobodyWorks

\* A step of a handler, while no lease is lost.
LEMMA OwnerSteps ==
    ASSUME QuickAssumption, QuickInv, "lease" \notin setting.faults, setting' = setting,
           NEW w \in Handler, Step(w) \/ ArtifactFails(w)
    PROVE  Alone'
<1> DEFINE Open == {"QUEUED", "RUNNING"}
<1>0. /\ h \in [Handler -> HandlerState] /\ h[w] \in HandlerState
      /\ HandlerOK(h[w], jobs, tries) /\ jobs \in Seq(JobKind)
      /\ work \in [state : UnitState, gen : Nat]
  BY DEF QuickInv, RowsOK, QueueOK
<1>1. Active(w)
  BY DEF Step, ArtifactFails, Load, Mark, Prepare, Begin, Initialize, Save, Activate, Interrupted,
         ProviderCancelled, Answered, TerminalFailure, WriteTemporary, Rename, SyncDirectory,
         Record, Persist, Close, Again, Decide, Finalize, Reconcile, Active
<1>2. /\ owner = w /\ jobState = "RUNNING" /\ \A v \in Handler \ {w} : h[v].pc = "idle"
      /\ KnownUnit(h[w], jobs, work.state) /\ KnownRun(h[w], status)
      /\ h[w].pc # "settle" => ~h[w].done /\ status \in Open
  BY <1>0, <1>1 DEF QuickInv, Alone, Active, QueueOK, QuickAssumption, KnownRun, HandlerOK
<1>3. ASSUME NEW res \in {"ok", "failed"}, Return(w, res), res = "ok" => pressed \/ h[w].done
      PROVE  Alone'
  <2>1. Settle(w, res) /\ h' = [h EXCEPT ![w] = Idle] /\ work' = work
    BY <1>3 DEF Return, Become, crawlData
  <2> QED
    BY <1>1, <1>3, <2>1, TurnEnds
<1>4. ASSUME NEW r, Become(w, r), r.pc # "idle", ~r.done, status' \in Open,
             KnownUnit(r, jobs, work'.state), UNCHANGED <<owner, jobState, jobs>>
      PROVE  Alone'
  <2>1. EndAgreesWithUnit' /\ KnownRun(r, status')
    BY <1>4 DEF EndAgreesWithUnit, KnownRun
  <2>2. h' = [h EXCEPT ![w] = r]
    BY <1>4 DEF Become
  <2> QED
    BY <1>0, <1>2, <1>4, <2>1, <2>2, OwnerWorks
\* Where the handler needs to know nothing of the unit.
<1>5. ASSUME NEW r, Become(w, r), ~r.done, status' \in Open, UNCHANGED <<owner, jobState, jobs>>,
             \/ r.pc \notin {"idle", "mark", "prepare", "begin", "close", "decide", "finalize"}
             \/ r.pc = "decide" /\ r.arg = "CANCELLED"
      PROVE  Alone'
  <2>1. KnownUnit(r, jobs, work'.state) /\ r.pc # "idle"
    BY <1>5 DEF KnownUnit
  <2> QED
    BY <1>4, <1>5, <2>1
<1>6. ASSUME NEW pc, Goto(w, pc), h[w].pc # "settle", status' = status,
             UNCHANGED <<owner, jobState, jobs>>,
             pc \notin {"idle", "mark", "prepare", "begin", "close", "decide", "finalize"}
      PROVE  Alone'
  <2> DEFINE r == [h[w] EXCEPT !.pc = pc]
  <2>1. r.pc = pc /\ r.done = h[w].done
    BY <1>0 DEF HandlerState
  <2> HIDE DEF r
  <2> QED
    BY <1>2, <1>5, <1>6, <2>1 DEF r, Goto
<1>7. CASE Load(w)
  <2>1. ASSUME NEW ck \in BOOLEAN, NEW pc \in {"mark", "begin"}, h[w].pc = "load",
               Become(w, [h[w] EXCEPT !.ck = ck, !.dur = work.state, !.pc = pc]),
               UNCHANGED <<crawlData, queueVars, status>>
        PROVE  Alone'
    <3> DEFINE r == [h[w] EXCEPT !.ck = ck, !.dur = work.state, !.pc = pc]
    <3>1. r.pc = pc /\ r.dur = work.state /\ r.done = h[w].done /\ UNCHANGED <<owner, jobState, jobs>>
          /\ work' = work /\ status' = status
      BY <1>0, <2>1 DEF HandlerState, crawlData, queueVars
    <3> HIDE DEF r
    <3>2. KnownUnit(r, jobs, work'.state)
      BY <2>1, <3>1 DEF KnownUnit
    <3> QED
      BY <1>2, <1>4, <2>1, <3>1, <3>2 DEF r
  <2>2. (~Restarting(w) /\ ckpt) \in BOOLEAN
    OBVIOUS
  <2> QED
    BY <1>3, <1>7, <2>1, <2>2 DEF Load
<1>8. CASE Mark(w)
  <2>1. CASE Return(w, "failed")
    BY <1>3, <2>1
  <2>2. CASE Goto(w, "prepare") /\ UNCHANGED <<work, owner, jobState, jobs, status>>
    <3> DEFINE r == [h[w] EXCEPT !.pc = "prepare"]
    <3>1. r.pc = "prepare" /\ r.dur = h[w].dur /\ r.done = h[w].done /\ r.job = h[w].job
      BY <1>0 DEF HandlerState
    <3> HIDE DEF r
    <3>2. KnownUnit(r, jobs, work'.state)
      BY <1>2, <1>8, <2>2, <3>1 DEF KnownUnit, Mark
    <3> QED
      BY <1>2, <1>4, <1>8, <2>2, <3>1, <3>2 DEF Goto, Mark, r
  <2> QED
    BY <1>8, <2>1, <2>2 DEF Mark, Checkpointed, crawlData
<1>9. CASE Prepare(w)
  <2>1. CASE Return(w, "failed")
    BY <1>3, <2>1
  <2>2. CASE /\ work' = IF Selects(w) THEN [state |-> "PENDING", gen |-> work.gen + 1] ELSE work
             /\ Goto(w, "begin") /\ UNCHANGED <<owner, jobState, jobs, status>>
    <3> DEFINE r == [h[w] EXCEPT !.pc = "begin"]
    <3>1. r.pc = "begin" /\ r.dur = h[w].dur /\ r.done = h[w].done /\ r.job = h[w].job
      BY <1>0 DEF HandlerState
    <3>2. h[w].pc = "prepare" /\ jobs[h[w].job] \in Opening
      BY <1>0, <1>9 DEF Prepare, HandlerOK
    <3>3. work.state = "COMPLETED" /\ jobs[h[w].job] # "RESTART_FROM_BEGINNING" => work' = work
      BY <2>2, <3>2 DEF Selects, SelectedStates, Opening, KindOf
    <3> HIDE DEF r
    <3>4. KnownUnit(r, jobs, work'.state)
      BY <1>2, <3>1, <3>2, <3>3 DEF KnownUnit
    <3> QED
      BY <1>2, <1>4, <2>2, <3>1, <3>2, <3>4 DEF Goto, r
  <2> QED
    BY <1>9, <2>1, <2>2 DEF Prepare, queueVars
<1>10. CASE Begin(w)
  <2>1. CASE Return(w, "failed")
    BY <1>3, <2>1
  <2>2. CASE /\ CompletedBefore(w) /\ Become(w, [h[w] EXCEPT !.pc = "decide", !.arg = "RUNNING"])
             /\ UNCHANGED <<work, owner, jobState, jobs, status>>
    <3> DEFINE r == [h[w] EXCEPT !.pc = "decide", !.arg = "RUNNING"]
    <3>1. r.pc = "decide" /\ r.arg = "RUNNING" /\ r.done = h[w].done
      BY <1>0 DEF HandlerState
    <3>2. h[w].pc = "begin" /\ work.state = "COMPLETED"
      BY <1>2, <1>10, <2>2 DEF Begin, KnownUnit, CompletedBefore, Restarting, KindOf
    <3> HIDE DEF r
    <3>3. KnownUnit(r, jobs, work'.state)
      BY <2>2, <3>1, <3>2 DEF KnownUnit
    <3> QED
      BY <1>2, <1>4, <2>2, <3>1, <3>2, <3>3 DEF r
  <2>3. ASSUME NEW own, NEW pc \in {"ready", "initialize", "save"}, h[w].pc = "begin",
               Become(w, [h[w] EXCEPT !.own = own, !.pc = pc]),
               status' = "RUNNING", UNCHANGED <<owner, jobState, jobs>>
        PROVE  Alone'
    <3> DEFINE r == [h[w] EXCEPT !.own = own, !.pc = pc]
    <3>1. r.pc = pc /\ r.done = h[w].done
      BY <1>0 DEF HandlerState
    <3> HIDE DEF r
    <3> QED
      BY <1>2, <1>5, <2>3, <3>1 DEF r
  <2> QED
    BY <1>10, <2>1, <2>2, <2>3 DEF Begin, queueVars, crawlData
<1>11. CASE Initialize(w) \/ Save(w)
  BY <1>3, <1>6, <1>11 DEF Initialize, Save, Checkpointed, queueVars
<1>12. ASSUME h[w].pc \in {"ready", "fetch"}, UNCHANGED <<queueVars, status>>,
              Become(w, [h[w] EXCEPT !.pc = "decide", !.arg = "CANCELLED"])
       PROVE  Alone'
  <2> DEFINE r == [h[w] EXCEPT !.pc = "decide", !.arg = "CANCELLED"]
  <2>1. r.pc = "decide" /\ r.arg = "CANCELLED" /\ r.done = h[w].done
    BY <1>0 DEF HandlerState
  <2> HIDE DEF r
  <2> QED
    BY <1>2, <1>5, <1>12, <2>1 DEF r, queueVars
<1>13. CASE Activate(w)
  <2>1. ASSUME NEW out, NEW art, NEW pc \in {"persist", "fetch"}, h[w].pc = "ready",
               UNCHANGED <<queueVars, status>>,
               Become(w, [h[w] EXCEPT !.gen = work.gen, !.out = out, !.art = art, !.pc = pc])
        PROVE  Alone'
    <3> DEFINE r == [h[w] EXCEPT !.gen = work.gen, !.out = out, !.art = art, !.pc = pc]
    <3>1. r.pc = pc /\ r.done = h[w].done
      BY <1>0 DEF HandlerState
    <3> HIDE DEF r
    <3> QED
      BY <1>2, <1>5, <2>1, <3>1 DEF r, queueVars
  <2> QED
    BY <1>3, <1>12, <1>13, <2>1 DEF Activate
<1>14. CASE Interrupted(w) \/ ProviderCancelled(w)
  BY <1>3, <1>12, <1>14 DEF Interrupted, ProviderCancelled
<1>15. ASSUME NEW a, Answered(w, a)
       PROVE  Alone'
  <2>1. PICK pc \in {"write", "persist"} :
            Become(w, [h[w] EXCEPT !.out = a, !.pc = pc,
                                   !.art = IF pc = "write" THEN @ ELSE NoArt])
    BY <1>15 DEF Answered
  <2>2. h[w].pc = "fetch" /\ UNCHANGED <<owner, jobState, jobs, status>>
    BY <1>15 DEF Answered, queueVars
  <2> DEFINE r == [h[w] EXCEPT !.out = a, !.pc = pc,
                               !.art = IF pc = "write" THEN @ ELSE NoArt]
  <2>3. r.pc = pc /\ r.done = h[w].done /\ Become(w, r)
    BY <1>0, <2>1 DEF HandlerState
  <2> HIDE DEF r
  <2> QED
    BY <1>2, <1>5, <2>2, <2>3
<1>16. ASSUME NEW a, TerminalFailure(w, a)
       PROVE  Alone'
  <2>1. ASSUME NEW out, NEW again, h[w].pc = "fetch", UNCHANGED <<queueVars, status>>,
               Become(w, [h[w] EXCEPT !.out = out, !.again = again, !.art = NoArt, !.pc = "persist"])
        PROVE  Alone'
    <3> DEFINE r == [h[w] EXCEPT !.out = out, !.again = again, !.art = NoArt, !.pc = "persist"]
    <3>1. r.pc = "persist" /\ r.done = h[w].done
      BY <1>0 DEF HandlerState
    <3> HIDE DEF r
    <3> QED
      BY <1>2, <1>5, <2>1, <3>1 DEF r, queueVars
  <2> QED
    BY <1>3, <1>16, <2>1 DEF TerminalFailure
<1>17. CASE WriteTemporary(w) \/ Rename(w) \/ SyncDirectory(w) \/ Record(w)
  BY <1>6, <1>17 DEF WriteTemporary, Rename, SyncDirectory, Record, queueVars
<1>18. CASE ArtifactFails(w)
  <2>1. Settle(w, "failed") /\ h' = [h EXCEPT ![w] = Idle] /\ work' = work
    BY <1>18 DEF ArtifactFails, Become, crawlData
  <2> QED
    BY <1>1, <2>1, TurnEnds
<1>19. CASE Persist(w)
  <2>1. CASE Return(w, "failed")
    BY <1>3, <2>1
  <2>2. CASE /\ work' = [work EXCEPT !.state = h[w].out] /\ Goto(w, "close")
             /\ UNCHANGED <<owner, jobState, jobs, status>>
    <3> DEFINE r == [h[w] EXCEPT !.pc = "close"]
    <3>1. r.pc = "close" /\ r.out = h[w].out /\ r.done = h[w].done /\ h[w].pc = "persist"
      BY <1>0, <1>19 DEF HandlerState, Persist
    <3>2. work'.state = h[w].out
      BY <1>0, <2>2
    <3> HIDE DEF r
    <3>3. KnownUnit(r, jobs, work'.state)
      BY <3>1, <3>2 DEF KnownUnit
    <3> QED
      BY <1>2, <1>4, <2>2, <3>1, <3>3 DEF Goto, r
  <2> QED
    BY <1>19, <2>1, <2>2 DEF Persist, queueVars
<1>20. CASE Close(w)
  <2>1. CASE Return(w, "failed")
    BY <1>3, <2>1
  <2>2. ASSUME NEW pc \in {"again", "decide"},
               Become(w, [h[w] EXCEPT !.pc = pc, !.arg = StatusAfter(h[w].out)]),
               UNCHANGED <<work, owner, jobState, jobs, status>>
        PROVE  Alone'
    <3> DEFINE r == [h[w] EXCEPT !.pc = pc, !.arg = StatusAfter(h[w].out)]
    <3>1. /\ r.pc = pc /\ r.arg = StatusAfter(h[w].out) /\ r.done = h[w].done
          /\ h[w].pc = "close"
      BY <1>0, <1>20, <2>2 DEF HandlerState, Close
    <3>2. h[w].out \in Outcome /\ work.state = h[w].out
      BY <1>0, <1>2, <3>1 DEF HandlerOK, KnownUnit
    <3> HIDE DEF r
    <3>3. KnownUnit(r, jobs, work'.state)
      BY <2>2, <3>1, <3>2 DEF KnownUnit, StatusAfter, Outcome
    <3> QED
      BY <1>2, <1>4, <2>2, <3>1, <3>3 DEF r
  <2> QED
    BY <1>20, <2>1, <2>2 DEF Close, crawlData
<1>21. CASE Again(w)
  BY <1>3, <1>21 DEF Again
<1>22. CASE Reconcile(w)
  BY <1>0, <1>3, <1>22 DEF Reconcile, HandlerOK
<1>23. CASE Decide(w)
  <2> DEFINE to == DecidedStatus(h[w].arg)
             r == [h[w] EXCEPT !.pc = "finalize", !.to = to]
  <2>1. r.pc = "finalize" /\ r.to = to /\ r.done = h[w].done
    BY <1>0 DEF HandlerState
  <2>2. /\ h[w].pc = "decide" /\ Become(w, r) /\ UNCHANGED <<work, owner, jobState, jobs, status>>
        /\ h[w].arg \in {"NONE", "RUNNING", "FAILED", "CANCELLED"}
    BY <1>0, <1>23 DEF Decide, crawlData, queueVars, HandlerState
  <2>3. /\ to = "SUCCEEDED" => work.state = "COMPLETED"
        /\ to = "PARTIAL_RESULT" => work.state = "PARTIAL"
    BY <1>2, <2>2 DEF DecidedStatus, KnownUnit
  <2> HIDE DEF r, to
  <2>4. KnownUnit(r, jobs, work'.state)
    BY <2>1, <2>2, <2>3 DEF KnownUnit
  <2> QED
    BY <1>2, <1>4, <2>1, <2>2, <2>4
<1>24. CASE Finalize(w)
  <2>1. CASE Return(w, "failed")
    BY <1>3, <2>1
  <2>2. CASE /\ status' = h[w].to /\ Become(w, [h[w] EXCEPT !.pc = "settle", !.done = TRUE])
             /\ UNCHANGED <<work, owner, jobState, jobs>>
    <3> DEFINE r == [h[w] EXCEPT !.pc = "settle", !.done = TRUE]
    <3>1. r.pc = "settle" /\ r.done = TRUE
      BY <1>0 DEF HandlerState
    <3>2. h[w].pc = "finalize" /\ h[w].to \in TerminalRun /\ h' = [h EXCEPT ![w] = r]
      BY <1>0, <1>24, <2>2 DEF Finalize, HandlerOK, Become
    <3> HIDE DEF r
    <3>3. KnownUnit(r, jobs', work'.state) /\ KnownRun(r, status') /\ EndAgreesWithUnit'
      BY <1>2, <2>2, <3>1, <3>2 DEF KnownUnit, KnownRun, EndAgreesWithUnit
    <3> QED
      BY <1>0, <1>2, <2>2, <3>1, <3>2, <3>3, OwnerWorks
  <2> QED
    BY <1>24, <2>1, <2>2 DEF Finalize, crawlData, queueVars
<1> QED
  BY <1>7, <1>8, <1>9, <1>10, <1>11, <1>13, <1>14, <1>15, <1>16, <1>17, <1>18, <1>19, <1>20,
     <1>21, <1>22, <1>23, <1>24 DEF Step

LEMMA AloneStep ==
    ASSUME QuickAssumption, QuickInv, QuickNext
    PROVE  Alone'
<1>0. SUFFICES ASSUME "lease" \notin setting.faults
               PROVE  Alone'
  BY DEF QuickNext, Alone
<1>1. /\ \A v \in Handler : /\ Active(v) <=> owner = v
                            /\ KnownUnit(h[v], jobs, work.state) /\ KnownRun(h[v], status)
      /\ jobState = "QUEUED" => status \in {"QUEUED", "RUNNING"}
      /\ EndAgreesWithUnit /\ JobFollowsRun
      /\ setting' = setting /\ NoHandler \notin Handler /\ h \in [Handler -> HandlerState]
      /\ jobState = "RUNNING" <=> owner # NoHandler
  BY <1>0 DEF QuickInv, Alone, QuickNext, QuickAssumption, QueueOK
<1>2. ASSUME NEW w \in Handler, Step(w) \/ ArtifactFails(w)
      PROVE  Alone'
  BY <1>0, <1>1, <1>2, OwnerSteps
<1>3. ASSUME NEW w \in Handler, Acquire(w)
      PROVE  Alone'
  <2>1. /\ jobState = "QUEUED" /\ owner' = w /\ jobState' = "RUNNING" /\ status' = status
        /\ work' = work
    BY <1>3 DEF Acquire, crawlData
  <2>2. /\ h' = [h EXCEPT ![w] = Started] /\ Started.pc = "load" /\ Started.done = FALSE
        /\ jobs' = jobs
    BY <1>3, StartedHandler
  <2>3. \A v \in Handler \ {w} : h[v].pc = "idle"
    BY <1>1, <2>1 DEF Active
  <2>4. /\ KnownUnit(Started, jobs', work'.state) /\ KnownRun(Started, status')
        /\ EndAgreesWithUnit'
    BY <1>1, <2>1, <2>2 DEF KnownUnit, KnownRun, EndAgreesWithUnit
  <2> QED
    BY <1>1, <2>1, <2>2, <2>3, <2>4, OwnerWorks
<1>4. CASE Crash
  <2>1. (\A v \in Handler : h'[v].pc = "idle") /\ work' = work
    BY <1>4 DEF Crash, Idle, crawlData
  <2>2. CASE jobState = "RUNNING"
    <3>1. Recovered
      BY <1>4, <2>2 DEF Crash
    <3>2. /\ owner' = NoHandler
          /\ jobState' = "QUEUED" => status' \in {"QUEUED", "RUNNING"}
          /\ JobFollowsRun' /\ status' \in {status, "FAILED"}
      <4>1. CASE status \in TerminalRun
        BY <3>1, <4>1 DEF Recovered, Settled, JobStateOf, TerminalRun, JobFollowsRun
      <4>2. CASE status \notin TerminalRun
        <5>1. status \in {"QUEUED", "RUNNING"}
          BY <4>2 DEF QuickInv, RowsOK
        <5> QED
          BY <3>1, <4>2, <5>1 DEF Recovered, Settled, JobFollowsRun
      <4> QED
        BY <4>1, <4>2
    <3>3. EndAgreesWithUnit'
      BY <1>1, <2>1, <3>2 DEF EndAgreesWithUnit
    <3> QED
      BY <1>1, <2>1, <3>2, <3>3, NobodyWorks
  <2>3. CASE jobState # "RUNNING"
    <3>1. UNCHANGED <<owner, jobState, status>>
      BY <1>4, <2>3 DEF Crash, queueVars
    <3>2. EndAgreesWithUnit' /\ JobFollowsRun'
      BY <1>1, <2>1, <3>1 DEF EndAgreesWithUnit, JobFollowsRun
    <3> QED
      BY <1>1, <2>1, <2>3, <3>1, <3>2, NobodyWorks
  <2> QED
    BY <2>2, <2>3
<1>5. CASE Pressure \/ (Cancel /\ jobState = "RUNNING")
  <2>1. UNCHANGED <<owner, jobState, jobs, status, work, h>>
    BY <1>5 DEF Pressure, Cancel, queueVars, crawlData
  <2> QED
    BY <1>1, <2>1 DEF Alone, Active, EndAgreesWithUnit, JobFollowsRun
<1>6. CASE Cancel /\ jobState # "RUNNING"
  <2>1. /\ jobState = "QUEUED" /\ Settled("CANCELLED") /\ work' = work /\ h' = h
        /\ status' = IF status \in TerminalRun THEN status ELSE "CANCELLED"
    BY <1>6 DEF Cancel, crawlData
  <2>2. owner' = NoHandler /\ jobState' = "CANCELLED" /\ status' = "CANCELLED"
    BY <1>1, <2>1 DEF Settled, TerminalRun
  <2>3. \A v \in Handler : h'[v].pc = "idle"
    BY <1>1, <2>1 DEF Active
  <2>4. EndAgreesWithUnit' /\ JobFollowsRun'
    BY <2>2 DEF EndAgreesWithUnit, JobFollowsRun
  <2> QED
    BY <1>1, <2>2, <2>3, <2>4, NobodyWorks
<1>7. ASSUME NEW k \in setting.actions, Ask(k)
      PROVE  Alone'
  <2>1. /\ jobState # "RUNNING" /\ owner' = owner /\ jobState' = "QUEUED" /\ status' = "QUEUED"
        /\ h' = h
    BY <1>7 DEF Ask, AskAccepts, Failed
  <2>2. EndAgreesWithUnit' /\ JobFollowsRun'
    BY <2>1 DEF EndAgreesWithUnit, JobFollowsRun
  <2>3. owner' = NoHandler /\ \A v \in Handler : h'[v].pc = "idle"
    BY <1>1, <2>1 DEF Active
  <2> QED
    BY <1>1, <2>1, <2>2, <2>3, NobodyWorks
<1>8. CASE LeaseExpires
  BY <1>0, <1>8 DEF LeaseExpires
<1> QED
  BY <1>2, <1>3, <1>4, <1>5, <1>6, <1>7, <1>8 DEF QuickNext
-----------------------------------------------------------------------------
(***************************************************************************)
(* The invariant and the theorems.                                         *)
(***************************************************************************)
LEMMA QuickInitially ==
    ASSUME QuickAssumption, QuickInit
    PROVE  QuickInv
<1>1. RowsOK
  BY DEF QuickInit, RowsOK, NoWork, UnitState, Outcome, File, ResultHasEvidence
<1>2. QueueOK /\ BudgetOK
  <2>1. setting \in Setting /\ setting.tries \in 1..MaxTries /\ MaxTries \in Nat /\ MaxJobs \in Nat \ {0}
    BY DEF QuickInit, QuickAssumption, Setting
  <2>2. jobs \in Seq(JobKind) /\ Len(jobs) = 1
    BY DEF QuickInit, JobKind
  <2> QED
    BY <2>1, <2>2 DEF QuickInit, QueueOK, BudgetOK, QuickAssumption
<1>3. GenerationsOK
  BY FS_EmptySet DEF QuickInit, GenerationsOK, NoWork
<1>4. /\ h \in [Handler -> HandlerState]
      /\ \A w \in Handler : HandlerOK(h[w], jobs, tries) /\ FileOK(h[w], recorded, disk)
  <2>1. Idle \in HandlerState /\ Idle.pc = "idle"
    BY IdleHandler DEF HandlerOK, Idle
  <2> QED
    BY <2>1, IdleHandler DEF QuickInit, FileOK, Loading, Writing
<1>5. FilesOK
  BY DEF QuickInit, FilesOK, RecordedArtifactsExist, Active, Idle
<1>6. Alone
  <2>1. \A w \in Handler : h[w].pc = "idle"
    BY DEF QuickInit, Idle
  <2>2. EndAgreesWithUnit /\ JobFollowsRun
    BY DEF QuickInit, EndAgreesWithUnit, JobFollowsRun
  <2> QED
    BY <2>1, <2>2, OthersKnow DEF QuickInit, QuickAssumption, Alone, Active
<1> QED
  BY <1>1, <1>2, <1>3, <1>4, <1>5, <1>6 DEF QuickInv

LEMMA QuickInductive ==
    ASSUME QuickAssumption, QuickInv, QuickNext
    PROVE  QuickInv'
<1>1. QueueOK' /\ BudgetOK' /\ status' \in RunStatus
  BY QueueStep
<1>2. FilesGood' /\ OneAttemptEach'
  BY FilesStep, AttemptsApart
<1>3. FilesOK'
  BY <1>2 DEF FilesOK, FilesGood, OneAttemptEach, RowsOfAttempts
<1>4. RowsOK'
  BY <1>1, <1>2, UnitKept DEF RowsOK, FilesGood, RunStatus
<1>5. /\ (h \in [Handler -> HandlerState])'
      /\ (\A w \in Handler : HandlerOK(h[w], jobs, tries) /\ FileOK(h[w], recorded, disk))'
  BY <1>2, HandlersStep DEF FilesGood
<1> QED
  BY <1>1, <1>3, <1>4, <1>5, UnitKept, AloneStep DEF QuickInv

LEMMA QuickInvariant ==
    ASSUME QuickAssumption
    PROVE  QuickSpec => []QuickInv
<1>1. QuickInit => QuickInv
  BY QuickInitially
<1>2. QuickInv /\ [QuickNext]_quickVars => QuickInv'
  <2>1. CASE QuickNext
    BY <2>1, QuickInductive
  <2>2. CASE UNCHANGED quickVars
    <3>1. /\ UNCHANGED <<setting, target, work, execs, prepared, disk, recorded>>
          /\ UNCHANGED <<jobs, budget, jobState, tries, owner, spent, status, h>>
      BY <2>2 DEF quickVars, crawlData, files, queueVars
    <3>2. QuickInv => RowsOK' /\ QueueOK' /\ BudgetOK' /\ GenerationsOK'
      BY <3>1 DEF QuickInv, RowsOK, QueueOK, BudgetOK, GenerationsOK, Openers, ResultHasEvidence
    <3>3. QuickInv => FilesOK' /\ Alone'
      BY <3>1 DEF QuickInv, FilesOK, Alone, Active, RecordedArtifactsExist, This,
                  EndAgreesWithUnit, JobFollowsRun
    <3>4. QuickInv => /\ (h \in [Handler -> HandlerState])'
                      /\ (\A w \in Handler : /\ HandlerOK(h[w], jobs, tries)
                                             /\ FileOK(h[w], recorded, disk))'
      BY <3>1 DEF QuickInv
    <3> QED
      BY <3>2, <3>3, <3>4 DEF QuickInv
  <2> QED
    BY <2>1, <2>2
<1> QED
  BY <1>1, <1>2, PTL DEF QuickSpec

\* The run ends as its unit of work earned and the job as its run, in every
\* order of crashes, signals, file errors and actions of the owner, with any
\* number of handlers and jobs; the attempts a chain of retries spends stay
\* within the submission's max_attempts and no action opens two generations,
\* also where leases are lost (quick_scrape.rs, actions.rs, crawl_traversal.rs).
THEOREM QuickOutcome ==
    ASSUME QuickAssumption
    PROVE  QuickSpec => []OutcomeFollowsUnit
<1>1. QuickInv => OutcomeFollowsUnit
  <2> SUFFICES ASSUME QuickInv
               PROVE  OutcomeFollowsUnit
    OBVIOUS
  <2>1. QuickTypeOK
    BY DEF QuickInv, QuickTypeOK, RowsOK, QueueOK, UnitState
  <2>2. RetriesStayWithinBudget
    <3>1. budget \in Nat /\ tries \in 0..budget /\ spent \in Nat /\ setting.tries \in Nat
      BY DEF QuickInv, QueueOK, Setting, QuickAssumption
    <3> QED
      BY <3>1 DEF QuickInv, BudgetOK, RetriesStayWithinBudget
  <2>3. GenerationsCountActions
    <3>1. jobs \in Seq(JobKind) /\ DOMAIN jobs = 1..Len(jobs) /\ Len(jobs) \in Nat
      BY DEF QuickInv, QueueOK
    <3>2. IsFiniteSet(DOMAIN jobs)
      BY <3>1, FS_Interval
    <3>3. IsFiniteSet(Openers)
      BY <3>2, FS_Subset DEF Openers
    <3>4. Cardinality(prepared) <= Cardinality(Openers)
      BY <3>3, FS_Subset DEF QuickInv, GenerationsOK
    <3>5. Cardinality(prepared) \in Nat /\ Cardinality(Openers) \in Nat /\ work.gen \in Nat
      BY <3>3, FS_CardinalityType DEF QuickInv, GenerationsOK, RowsOK
    <3> QED
      BY <3>4, <3>5 DEF QuickInv, GenerationsOK, GenerationsCountActions, Openers, Opening
  <2>4. "lease" \notin setting.faults => EndAgreesWithUnit /\ JobFollowsRun
    BY DEF QuickInv, Alone
  <2> QED
    BY <2>1, <2>2, <2>3, <2>4 DEF OutcomeFollowsUnit
<1> QED
  BY <1>1, QuickInvariant, PTL

\* A unit with a result has the evidence of it in its own generation, and a row
\* of the artifacts table names a file that survives a loss of power, with any
\* number of overlapping handlers (persist_current_work, ArtifactStore::write).
THEOREM QuickEvidence ==
    ASSUME QuickAssumption
    PROVE  QuickSpec => []EvidenceExists
<1>1. QuickInv => EvidenceExists
  BY DEF QuickInv, RowsOK, FilesOK, EvidenceExists
<1> QED
  BY <1>1, QuickInvariant, PTL

\* A completed, partial or cancelled result is replaced only in a later
\* generation, whoever holds the lease (select_work, persist_current_work).
THEOREM QuickStable ==
    ASSUME QuickAssumption
    PROVE  QuickSpec => ResultsAreStable
<1>1. QuickInv /\ [QuickNext]_quickVars => [StableStep]_quickVars
  BY StableByStep
<1> QED
  BY <1>1, QuickInvariant, PTL DEF QuickSpec, ResultsAreStable
=============================================================================

---------------------------- MODULE QuickScrape ----------------------------
(***************************************************************************)
(* One Quick Scrape run: its single unit of work, the chain of jobs that   *)
(* execute it (the submission and the actions the owner asks for) and the  *)
(* handler of erabi-jobs/src/quick_scrape.rs, with the artifact files of   *)
(* erabi-db/src/artifact_store.rs.                                         *)
(*                                                                         *)
(* An action is one transaction of a handler, one file operation or one    *)
(* provider answer; the process may crash between any two of them.  The    *)
(* queue is JobStore's: here a job is its kind, its attempts, its budget   *)
(* of attempts and who holds its lease.                                    *)
(***************************************************************************)
EXTENDS Naturals, Sequences, FiniteSets

CONSTANTS
    Handler,    \* handler instances; two let one that lost its lease overlap
    NoHandler,
    Settings,   \* what a run may be and meet: see Setting
    MaxJobs,    \* bound on the jobs of the run
    MaxTries,   \* bound on max_attempts of the submission
    Automatic   \* QUICK_SCRAPE_AUTOMATIC_MAX_ATTEMPTS

\* What the page may be classified as, what the provider may answer, what the
\* owner may ask for, what may go wrong, and max_attempts of the submission.
Setting ==
    [targets : SUBSET {"PAGE", "FILE"},
     answers : SUBSET {"COMPLETED", "PARTIAL", "RETRYABLE", "PERMANENT", "CANCELLED"},
     actions : SUBSET {"RETRY", "RETRY_FAILED_PARTS", "RESUME_CHECKPOINT",
                       "RESTART_FROM_BEGINNING"},
     faults  : SUBSET {"crash", "power", "lease", "io", "cancel", "pressure"},
     tries   : 1..MaxTries]

\* What the constants may be.
QuickAssumption ==
    /\ NoHandler \notin Handler
    /\ {MaxJobs, MaxTries, Automatic} \subseteq Nat \ {0}
    /\ Settings \subseteq Setting

VARIABLES
    setting,    \* the setting of this run
    target,     \* source_target_type, frozen in the run's snapshot
    work,       \* the row of crawl_url_state and its traversal control
    execs,      \* crawl_execution_results, append-only
    prepared,   \* the jobs with a row of crawl_recovery_actions
    disk,       \* the artifact files by the attempt that writes them
    recorded,   \* rows of the artifacts table
    jobs,       \* the kinds of the run's jobs; the last one is the current one
    budget,     \* its max_attempts
    jobState, tries, owner,
    saved,      \* its current attempt has appended a checkpoint
    spent,      \* attempts since a budget was last given anew
    status,     \* crawl_runs.status
    ckpt,       \* some checkpoint exists in the lineage
    token,      \* the attempt's cancellation token
    pressed,    \* the attempt's storage pressure token
    h           \* the handlers

crawlData == <<target, work, execs, prepared>>
files     == <<disk, recorded>>
queueVars == <<jobs, budget, jobState, tries, owner, saved, spent>>
signals   == <<token, pressed>>
quickVars == <<setting, crawlData, files, queueVars, status, ckpt, signals, h>>

Art    == (1..MaxJobs) \X (1..MaxTries)
NoArt  == <<0, 0>>
NoWork == [state |-> "NONE", gen |-> 0]
Idle   == [pc |-> "idle", ck |-> FALSE, dur |-> "NONE", own |-> TRUE, gen |-> 0,
           out |-> "NONE", again |-> FALSE, art |-> NoArt, arg |-> "NONE", to |-> "NONE",
           done |-> FALSE, job |-> 0, try |-> 0]

Kind == jobs[Len(jobs)]
This == Len(jobs)
KindOf(w) == jobs[h[w].job]
Restarting(w) == KindOf(w) = "RESTART_FROM_BEGINNING"
Retrying(w)   == KindOf(w) \in {"RETRY", "RETRY_FAILED_PARTS"}

QuickInit ==
    /\ setting \in Settings /\ target \in setting.targets
    /\ work = NoWork /\ execs = {} /\ prepared = {}
    /\ disk = [a \in Art |-> "none"] /\ recorded = {}
    /\ jobs = <<"QUICK_SCRAPE">> /\ budget = setting.tries
    /\ jobState = "QUEUED" /\ tries = 0 /\ owner = NoHandler /\ saved = FALSE /\ spent = 0
    /\ status = "QUEUED" /\ ckpt = FALSE
    /\ token = FALSE /\ pressed = FALSE
    /\ h = [w \in Handler |-> Idle]

-----------------------------------------------------------------------------
(* The job around the handler.                                              *)
TerminalRun == {"SUCCEEDED", "PARTIAL_RESULT", "FAILED", "CANCELLED"}
JobStateOf(s) ==
    CASE s = "FAILED" -> "FAILED" [] s = "CANCELLED" -> "CANCELLED" [] OTHER -> "SUCCEEDED"

Become(w, rec) == h' = [h EXCEPT ![w] = rec]
Goto(w, pc) == Become(w, [h[w] EXCEPT !.pc = pc])

Acquire(w) ==
    /\ jobState = "QUEUED" /\ h[w].pc = "idle" /\ tries < budget
    /\ owner' = w /\ jobState' = "RUNNING" /\ saved' = FALSE
    /\ tries' = tries + 1 /\ spent' = spent + 1
    /\ token' = FALSE /\ pressed' = FALSE
    /\ Become(w, [Idle EXCEPT !.pc = "load", !.job = This, !.try = tries + 1,
                         !.art = <<This, tries + 1>>])
    /\ UNCHANGED <<crawlData, files, jobs, budget, status, ckpt>>

Settled(state) ==
    /\ jobState' = state /\ owner' = NoHandler
    /\ UNCHANGED <<jobs, budget, tries, saved, spent>>

\* Expiry and storage pressure: a run that ended decides; a checkpoint of this
\* attempt queues the job again while attempts are left; otherwise job and run
\* fail together.
Recovered ==
    IF status \in TerminalRun THEN Settled(JobStateOf(status)) /\ UNCHANGED status
    ELSE IF saved /\ tries < budget THEN Settled("QUEUED") /\ UNCHANGED status
    ELSE Settled("FAILED") /\ status' = "FAILED"

\* The end of a turn of w, whose handler returned: execute_acquired looks at the
\* committed run, then at the cancellation token, then at the pressure token.
\* A failure touches the job alone (fail_with_disposition).
Settle(w, result) ==
    IF owner # w THEN UNCHANGED <<queueVars, status>>
    ELSE IF h[w].done THEN Settled(JobStateOf(status)) /\ UNCHANGED status
    ELSE IF token
         THEN /\ Settled(JobStateOf(IF status \in TerminalRun THEN status ELSE "CANCELLED"))
              /\ status' = IF status \in TerminalRun THEN status ELSE "CANCELLED"
    ELSE IF pressed THEN Recovered
    ELSE IF result = "failed" /\ tries < budget THEN Settled("QUEUED") /\ UNCHANGED status
    ELSE IF result = "failed" THEN Settled("FAILED") /\ UNCHANGED status
    ELSE Settled("SUCCEEDED") /\ UNCHANGED status

\* The handler returns Ok or an error before anything committed the run.
Return(w, result) ==
    /\ Settle(w, result)
    /\ Become(w, Idle)
    /\ UNCHANGED <<crawlData, files, ckpt, signals>>

Crash ==
    /\ "crash" \in setting.faults
    /\ \E w \in Handler : h[w].pc # "idle"
    /\ h' = [w \in Handler |-> Idle]
    /\ IF jobState = "RUNNING" THEN Recovered ELSE UNCHANGED <<queueVars, status>>
    /\ \E lost \in SUBSET {a \in Art : "power" \in setting.faults /\ disk[a] = "renamed"} :
          disk' = [a \in Art |-> IF a \in lost THEN "none" ELSE disk[a]]
    /\ token' = FALSE /\ pressed' = FALSE
    /\ UNCHANGED <<crawlData, recorded, ckpt>>

\* The lease passes on under a handler that does not know yet.
LeaseExpires ==
    /\ "lease" \in setting.faults
    /\ owner # NoHandler
    /\ Recovered
    /\ UNCHANGED <<crawlData, files, ckpt, signals, h>>

\* request_job_cancellation: a queued job and its run end at once, a running
\* attempt gets its token.
Cancel ==
    /\ "cancel" \in setting.faults
    /\ \/ /\ jobState = "QUEUED"
          /\ Settled("CANCELLED")
          /\ status' = IF status \in TerminalRun THEN status ELSE "CANCELLED"
          /\ UNCHANGED token
       \/ /\ jobState = "RUNNING" /\ ~token
          /\ token' = TRUE
          /\ UNCHANGED <<queueVars, status>>
    /\ UNCHANGED <<crawlData, files, ckpt, pressed, h>>

Pressure ==
    /\ "pressure" \in setting.faults
    /\ jobState = "RUNNING" /\ ~pressed
    /\ pressed' = TRUE
    /\ UNCHANGED <<crawlData, files, queueVars, status, ckpt, token, h>>

-----------------------------------------------------------------------------
(* The actions of the owner (actions.rs), asked of the current job.         *)
Failed == jobState \in {"FAILED", "CANCELLED"}
Validated == ckpt /\ work.state # "NONE"

AskAccepts(k) ==
    CASE k = "RETRY"              -> Failed /\ tries > 0 /\ tries < budget /\ Validated
      [] k = "RETRY_FAILED_PARTS" -> /\ Failed /\ tries < budget /\ Validated
                                     /\ work.state \in {"FAILED", "PARTIAL"}
      [] k = "RESUME_CHECKPOINT"  -> Failed /\ Validated
      [] OTHER                    -> Failed \/ (jobState = "SUCCEEDED" /\ Kind = "QUICK_SCRAPE")

ChildBudget(k) ==
    IF k \in {"RETRY", "RETRY_FAILED_PARTS"} THEN budget - tries ELSE budget

\* enqueue_action_child on the same run: the run must have ended or be queued.
Ask(k) ==
    /\ Len(jobs) < MaxJobs
    /\ AskAccepts(k)
    /\ status # "RUNNING"
    /\ jobs' = Append(jobs, k)
    /\ budget' = ChildBudget(k)
    /\ jobState' = "QUEUED" /\ tries' = 0 /\ saved' = FALSE
    /\ spent' = IF k \in {"RETRY", "RETRY_FAILED_PARTS"} THEN spent ELSE 0
    /\ status' = "QUEUED"
    /\ UNCHANGED <<crawlData, files, owner, ckpt, signals, h>>

-----------------------------------------------------------------------------
(* execute_inner up to the provider.                                        *)

\* Job, run, source, checkpoint and durable state are read; a checkpoint, and a
\* kind that resumes one, must validate against the durable state.
Load(w) ==
    LET ck == ~Restarting(w) /\ ckpt
        needs == ck \/ Retrying(w) \/ KindOf(w) = "RESUME_CHECKPOINT"
    IN  /\ h[w].pc = "load"
        /\ IF needs /\ ~Validated THEN Return(w, "failed")
           ELSE /\ Become(w, [h[w] EXCEPT !.ck = ck, !.dur = work.state,
                         !.pc = IF Restarting(w) \/ Retrying(w) THEN "mark" ELSE "begin"])
                /\ UNCHANGED <<crawlData, files, queueVars, status, ckpt, signals>>

\* CheckpointWriter: the append checks the lease.
Checkpointed(w, pc) ==
    IF owner # w THEN Return(w, "failed")
    ELSE /\ ckpt' = TRUE /\ saved' = TRUE
         /\ Goto(w, pc)
         /\ UNCHANGED <<crawlData, files, jobs, budget, jobState, tries, owner, spent,
                        status, signals>>

Mark(w) == h[w].pc = "mark" /\ Checkpointed(w, "prepare")

\* prepare_recovery_action selects once per job.
SelectedStates(k) ==
    CASE k = "RETRY"              -> {"PENDING", "FAILED", "PARTIAL", "CANCELLED"}
      [] k = "RETRY_FAILED_PARTS" -> {"FAILED", "PARTIAL"}
      [] OTHER -> {"PENDING", "RUNNING", "COMPLETED", "PARTIAL", "FAILED", "CANCELLED"}

Selects(w) == h[w].job \notin prepared /\ work.state \in SelectedStates(KindOf(w))

Prepare(w) ==
    /\ h[w].pc = "prepare"
    /\ IF owner # w THEN Return(w, "failed")
       ELSE /\ prepared' = prepared \cup {h[w].job}
            /\ work' = IF Selects(w) THEN [state |-> "PENDING", gen |-> work.gen + 1] ELSE work
            /\ Goto(w, "begin")
            /\ UNCHANGED <<target, execs, files, queueVars, status, ckpt, signals>>

\* The execution whose id is the job's.
OwnExecution(w) == {e \in execs : e.job = h[w].job /\ e.own}
AlreadyCompleted(w) == \E e \in OwnExecution(w) : e.outcome = "COMPLETED"

\* transition_restart_status, transition_recovery_status and
\* transition_execution_status.
Reopens(w) ==
    \/ Restarting(w)
    \/ Retrying(w) /\ status # "SUCCEEDED"
    \/ status \in {"QUEUED", "RUNNING"}

\* The unit was completed when the handler loaded its state.
CompletedBefore(w) == h[w].dur = "COMPLETED" /\ ~Restarting(w)

Begin(w) ==
    /\ h[w].pc = "begin"
    /\ IF CompletedBefore(w)
       THEN /\ Become(w, [h[w] EXCEPT !.pc = "decide", !.arg = "RUNNING"])
            /\ UNCHANGED <<crawlData, files, queueVars, status, ckpt, signals>>
       ELSE IF AlreadyCompleted(w) \/ ~Reopens(w) THEN Return(w, "failed")
       ELSE /\ status' = "RUNNING"
            /\ Become(w, [h[w] EXCEPT
                    !.own = OwnExecution(w) = {},
                    !.pc = IF h[w].ck THEN "ready"
                           ELSE IF h[w].dur = "NONE" THEN "initialize" ELSE "save"])
            /\ UNCHANGED <<crawlData, files, queueVars, ckpt, signals>>

Initialize(w) ==
    /\ h[w].pc = "initialize"
    /\ work' = IF work.state = "NONE" THEN [state |-> "PENDING", gen |-> 0] ELSE work
    /\ Goto(w, "save")
    /\ UNCHANGED <<target, execs, prepared, files, queueVars, status, ckpt, signals>>

Save(w) == h[w].pc = "save" /\ Checkpointed(w, "ready")

\* Mutant of Activatable: completed work may be activated again.
ActivatableAnyState == work.state # "NONE"

Activatable == work.state \in {"PENDING", "RUNNING", "FAILED"}

\* The signals are looked at, then activate_current_work takes the unit in the
\* generation just read.  A file is complete without a provider.
Activate(w) ==
    /\ h[w].pc = "ready"
    /\ IF token
       THEN /\ Become(w, [h[w] EXCEPT !.pc = "decide", !.arg = "CANCELLED"])
            /\ UNCHANGED <<crawlData, files, queueVars, status, ckpt, signals>>
       ELSE IF pressed THEN Return(w, "ok")
       ELSE IF owner # w \/ ~Activatable THEN Return(w, "failed")
       ELSE /\ work' = [work EXCEPT !.state = "RUNNING"]
            /\ Become(w, [h[w] EXCEPT
                    !.gen = work.gen,
                    !.out = IF target = "FILE" THEN "COMPLETED" ELSE @,
                    !.art = IF target = "FILE" THEN NoArt ELSE @,
                    !.pc = IF target = "FILE" THEN "persist" ELSE "fetch"])
            /\ UNCHANGED <<target, execs, prepared, files, queueVars, status, ckpt, signals>>

-----------------------------------------------------------------------------
(* Admission, the provider and what it returns.                             *)
TerminalAttempt(w) ==
    \/ tries >= budget
    \/ KindOf(w) = "QUICK_SCRAPE" /\ tries >= Automatic

\* The waits for robots, permit and provider give way to either signal.
Interrupted(w) ==
    /\ h[w].pc = "fetch"
    /\ \/ pressed /\ Return(w, "ok")
       \/ /\ token
          /\ Become(w, [h[w] EXCEPT !.pc = "decide", !.arg = "CANCELLED"])
          /\ UNCHANGED <<crawlData, files, queueVars, status, ckpt, signals>>

\* The provider reports that the request was cancelled: the attempt takes it as
\* its own cancellation.
ProviderCancelled(w) ==
    /\ h[w].pc = "fetch"
    /\ "CANCELLED" \in setting.answers
    /\ token' = (token \/ owner = w)
    /\ Become(w, [h[w] EXCEPT !.pc = "decide", !.arg = "CANCELLED"])
    /\ UNCHANGED <<crawlData, files, queueVars, status, ckpt, pressed>>

\* A page, with or without artifacts to keep.
Answered(w, a) ==
    /\ h[w].pc = "fetch"
    /\ a \in setting.answers \cap {"COMPLETED", "PARTIAL"}
    /\ \E pc \in {"write", "persist"} :
          Become(w, [h[w] EXCEPT !.out = a, !.pc = pc,
                                 !.art = IF pc = "write" THEN @ ELSE NoArt])
    /\ UNCHANGED <<crawlData, files, queueVars, status, ckpt, signals>>

\* terminal_failure: registration, robots, permit, provider or final URL failed.
TerminalFailure(w, a) ==
    /\ h[w].pc = "fetch"
    /\ a \in setting.answers \cap {"RETRYABLE", "PERMANENT"}
    /\ IF pressed THEN Return(w, "ok")
       ELSE /\ Become(w, [h[w] EXCEPT
                    !.out = IF token THEN "CANCELLED" ELSE "FAILED",
                    !.again = ~token /\ a = "RETRYABLE" /\ ~TerminalAttempt(w),
                    !.art = NoArt, !.pc = "persist"])
            /\ UNCHANGED <<crawlData, files, queueVars, status, ckpt, signals>>

\* ArtifactStore::write: a temporary file, renamed, and its directory synced.
WriteTemporary(w) ==
    /\ h[w].pc = "write"
    /\ disk' = [disk EXCEPT ![h[w].art] = "temporary"]
    /\ Goto(w, "rename")
    /\ UNCHANGED <<crawlData, recorded, queueVars, status, ckpt, signals>>

\* Mutant of Rename: the directory is not synced.
RenamedUnsynced(w) ==
    /\ h[w].pc = "rename"
    /\ disk' = [disk EXCEPT ![h[w].art] = "renamed"]
    /\ Goto(w, "record")
    /\ UNCHANGED <<crawlData, recorded, queueVars, status, ckpt, signals>>

Rename(w) ==
    /\ h[w].pc = "rename"
    /\ disk' = [disk EXCEPT ![h[w].art] = "renamed"]
    /\ Goto(w, "sync")
    /\ UNCHANGED <<crawlData, recorded, queueVars, status, ckpt, signals>>

SyncDirectory(w) ==
    /\ h[w].pc = "sync"
    /\ disk' = [disk EXCEPT ![h[w].art] = "published"]
    /\ Goto(w, "record")
    /\ UNCHANGED <<crawlData, recorded, queueVars, status, ckpt, signals>>

\* A failed write or rename removes the temporary file; a failed sync of the
\* directory leaves the renamed one.
ArtifactFails(w) ==
    /\ "io" \in setting.faults
    /\ h[w].pc \in {"rename", "sync"}
    /\ disk' = [disk EXCEPT ![h[w].art] = IF @ = "temporary" THEN "none" ELSE @]
    /\ Settle(w, "failed")
    /\ Become(w, Idle)
    /\ UNCHANGED <<crawlData, recorded, ckpt, signals>>

\* ArtifactRepository::record, without a look at the lease.
Record(w) ==
    /\ h[w].pc = "record"
    /\ recorded' = recorded \cup {h[w].art}
    /\ Goto(w, "persist")
    /\ UNCHANGED <<crawlData, disk, queueVars, status, ckpt, signals>>

-----------------------------------------------------------------------------
(* The result, the last checkpoint and the end of the run.                  *)

\* validate_current_work_owner and validate_artifact_references.
PersistAccepts(w) ==
    /\ owner = w
    /\ work.state \in {"PENDING", "RUNNING"} /\ work.gen = h[w].gen
    /\ h[w].art # NoArt => h[w].art \in recorded

ExecutionOf(w) == [job |-> h[w].job, own |-> h[w].own, try |-> h[w].try, gen |-> h[w].gen,
                   outcome |-> h[w].out, art |-> h[w].art]

\* persist_current_work: evidence and unit advance together.
Persist(w) ==
    /\ h[w].pc = "persist"
    /\ IF ~PersistAccepts(w) THEN Return(w, "failed")
       ELSE /\ execs' = execs \cup {ExecutionOf(w)}
            /\ work' = [work EXCEPT !.state = h[w].out]
            /\ Goto(w, "close")
            /\ UNCHANGED <<target, prepared, files, queueVars, status, ckpt, signals>>

\* The checkpoint after the result, and what follows it: another attempt, or
\* the end of the run under the status the caller assumes.
StatusAfter(out) ==
    CASE out = "FAILED" -> "FAILED" [] out = "CANCELLED" -> "CANCELLED" [] OTHER -> "RUNNING"

Close(w) ==
    /\ h[w].pc = "close"
    /\ IF owner # w THEN Return(w, "failed")
       ELSE /\ ckpt' = TRUE /\ saved' = TRUE
            /\ Become(w, [h[w] EXCEPT !.pc = IF h[w].again THEN "again" ELSE "decide",
                                      !.arg = StatusAfter(h[w].out)])
            /\ UNCHANGED <<crawlData, files, jobs, budget, jobState, tries, owner, spent,
                           status, signals>>

Again(w) == h[w].pc = "again" /\ Return(w, "failed")

\* Mutant of DecidedStatus: a partial page counts as completed.
PartialSucceeds(arg) ==
    IF arg # "RUNNING" THEN arg
    ELSE CASE work.state = "FAILED" -> "FAILED"
           [] work.state = "CANCELLED"   -> "CANCELLED"
           [] OTHER                      -> "SUCCEEDED"

\* finish_recovered_execution and reconstruct_crawl_structural_facts: the state
\* of the unit decides unless the caller already knows how the run ended.
DecidedStatus(arg) ==
    IF arg # "RUNNING" THEN arg
    ELSE CASE work.state = "FAILED" -> "FAILED"
           [] work.state = "CANCELLED"   -> "CANCELLED"
           [] work.state = "COMPLETED"   -> "SUCCEEDED"
           [] OTHER                      -> "PARTIAL_RESULT"

Decide(w) ==
    /\ h[w].pc = "decide"
    /\ Become(w, [h[w] EXCEPT !.pc = "finalize", !.to = DecidedStatus(h[w].arg)])
    /\ UNCHANGED <<crawlData, files, queueVars, status, ckpt, signals>>

\* CrawlExecutionRepository::finalize, without a look at the lease.
Finalize(w) ==
    /\ h[w].pc = "finalize"
    /\ IF status \notin {"QUEUED", "RUNNING", h[w].to} THEN Return(w, "failed")
       ELSE /\ status' = h[w].to
            /\ Become(w, [h[w] EXCEPT !.pc = "settle", !.done = TRUE])
            /\ UNCHANGED <<crawlData, files, queueVars, ckpt, signals>>

Reconcile(w) == h[w].pc = "settle" /\ Return(w, "ok")

Step(w) ==
    \/ Load(w) \/ Mark(w) \/ Prepare(w) \/ Begin(w) \/ Initialize(w) \/ Save(w)
    \/ Activate(w) \/ Interrupted(w) \/ ProviderCancelled(w)
    \/ \E a \in setting.answers : Answered(w, a) \/ TerminalFailure(w, a)
    \/ WriteTemporary(w) \/ Rename(w) \/ SyncDirectory(w) \/ Record(w)
    \/ Persist(w) \/ Close(w) \/ Again(w) \/ Decide(w) \/ Finalize(w) \/ Reconcile(w)

QuickNext ==
    /\ UNCHANGED setting
    /\ \/ \E w \in Handler : Acquire(w) \/ Step(w) \/ ArtifactFails(w)
       \/ Crash \/ LeaseExpires \/ Cancel \/ Pressure
       \/ \E k \in setting.actions : Ask(k)

QuickSpec == QuickInit /\ [][QuickNext]_quickVars

-----------------------------------------------------------------------------
(* Properties.                                                              *)
Outcome == {"COMPLETED", "PARTIAL", "FAILED", "CANCELLED"}

\* Type invariant.
QuickTypeOK ==
    /\ work.state \in Outcome \cup {"NONE", "PENDING", "RUNNING"} /\ work.gen \in Nat
    /\ status \in TerminalRun \cup {"QUEUED", "RUNNING"}
    /\ jobState \in {"QUEUED", "RUNNING", "SUCCEEDED", "FAILED", "CANCELLED"}
    /\ tries \in 0..budget /\ owner \in Handler \cup {NoHandler}
    /\ (jobState = "RUNNING") = (owner # NoHandler)
    /\ \A e \in execs : e.outcome \in Outcome /\ e.job \in DOMAIN jobs

\* A unit that has its result has the evidence of it: persist_current_work
\* advances both in one transaction, of the generation the unit is in, so a
\* handler whose lease or generation is gone leaves no result without evidence.
ResultHasEvidence ==
    work.state \in Outcome =>
        \E e \in execs : e.gen = work.gen /\ e.outcome = work.state

\* The status a finished run shows is the one its unit earned, through crashes
\* between the result, the last checkpoint and the finalization.
EndAgreesWithUnit ==
    /\ status = "SUCCEEDED" => work.state = "COMPLETED"
    /\ status = "PARTIAL_RESULT" => work.state = "PARTIAL"

\* A job that succeeded or was cancelled has a run that ended the same way,
\* whichever of result, cancellation and storage pressure came first.
JobFollowsRun ==
    /\ jobState = "SUCCEEDED" => status \in {"SUCCEEDED", "PARTIAL_RESULT"}
    /\ jobState = "CANCELLED" => status = "CANCELLED"

\* An explicit retry cannot exceed the attempts its source was given: what a
\* chain of retries spends stays within the submission's max_attempts.
RetriesStayWithinBudget == spent <= setting.tries

\* A generation is opened by an action of the owner and once per action: the
\* replay of a crashed action does not open another.
GenerationsCountActions ==
    work.gen <= Cardinality({j \in DOMAIN jobs :
                    jobs[j] \in {"RETRY", "RETRY_FAILED_PARTS", "RESTART_FROM_BEGINNING"}})

\* A row of the artifacts table names a file that is there, also after a loss
\* of power: it is written after the rename has been made durable.
RecordedArtifactsExist == \A a \in recorded : disk[a] = "published"

\* The run ends as its one unit of work earned and the job as its run, the
\* retries of a chain stay within the submission's attempts and each action of
\* the owner opens one generation, through crashes between the result, the last
\* checkpoint and the finalization (finish_recovered_execution,
\* reconcile_terminal_crawl_run).  A handler that overlaps with its successor
\* may finish the run under it, so the ends are not claimed where leases are lost.
OutcomeFollowsUnit ==
    /\ QuickTypeOK
    /\ RetriesStayWithinBudget /\ GenerationsCountActions
    /\ "lease" \notin setting.faults => EndAgreesWithUnit /\ JobFollowsRun

\* What is recorded can be shown: a unit with a result has the evidence of it in
\* its own generation (persist_current_work), and a row of the artifacts table
\* names a file that survives a loss of power (publish_temporary).
EvidenceExists == ResultHasEvidence /\ RecordedArtifactsExist

\* A completed, partial or cancelled result is replaced only in a later
\* generation: no crash, replay or second handler fetches the page again
\* (select_work, persist_current_work).
StableStep ==
    work.state \in Outcome \ {"FAILED"} => work'.state = work.state \/ work'.gen > work.gen
ResultsAreStable == [][StableStep]_quickVars

=============================================================================

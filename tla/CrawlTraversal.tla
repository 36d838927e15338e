--------------------------- MODULE CrawlTraversal ---------------------------
(***************************************************************************)
(* One production crawl run: the handler that drives the shared            *)
(* SemanticTraversal (erabi-jobs, production/crawl_stage.rs), the durable  *)
(* rows it projects it to (erabi-db, crawl_traversal.rs and                *)
(* crawl_execution.rs), recovery generations, and the facts its run is     *)
(* finalized from.                                                         *)
(*                                                                         *)
(* An action is one transaction of a handler or one provider answer.       *)
(* Between two of them the process may crash, the lease may pass to        *)
(* another handler while the old one keeps going, and the owner may cancel.*)
(* The queue itself is JobStore's; here a job is its kind, its attempts    *)
(* and who holds its lease.                                                *)
(***************************************************************************)
EXTENDS SemanticTraversal

CONSTANTS
    Handler,      \* handler instances; two of them let a stale one overlap
    Settings,     \* what a run may meet: see Setting
    MaxJobs,      \* bound on the jobs of the run
    MaxTries,     \* max_attempts of every job
    MaxGen,       \* bound on a work generation
    NoHandler

\* What a run meets: the observations each URL may answer with, the URLs whose
\* provider operation may fail, the recovery actions the owner asks for, the
\* faults that happen, and a bound on its jobs.
Setting ==
    [content : [Url -> SUBSET Observation],
     mayFail : SUBSET Url,
     actions : SUBSET {"RETRY", "RETRY_FAILED_PARTS", "RESUME_CHECKPOINT"},
     faults  : SUBSET {"crash", "lease", "late", "cancel", "pressure"},
     jobs    : 1..MaxJobs]

CrawlAssumption ==
    /\ TraversalAssumption
    /\ Settings \subseteq Setting
    /\ \A s \in Settings : \A u \in Url : \A obs \in s.content[u] : IsFiniteSet(obs.links)
    /\ {MaxJobs, MaxTries, MaxGen} \subseteq Nat \ {0}
    /\ NoHandler \notin Handler

VARIABLES
    setting,   \* the setting of this run
    rows,      \* crawl_url_state by canonical URL
    control,   \* crawl_traversal_control and the per-source edge counts
    evidence,  \* discovered_urls: <<canonical URL, status>>, append-only
    execs,     \* crawl_execution_results, append-only
    prepared,  \* crawl_recovery_actions of each job: its items' generations
    jobs,      \* the kinds of the run's jobs; the last one is the current one
    jobState, tries, owner,  \* of the current job
    saved,     \* the current attempt has appended a checkpoint
    status,    \* crawl_runs.status
    ckpt,      \* some checkpoint exists in the lineage
    h          \* the handlers

durable == <<rows, control, evidence, execs, prepared>>
queue   == <<jobs, jobState, tries, owner, saved>>
crawlVars == <<setting, durable, queue, status, ckpt, h>>

WorkState == {"PENDING", "RUNNING", "COMPLETED", "PARTIAL", "FAILED"}
NoWork    == "NO_WORK"

\* A row of crawl_url_state.  to is resolved_to; seq, depth, type and work are
\* NULL (0 and NoWork) unless the row is ADMITTED; exec says whether
\* current_execution_id is set.
NoRow == [adm |-> "NONE", to |-> Invalid, seq |-> 0, depth |-> 0, type |-> NoType,
          pag |-> FALSE, work |-> NoWork, gen |-> 0, exec |-> FALSE,
          sampled |-> FALSE, expanded |-> FALSE, inScope |-> FALSE]

NoControl == [exists |-> FALSE, bytes |-> 0, timeHit |-> FALSE, unexpanded |-> FALSE,
              truncated |-> FALSE, late |-> FALSE, edges |-> NewTraversal.edges]

NoPage  == [url |-> Invalid, final |-> Invalid, gen |-> 0, outcome |-> "NONE"]
Idle    == [pc |-> "idle", t |-> NewTraversal, page |-> NoPage, paths |-> {},
            late |-> FALSE, next |-> "none"]

Kind == jobs[Len(jobs)]
This == Len(jobs)
Admitted(R)  == {u \in Url : R[u].adm = "ADMITTED"}
Present(R)   == {u \in Url : R[u].adm # "NONE"}

CrawlInit ==
    /\ setting \in Settings
    /\ rows = [u \in Url |-> NoRow]
    /\ control = NoControl
    /\ evidence = {} /\ execs = {}
    /\ prepared = [j \in 1..MaxJobs |-> [done |-> FALSE, gens |-> <<>>]]
    /\ jobs = <<"PRODUCTION_CRAWL">>
    /\ jobState = "QUEUED" /\ tries = 0 /\ owner = NoHandler /\ saved = FALSE
    /\ status = "QUEUED"
    /\ ckpt = FALSE
    /\ h = [w \in Handler |-> Idle]

-----------------------------------------------------------------------------
(* The durable projection of a traversal.                                   *)

\* upsert_discovery_state.  A RESOLVED row refuses to be admitted again, a
\* PRESERVE_ONLY row refuses to become admitted; a PENDING row takes the
\* traversal's queue placement; any other row keeps what it has.
UpsertAccepts(R, t) ==
    \A u \in DOMAIN t.queued : R[u].adm \in {"NONE", "ADMITTED"}

\* Mutant of Upsert: a row that has its result is made PENDING again.
ReopenedByUpsert(R, t, u) ==
    LET e == t.queued[u]
    IN  [R[u] EXCEPT !.adm = "ADMITTED", !.work = "PENDING", !.seq = e.order,
                     !.depth = e.depth, !.type = e.type, !.pag = e.pag]

Upsert(R, t, u) ==
    LET e == t.queued[u]
        placed == [R[u] EXCEPT !.seq = e.order, !.depth = e.depth,
                               !.type = e.type, !.pag = e.pag]
    IN  IF R[u].adm = "NONE" THEN [placed EXCEPT !.adm = "ADMITTED", !.work = "PENDING"]
        ELSE IF R[u].work = "PENDING" THEN placed ELSE R[u]

\* Evidence whose URL has no row of its own becomes a PRESERVE_ONLY row
\* (insert_state of a new record).
Preserved(R, t, paths, u) ==
    /\ R[u].adm = "NONE"
    /\ \E p \in paths : p[1] = u /\ p[2] # "ADMITTED"

Materialize(R, t, paths) ==
    [u \in Url |->
        IF u \in DOMAIN t.queued THEN Upsert(R, t, u)
        ELSE IF Preserved(R, t, paths, u) THEN [R[u] EXCEPT !.adm = "PRESERVE_ONLY"]
        ELSE R[u]]

\* reconcile_redirect.  An alias resolved to the same final URL is replayed; a
\* final URL without a row takes a copy of the alias's, admission sequence
\* included, while the alias still has it.
RedirectAccepts(R, a, f) ==
    \/ a = f
    \/ R[a].adm = "RESOLVED" /\ R[a].to = f
    \/ R[a].adm = "ADMITTED" /\ R[f].adm \in {"NONE", "ADMITTED"}

Resolved(R, a, f) == [NoRow EXCEPT !.adm = "RESOLVED", !.to = f, !.gen = R[a].gen,
                                   !.pag = R[a].pag]

Reconcile(R, a, f) ==
    IF a = f \/ R[a].adm = "RESOLVED" THEN R
    ELSE [R EXCEPT ![a] = Resolved(R, a, f),
                   ![f] = IF @.adm = "NONE" THEN [R[a] EXCEPT !.exec = FALSE] ELSE @]

\* The rows a redirect leaves behind while its transaction runs: the copy is
\* inserted before the alias gives its sequence up.
Copied(R, a, f) ==
    IF a # f /\ R[a].adm = "ADMITTED" /\ R[f].adm = "NONE"
    THEN [R EXCEPT ![f] = [R[a] EXCEPT !.exec = FALSE]] ELSE R

\* crawl_url_state_admission_sequence_unique.
SequencesUnique(R) ==
    \A u, v \in Admitted(R) : u # v => R[u].seq # R[v].seq

\* apply_semantic_projection overwrites the four semantic columns of every URL
\* the traversal has seen, and fails when rows and traversal disagree on them.
ProjectionAccepts(R, t) == t.seen = Present(R)

Project(R, t) ==
    [u \in Url |->
        IF u \notin t.seen THEN R[u]
        ELSE [R[u] EXCEPT !.sampled = u \in t.sampled,
                          !.expanded = u \in t.expanded,
                          !.inScope = u \in t.inScope]]

\* A page that was not redirected presents the generation it was dispatched at;
\* an alias presents the final unit's own.
GenerationMatches(R, page) == page.url = page.final => R[page.final].gen = page.gen

\* mark_in_flight_work of the observed page.
InFlightAccepts(R, page) ==
    \/ page.outcome = "FAILED"
    \/ /\ R[page.final].adm = "ADMITTED"
       /\ GenerationMatches(R, page)
       /\ \/ R[page.final].work \in {"PENDING", "RUNNING"}
          \/ R[page.final].work = "COMPLETED" /\ R[page.final].exec
MarkInFlight(R, page) ==
    IF page.outcome = "FAILED" \/ R[page.final].work = "COMPLETED" THEN R
    ELSE [R EXCEPT ![page.final].work = "RUNNING"]

\* Mutant of ControlOf: the edges charged to a source page are not stored.
EdgesNotStored(t, late) ==
    [exists |-> TRUE, bytes |-> t.bytes, timeHit |-> t.timeHit,
     unexpanded |-> t.unexpanded, truncated |-> t.truncated, late |-> late,
     edges |-> NewTraversal.edges]

ControlOf(t, late) ==
    [exists |-> TRUE, bytes |-> t.bytes, timeHit |-> t.timeHit,
     unexpanded |-> t.unexpanded, truncated |-> t.truncated, late |-> late,
     edges |-> t.edges]

\* replace_transition_counts: edges are charged to ADMITTED units only.  A page
\* that a retry finds redirected after its links were charged is refused here.
CountsAccept(R, t) ==
    \A i \in DOMAIN t.edges, u \in Url : t.edges[i][u] > 0 => R[u].adm = "ADMITTED"

\* apply_discovery_delta_with_projection: all of it commits or none.
SyncAccepts(t, paths) ==
    LET R == Materialize(rows, t, paths) IN
    /\ UpsertAccepts(rows, t)
    /\ SequencesUnique(R)
    /\ ProjectionAccepts(R, t)
    /\ CountsAccept(R, t)

DiscoveryAccepts(t, paths, page) ==
    LET R1 == Materialize(rows, t, paths)
        R2 == Reconcile(R1, page.url, page.final)
    IN  /\ UpsertAccepts(rows, t)
        /\ SequencesUnique(R1)
        /\ RedirectAccepts(R1, page.url, page.final)
        /\ SequencesUnique(Copied(R1, page.url, page.final))
        /\ ProjectionAccepts(R2, t)
        /\ InFlightAccepts(Project(R2, t), page)
        /\ CountsAccept(R2, t)

Discovered(t, paths, page) ==
    MarkInFlight(Project(Reconcile(Materialize(rows, t, paths), page.url, page.final), t),
                 page)

-----------------------------------------------------------------------------
(* Reconstruction: the traversal a handler rebuilds from the rows.          *)
EntryOf(R, u) == [depth |-> R[u].depth, type |-> R[u].type, order |-> R[u].seq,
                  pag |-> R[u].pag]

Reconstructed(R, c, selected) ==
    LET pending == {u \in selected : R[u].work = "PENDING"}
        adm     == Admitted(R)
    IN  [queued     |-> [u \in pending |-> EntryOf(R, u)],
         admitted   |-> adm,
         seen       |-> Present(R),
         sampled    |-> {u \in Url : R[u].sampled},
         expanded   |-> {u \in Url : R[u].expanded},
         inScope    |-> {u \in Url : R[u].inScope},
         newly      |-> Cardinality(adm),
         scheduled  |-> [p \in PageType |-> Cardinality({u \in adm : R[u].type = p})],
         edges      |-> c.edges,
         bytes      |-> c.bytes,
         timeHit    |-> c.timeHit, unexpanded |-> c.unexpanded, truncated |-> c.truncated]

Selection(j) == DOMAIN prepared[j].gens

RecoveryEntries(R, S) ==
    [u \in {v \in S : R[v].work # "COMPLETED"} |-> EntryOf(R, u)]

-----------------------------------------------------------------------------
(* The job around the handler.                                              *)
Become(w, rec) == h' = [h EXCEPT ![w] = rec]
Goto(w, pc) == Become(w, [h[w] EXCEPT !.pc = pc])

Acquire(w) ==
    /\ jobState = "QUEUED" /\ owner = NoHandler /\ h[w].pc = "idle"
    /\ owner' = w /\ jobState' = "RUNNING" /\ tries' = tries + 1 /\ saved' = FALSE
    /\ \E late \in {control.late, control.late \/ ("late" \in setting.faults)} :
          Become(w, [Idle EXCEPT !.pc = "start", !.late = late])
    /\ UNCHANGED <<durable, jobs, status, ckpt>>

TerminalRun == {"SUCCEEDED", "PARTIAL_RESULT", "FAILED", "CANCELLED"}
JobStateOf(s) ==
    CASE s = "FAILED" -> "FAILED" [] s = "CANCELLED" -> "CANCELLED" [] OTHER -> "SUCCEEDED"

\* What becomes of the job whose handler is gone: it follows a run that ended;
\* otherwise it is queued again when it may be and attempts are left, or it
\* fails and takes its run with it.
Release(again) ==
    /\ owner' = NoHandler
    /\ \/ /\ status \in TerminalRun
          /\ jobState' = JobStateOf(status) /\ UNCHANGED status
       \/ /\ status \notin TerminalRun /\ again /\ tries < MaxTries
          /\ jobState' = "QUEUED" /\ UNCHANGED status
       \/ /\ status \notin TerminalRun /\ ~(again /\ tries < MaxTries)
          /\ jobState' = "FAILED" /\ status' = "FAILED"
    /\ UNCHANGED <<jobs, tries, saved>>

\* An error the handler returns.  Only the owner's settles the job; its
\* diagnostic says whether a retry is in order.
Fail(w) ==
    /\ Become(w, Idle)
    /\ IF owner = w THEN \E again \in BOOLEAN : Release(again)
       ELSE UNCHANGED <<queue, status>>
    /\ UNCHANGED <<durable, ckpt>>

\* Recovery at startup and at lease expiry requeues a job only from a
\* checkpoint of the attempt that was lost.
Crash ==
    /\ "crash" \in setting.faults
    /\ \E w \in Handler : h[w].pc # "idle"
    /\ h' = [w \in Handler |-> Idle]
    /\ IF jobState = "RUNNING" THEN Release(saved) ELSE UNCHANGED <<queue, status>>
    /\ UNCHANGED <<durable, ckpt>>

\* The lease expires under a handler that does not know yet.
LeaseExpires ==
    /\ "lease" \in setting.faults
    /\ owner # NoHandler
    /\ Release(saved)
    /\ UNCHANGED <<durable, ckpt, h>>

TimePasses(w) ==
    /\ "late" \in setting.faults
    /\ h[w].pc \in {"loop", "fetch"} /\ ~h[w].late
    /\ Become(w, [h[w] EXCEPT !.late = TRUE])
    /\ UNCHANGED <<durable, queue, status, ckpt>>

\* The owner asks for a recovery of a failed or cancelled job.
FailedParts == {u \in Admitted(rows) : rows[u].work \in {"FAILED", "PARTIAL"}}
Ask(k) ==
    /\ jobState \in {"FAILED", "CANCELLED"}
    /\ Len(jobs) < setting.jobs
    /\ k # "RETRY" => ckpt
    /\ k = "RETRY_FAILED_PARTS" => FailedParts # {}
    /\ jobs' = Append(jobs, k)
    /\ jobState' = "QUEUED" /\ tries' = 0
    /\ status' = "QUEUED"
    /\ UNCHANGED <<durable, owner, saved, ckpt, h>>

-----------------------------------------------------------------------------
(* run_crawl_stage up to its loop.                                          *)
Recovering == Kind \in {"RETRY", "RETRY_FAILED_PARTS", "RESUME_CHECKPOINT"}
Acting     == Kind \in {"RETRY", "RETRY_FAILED_PARTS"}

\* The checkpoint decides between a fresh traversal and a restored one; the
\* run becomes RUNNING.
StartRefused ==
    \/ Recovering /\ ~ckpt
    \/ ~ckpt /\ evidence # {}
    \/ ckpt /\ ~control.exists
    \/ Recovering /\ status = "SUCCEEDED"
    \/ ~Recovering /\ status \notin {"QUEUED", "RUNNING"}

Start(w) ==
    /\ h[w].pc = "start"
    /\ IF StartRefused THEN Fail(w)
       ELSE /\ status' = "RUNNING"
            /\ Goto(w, IF ~ckpt THEN "fresh" ELSE IF Acting THEN "adopt" ELSE "restore")
            /\ UNCHANGED <<durable, queue, ckpt>>

\* initialize_run_state_with_checkpoint_and_evidence: the roots, their evidence,
\* the control row and the first checkpoint, in one transaction.
InitialRows(roots) == Project(Materialize(rows, roots.t, roots.paths), roots.t)
Initialize(w) ==
    /\ h[w].pc = "fresh"
    /\ IF owner # w \/ control.exists THEN Fail(w)
       ELSE /\ rows' = InitialRows(AdmitRoots)
            /\ evidence' = evidence \cup AdmitRoots.paths
            /\ control' = ControlOf(AdmitRoots.t, h[w].late)
            /\ ckpt' = TRUE /\ saved' = TRUE
            /\ Become(w, [h[w] EXCEPT !.pc = "loop", !.t = AdmitRoots.t])
            /\ UNCHANGED <<execs, prepared, jobs, jobState, tries, owner, status>>

\* A retry takes its source's checkpoint over before it selects, so that the
\* queue can replay it.
Adopt(w) ==
    /\ h[w].pc = "adopt"
    /\ IF owner # w THEN Fail(w)
       ELSE /\ saved' = TRUE
            /\ Goto(w, "prepare")
            /\ UNCHANGED <<durable, jobs, jobState, tries, owner, status, ckpt>>

\* prepare_recovery_action.
Recoverable ==
    IF Kind = "RETRY" THEN {"PENDING", "FAILED", "PARTIAL", "CANCELLED"} ELSE {"FAILED", "PARTIAL"}
Selected == {u \in Admitted(rows) : rows[u].work \in Recoverable}

PrepareAgain(w) ==
    /\ h[w].pc = "prepare" /\ owner = w /\ prepared[This].done
    /\ IF \A u \in Selection(This) : rows[u].gen = prepared[This].gens[u]
       THEN Goto(w, "restore") /\ UNCHANGED <<durable, queue, status, ckpt>>
       ELSE Fail(w)

PrepareFirst(w) ==
    /\ h[w].pc = "prepare" /\ owner = w /\ ~prepared[This].done
    /\ \A u \in Selected : rows[u].gen < MaxGen
    /\ prepared' = [prepared EXCEPT ![This] =
                      [done |-> TRUE, gens |-> [u \in Selected |-> rows[u].gen + 1]]]
    /\ rows' = [u \in Url |->
                  IF u \in Selected
                  THEN [rows[u] EXCEPT !.gen = @ + 1, !.work = "PENDING", !.exec = FALSE]
                  ELSE rows[u]]
    /\ Goto(w, "restore")
    /\ UNCHANGED <<control, evidence, execs, queue, status, ckpt>>

PrepareStale(w) == h[w].pc = "prepare" /\ owner # w /\ Fail(w)

\* reconstruct_traversal_checkpoint and the restore it feeds.
Restore(w) ==
    /\ h[w].pc = "restore"
    /\ LET selected == IF Acting THEN Selection(This) ELSE Url
           c        == Reconstructed(rows, control, selected)
           entries  == RecoveryEntries(rows, selected)
       IN  IF Acting
           THEN IF RecoveryAccepts(c, entries)
                THEN Become(w, [h[w] EXCEPT !.pc = "sync", !.next = "loop",
                                            !.t = RestoredForRecovery(c, entries)])
                     /\ UNCHANGED <<durable, queue, status, ckpt>>
                ELSE Fail(w)
           ELSE IF RestoreAccepts(c)
                THEN Become(w, [h[w] EXCEPT !.pc = "sync", !.next = "loop", !.t = c])
                     /\ UNCHANGED <<durable, queue, status, ckpt>>
                ELSE Fail(w)

\* synchronize_traversal_state: no lease is presented to this transaction.
Sync(w) ==
    /\ h[w].pc = "sync"
    /\ IF SyncAccepts(h[w].t, {})
       THEN /\ rows' = Project(Materialize(rows, h[w].t, {}), h[w].t)
            /\ control' = ControlOf(h[w].t, h[w].late)
            /\ Goto(w, "save")
            /\ UNCHANGED <<evidence, execs, prepared, queue, status, ckpt>>
       ELSE Fail(w)

\* save_checkpoint, which the lease guards, and what follows it.
Save(w) ==
    /\ h[w].pc = "save"
    /\ IF owner = w
       THEN /\ ckpt' = TRUE /\ saved' = TRUE
            /\ Goto(w, h[w].next)
            /\ UNCHANGED <<durable, jobs, jobState, tries, owner, status>>
       ELSE Fail(w)

-----------------------------------------------------------------------------
(* The loop.                                                                *)

\* The generation of the next unit is read before the provider is asked.
Dispatch(w) ==
    LET t == h[w].t  u == NextUrl(t) IN
    /\ h[w].pc = "loop" /\ ~Exhausted(t, h[w].late)
    /\ IF rows[u].adm # "ADMITTED" THEN Fail(w)
       ELSE /\ Become(w, [h[w] EXCEPT !.pc = "fetch",
                                      !.page = [NoPage EXCEPT !.url = u, !.gen = rows[u].gen]])
            /\ UNCHANGED <<durable, queue, status, ckpt>>

Complete(w) ==
    /\ h[w].pc = "loop" /\ Exhausted(h[w].t, h[w].late)
    /\ Become(w, [h[w] EXCEPT !.pc = "sync", !.next = "finalize",
                              !.t = AtCompletion(@, h[w].late)])
    /\ UNCHANGED <<durable, queue, status, ckpt>>

Popped(t, u) == [t EXCEPT !.queued = Without(@, u)]

\* An observed page of an ambiguous type leaves evidence of its own.
PageEvidence(f) ==
    IF InScope(f) /\ Match[f] = "AMBIGUOUS" THEN {<<f, "AMBIGUOUS_PAGE_TYPE">>} ELSE {}

\* The provider's answers.  A body larger than what is left of the byte budget
\* is an invalid observation, which ends the handler with an error.
Observed(w, obs) ==
    LET t == h[w].t  u == h[w].page.url  e == t.queued[u]
        r == ProcessObservation(Popped(t, u), u, e, obs, h[w].late)
    IN  /\ h[w].pc = "fetch"
        /\ IF obs.bytes > MaxBytes - t.bytes THEN Fail(w)
           ELSE /\ Become(w, [h[w] EXCEPT
                      !.pc = "discover", !.t = r.t,
                      !.paths = r.paths \cup PageEvidence(obs.final),
                      !.page = [@ EXCEPT !.final = obs.final,
                                         !.outcome = IF obs.full THEN "COMPLETED" ELSE "PARTIAL"]])
                /\ UNCHANGED <<durable, queue, status, ckpt>>

\* A failed operation and a robots exclusion leave the traversal as it was.  A
\* page whose execution is recorded as CANCELLED is not told from a failed one.
PageFailed(w) ==
    LET t == h[w].t  u == h[w].page.url IN
    /\ h[w].pc = "fetch" /\ u \in setting.mayFail
    /\ Become(w, [h[w] EXCEPT !.pc = "discover", !.paths = {},
                     !.t = [Popped(t, u) EXCEPT !.timeHit = t.timeHit \/ h[w].late],
                     !.page = [@ EXCEPT !.final = u, !.outcome = "FAILED"]])
    /\ UNCHANGED <<durable, queue, status, ckpt>>

\* Cancellation or storage pressure interrupts the fetch: the unit stays queued.
Interrupted(w, why) ==
    /\ h[w].pc = "fetch" /\ why \in setting.faults
    /\ Become(w, [h[w] EXCEPT !.pc = "sync", !.next = why])
    /\ UNCHANGED <<durable, queue, status, ckpt>>

Discover(w) ==
    LET t == h[w].t  page == h[w].page IN
    /\ h[w].pc = "discover"
    /\ IF DiscoveryAccepts(t, h[w].paths, page)
       THEN /\ rows' = Discovered(t, h[w].paths, page)
            /\ evidence' = evidence \cup h[w].paths
            /\ control' = ControlOf(t, h[w].late)
            /\ Goto(w, "execute")
            /\ UNCHANGED <<execs, prepared, queue, status, ckpt>>
       ELSE Fail(w)

\* persist_current_work; for an alias, persist_historical_work when the final
\* unit already has its result.  Both are guarded by the lease.
Current(page) ==
    /\ rows[page.final].adm = "ADMITTED"
    /\ rows[page.final].work \in {"PENDING", "RUNNING"}
    /\ GenerationMatches(rows, page)
Historical(page) ==
    /\ page.url # page.final
    /\ rows[page.final].adm = "ADMITTED"
    /\ rows[page.final].work \notin {"PENDING", "RUNNING"}
    /\ rows[page.final].exec

ExecutionOf(page) ==
    [url |-> page.final, gen |-> rows[page.final].gen, outcome |-> page.outcome]
WorkAfter(page) ==
    IF Current(page)
    THEN [rows EXCEPT ![page.final].work = page.outcome, ![page.final].exec = TRUE]
    ELSE rows

Execute(w) ==
    LET page == h[w].page IN
    /\ h[w].pc = "execute"
    /\ IF owner = w /\ (Current(page) \/ Historical(page))
       THEN /\ execs' = execs \cup {ExecutionOf(page)}
            /\ rows' = WorkAfter(page)
            /\ \E next \in {"loop"} \cup (setting.faults \cap {"cancel", "pressure"}) :
                  Become(w, [h[w] EXCEPT !.pc = "save", !.next = next,
                                         !.page = NoPage, !.paths = {}])
            /\ UNCHANGED <<control, evidence, prepared, queue, status, ckpt>>
       ELSE Fail(w)

-----------------------------------------------------------------------------
(* The end of a handler.                                                    *)
Planned   == Admitted(rows) \cup {x.url : x \in execs}
CompletedUrls == {u \in Admitted(rows) : rows[u].work \in {"COMPLETED", "PARTIAL"}}
Unresolved == {u \in Admitted(rows) : rows[u].work # "COMPLETED"}
Ambiguous == {p[1] : p \in {q \in evidence : q[2] = "AMBIGUOUS_PAGE_TYPE"}}

\* Mutant of StructurallyIncomplete: only the control row is consulted.
ControlIncomplete == control.unexpanded \/ control.truncated \/ Ambiguous # {}

\* reconstruct_crawl_structural_facts.
StructurallyIncomplete ==
    \/ Cardinality(CompletedUrls) < Cardinality(Planned)
    \/ Unresolved # {} \/ control.unexpanded
    \/ control.truncated
    \/ Ambiguous # {}

\* A run that ended otherwise keeps its status.
FinalStatus ==
    IF status \in TerminalRun \ {"SUCCEEDED"} THEN status
    ELSE IF StructurallyIncomplete THEN "PARTIAL_RESULT" ELSE "SUCCEEDED"

\* finalize() is guarded by the run's status, not by the lease: a handler that
\* lost it may still end the run.
End(w, to) ==
    IF status \in TerminalRun \ {to} THEN Fail(w)
    ELSE /\ status' = to
         /\ IF owner = w THEN owner' = NoHandler /\ jobState' = JobStateOf(to)
            ELSE UNCHANGED <<owner, jobState>>
         /\ Become(w, Idle)
         /\ UNCHANGED <<durable, jobs, tries, saved, ckpt>>

Finalize(w)  == h[w].pc = "finalize" /\ End(w, FinalStatus)
Cancelled(w) == h[w].pc = "cancel" /\ End(w, "CANCELLED")

\* Storage pressure puts the job back in the queue.
Pressed(w) ==
    /\ h[w].pc = "pressure"
    /\ Become(w, Idle)
    /\ IF owner = w THEN Release(saved) ELSE UNCHANGED <<queue, status>>
    /\ UNCHANGED <<durable, ckpt>>

-----------------------------------------------------------------------------
Step(w) ==
    \/ Acquire(w) \/ Start(w) \/ Initialize(w)
    \/ Adopt(w) \/ PrepareFirst(w) \/ PrepareAgain(w) \/ PrepareStale(w)
    \/ Restore(w) \/ Sync(w) \/ Save(w)
    \/ Dispatch(w) \/ Complete(w) \/ TimePasses(w)
    \/ \E obs \in UNION {setting.content[u] : u \in Url} :
          h[w].pc = "fetch" /\ obs \in setting.content[h[w].page.url] /\ Observed(w, obs)
    \/ PageFailed(w)
    \/ \E why \in {"cancel", "pressure"} : Interrupted(w, why)
    \/ Discover(w) \/ Execute(w)
    \/ Finalize(w) \/ Cancelled(w) \/ Pressed(w)

CrawlNext ==
    /\ UNCHANGED setting
    /\ \/ \E w \in Handler : Step(w)
       \/ \E k \in setting.actions : Ask(k)
       \/ Crash \/ LeaseExpires

CrawlSpec == CrawlInit /\ [][CrawlNext]_crawlVars

-----------------------------------------------------------------------------
(* Properties.                                                              *)

\* Every variable has its type.
CrawlTypeOK ==
    /\ \A u \in Url :
          /\ rows[u].adm \in {"NONE", "ADMITTED", "PRESERVE_ONLY", "RESOLVED"}
          /\ rows[u].to \in Url \cup {Invalid}
          /\ rows[u].work \in WorkState \cup {NoWork}
          /\ rows[u].type \in PageType \cup {NoType}
          /\ rows[u].gen \in 0..MaxGen
    /\ \A p \in evidence : p[1] \in Url
    /\ jobState \in {"QUEUED", "RUNNING", "SUCCEEDED", "FAILED", "CANCELLED"}
    /\ owner \in Handler \cup {NoHandler}
    /\ owner # NoHandler <=> jobState = "RUNNING"
    /\ status \in {"QUEUED", "RUNNING", "SUCCEEDED", "PARTIAL_RESULT", "FAILED", "CANCELLED"}

\* What a redirect left behind leads to a unit: no set of known URLs that is
\* closed under resolution is without one.  A unit that others resolved to may
\* resolve itself when a retry finds it redirected.
Known(R) == {u \in Url : R[u].adm \in {"ADMITTED", "RESOLVED"}}
Closed(R, S) == \A u \in S : R[u].adm = "RESOLVED" => R[u].to \in S
ResolutionsEnd(R) ==
    \A S \in SUBSET Known(R) : S # {} /\ Closed(R, S) => S \cap Admitted(R) # {}

\* validate_state of crawl_traversal.rs holds of every row, whatever two
\* handlers and a crash leave behind: reconstruct_recovery_state refuses the
\* whole run when one row breaks it.
RowsReconstructible ==
    /\ \A u \in Url :
          LET r == rows[u] IN
          /\ r.expanded => r.sampled
          /\ r.adm = "ADMITTED" <=> r.work # NoWork
          /\ r.adm = "PRESERVE_ONLY" => ~r.sampled /\ ~r.expanded
          /\ r.adm = "RESOLVED" => r.to # u /\ r.to \in Known(rows)
    /\ ResolutionsEnd(rows)

\* A unit's generation counts the recovery actions that selected it, however
\* often each of them was replayed, and a unit with a result has the execution
\* that says so at that generation.
GenerationsCountActions ==
    \A u \in Admitted(rows) :
        /\ rows[u].gen = Cardinality({j \in 1..MaxJobs : u \in Selection(j)})
        /\ rows[u].exec <=> rows[u].work \in {"COMPLETED", "PARTIAL", "FAILED"}
        /\ rows[u].exec =>
              [url |-> u, gen |-> rows[u].gen, outcome |-> rows[u].work] \in execs

\* At every safe boundary of its loop the handler's in-memory traversal is the
\* one a restart would rebuild from the rows: the same identities, budgets and
\* counters, every pending unit of its queue at its durable placement and, for a
\* job that is not a bounded retry, the same frontier.  Only a pending row takes
\* a new depth (upsert_discovery_state): a unit that failed in an earlier attempt
\* of the same retry may be nearer in memory than in its row.
MemoryIsDurable ==
    \A w \in Handler :
        (owner = w /\ h[w].pc = "loop") =>
            LET t == h[w].t
                c == Reconstructed(rows, control, Url)
            IN  /\ \A field \in DOMAIN c \ {"queued"} : t[field] = c[field]
                /\ \A u \in DOMAIN t.queued \cap DOMAIN c.queued : t.queued[u] = c.queued[u]
                /\ ~Acting => DOMAIN t.queued = DOMAIN c.queued

\* The owner never asks the provider for a unit whose generation is complete.
CompletedNotRefetched ==
    \A w \in Handler :
        (owner = w /\ h[w].pc = "fetch") => rows[h[w].page.url].work # "COMPLETED"

\* The rows are the truth about the crawl, over every crash, retry, redirect and
\* overlap: they can always be restored and generations count the recovery
\* actions; and while no handler outlives its lease, the owner's memory is what
\* they say and what they call complete is not fetched again.
Overlapping == "lease" \in setting.faults
RowsAreTheTruth ==
    /\ CrawlTypeOK /\ RowsReconstructible /\ GenerationsCountActions
    /\ ~Overlapping => MemoryIsDurable /\ CompletedNotRefetched

\* The frozen budgets bind the durable run, over every crash and retry: pages,
\* pages per PageType, and edges per transition and source
\* (check_transition_budget, DiscoveryBudgetEvaluator).
BudgetsHold ==
    ~Overlapping =>
    /\ Cardinality(Admitted(rows)) <= MaxPages
    /\ \A p \in PageType :
          Cardinality({u \in Admitted(rows) : rows[u].type = p}) <= PageBudget[p]
    /\ \A i \in DOMAIN Transition :
          /\ Cardinality(EdgesOf(control.edges[i])) <= Transition[i].total
          /\ \A u \in Url : control.edges[i][u] <= Transition[i].perPage

\* A run that says SUCCEEDED has a completed unit, with the execution that says
\* so, for every URL it ever recorded as admitted: the URL itself or one that it
\* resolved to.
SucceededIsComplete ==
    ~Overlapping /\ status = "SUCCEEDED" =>
        \A p \in evidence : p[2] = "ADMITTED" =>
            \A S \in SUBSET Url : p[1] \in S /\ Closed(rows, S) =>
                \E u \in S :
                    /\ rows[u].work = "COMPLETED"
                    /\ [url |-> u, gen |-> rows[u].gen, outcome |-> "COMPLETED"] \in execs

\* Without a lease nobody changes a result: current work leaves what it came to
\* only when a recovery action raises its generation or a redirect resolves it,
\* and executions and evidence are never withdrawn (persist_current_work,
\* prepare_recovery, reconcile_redirect).
StableStep ==
    /\ execs \subseteq execs'
    /\ evidence \subseteq evidence'
    /\ \A u \in Url :
          rows[u].work \in {"COMPLETED", "PARTIAL", "FAILED"} =>
             \/ rows'[u].work = rows[u].work
             \/ rows'[u].gen > rows[u].gen
             \/ rows'[u].adm = "RESOLVED"
ResultsAreStable == [][StableStep]_crawlVars
=============================================================================

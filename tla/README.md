# Erabi: a TLA+ verification of a local crawl studio

Erabi is a Rust workspace that stores crawler configurations in SQLite, runs
crawls as durable jobs, paces its requests to the sites it crawls and serves
progress to a browser. This directory holds TLA+ modules that model it, TLC
configurations that check them on small instances, and TLAPS proofs, for all
instances, of what the job queue, the process around it, the signals, the
database actor, startup, a Production crawl, a Quick Scrape, pacing, authoring, the
progress stream and submissions promise.

## 1. Inventory

| part | state | operations | interacts through |
|---|---|---|---|
| job queue (`erabi-db` `repositories/job.rs`) | `jobs`, `job_attempts`: state, lease, generation, attempts, priority, schedule, parent | enqueue, acquire, heartbeat, succeed, fail, cancel, requeue, reprioritize, remove, recover, reconcile | one SQLite transaction per call |
| checkpoints (`checkpoint.rs`) | `job_checkpoints`, append-only, each owned by an attempt | append under a lease, assess stale jobs | same transactions |
| crawl runs (`run.rs`, `crawl_execution.rs`) | `crawl_runs.status`, execution records, summary | start, recovery start, restart, persist work, finalize, cancel | handlers, queue reconciliation |
| progress (`progress.rs`, `erabi-api/progress.rs`) | an event sequence per job, the live hub, each client's position | append, publish, replay, follow, reconnect | handlers, reconciliation, SSE |
| worker runtime (`erabi-jobs/lib.rs`) | the current turn: lease copy, tokens, commit mark | `execute_next_at`, heartbeat, settle the result | queue, handler, controllers |
| Quick Scrape handler (`quick_scrape.rs`) | one unit of work, artifacts on disk | activate, capture, store, record, checkpoint, finalize | queue, run, stream, files |
| Production handler (`production/`, `crawl_traversal.rs`, `discovery_preview/`) | frontier in memory; URL rows, generations, transition counts in the database | select, fetch, expand, redirect, record, checkpoint, recover, finalize | queue, run, pacing |
| job actions (`actions.rs`, `erabi-api/job_actions.rs`) | none | retry, retry failed parts, resume, restart, rerun, cancel, reprioritize, remove | queue, cancellation controller |
| signals (`cancellation.rs`, `storage_pressure.rs`) | requested jobs, active tokens, published level | request, cancel all, register, release, update | shared memory, tokio `Notify` |
| startup and shutdown (`erabi-cli`, `process_lock.rs`, `migrations.rs`) | lock file, schema table, stage, Recovery Mode, drain deadline | lock, migrate, verify, recover, serve, stop | everything |
| database actor (`erabi-db/worker.rs`) | one thread, a queue, a semaphore | call, park, wake, shut down | every repository |
| pacing (`pacing.rs`) | registry of origins, permits, delays, backoff | register, wait, grant, record, retire | handlers, Test Lab, preview |
| robots (`robots.rs`) | cache, one flight per origin; the parsed document | fetch, parse, evaluate | pacing |
| submission (`erabi-api/quick_scrape.rs`, `source_intake.rs`, `content_probe.rs`, `network_policy.rs`) | sources, snapshots, runs, root jobs | resolve, probe, classify, reuse, create | database actor, network |
| authoring (`repositories/crawler.rs`, `test_evidence.rs`) | crawler versions with their child rows, two pointers, test evidence | draft, edit, clone, test, publish, reactivate | API, Test Lab |
| Test Lab (`test_lab/service.rs`) | one evaluation | snapshot, capture, evaluate, compare, save | authoring, pacing |
| URL and matching rules (`erabi-domain`) | none: pure algorithms | canonicalise, decide scope, match, resolve | traversal, Test Lab, submission |
| HTTP surface, Crawl4AI adapter, telemetry, configuration | request handling only | | |

What is hard here: a lease that expires under a working handler; a crash
between two transactions that belong together (a page's result and the links
found on it, a run's end and its job's, a file and its row); requests that
arrive between two steps of a turn; several jobs that share one run; futures
dropped while they hold a permit, a registration or a place in a queue; tokens
set by one thread while another is about to wait; a client that reconnects while
events are published; two representations of one thing (JSON and rows, memory
and rows, a parsed document and its lines) kept in step by hand. `PROJECT.json`
lists the hazards, each at its line, with the properties that would catch it.

## 2. Modules

| module | models | run by |
|---|---|---|
| `JobLifecycle` | what the queue promises about one job, for any caller (abstract) | `store` |
| `JobStore` | the tables of queue, runs, checkpoints and terminal events, and every transaction on them | `store` |
| `JobStoreProofs` | theorems about `JobStore` | |
| `JobRuntime` | startup, worker, handlers by what they commit, controllers and API around `JobStore`; crashes | `runtime`, `runtime_live`, `runtime_reconcile` |
| `JobRuntimeProofs` | theorems about `JobRuntime`, on those of `JobStoreProofs` | |
| `Signals` | tokens and controllers at the granularity of locks and atomics | `signals`, `signals_cancel` |
| `SemanticTraversal` | the in-memory traversal preview and Production share, as operators | `crawl` |
| `CrawlTraversal` | a Production run page by page: rows, generations, crashes, lost leases | `crawl` |
| `CrawlTraversalProofs` | theorems about `CrawlTraversal` | |
| `QuickScrape` | a Quick Scrape run, its unit, its artifacts, its chain of jobs | `quick` |
| `QuickScrapeProofs` | theorems about `QuickScrape` | |
| `SemanticHash` | the configuration hash by colour refinement, as operators | `authoring` |
| `Authoring` | versions of a crawler, their child rows, evidence, publication | `authoring` |
| `AuthoringProofs` | theorems about `Authoring` | |
| `Pacing` | origin registry, permits, deadlines, robots cache and flights | `pacing`, `service` |
| `WakeupProofs` | theorems about `Signals` and `Pacing` | |
| `SerialDatabase` | what a repository may assume of the database (abstract) | `service` |
| `DatabaseWorker` | the thread, queue, semaphore and callers behind it | `service` |
| `Process` | processes of several builds on one data directory | `service` |
| `ServiceProofs` | theorems about `DatabaseWorker` and `Process` | |
| `ProgressStream` | events, hub, SSE clients | `service` |
| `ContentProbe` | file or page, from headers and the first bytes, as operators | `intake` |
| `Submission` | single and batch submission of Quick Scrapes | `intake` |
| `ApiProofs` | theorems about `ProgressStream` and `Submission` | |
| `RobotsRules` | the robots.txt parser and its decisions | `intake` |
| `UrlPolicy` | canonicalization, Domain Scope, page types | `intake` |
| `TestLab` | one test of a Draft against the traversal of a run | `intake` |
| `MC*` | bounds, scenarios and symmetry for TLC, and the properties of a run | |

How they fit together: `CrawlTraversal` uses `SemanticTraversal`, `TestLab` its
admission, `Authoring` uses `SemanticHash`, `Submission` `ContentProbe`;
`JobRuntime` extends `JobStore` and every step it takes on the tables is one of
`JobStore` (`RefinesStore`, proved); `JobStore` implements `JobLifecycle`;
`DatabaseWorker` implements `SerialDatabase`, which is why every other module may
take a repository call as one step. `CrawlTraversal` and `QuickScrape` keep of
the queue only who holds the lease, which attempt it is and what the job's end
is; that part is `JobStore`'s and checked there.

**JobStore.** One variable per column that matters (`state`, `lease`, `attempt`,
`gen`, ...), functions from jobs to values; `history` holds `job_attempts`,
`checkpoints` the owning attempt of each checkpoint, `stream` the terminal event
of the progress stream, `runs` the status of each run. An action is a
transaction, and its guard is the condition under which it commits; one that
returns an error rolls back and is no step. The caller is arbitrary: any lease
that could have been issued may be presented at any time. A lease id is a fresh
UUID, for which the pair of job and generation stands. Recovery of expired
leases visits several jobs in one transaction, in the order of their ids, and a
job that fails takes its run with it; the operators `StateR`, `HistoryR`, ...
give the tables as that loop leaves them without writing the loop.
`created_at` and `id` only break ties in the selection, so the model leaves ties
open. `enqueue` (a job without a run) has no caller outside tests and is kept
because it is part of the repository's interface.

**JobRuntime.** `turn` is one call of `execute_next_at`: its stage, its copy of
the lease, the two tokens, whether the lease was lost, the status the handler
committed and what the runtime decided. Each database call is one step, so
everything else may come between two of them. `Crash` loses exactly the
variables declared here. There is one worker, as in `spawn_crawl_root_worker`.

**Signals.** `request`, `cancel_all`, `update` and `register` broken into the
parts under one lock; a token's flag and its notification are two steps; the
waits follow the two `async fn`s line by line. `notify_waiters` is tokio's and
is modelled by its contract: it wakes the `Notified` futures that exist.
JobRuntime's atomic registration and signalling are justified by this module.

**CrawlTraversal.** `rows` is `crawl_url_state` with the work state and
generation of each, `control` the run's traversal control row with the edge
counts, `evidence` the discovered URLs with their status, `execs` the execution
records, `prepared` the generations opened by recovery actions. `setting` is what
the run meets (answers, failures, the owner's actions, faults), chosen once. A handler `h[w]` has its
place in the code, its lease's view and the in-memory traversal. One page takes
several transactions (admission, discovery, execution, checkpoint), and the
process may die, or the lease pass to the other handler, between any two. What a
fetch of a URL may show is a set of observations.
Redirects go to URLs the run has seen (one to an unseen URL is refused, section
6). A page is a number whose order is the collation the code sorts by.

**QuickScrape.** The one unit of work with its generation, `disk` and `recorded`
for artifact files before and after their sync, rename and row, the chain of
jobs with their attempts, and the handlers. `token` and `pressed` are the
signals as the handler reads them. `setting` is what a run may be and meet: the
classification of its page, the provider's answers, the owner's actions, the
faults and the submission's attempts; it is chosen once and never changes.

**Authoring.** `versions` holds the configuration JSON with the ids it declares,
`pages` and `transitions` the child rows; nothing but the code keeps them in
step. The hash is `SemanticHash` of what the rows describe, SHA-256 being taken
as injective. `lab` is a test between its snapshot and its save; `copy` the
version a caller of `save_draft` read earlier (see `Concurrent` in section 3).

**Pacing.** A task is one `execute_page`; the guards it holds are a stack that
is dropped last first when the task ends, fails or is cancelled at an await.
Deadlines are the time left. The registry, the permits of an origin, the
waiters' notifications, the robots cache and its flights are the state.

**DatabaseWorker.** `call` is what each caller waits for, `queue` the accepted
operations, `permits` the semaphore, `thread` and `lifecycle` the two halves of
the actor; a caller may be dropped at any await, an operation may panic.

**Process.** A process is a build (its migrations with checksums), its stage of
startup, its worker, its request in progress and how it stops; the lock, the
schema table and whether the data are sound belong to the directory.

**ProgressStream.** Appending and publishing are two steps; the hub is bounded
and drops the oldest; a client replays pages of durable events, follows the hub,
falls behind, refills, and reconnects with the last sequence it saw.

**Submission, ContentProbe.** One step per resolution, probe answer,
transaction or decision; the client may go away at any await, and a
transaction it had handed to the database actor is executed all the same.

**RobotsRules, UrlPolicy, TestLab.** Algorithms compared with a reference
definition: the parser is a state machine over lines and its groups are compared
with what the lines say; a link is offered, canonicalised, judged and typed and
the result compared with equality of targets, label-wise scope and ranking; what
a test of a transition shows is compared with what `SemanticTraversal` admits.

Each module also contains the mutants of some definitions, marked as such: the
form a plausible bug would give them. Replacing the definition by its mutant
makes TLC report the property named with it in `PROJECT.json`.

## 3. Runs

A scenario bounds what may happen; where several are needed they are initial
states of one run, told apart by the variable `scenario` (`setting` in `quick`
and `crawl`, `focus` where different modules stand side by side). The modules with theorems
are run themselves and not as instances, so that a theorem and a run speak of
one definition; their constants cover all scenarios. `runtime`, `pacing`,
`authoring` and `intake` (for `Submission`) explore the states that lie `Within`
a scenario, `quick` and `crawl` the settings each starts from. The scenarios of
`store` and of the algorithms of `intake`, and pacing in `service`, are instances
with constants of their own.

| run | scenarios | question |
|---|---|---|
| `store` | `one`: 1 job, 2 workers, 2 attempts, clock with expiring leases; `lineage`: 3 jobs of one run, clock at rest | Can any sequence of repository calls make the queue inconsistent, rewrite history, revive a lost holder or give a source two active continuations? Does it follow the lifecycle? |
| `runtime` | `roots`: 1 Production job, 2 attempts, storage OK or critical, a schedule; `retry`: 2 Production jobs that may share a run; `actions`: a Quick Scrape and its recovery action | Do run, job and stream agree through crashes, lease loss, cancellation and pressure? Does the worker survive, startup serve? Is every step one of `JobStore`? |
| `runtime_live` | 1 Quick Scrape, fair | Do cancellations take effect, are expired leases recovered? |
| `runtime_reconcile` | a Production job and its retry | Can startup always reconcile? (no: section 6) |
| `signals` | 1 job, 2 turns, 2 threads, fair | Is a turn ever left unsignalled, a storage wait unwoken? |
| `signals_cancel` | 1 job, 1 turn, 1 thread, fair | Is a wait for cancellation always woken? (no: section 6) |
| `crawl` | `Crashing`: crashes, cancellation, retry and resume; `Overtaken`: 2 handlers that overlap; `Redirected`: redirects, 3 jobs, crashes, time budget, pressure | Are the rows all a successor needs? Do budgets hold, are completed pages left alone, is SUCCEEDED complete? |
| `quick` | `Owned`: every owner's action; `Leased`: 2 handlers that overlap; `Filed`: I/O errors and losses of power | Do run and job end as the unit did, does evidence exist, is a result ever replaced? |
| `authoring` | `edit`: a draft through all edits; `versions`: 2 versions, clones; `evidence`: a test that races edits | Do JSON and rows stay in step, is evidence current while the meaning is, is a published version frozen, is a clone faithful? |
| `pacing` | `permits`: 3 tasks at 1 origin; `retire`: 2 origins, room for 1, every robots policy | Are permits accounted for, wake-ups never lost, grants polite? |
| `service` | `database`: 3 callers, 2 permits; `process`: 3 builds; `pacing`: 2 tasks; `progress`: 1 client, 2 jobs; fair | Is each part safe, does every wait end? |
| `intake` | `concurrent`, `batch` (`Submission`); `groups`, `patterns` (`RobotsRules`); `identity`, `scope`, `types` (`UrlPolicy`); `links`, `kinds` (`TestLab`) | Do concurrent requests agree, do the algorithms decide as their reference definitions? |

Ten runs pass; the two others show where the code and what is written about it
disagree.

*What a clause is not claimed of.* Where one scenario breaks a clause for a known
reason, the property says so:

* `NeverContradicted` is claimed while every run has one job. With a same-run
  recovery action a later job may end differently from its source, whose stream
  is closed by then, and startup refuses to reconcile (`runtime_reconcile`). What
  is left is `RetriesContradictNothing`: streams tell the truth and not too
  early, the worker survives, and startup is stopped by nothing but such a source
  (`EndedOtherwise`) or an inconsistent checkpoint. It is claimed while the
  recovery actions on a run form a chain (`ContinuedOnce`), and false otherwise:
  14 in section 6. With the two jobs of `runtime` there is no other shape, so the
  guard matters to the theorem, which speaks of any number. A Quick Scrape
  that exhausts its attempts leaves its run RUNNING (`fail_with_disposition`
  touches the job alone), so `RunSettled`, a part of `RuntimeSafe`, speaks of
  Production runs.
* `RowsAreTheTruth` does not compare the rows with memory in `Overtaken`: discovery
  deltas are not guarded by the lease (`crawl_traversal.rs:570`), so a handler
  that lost it may move rows under its successor. `OutcomeFollowsUnit` does not
  claim that run and unit agree where leases are lost: a Quick Scrape that lost
  its lease still finalizes its run. `ResultsAreStable` is what remains true of both.
* `Concurrent` is FALSE in `authoring`: a `save_draft` of a
  version read before another edit writes the ids it read back over the row, and
  JSON and rows part (section 6). No other pair of editing calls does that.
* `CompletedNotRefetched`, `MemoryIsDurable`, `BudgetsHold` and
  `SucceededIsComplete` are claimed where one handler at a time works (two
  overlapping ones each admit against the budgets of their own memory);
  redirects lead to URLs the run has seen.
* `MemoryIsDurable` compares depth only of pending units: a unit that failed in
  an earlier attempt of the same retry may be found nearer, which memory notes and
  its row does not (`upsert_discovery_state` updates pending rows only). The
  order of work within that retry then differs after a restart; its set does not.
* `EvidenceKept` and `CloneKeepsMeaning` say that what means the same has one hash,
  and not the converse, which is false: 8 in section 6.
* `UrlRulesAsDefined` compares spellings by what the code's policy says a query
  is: its pairs, kept or dropped by name. An empty pair (`/?`, `?a=1&`) is a pair,
  so a URL with one and the URL without it are two targets (13 in section 6).
* `SucceededIsComplete` follows redirects through their chains: the URL an alias
  resolved to may resolve again.

*Bounds.* Every interaction is between a holder and one thing that happens to
it, so one job with two or three attempts shows the earlier attempt, the lost
one and its successor; a second and third job are needed only for shared runs
and lineage. In `store` a lease lasts two ticks, so that it is renewed in time or
expires; in `runtime` it lasts one, so that it expires again under the next
holder, and a heartbeat either finds it current or lost. `MaxCheckpoints` is at
least one per attempt that must own one; `Horizon` bounds leases and retries. The
two-job scenarios of `runtime` have a clock of one tick, one cancellation at a
time, and neither critical storage nor a shutdown, which `roots` has. The sites
of `crawl` have two seeds, two further pages and an outside link, which is enough
for a chain, a cycle, a pagination link, a page found at two depths and a budget
that is met exactly; two generations show a
result, its reopening and its replacement. `authoring` needs two page types for
every reference between children and two versions for cloning; what a version
that is cloned may hold is bounded by `Within`. Three tasks at an origin are a holder, a waiter
and a third that is more restrictive than both; the robots cache holds one
entry so that it evicts. Three callers with two permits leave one waiting, one
queued and one executing. Patterns of `RobotsRules` have up to five characters
over three letters, which covers two wildcards around every overlap; documents
have up to five lines. `MaxEvents` and `Limit` make replay take two pages and the
hub of capacity one overflow. `InOrder` of `MCJobStore` numbers jobs by
submission: job ids are time-ordered UUIDs. Symmetry permutes interchangeable
runs, handlers or clients and is not used where liveness is checked.
`CHECK_DEADLOCK` is off where everything may be finished and the bounded clock
at its end; `JobRuntime`'s and `Signals`' fair runs check deadlock.

*Fairness.* `JobRuntime!Fairness`: tokio keeps polling the startup code, the
worker (every 100 ms), its heartbeat ticker and API tasks; time passes; a
handler whose token is cancelled returns. Nothing is assumed of a handler that
is not cancelled, of users or of storage. `BeyondClock` excuses a job only while
it waits for a time the bounded clock never shows. `Signals!FairSpec`: a thread
finishes the call it is in, woken futures are polled and a `select!` completes
with its first branch; its work branch may take for ever. `MCService!Fairness`:
the database thread and callers take their next step (an operation returns: its
SQL is local); a process that starts or stops goes on, and a dead worker makes
it stop (`serve_with_signal`); ready tasks of a paced origin
are polled and time passes (a fetch ends: it has a timeout); an SSE stream that
is connected is polled and an append is followed by its publication. Nothing
makes a client reconnect, a user cancel or a process start. Whether a crawl job
always settles is not checked: it needs fairness of the provider, the queue and
the clock together, and more states than fit.

## 4. Proofs

Eight modules prove theorems for every value of the constants. The properties
they state are the definitions the runs check.

**`JobStoreProofs`**, for every set of jobs, runs and workers and all bounds:

* `StoreTypeCorrect`: `StoreSpec => []TypeOK`;
* `StoreQueueConsistent`: `StoreSpec => []QueueConsistent`;
* `StoreHistoryImmutable`: finished attempts never change;
* `StoreAuthority`: authority is never regained;
* `StoreLineage`: a source has at most one active continuation, and checkpoints
  follow the attempts that wrote them;
* `StoreImplementsLifecycle`: `StoreSpec` implements `JobLifecycle!Spec`.

They rest on `StoreAssumption`, `NoLeaseAssumption` and `RequestedAssumption`
(numbers are numbers, the null values are none of the real ones), which TLC
evaluates. The inductive invariant is `TypeOK` with, for each job, the conjuncts
of `QueueConsistent` and `GenerationCounts`: every lease opens exactly one
attempt, so generations number the attempts and only the last one can be
running. Without it one could not tell that closing "the attempt of the lease"
closes one row, and the right one. The argument goes by rows: each transaction
does to each job one of a few things (create, lease, close, cancel, remove, leave
alone; `RowStep`), and each of these keeps the row consistent, its history intact
and follows the lifecycle. Recovery, which moves many jobs at once, is no special
case then.

**`JobRuntimeProofs`**, from `RuntimeConstants` and `RuntimeBounds` (the bounds
of the store cover the budgets and schedules the runtime uses):

* `RuntimeRefinesStore`: every step of startup, worker, heartbeat, handler and
  API is a step of `JobStore` or leaves the tables alone, so the six theorems
  above hold of the running system;
* `RuntimeIsSafe`: `RuntimeSpec => []RuntimeSafe`, a turn keeps its job, a
  requested cancellation reaches it, no Production run stays open without a job;
* `RetriesNeverContradict`: `RuntimeSpec => []RetriesContradictNothing`, and from
  the same invariant
* `RuntimeNeverContradicted`: `RuntimeSpec => []NeverContradicted`.

`RuntimeInv` adds to the store's invariant the shape of a turn at each stage,
that every job has a run and a budget, and that clock and leases stay within the
bounds (`Clocked`: without it a step of the runtime might be one the bounded
store does not take). For the last two theorems, `StoryInv` says which job states,
terminal events and run statuses go together (`Story`) and that what the turn
remembers of its run is so. Of several jobs of one run only the newest, the one
without a continuation, has a story with the run as it is now; those before it
have ended, and their streams tell how (`JobStory`). A run has one newest job
(`OneNewest`) because its jobs form a chain, and a continuation can only be of
that job (`SourceWasNewest`), which has ended. That is inductive only under
`ContinuedOnce`, the code's limit and not the prover's: see 14 in section 6.
Where every run has one job nothing can have `EndedOtherwise`, which is
`NeverContradicted`.

**`WakeupProofs`** on `Signals`: `SignalsReachTurns`, `Spec => []TurnsAreSignalled`, for
any jobs, threads and number of turns (from `MaxTurns \in Nat`). To the property
itself the inductive invariant adds what each stage of a turn has registered
(`TurnShape`: a thread that looks under the lock finds this turn's token or
none), that a set storage token was notified or is about to be
(`NotifiedAfterSet`), and that a `Notified` future made too late is found out by
the check that follows it (`CheckedAfterSubscribing`). The last one is what
`CancellationToken::cancelled` lacks, so no such theorem holds of it
(`signals_cancel`). One lemma per conjunct goes through the actions.

**`ServiceProofs`**, for any callers, any capacity of the queue, any builds and
processes (from `ProcessConstants`: the null process is none of the real ones):

* `ActorIsSafe` (`ActorSpec => []ActorSafe`) and `ActorIsSerial` (the actor
  implements `SerialDatabase`). `ActorInv` relates the stage of the thread to the
  lifecycle, and says that queue and doomed calls are the end of what was
  admitted, in order (`BacklogShape`), that the log is its beginning
  (`LogShape`), and that whoever has no answer is at hand or in that backlog
  (`AcceptedShape`): that is how a panic or a shutdown is known to answer
  everybody.
* `SchemaIsServed` and `WritesAreServing`. `ProcessInv` is the property with
  `Locked` (a process has the lock from its first step until it releases it, so
  the schema it checked is the one it serves) and `Staged` (worker and requests
  exist only in a Ready process).

**`QuickScrapeProofs`**, from `QuickAssumption` (the constants are of their
types): `QuickOutcome` (`[]OutcomeFollowsUnit`), `QuickEvidence`
(`[]EvidenceExists`) and `QuickStable` (`ResultsAreStable`), for any number of
handlers, jobs and attempts and every setting. `QuickInv` has a part for each
claim. The attempts spent and the attempts left of a budget never add up to more
than the submission's (`BudgetOK`). A generation has the row of the action that
opened it (`GenerationsOK`). No two active handlers work for the same attempt,
so an artifact is its writer's until its row is written, and is durable then
(`FileOK`, `OneAttemptEach`). While no lease is lost, the one active handler is
the owner and what it knows of unit and run is so (`Alone`); lost leases break
exactly this part, and the other claims do not use it.

**`CrawlTraversalProofs`**, from `CrawlAssumption` (the constants of the site and
of the frozen version are of their types, budgets are positive, observed links
are finite), for any number of handlers, jobs and attempts, any site and budgets:

* `ResultsStayStable` (`ResultsAreStable`), and of `RowsStayTrue`
  (`[]RowsAreTheTruth`) the part about the rows alone, with overlapping
  handlers. `CrawlInv` gives each row its shape in every combination of
  admission, work and result (`RowOK`; `RowsOK` adds that redirect chains end), counts the recovery actions
  that selected a unit (`WorkInv`), and says of each handler, whatever its
  lease, that what it carries was once true in a way no later step withdraws
  (`HandlerOK`). That is why a handler that lost its lease cannot spoil a row.
* the rest of `RowsStayTrue`, `BudgetsAlwaysHold` (`[]BudgetsHold`) and
  `SuccessIsComplete` (`[]SucceededIsComplete`), for runs in which no handler
  outlives its lease. `SoloInv` adds that the one active handler is the owner
  (`Alone`), that the rows are within the budgets (`Within`), that a SUCCEEDED
  run left no unit undone (`Ended`), and at each stage of the loop how memory and
  rows differ (`MemOf`): they agree at the boundaries, and between the
  transactions of a page memory is ahead by exactly what the next one writes
  (`Foretells`). The budgets are checked against memory and claimed of the rows,
  so nothing weaker suffices.

What the traversal computes from a page's links is a recursive function over the
number of links visited; the lemmas about it are proved by induction on that
number (`Counting`, from the well-foundedness of `<`).

**`WakeupProofs`** on `Pacing`, from `PacingConstants` (limits and delays are positive or
natural numbers, the null task and origin state are none of the real ones), for
any tasks, origins, limits and robots documents: `PacingIsSafe`
(`[]PacingSafe`) and `PacingIsPolite` (`GrantsArePolite`). The counters of an
origin state (permits, waiters, registrations) are what the guards on the tasks'
stacks say, and a stack grows and shrinks at its end only (`Stacked`), so one
lemma about a guard put on or dropped serves every action and every order in
which a cancelled task unwinds. `NoLostWakeup` is inductive as it stands: whoever
sleeps without a wake-up sleeps for a permit in use, or a notification is on its
way. `Paused` links time and registry: while an answer's pause lasts, its origin
is registered and one of its three deadlines covers it, which is why a state that
is retired had nothing left to remember.

**`AuthoringProofs`**, from `AuthoringConstants` and `~Concurrent` (no
`save_draft` of a version read before another edit: the code's own limit, 8 in
section 6): `VersionsStayWhole` (`[]VersionsAreWhole`), `PublishedStaysFrozen`
(`PublishedFrozen`) and, for finitely many matcher definitions,
`EvidenceStaysCurrent` (`[]EvidenceKept`) and `ClonesKeepMeaning`
(`CloneKeepsMeaning`). Every action changes the rows of one version or adds a
version with rows of its own (`Untouched`), so each conjunct of `AllWhole` is
shown once for the version that moves and holds of the others by framing; that
ids are never reused (tables only grow) keeps their references apart.

The last two rest on a fact about the hash alone, `MeaningIsHashed`: configurations
that mean the same (`SameMeaning`, a renaming of page types that keeps the number
of transitions between any two) have one hash, whatever their size and whatever
ids their children have. A bijection of the children that keeps kinds, references
and values (`Corresponds`) carries labels from round to round: what is sorted,
ranked or counted of a family of values does not depend on its indices
(`SortedAgrees`, `BagAgrees`), so signatures, ranks and the test for a last round
agree, by induction on the rounds (`LabelsAgree`), and so does the payload.
`RenamedHash` then gives that bijection for a renaming, kind by kind. The
converse is false, since the payload lists labels and values apart: 8 in section
6 is an instance.

**`ApiProofs`**, for any clients, jobs and sizes:

* `EventsOnce` (`EveryEventOnce`), from `ProgressConstants`: a client is shown
  each event once and in order. `ProgressInv` says that what a stream has
  pending is a run of consecutive sequences that starts at its cursor or before
  it (`Pending`), whichever of replay, refill and hub it came from, so dropping
  what the cursor has passed leaves exactly the next one. `EventsAreDurable`
  follows from the same invariant: no client sees, or acknowledges, an event
  that was not committed. It is stated by no run; `ShownIsDurable` is defined
  with it.
* `SubmissionsStayAgreed` (`[]SubmissionsAgree`) and `ClassificationStaysSound`
  (`[]ClassificationIsSound`), from `SubmissionAssumption` (the constants are of
  their types). `SubmissionInv` says what a request has in memory at each stage
  (`Local`: one outcome for each item it is past, a checked target, the type its
  run will freeze), that its Source is in the table for the URL of its item
  (`Linked`) and that its accepted items are the runs it made (`Reported`). A
  step of one request can only add a Source or mark one (`SourcesStay`), and that
  is all the others need to know: `NoRun` and `OneRunMore` are the two lemmas
  every action reduces to.

Only model-checked, and why:

* liveness and leads-to (`EveryCallEnds`, `CancellationTakesEffect`,
  `StoppingEnds`, `EveryTaskEnds`, `EventsAreShown`, ...): the prover has no
  fairness and no ENABLED;
* what the parsers and searches of `RobotsRules`, `UrlPolicy` and `TestLab`
  return (`RobotsAsWritten`, `UrlRulesAsDefined`, `LabAgreesWithCrawl`): these
  compare a recursive computation over sequences with a declarative definition
  of its result, on inputs of their own, and need induction over data.

## 5. What is not modelled

* Failing database I/O inside the worker runtime: a call commits or returns a
  queue error. (`Submission` and `DatabaseWorker` do have failing calls.)
* The contents of checkpoints, snapshots, summaries, payloads and diagnostics,
  and with them format and identity mismatches: copied data.
* The validation of seeds and overrides before a Production run starts
  (`production.rs`): a read-only check of many independent fields. Its comment
  (lines 33-34) and code (247-255) differ on which error it reports.
* The preview's own request and response; it keeps no durable state, and its
  traversal is `SemanticTraversal`.
* HTTP routing and shaping, the Crawl4AI adapter, telemetry, configuration and
  the web stub: no state beyond what other parts keep.
* Details that no property depends on, each said again at its definition:
  `enqueue` could store any parent and run, and its callers do not
  (`job.rs:561`); a fetch that is recorded as CANCELLED counts as failed, and a
  page that robots exclude as well (`crawl_stage.rs:1782`); the retention cap on
  provenance (`discovery_preview/service.rs:1690`); the values of guardrails, a
  second seed and the numbers that tell equal labels apart in the hash
  (`crawler.rs:3789`); the candidate page types of test evidence
  (`test_evidence.rs:348`) and its canonicalization decisions
  (`test_lab/service.rs:789`), where an invalid input without a final URL is
  answered with another code (`:191`); which of several idle origins is retired
  first, and robots by target path instead of origin (`robots.rs:722`); the
  order of a panicking call's permit and answer (`worker.rs:150`) and the creation
  of the empty migration table (`migrate.rs:263`), which no other step can
  observe; a snapshot that cannot be built, impossible for the submission
  endpoints (`erabi-api/quick_scrape.rs:459`); matchers that search the whole URL or
  compare decoded pairs (`url_matcher.rs:342`, `:361`).
* SQL: a transaction is its effect. Character-level URL parsing, IP hosts and
  the public suffix list are external to `UrlPolicy`.
* The database as a file under power loss (SQLite's), except for the artifact
  files beside it, which `QuickScrape` has.

Known behaviour that is as modelled and may surprise: `cancel` and
`cancel_queued` append no terminal event, so such a stream stays open until the
next startup repairs it; a cancellation request for a RUNNING job does not
survive a crash; one that arrives after the decision to requeue waits in memory
while storage stays critical (`lib.rs:1308`); a Production rerun ignores its own
checkpoints, so its second attempt fails closed; a crash after COMPLETED on the
last attempt ends the run FAILED; an overrun of the byte budget fails the job;
the job of a PARTIAL_RESULT run is SUCCEEDED, so its failed parts cannot be
retried; a redirect to a page whose state is FAILED or PARTIAL is refused, and so is the
redirect, at a retry, of a page whose links were charged already
(`crawl_traversal.rs:1908`); a URL
first met through an ineligible link counts as seen; an abandoned database call is
executed all the same; a robots line that holds only a comment ends its group
(`robots.rs:369`); the Test Lab counts links of a page to itself as eligible and
ignores page budgets.

## 6. Disagreements found

Shown by a run:

1. `CancellationToken::cancelled` can sleep through a cancellation
   (`signals_cancel`, `cancellation.rs:63`): it checks the flag and then
   subscribes. `StoragePressureToken::signalled` subscribes first and is right.
2. After a same-run retry that ended differently from its source, startup
   reconciliation fails and the process enters Recovery Mode
   (`runtime_reconcile`, `job.rs:2263`), although
   `reconcile_terminal_crawl_runs` says it "reconciles every durable Job linked
   to a terminal `CrawlRun`".

Met while modelling. The models follow the code; where a scenario avoids the
case or a clause excuses it, section 3 says so:

3. A Quick Scrape whose lease was lost still finalizes its run
   (`crawl_execution.rs:544`).
4. A checkpoint of an earlier attempt does not make a stale job recoverable
   (`checkpoint.rs:449`), although handlers resume from it; a Quick Scrape whose
   unit is PARTIAL, or that was restarted, is refused after a crash
   (`crawl_execution.rs:307`, `quick_scrape.rs:408`).
5. A redirect to a URL the run has not seen is refused by the unique index on
   `admission_sequence` (`crawl_traversal.rs:1583`, `migrations/0006`).
6. A page is stranded RUNNING when the process dies between its discovery and
   its execution transaction (`crawl_stage.rs:878`); a retry that meets partial
   work cannot be restored (`crawl_traversal.rs:886`), and a replayed retry is
   refused (`crawl_stage.rs:316`).
7. Finalization counts earlier generations among the planned work
   (`finalization.rs:82`).
8. Exchanging the matchers of two page types changes what URLs are and keeps
   the hash (`crawler.rs:3626`), so evidence of before still counts: the runs
   check the other direction (`EvidenceKept`); a page type deleted and recreated blocks publication
   through its old evidence (`test_evidence.rs:219`); a stale `save_draft`
   overwrites declared children (`crawler.rs:1776`).
9. Robots misses of one origin are fetched one after the other rather than
   shared (`robots.rs:757`).
10. The process lock may be released before the worker's last transaction ends
    (`shutdown.rs:188`).
11. Terminal events written by the queue are never published to the hub
    (`job.rs:2166`); a FAILED Quick Scrape job leaves its run RUNNING
    (`job.rs:848`).
12. A database failure is answered as a rejection of the target
    (`erabi-api/quick_scrape.rs:452`); a source once seen as FILE_ASSET stays one
    (`source_intake.rs:202`).
13. An empty query pair is kept (`canonicalization.rs:179`), so `/?` and `/` are
    two canonical URLs; `Meaning` counts it as the code does and the run has such
    spellings. A link to a public
    suffix fails the run (`domain_scope.rs:358`); a pattern bound of 8 and an
    empty `raw_href` are refused only when evidence is saved
    (`test_evidence.rs:774`, `:875`).

14. Two finished jobs of one run may each get an active continuation:
    `validate_action_child_lineage` (`job.rs:1761`) looks at the children of the
    source only, and `action_child_crawl_run_id` (`job.rs:1818`) accepts any run
    that is QUEUED or has ended. With four jobs of one Production run (a root, its
    cancelled child, and a continuation of each) the first to finish ends the
    run, and the failure of the second is refused by
    `finalize_crawl_failure_in_transaction` (`job.rs:2147`) with a queue error
    that stops the worker. TLC shows it with `Job = 1..4`, where the root has two
    continuations; `RetriesContradictNothing` excludes runs with a job that was
    continued twice, by `ContinuedOnce`, and so do its run and its theorem.

## 7. Plan

1. *Done:* the job system (`JobStore`, `JobRuntime`, `Signals`) and the theorems
   about them; both handlers page by page; authoring with its hash; pacing;
   database actor, process, progress stream; submission and the URL rules.
2. *Done:* the refinements `RuntimeSpec => StoreSpec` and `DatabaseWorker =>
   SerialDatabase`, the lineage of jobs, the runtime, the process and the Quick
   Scrape.
   *Done since:* pacing, authoring, the progress stream and submissions.
3. *Done:* rows, generations, memory, budgets and completion of a Production run.
   Open: the reference definitions of the URL and robots rules as theorems.
4. Larger instances of `crawl` with both handlers and redirects to unseen URLs
   once the code admits them; the validation of Production starts.

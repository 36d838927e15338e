----------------------------- MODULE Submission -----------------------------
(***************************************************************************)
(* The submission of Quick Scrapes: the two endpoints of                   *)
(* erabi-api/src/quick_scrape.rs, the Source intake of                     *)
(* erabi-crawler/src/source_intake.rs with its network policy and content  *)
(* probe, and the two repositories they write.                             *)
(*                                                                         *)
(* An action is one transaction, one network answer or one decision of a   *)
(* request; requests interleave between them.  The client may go away at   *)
(* any await: the request's future is dropped, and a transaction it had    *)
(* handed to the database actor is executed all the same.                  *)
(***************************************************************************)
EXTENDS Naturals, Sequences, FiniteSets, ContentProbe

CONSTANTS
    Client,         \* requests in flight
    Url,            \* submitted URLs
    Canonical,      \* [Url -> canonical URL]
    Unacceptable,   \* URLs that parsing, origin, override or shape checks refuse
    MaxItems,       \* QUICK_SCRAPE_BATCH_MAX_ITEMS
    Endpoints,      \* subset of {"single", "batch"}
    Address,        \* addresses a resolver may return
    PublicAddress,  \* those that are public unicast
    AddressLimit,   \* DEFAULT_NETWORK_RESOLUTION_ADDRESS_LIMIT
    HeadAnswers,    \* [status, media] of HEAD answers
    GetAnswers,     \* [media, prefix] of bounded GET answers
    Faults          \* "database": a call fails; "drop": the client goes away

\* What the constants may be.
SubmissionAssumption ==
    /\ Unacceptable \subseteq Url /\ DOMAIN Canonical = Url
    /\ Endpoints \subseteq {"single", "batch"}
    /\ PublicAddress \subseteq Address
    /\ {MaxItems, AddressLimit} \subseteq Nat \ {0}
    /\ HeadAnswers \subseteq [status : {"ok", "unsupported", "error"}, media : MediaType]
    /\ GetAnswers \subseteq [media : MediaType, prefix : Prefix]
    /\ Faults \subseteq {"database", "drop"}

VARIABLES
    sources,    \* rows of the sources table
    runs,       \* rows of crawl_runs, with what their snapshot froze
    roots,      \* root jobs, by the item they were made for
    r           \* the requests

durable == <<sources, runs, roots>>
submissionVars == <<durable, r>>

NoSource == [id |-> 0, original |-> "none", canonical |-> "none", type |-> "WEB_PAGE"]
Fresh == [pc |-> "idle", endpoint |-> "batch", items |-> <<>>, at |-> 1,
          target |-> {}, source |-> NoSource, decision |-> Web,
          seen |-> [media |-> "none", prefix |-> "none"], outs |-> <<>>]

SubmissionInit ==
    /\ sources = {} /\ runs = {} /\ roots = {}
    /\ r = [c \in Client |-> Fresh]

Item(c) == r[c].items[r[c].at]
This(c) == <<c, r[c].at>>
Out(status, cause) == [status |-> status, cause |-> cause]
Open(c) == r[c].pc \notin {"idle", "refused", "done", "gone"}
Become(c, rec) == r' = [r EXCEPT ![c] = rec]
Goto(c, pc) == Become(c, [r[c] EXCEPT !.pc = pc])

-----------------------------------------------------------------------------
(* The request and its items.                                               *)

\* A batch is refused as a whole when it is empty or too long.
Accept(c, endpoint, items) ==
    /\ r[c].pc = "idle"
    /\ endpoint = "single" => Len(items) = 1
    /\ Become(c, [Fresh EXCEPT !.endpoint = endpoint, !.items = items,
                  !.pc = IF Len(items) \in 1..MaxItems THEN "item" ELSE "refused"])
    /\ UNCHANGED durable

\* The outcome of the current item, and the next one.
Outcome(c, out) ==
    Become(c, [Fresh EXCEPT !.endpoint = r[c].endpoint, !.items = r[c].items,
               !.outs = Append(r[c].outs, out), !.at = r[c].at + 1,
               !.pc = IF r[c].at = Len(r[c].items) THEN "done" ELSE "item"])

\* into_submission_request, canonicalize and validate_url; also what the
\* repository would refuse of the URL after it is resolved, with the same answer.
CheckItem(c) ==
    /\ r[c].pc = "item"
    /\ IF Item(c) \in Unacceptable THEN Outcome(c, Out("VALIDATION", "target"))
       ELSE Goto(c, "resolve")
    /\ UNCHANGED durable

-----------------------------------------------------------------------------
(* The network policy.                                                      *)

\* Mutant of ValidAddresses: one public answer is enough.
SomePublic(answers) == Len(answers) \in 1..AddressLimit /\ \E i \in DOMAIN answers : answers[i] \in PublicAddress

\* normalize_and_validate_addresses: every answer is looked at.
ValidAddresses(answers) ==
    Len(answers) \in 1..AddressLimit /\ \A i \in DOMAIN answers : answers[i] \in PublicAddress

\* validate_and_resolve: the target keeps the addresses the probe connects to.
\* A failed or late resolution is an empty answer.
Resolve(c, answers) ==
    /\ r[c].pc = "resolve"
    /\ IF ValidAddresses(answers)
       THEN Become(c, [r[c] EXCEPT !.target = {answers[i] : i \in DOMAIN answers}, !.pc = "source"])
       ELSE Outcome(c, Out("VALIDATION", "target"))
    /\ UNCHANGED durable

-----------------------------------------------------------------------------
(* The Source.                                                              *)

\* Mutant of Matching: sources are looked up by the URL as it was submitted.
MatchingOriginal(c) == {s \in sources : s.original = Item(c)}

Matching(c) == {s \in sources : s.canonical = Canonical[Item(c)]}

NewSource(c) == [id |-> Cardinality(sources) + 1, original |-> Item(c),
                 canonical |-> Canonical[Item(c)], type |-> "WEB_PAGE"]

\* create_or_reuse_in_transaction, an IMMEDIATE transaction.  It fails when it
\* finds two matching rows, which OneSourcePerUrl rules out.
SourceRow(c) == IF Matching(c) = {} THEN NewSource(c) ELSE CHOOSE s \in Matching(c) : TRUE
StoreSource(c) == sources' = sources \cup {SourceRow(c)} /\ UNCHANGED <<runs, roots>>

CreateOrReuse(c) ==
    /\ r[c].pc = "source"
    /\ StoreSource(c)
    /\ Become(c, [r[c] EXCEPT !.source = SourceRow(c), !.pc = "head"])

\* The probe: a HEAD, perhaps a bounded GET; no answer in time is a page.
Decided(c, decision, seen) ==
    Become(c, [r[c] EXCEPT !.decision = decision, !.seen = seen,
                           !.pc = IF decision.file THEN "mark" ELSE "run"])

ProbeHead(c, a) ==
    /\ r[c].pc = "head"
    /\ LET seen == [media |-> a.media, prefix |-> "none"]
       IN CASE ClassifyHead(a.status, a.media) = "get" -> Goto(c, "get")
            [] ClassifyHead(a.status, a.media) = "web" -> Decided(c, Web, seen)
            [] OTHER -> Decided(c, FileAsset(MediaTypeKind(a.media), "type"), seen)
    /\ UNCHANGED durable

ProbeGet(c, a) ==
    /\ r[c].pc = "get"
    /\ Decided(c, ClassifyPrefix(a.media, a.prefix), a)
    /\ UNCHANGED durable

ProbeFails(c) ==
    /\ r[c].pc \in {"head", "get"}
    /\ Decided(c, Web, r[c].seen)
    /\ UNCHANGED durable

\* mark_file_asset_in_transaction.
Marked(s) == [s EXCEPT !.type = "FILE_ASSET"]
StoreMark(c) ==
    /\ sources' = {IF s.id = r[c].source.id THEN Marked(s) ELSE s : s \in sources}
    /\ UNCHANGED <<runs, roots>>

MarkFileAsset(c) ==
    /\ r[c].pc = "mark"
    /\ StoreMark(c)
    /\ Become(c, [r[c] EXCEPT !.source = Marked(@), !.pc = "run"])

-----------------------------------------------------------------------------
(* The run and its root job.                                                *)

Snapshot(c) ==
    [by |-> This(c), source |-> r[c].source.id, target |-> Canonical[Item(c)],
     type |-> r[c].source.type, file |-> r[c].decision.file]

\* create_quick_scrape_run_with_root_job.  The snapshot before it cannot fail
\* here: these endpoints fix actor and user agent, and checked the override.
StoreRun(c) ==
    /\ runs' = runs \cup {Snapshot(c)}
    /\ roots' = roots \cup {This(c)}
    /\ UNCHANGED sources

CreateRun(c) ==
    /\ r[c].pc = "run"
    /\ StoreRun(c)
    /\ Outcome(c, Out("ACCEPTED", "none"))

\* A batch stops at a failure of the system: the items left were not tried.
Halted(c) ==
    Become(c, [Fresh EXCEPT !.endpoint = r[c].endpoint, !.items = r[c].items, !.pc = "done",
               !.at = Len(r[c].items) + 1,
               !.outs = [i \in 1..Len(r[c].items) |->
                    CASE i < r[c].at -> r[c].outs[i]
                      [] i = r[c].at -> Out("SYSTEM", "database")
                      [] OTHER       -> Out("NOT_PROCESSED", "none")]])

\* A database call fails and rolls back.  The endpoint for one URL reports a
\* failure of the intake as a refused target.
DatabaseFails(c) ==
    /\ "database" \in Faults
    /\ r[c].pc \in {"source", "mark", "run"}
    /\ IF r[c].endpoint = "single" /\ r[c].pc # "run"
       THEN Outcome(c, Out("VALIDATION", "database")) ELSE Halted(c)
    /\ UNCHANGED durable

\* The client goes away; a transaction in the actor's queue still runs.
ClientDrops(c) ==
    /\ "drop" \in Faults
    /\ Open(c)
    /\ Goto(c, "gone")
    /\ \/ UNCHANGED durable
       \/ r[c].pc = "source" /\ StoreSource(c)
       \/ r[c].pc = "mark" /\ StoreMark(c)
       \/ r[c].pc = "run" /\ StoreRun(c)

\* The requests and the answers of a resolver that are tried.
Batches == UNION {[1..n -> Url] : n \in 0..(MaxItems + 1)}
Resolutions == UNION {[1..n -> Address] : n \in 0..(AddressLimit + 1)}

Step(c) ==
    \/ CheckItem(c) \/ CreateOrReuse(c) \/ MarkFileAsset(c) \/ CreateRun(c)
    \/ \E a \in Resolutions : Resolve(c, a)
    \/ \E a \in HeadAnswers : ProbeHead(c, a)
    \/ \E a \in GetAnswers : ProbeGet(c, a)
    \/ ProbeFails(c)

SubmissionNext ==
    \E c \in Client :
        \/ \E e \in Endpoints, items \in Batches : Accept(c, e, items)
        \/ Step(c) \/ DatabaseFails(c) \/ ClientDrops(c)

SubmissionSpec == SubmissionInit /\ [][SubmissionNext]_submissionVars

-----------------------------------------------------------------------------
(* Properties.                                                              *)

\* A canonical URL has one Source, however many requests submit it at once and
\* however they spell it: the table has no constraint that would say so.
OneSourcePerUrl == \A s, t \in sources : s.canonical = t.canonical => s = t

\* A run is about the Source it names: the worker's comparison of the two
\* (SOURCE_TARGET_MISMATCH) never fails a run that was accepted.
RunMatchesSource ==
    \A run \in runs : \E s \in sources : s.id = run.source /\ s.canonical = run.target

\* What a request reports is what it left behind: an item is reported accepted
\* exactly when its run is there with its root job, a request that is refused
\* leaves nothing, and each item has one outcome at its own place.
OutcomesMatchRuns ==
    /\ roots = {run.by : run \in runs}
    /\ \A c \in Client :
          /\ r[c].pc = "done" => Len(r[c].outs) = Len(r[c].items)
          /\ r[c].pc # "gone" =>
                {run.by[2] : run \in {x \in runs : x.by[1] = c}}
                    = {i \in DOMAIN r[c].outs : r[c].outs[i].status = "ACCEPTED"}

\* A batch stops at a failure of the system: nothing after it is tried, and
\* nothing is left untried without one.
BatchStopsAtFailure ==
    \A c \in Client : \A j \in DOMAIN r[c].outs :
        r[c].outs[j].status = "NOT_PROCESSED"
            <=> \E i \in 1..(j - 1) : r[c].outs[i].status = "SYSTEM"

\* A target that the probe found to be a file is never sent to the provider as
\* a page, whatever other requests do to its Source meanwhile.
FileIsNotCrawled == \A run \in runs : run.file => run.type = "FILE_ASSET"

\* The probe connects only to addresses the policy let through, all of them
\* public, and a request that was let through keeps those it was checked for.
ProbesPublicAddresses ==
    \A c \in Client : r[c].pc \in {"source", "head", "get", "mark", "run"} =>
        r[c].target # {} /\ r[c].target \subseteq PublicAddress

\* A file is decided on evidence that agrees: nothing that was seen is HTML and
\* what type and signature say is the same kind, but for office containers.
FileNeedsEvidence ==
    \A c \in Client : r[c].decision.file =>
        LET m == r[c].seen.media
            p == r[c].seen.prefix
            says == {MediaTypeKind(m), SignatureKind(p, m)} \ {"none"}
        IN  /\ "html" \notin {m, p}
            /\ r[c].decision.kind \in says
            /\ Cardinality(says) = 1 \/ says = {"ARCHIVE", "OFFICE"}

\* Requests that submit one URL at once, spelled differently, share one Source,
\* their runs are about it, what each answer reports is what it left behind,
\* and a batch stops at a failure of the system (create_or_reuse_in_transaction,
\* create_quick_scrape_run_with_root_job, submit_quick_scrape_batch).
SubmissionsAgree ==
    OneSourcePerUrl /\ RunMatchesSource /\ OutcomesMatchRuns /\ BatchStopsAtFailure

\* A file is decided on evidence that agrees and is never sent to the provider
\* as a page, and the probe that looks for the evidence connects only to public
\* addresses that were checked (classify_prefix, validate_and_resolve).
ClassificationIsSound == FileIsNotCrawled /\ ProbesPublicAddresses /\ FileNeedsEvidence

=============================================================================

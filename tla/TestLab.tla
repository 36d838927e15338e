------------------------------- MODULE TestLab -------------------------------
(***************************************************************************)
(* The Test Lab of erabi-crawler (test_lab/service.rs): one focused test   *)
(* of the active Draft, from the request to the saved TestEvidence, with   *)
(* an editor changing the Draft meanwhile.                                 *)
(*                                                                         *)
(* execute() snapshots the Draft and the active Published version in one   *)
(* read transaction, asks the provider for the page, evaluates the         *)
(* captured links under the Draft, evaluates them again under Published    *)
(* for the comparison, and saves the evidence if the Draft's hash has not  *)
(* moved.  A version is a record of page types, transitions and a          *)
(* canonicalization choice; a pattern is a number whose coverage and       *)
(* specificity are constants (UrlPolicy models them in detail).            *)
(* Diagnostics, artifact reuse and the wording of errors are left out.     *)
(***************************************************************************)
EXTENDS Naturals, Sequences, FiniteSets, SequencesExt, FiniteSetsExt, Functions

CONSTANTS
    Url,            \* canonical URLs, ordered as raw hrefs sort
    Invalid,        \* an href or input that canonicalizes to nothing
    Tracked, Plain, \* two hrefs; a policy that strips maps Tracked to Plain
    Scope,          \* URL -> "IN_SCOPE", "EXTERNAL" or "UNDECIDED" (an error)
    Covers,         \* pattern -> the URLs it matches
    Rank,           \* pattern -> its specificity
    Published,      \* the active Published version
    Drafts,         \* Drafts the test may start from
    Inputs,         \* input URL lists a request may carry
    LinkSets,       \* link sets a provider may observe
    Kinds,          \* the TestKinds requested
    Fields,         \* page type name -> the fields its extraction observes
    PageCap, MaxPages, MaxDepth, \* the guardrails both versions share
    MaxObservedLinks,            \* MAX_OBSERVED_LINKS
    MaxPatterns,    \* MAX_TEST_EVIDENCE_INPUT_URLS, as validate applies it
    MaxEdits,       \* bound: edits of the Draft during the test
    None            \* no value

\* What the constants may be.
LabAssumption ==
    /\ Url \subseteq Nat /\ {Tracked, Plain} \subseteq Url /\ Invalid \in Nat \ Url
    /\ \A m \in DOMAIN Covers : Covers[m] \subseteq Url
    /\ {PageCap, MaxPages, MaxPatterns} \subseteq Nat \ {0}

VARIABLES
    draft,  \* the durable active Draft
    lab,    \* the request being executed
    saved,  \* TestEvidence rows
    edits
vars == <<draft, lab, saved, edits>>

-----------------------------------------------------------------------------
(* A version's URL rules.                                                   *)
Canon(v, href) ==
    CASE href \notin Url             -> Invalid
      [] href = Tracked /\ v.strip   -> Plain
      [] OTHER                       -> href

Best(p, u) ==
    LET hits == {m \in ToSet(p.ms) : u \in Covers[m]}
    IN  {m \in hits : \A n \in hits : Rank[n] <= Rank[m]}

Candidates(v, u) ==
    {[id |-> p.id, name |-> p.name, pri |-> p.pri, patterns |-> Best(p, u)] :
        p \in {q \in ToSet(v.pts) : Best(q, u) # {}}}

Specificity(c) == Rank[CHOOSE m \in c.patterns : TRUE]
Beats(c, d) == c.pri > d.pri \/ (c.pri = d.pri /\ Specificity(c) > Specificity(d))

\* resolve_page_type as PageTypeMatchEvidence keeps it.
Resolve(v, u) ==
    LET all  == Candidates(v, u)
        best == {c \in all : \A d \in all : ~Beats(d, c)}
    IN  [decision   |-> CASE best = {}               -> "UNMATCHED"
                          [] Cardinality(best) = 1   -> "MATCHED"
                          [] OTHER                   -> "AMBIGUOUS",
         candidates |-> best]

NoMatch == [decision |-> None, candidates |-> {}]
Winner(m) == IF m.decision = "MATCHED" THEN {c.id : c \in m.candidates} ELSE {}

\* evaluate_url: an input that does not canonicalize has no page-type match.
Evaluate(v, url) ==
    LET u == Canon(v, url) IN [url |-> u, match |-> IF u = Invalid THEN NoMatch ELSE Resolve(v, u)]

-----------------------------------------------------------------------------
(* discovery_evidence: the captured links under one version, for one        *)
(* transition or, with t = None, for the preview of discovered URLs.        *)
HasTransition(t) == t # None

LabBudget(t, taken) ==
    CASE t.depth > MaxDepth   -> "MAX_DEPTH"
      [] taken >= t.perPage   -> "PER_PAGE"
      [] taken >= t.total     -> "TOTAL"
      [] OTHER                -> "ALLOWED"

\* Mutant of LabVisit: every link of the selector is charged, admissible or not.
ChargesEveryLink(v, t, applies, acc, l) ==
    LET u     == Canon(v, l.href)
        new   == u # Invalid /\ u \notin acc.seen
        match == IF new /\ Scope[u] = "IN_SCOPE" THEN Resolve(v, u) ELSE NoMatch
        fits  == IF HasTransition(t)
                 THEN applies /\ new /\ l.sel = t.sel /\ t.target \in Winner(match)
                 ELSE FALSE
        budget == IF fits THEN LabBudget(t, acc.taken) ELSE None
    IN  [seen  |-> IF u = Invalid THEN acc.seen ELSE acc.seen \cup {u},
         taken |-> IF HasTransition(t) /\ l.sel # 0 THEN acc.taken + 1 ELSE acc.taken,
         urls  |-> Append(acc.urls,
                      [href |-> l.href, url |-> u,
                       scope |-> IF u = Invalid THEN None ELSE Scope[u],
                       duplicate |-> u # Invalid /\ ~new, match |-> match,
                       eligible |-> budget = "ALLOWED", budget |-> budget])]

\* One observed link, in raw_href order.
LabVisit(v, t, applies, acc, l) ==
    LET u     == Canon(v, l.href)
        new   == u # Invalid /\ u \notin acc.seen
        match == IF new /\ Scope[u] = "IN_SCOPE" THEN Resolve(v, u) ELSE NoMatch
        fits  == IF HasTransition(t)
                 THEN applies /\ new /\ l.sel = t.sel /\ t.target \in Winner(match)
                 ELSE FALSE
        budget == IF fits THEN LabBudget(t, acc.taken) ELSE None
    IN  [seen  |-> IF u = Invalid THEN acc.seen ELSE acc.seen \cup {u},
         taken |-> IF budget = "ALLOWED" THEN acc.taken + 1 ELSE acc.taken,
         urls  |-> Append(acc.urls,
                      [href |-> l.href, url |-> u,
                       scope |-> IF u = Invalid THEN None ELSE Scope[u],
                       duplicate |-> u # Invalid /\ ~new, match |-> match,
                       eligible |-> budget = "ALLOWED", budget |-> budget])]

LabLinks(links) ==
    LET sorted == SetToSortSeq(links, LAMBDA a, b : \/ a.href < b.href
                                                    \/ a.href = b.href /\ a.sel < b.sel)
    IN  SubSeq(sorted, 1, Min({Len(sorted), MaxObservedLinks}))

\* selector_for_transition, or the count of links for the preview.
LabSelector(t, links) ==
    LET found == IF HasTransition(t)
                 THEN Cardinality({l \in links : l.sel = t.sel}) ELSE Cardinality(links)
    IN  [found  |-> found,
         status |-> CASE found > 0 -> "OBSERVED"
                      [] found = 0 /\ HasTransition(t) /\ \A l \in links : l.sel = 0
                                   -> "UNAVAILABLE"
                      [] OTHER     -> "NO_MATCHES"]

\* A link whose Domain Scope is an error fails the evaluation.
ScopeFails(v, links) ==
    \E l \in ToSet(LabLinks(links)) :
        Canon(v, l.href) # Invalid /\ Scope[Canon(v, l.href)] = "UNDECIDED"

Discovery(v, t, page, links) ==
    LET source  == IF HasTransition(t) THEN Resolve(v, Canon(v, page)) ELSE NoMatch
        applies == IF HasTransition(t)
                   THEN t.enabled /\ ~t.constrained /\ t.source \in Winner(source)
                   ELSE TRUE
        r       == FoldLeft(LAMBDA acc, l : LabVisit(v, t, applies, acc, l),
                            [seen |-> {}, taken |-> 0, urls |-> <<>>], LabLinks(links))
    IN  [transition |-> IF HasTransition(t) THEN t.id ELSE None,
         source     |-> source,
         selector   |-> LabSelector(t, links),
         urls       |-> r.urls,
         eligible   |-> r.taken,
         limit      |-> IF HasTransition(t) THEN t.perPage ELSE 0,
         reached    |-> IF HasTransition(t)
                        THEN \/ r.taken >= t.perPage
                             \/ \E i \in DOMAIN r.urls : r.urls[i].budget = "PER_PAGE"
                        ELSE FALSE]

EligibleUrls(d) == {d.urls[i].url : i \in {j \in DOMAIN d.urls : d.urls[j].eligible}}

-----------------------------------------------------------------------------
(* The comparison with Published.  Version-local ids are provenance, so     *)
(* page types and transitions correspond by what they mean.                 *)
\* matcher_multisets_equal: each matcher takes the first free equal one.
MatcherMultisetsEqual(s, t) ==
    LET free(used, m) == {i \in DOMAIN t \ used : t[i] = m}
        pair(acc, m)  == IF acc.ok /\ free(acc.used, m) # {}
                         THEN [acc EXCEPT !.used = @ \cup {Min(free(acc.used, m))}]
                         ELSE [acc EXCEPT !.ok = FALSE]
    IN  Len(s) = Len(t) /\ FoldLeft(pair, [used |-> {}, ok |-> TRUE], s).ok

PageTypesEquivalent(p, q) ==
    p.name = q.name /\ p.pri = q.pri /\ MatcherMultisetsEqual(p.ms, q.ms)

PageTypeOf(v, id) == CHOOSE p \in ToSet(v.pts) : p.id = id
Only(S) == IF Cardinality(S) = 1 THEN CHOOSE x \in S : TRUE ELSE None

CorrespondingType(d, p, id) ==
    Only({q.id : q \in {r \in ToSet(p.pts) : PageTypesEquivalent(PageTypeOf(d, id), r)}})

Semantics(t) == [t EXCEPT !.id = None, !.source = None, !.target = None]

CorrespondingTransition(d, p, t) ==
    Only({u \in ToSet(p.trs) :
            /\ CorrespondingType(d, p, t.source) = u.source
            /\ CorrespondingType(d, p, t.target) = u.target
            /\ Semantics(t) = Semantics(u)})

Anonymous(c) == [c EXCEPT !.id = None]
SameMultiset(S, T) ==
    LET times(x, C) == Cardinality({c \in C : Anonymous(c) = Anonymous(x)})
    IN  \A x \in S \cup T : times(x, S) = times(x, T)

\* Mutant of BehaviorallyEquivalent: candidates compared with their ids.
IdenticalMatches(m, n) == m = n

\* PageTypeMatchEvidence::behaviorally_equivalent.  The winner is the only
\* candidate of a match, so it is compared with the candidates.
BehaviorallyEquivalent(m, n) ==
    m.decision = n.decision /\ SameMultiset(m.candidates, n.candidates)

SameUrlOutcome(a, b) ==
    [a EXCEPT !.match = None] = [b EXCEPT !.match = None]
        /\ BehaviorallyEquivalent(a.match, b.match)

DiscoveryOutcomesEqual(d, p) ==
    /\ d.selector = p.selector /\ BehaviorallyEquivalent(d.source, p.source)
    /\ d.eligible = p.eligible /\ d.limit = p.limit /\ d.reached = p.reached
    /\ Len(d.urls) = Len(p.urls)
    /\ \A i \in DOMAIN d.urls : SameUrlOutcome(d.urls[i], p.urls[i])

Verdict(equal) == IF equal THEN "SAME" ELSE "DIFFERENT"

DiscoveryDifference(d, p, t, page, links, found) ==
    LET constrained == IF HasTransition(t) THEN t.constrained ELSE FALSE
        u == IF HasTransition(t) THEN CorrespondingTransition(d, p, t) ELSE None
    IN  IF constrained \/ (HasTransition(t) /\ u = None) \/ ScopeFails(p, links)
           \/ Canon(p, page) = Invalid
        THEN None
        ELSE Verdict(DiscoveryOutcomesEqual(found, Discovery(p, u, page, links)))

\* The extraction hook is external: it observes the fields of the page type's
\* name, in an order of its own on every call.
Extraction(v, id, hook) ==
    CASE hook = "ABSENT"   -> <<>>
      [] hook = "IN_ORDER" -> Fields[PageTypeOf(v, id).name]
      [] OTHER             -> Reverse(Fields[PageTypeOf(v, id).name])

\* extraction_observations_equal sorts both sides.
ExtractionsEqual(s, t) ==
    /\ Len(s) = Len(t)
    /\ \A x \in ToSet(s) \cup ToSet(t) : Cardinality({i \in DOMAIN s : s[i] = x})
                                       = Cardinality({i \in DOMAIN t : t[i] = x})

ExtractionDifference(d, p, id, hook, found) ==
    LET q == CorrespondingType(d, p, id)
    IN  IF hook = "ABSENT" \/ q = None THEN None
        ELSE Verdict(ExtractionsEqual(found, Extraction(p, q, hook)))

-----------------------------------------------------------------------------
(* execute(), step by step.                                                 *)
NeedsProvider(kind) == kind \in {"EXTRACTION", "SELECTOR_COVERAGE", "PAGINATION",
                                 "DISCOVERED_URL_PREVIEW", "DISCOVERY_TRANSITION"}
TypeRequired(kind) == kind \in {"EXTRACTION", "SELECTOR_COVERAGE"}
TypeAllowed(kind) == TypeRequired(kind) \/ kind \in {"PAGE_TYPE_MATCHING", "COMBINED"}

ValidRequest(r) ==
    /\ r.urls # <<>>
    /\ TypeRequired(r.kind) => r.type # None
    /\ r.type # None => TypeAllowed(r.kind)
    /\ (r.kind = "DISCOVERY_TRANSITION") = (r.transition # None)
    /\ NeedsProvider(r.kind) => Len(r.urls) = 1

Request == [kind : Kinds, urls : Inputs, compare : BOOLEAN,
            type : {p.id : p \in ToSet(draft.pts)} \cup {None, "foreign"},
            transition : {t.id : t \in ToSet(draft.trs)} \cup {None, "foreign"}]

Idle == [phase |-> "IDLE", answer |-> None]
Answered(code) == [phase |-> "DONE", answer |-> code]

Init ==
    /\ draft \in Drafts
    /\ lab = Idle
    /\ saved = {}
    /\ edits = 0

\* validate_request, the snapshot, and the checks made on it.
Begin(r, version, configured) ==
    /\ lab.phase = "IDLE"
    /\ lab' = IF ~ValidRequest(r) THEN Answered("INVALID_REQUEST")
              ELSE IF r.type # None /\ \A p \in ToSet(draft.pts) : p.id # r.type
                   THEN Answered("PAGE_TYPE_NOT_OWNED")
              ELSE IF r.transition # None /\ \A t \in ToSet(draft.trs) : t.id # r.transition
                   THEN Answered("TRANSITION_NOT_OWNED")
              ELSE IF NeedsProvider(r.kind) /\ ~configured THEN Answered("PROVIDER_UNAVAILABLE")
              ELSE [phase |-> IF NeedsProvider(r.kind) THEN "OBSERVE" ELSE "EVALUATE",
                    answer |-> None, evidence |-> None, request |-> r, draft |-> draft,
                    published |-> IF r.compare THEN version ELSE None,
                    page |-> Head(r.urls), links |-> {}, hook |-> "ABSENT"]
    /\ UNCHANGED <<draft, saved, edits>>

\* The provider's answer, and what is refused of it.  An observation without a
\* final URL stands for the requested one.
Observe ==
    /\ lab.phase = "OBSERVE"
    /\ \E outcome \in {"FAILED", "OTHER_URL", "OBSERVED"}, links \in LinkSets,
          final \in {Head(lab.request.urls), Plain, Invalid},
          hook \in {"ABSENT", "IN_ORDER", "REVERSED"} :
          lab' = CASE outcome = "FAILED"    -> Answered("PROVIDER_UNAVAILABLE")
                   [] outcome = "OTHER_URL" -> Answered("OBSERVATION_MISMATCH")
                   [] outcome = "OBSERVED" /\ Canon(lab.draft, final) = Invalid
                                            -> Answered("OBSERVATION_INVALID")
                   [] outcome = "OBSERVED" /\ Canon(lab.draft, final) # Invalid
                        /\ Canon(lab.draft, Head(lab.request.urls)) = Invalid
                                            -> Answered("INVALID_REQUEST")
                   [] OTHER                 -> [lab EXCEPT !.phase = "EVALUATE", !.hook = hook,
                                                           !.page = final, !.links = links]
    /\ UNCHANGED <<draft, saved, edits>>

IsDiscovery(kind) == kind \in {"DISCOVERED_URL_PREVIEW", "DISCOVERY_TRANSITION"}
SelectedTransition ==
    IF lab.request.transition = None THEN None
    ELSE CHOOSE t \in ToSet(lab.draft.trs) : t.id = lab.request.transition

\* What the service keeps of a test.  Of the canonicalization of a URL it keeps
\* the result, where the code also compares the decisions that led there.
Evidence ==
    LET r     == lab.request
        d     == lab.draft
        found == IF IsDiscovery(r.kind)
                 THEN Discovery(d, SelectedTransition, lab.page, lab.links) ELSE None
        seen  == IF r.kind = "EXTRACTION" /\ lab.hook # "ABSENT"
                 THEN Extraction(d, r.type, "IN_ORDER") ELSE <<>>
        p     == lab.published
        ours  == [i \in DOMAIN r.urls |-> Evaluate(d, r.urls[i])]
        theirs == [i \in DOMAIN r.urls |-> Evaluate(p, r.urls[i])]
    IN  [kind |-> r.kind, config |-> d, urls |-> ours, discovery |-> found,
         extraction |-> seen, transition |-> r.transition,
         comparison |->
            IF p = None THEN None
            ELSE [published |-> theirs,
                  canonicalization |->
                     Verdict(\A i \in DOMAIN ours : ours[i].url = theirs[i].url),
                  match |-> Verdict(\A i \in DOMAIN ours :
                               BehaviorallyEquivalent(ours[i].match, theirs[i].match)),
                  discovery |->
                     IF IsDiscovery(r.kind)
                     THEN DiscoveryDifference(d, p, SelectedTransition,
                                              lab.page, lab.links, found)
                     ELSE None,
                  extraction |->
                     IF r.kind = "EXTRACTION"
                     THEN ExtractionDifference(d, p, r.type, lab.hook, seen) ELSE None]]

\* TestEvidence::validate, the parts that depend on what was observed.
MatchIsValid(m) ==
    /\ \A c \in m.candidates : Cardinality(c.patterns) <= MaxPatterns
    /\ m.decision = "MATCHED" => Cardinality(m.candidates) = 1
    /\ m.decision = "AMBIGUOUS" => Cardinality(m.candidates) > 1
    /\ m.decision = "UNMATCHED" => m.candidates = {}

DiscoveryIsValid(e) ==
    LET f == e.discovery IN
    /\ (f.transition = None) = (f.limit = 0)
    /\ f.transition = e.transition
    /\ Len(f.urls) <= MaxObservedLinks /\ f.eligible <= Len(f.urls)
    /\ (f.selector.found = 0) = (f.selector.status # "OBSERVED")
    /\ MatchIsValid(f.source)
    /\ \A i \in DOMAIN f.urls : /\ MatchIsValid(f.urls[i].match)
                                /\ f.urls[i].eligible = (f.urls[i].budget = "ALLOWED")

\* validate_comparison; the differences it recomputes are the ones compared.
ComparisonIsValid(c) == \A i \in DOMAIN c.published : MatchIsValid(c.published[i].match)

EvidenceIsValid(e) ==
    /\ e.comparison # None => ComparisonIsValid(e.comparison)
    /\ \A i \in DOMAIN e.urls : MatchIsValid(e.urls[i].match)
    /\ IsDiscovery(e.kind) => DiscoveryIsValid(e)

\* The evaluation is local to the request; nothing is durable yet.
Assess ==
    /\ lab.phase = "EVALUATE"
    /\ lab' = IF IsDiscovery(lab.request.kind) /\ ScopeFails(lab.draft, lab.links)
              THEN Answered("PERSISTED_STATE_INVALID")
              ELSE IF ~EvidenceIsValid(Evidence) THEN Answered("INVALID_REQUEST")
              ELSE [lab EXCEPT !.phase = "SAVE", !.evidence = Evidence]
    /\ UNCHANGED <<draft, saved, edits>>

\* What the semantic hash covers: everything but the version-local ids.
Meaning(v) ==
    LET name(id) == PageTypeOf(v, id).name
        sorted(ms) == SortSeq(ms, LAMBDA a, b : a < b)
    IN  [strip |-> v.strip,
         types |-> {[name |-> p.name, pri |-> p.pri, ms |-> sorted(p.ms)] : p \in ToSet(v.pts)},
         trs   |-> {[Semantics(t) EXCEPT !.source = name(t.source), !.target = name(t.target)] :
                       t \in ToSet(v.trs)}]

\* persist_if_configuration_matches.
Save ==
    /\ lab.phase = "SAVE"
    /\ IF Meaning(draft) = Meaning(lab.draft)
       THEN saved' = saved \cup {lab.evidence} /\ lab' = Answered("SAVED")
       ELSE saved' = saved /\ lab' = Answered("CONFIGURATION_CHANGED")
    /\ UNCHANGED <<draft, edits>>

\* An authoring request edits the Draft while the test runs.
EditDraft ==
    /\ edits < MaxEdits
    /\ edits' = edits + 1
    /\ \/ draft' = [draft EXCEPT !.strip = ~@]
       \/ \E i \in DOMAIN draft.trs : draft' = [draft EXCEPT !.trs[i].enabled = ~@]
       \/ \E i \in DOMAIN draft.pts : draft' = [draft EXCEPT !.pts[i].pri = @ + 1]
    /\ UNCHANGED <<lab, saved>>

Next ==
    \/ \E r \in Request, version \in {Published, None}, configured \in BOOLEAN :
          Begin(r, version, configured)
    \/ Observe
    \/ Assess
    \/ Save
    \/ EditDraft

LabSpec == Init /\ [][Next]_vars
-----------------------------------------------------------------------------
(* The lab against the traversal that Preview and Production run.           *)

\* A run seeded with the page whose version has this transition alone.
Trav(v, t, page) == INSTANCE SemanticTraversal WITH
    Seeds      <- <<page>>,
    PageType   <- {p.id : p \in ToSet(v.pts)},
    Match      <- [u \in Url |-> LET m == Resolve(v, u)
                                IN  IF m.decision = "MATCHED"
                                    THEN CHOOSE id \in Winner(m) : TRUE ELSE m.decision],
    Transition <- IF t.enabled /\ ~t.constrained THEN <<t>> ELSE <<>>,
    PageBudget <- [id \in {p.id : p \in ToSet(v.pts)} |-> PageCap],
    MaxBytes   <- 1

\* What that run admits when it expands the page the provider observed.
AdmittedFrom(v, t, page, links) ==
    LET root == Trav(v, t, page)!AdmitRoots.t
        e    == root.queued[page]
        obs  == [final |-> page, targetless |-> FALSE, full |-> TRUE, bytes |-> 0,
                 links |-> {[to |-> Canon(v, l.href), sel |-> l.sel, pag |-> FALSE] :
                               l \in links}]
    IN  IF page \notin DOMAIN root.queued THEN {}
        ELSE Trav(v, t, page)!ProcessObservation([root EXCEPT !.queued = <<>>],
                                                 page, e, obs, FALSE).t.admitted \ {page}

\* The lab counts a link back to the page itself and sees only the first
\* MaxObservedLinks; SemanticTraversal sorts links by canonical URL.
Comparable(v) ==
    /\ Cardinality(lab.links) <= MaxObservedLinks
    /\ \A l \in lab.links : Canon(v, l.href) # Canon(v, lab.page)
    /\ \A l, m \in lab.links : Canon(v, l.href) = Canon(v, m.href) => l.href = m.href

Tested(kind) == lab.phase = "SAVE" /\ lab.request.kind = kind

\* What a run would follow from the page, the test of the transition showed as
\* eligible: deduplication, scope, page type, selector and the per-page and
\* total budgets decide in the lab as expand_page decides in a run.
AdmittedIsEligible ==
    Tested("DISCOVERY_TRANSITION") /\ Comparable(lab.draft) =>
        AdmittedFrom(lab.draft, SelectedTransition, Canon(lab.draft, lab.page), lab.links)
            \subseteq EligibleUrls(lab.evidence.discovery)

\* When the comparison reports no discovery difference, a run of the Draft and a
\* run of Published would follow the same links of the page.
SameVerdictSameAdmissions ==
    LET d == lab.draft
        p == lab.published
        t == SelectedTransition
    IN  /\ Tested("DISCOVERY_TRANSITION") /\ lab.published # None
        /\ lab.evidence.comparison.discovery = "SAME"
        /\ Comparable(d) /\ Comparable(p)
        =>
              AdmittedFrom(d, t, Canon(d, lab.page), lab.links)
                = AdmittedFrom(p, CorrespondingTransition(d, p, t),
                               Canon(p, lab.page), lab.links)

\* A Draft that means what Published means, under other ids and in another
\* order, shows no difference of any kind, and its transitions find theirs.
CloneShowsNoDifference ==
    lab.phase = "SAVE" /\ lab.published # None =>
        LET c == lab.evidence.comparison IN
        Meaning(lab.draft) = Meaning(lab.published) =>
            /\ c.canonicalization = "SAME" /\ c.match = "SAME"
            /\ c.extraction \in {None, "SAME"}
            /\ c.discovery = IF ~IsDiscovery(lab.request.kind) THEN None
                             ELSE IF SelectedTransition = None THEN "SAME"
                             ELSE IF SelectedTransition.constrained THEN None ELSE "SAME"

=============================================================================

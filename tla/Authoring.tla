------------------------------- MODULE Authoring -------------------------------
(***************************************************************************)
(* Authoring of one crawler: its versions, the two pointers to the active  *)
(* draft and the active published version, the typed child rows of every   *)
(* version, and the Test Lab's evidence.  Every action but the three that  *)
(* only read is one IMMEDIATE transaction of the crawler repository.       *)
(*                                                                         *)
(* A version's row holds its configuration JSON, which DECLARES the ids of *)
(* its children; the children are rows of their own.  The code keeps the   *)
(* two in step by hand.                                                    *)
(***************************************************************************)
EXTENDS SemanticHash

CONSTANTS MaxVersions,      \* bound: versions ever created
          MaxPages,         \* bound: page types ever created
          MaxTransitions,   \* bound: transitions ever created
          MaxMatchers,      \* bound: matchers of one definition on one page type
          MaxTests,         \* bound: Test Lab evaluations that leave evidence
          TestedDefs,       \* bound: definitions of the matchers a tested draft has
          Attrs, Defs,      \* a page type's priority; matcher definitions
          Concurrent        \* others edit while a client holds a read version

\* What the constants may be.
AuthoringConstants ==
    /\ MaxVersions \in Nat /\ MaxPages \in Nat /\ MaxTransitions \in Nat
    /\ MaxMatchers \in 0..3 /\ MaxTests \in Nat /\ Attrs \subseteq Nat /\ Defs \subseteq Nat
    /\ Concurrent \in BOOLEAN

VARIABLES draft,        \* crawlers.active_draft_version_id
          published,    \* crawlers.active_published_version_id
          versions,     \* crawler_versions, with the audited base and hash
          pages,        \* page_types and url_matchers
          transitions,  \* discovery_transitions
          evidence,     \* test_evidence
          lab,          \* the Test Lab evaluation in progress
          copy          \* a version a caller of save_draft read and holds

authoringVars == <<draft, published, versions, pages, transitions, evidence, lab, copy>>

Versions == 1..Len(versions)
PageIds  == 1..Len(pages)
TransIds == 1..Len(transitions)
None     == 0
Gone     == [owner |-> None]

OwnPages(v) == {p \in PageIds : pages[p].owner = v}
OwnTransitions(v) == {t \in TransIds : transitions[t].owner = v}

\* The version the rows describe.
Config(v) ==
    [pages |-> [p \in OwnPages(v) |-> pages[p].attr],
     matchers |-> [p \in OwnPages(v) |-> pages[p].matchers],
     transitions |-> [t \in OwnTransitions(v) |->
                        [src |-> transitions[t].src, dst |-> transitions[t].dst]],
     seeds |-> versions[v].seeds, budget |-> versions[v].budget]

\* validate_semantic_contract: a guardrail names only declared page types.
ContractHolds(r) == r.budget \subseteq r.pages

\* The declared page types are the rows.
PageRecordsLoad(v) == OwnPages(v) = versions[v].pages

\* So are the transitions, each between page types of the version.
TransitionRecordsLoad(v) ==
    /\ OwnTransitions(v) = versions[v].transitions
    /\ \A t \in OwnTransitions(v) : {transitions[t].src, transitions[t].dst} \subseteq OwnPages(v)

RecordsLoad(v) == PageRecordsLoad(v) /\ TransitionRecordsLoad(v)

\* validate_seed_projection: the hints are declared (the rows are rewritten
\* with the JSON they project).
SeedsLoad(v) == versions[v].seeds \ {NoHint} \subseteq versions[v].pages

PointersLoad ==
    /\ draft # None => versions[draft].state = "DRAFT"
    /\ published # None => versions[published].state = "PUBLISHED"

\* load_semantic_snapshot
SnapshotLoads(v) == PointersLoad /\ ContractHolds(versions[v]) /\ SeedsLoad(v) /\ RecordsLoad(v)

AuthoringInit ==
    /\ draft = None /\ published = None
    /\ versions = <<>> /\ pages = <<>> /\ transitions = <<>>
    /\ evidence = {} /\ lab = <<>> /\ copy = <<>>

-----------------------------------------------------------------------------
(* Drafts *)

\* CrawlerVersion::draft
BlankVersion == [state |-> "DRAFT", pages |-> {}, transitions |-> {}, seeds |-> {}, budget |-> {},
                 base |-> None, hash |-> <<>>]

\* insert_draft_in_transaction of a blank version.  A busy database
\* is retried and the retry finds either the draft that won or none.
CreateDraft ==
    /\ draft = None
    /\ Len(versions) < MaxVersions
    /\ versions' = Append(versions, BlankVersion)
    /\ draft' = Len(versions) + 1
    /\ UNCHANGED <<published, pages, transitions, evidence, lab, copy>>

\* The new identity of each child of S, minted in the order of their ids after
\* the n in use.
NewId(S, n) == [x \in S |-> n + Cardinality({y \in S : y <= x})]

\* Mutant: A cloned seed loses its hint.
HintsDropped(S, np) == {NoHint : h \in S}

\* A hint follows its page type to its new identity.
ClonedHints(S, np) == {IF h = NoHint THEN NoHint ELSE np[h] : h \in S}

\* draft_from_published: the configuration JSON under the new identities.
ClonedVersion(s, np, nt) ==
    [state |-> "DRAFT",
     pages |-> {np[p] : p \in versions[s].pages},
     transitions |-> {nt[t] : t \in versions[s].transitions},
     seeds |-> ClonedHints(versions[s].seeds, np),
     budget |-> {np[p] : p \in versions[s].budget},
     base |-> s, hash |-> <<>>]

\* clone_child_rows: page types with their matchers, then transitions; the
\* copies follow the n rows there are in the order of their originals.
Original(ids, k) == CHOOSE x \in DOMAIN ids : ids[x] = k
ClonedPages(np, v) ==
    [i \in 1..Cardinality(DOMAIN np) |->
       [pages[Original(np, Len(pages) + i)] EXCEPT !.owner = v]]
ClonedTransitions(nt, v, np) ==
    [i \in 1..Cardinality(DOMAIN nt) |->
       LET t == transitions[Original(nt, Len(transitions) + i)]
       IN  [t EXCEPT !.owner = v, !.src = np[@], !.dst = np[@], !.latest = FALSE]]

\* create_draft_from_published: every child is copied under a new identity
\* and every reference, in rows and in the JSON, follows it.
CloneDraft(s) ==
    LET P == OwnPages(s)
        T == OwnTransitions(s)
        np == NewId(P, Len(pages))
        nt == NewId(T, Len(transitions))
        v == Len(versions) + 1
    IN  /\ draft = None
        /\ versions[s].state = "PUBLISHED"
        /\ ContractHolds(versions[s]) /\ SeedsLoad(s)
        /\ v <= MaxVersions
        /\ Len(pages) + Cardinality(P) <= MaxPages
        /\ Len(transitions) + Cardinality(T) <= MaxTransitions
        /\ versions' = Append(versions, ClonedVersion(s, np, nt))
        /\ pages' = pages \o ClonedPages(np, v)
        /\ transitions' = transitions \o ClonedTransitions(nt, v, np)
        /\ draft' = v
        /\ UNCHANGED <<published, evidence, lab, copy>>

\* A caller reads the draft to edit it as a value; save_draft writes the
\* whole configuration JSON back, and the seed rows with it.
ReadDraft ==
    /\ draft # None /\ copy = <<>>
    /\ copy' = <<[id |-> draft, row |-> versions[draft]]>>
    /\ UNCHANGED <<draft, published, versions, pages, transitions, evidence, lab>>

\* What a caller may put in: no seed, a seed, or a seed with a declared hint.
SeedChoices == {{}, {NoHint}} \cup {{p} : p \in copy[1].row.pages}

\* The version is the active draft still; what its children became
\* meanwhile is not looked at.
SaveAccepted(v) == versions[v].state = "DRAFT" /\ draft = v

SaveDraft ==
    /\ copy # <<>>
    /\ copy' = <<>>
    /\ \E seeds \in SeedChoices :
          LET v == copy[1].id
              row == [copy[1].row EXCEPT !.seeds = seeds]
          IN  IF ContractHolds(row) /\ SaveAccepted(v)
              THEN versions' = [versions EXCEPT ![v] = row]
              ELSE UNCHANGED versions
    /\ UNCHANGED <<draft, published, pages, transitions, evidence, lab>>

-----------------------------------------------------------------------------
(* Edits of the active draft: load_mutation_version, then the change       *)

\* Mutant: Any version of the crawler can be edited.
EditableVersion(v) ==
    (Concurrent \/ copy = <<>>) /\ ContractHolds(versions[v]) /\ RecordsLoad(v)

Editable(v) ==
    /\ draft = v
    /\ Concurrent \/ copy = <<>>
    /\ versions[v].state = "DRAFT" /\ ContractHolds(versions[v]) /\ RecordsLoad(v)

\* The edit's last statements: the version's row, if it changed, then the
\* hash for the audit, which validates the result again.
Rewrites(v, row) == versions' = [versions EXCEPT ![v] = row]
EditRest == UNCHANGED <<draft, published, evidence, lab, copy>>

CreatePageType(v, a) ==
    LET p == Len(pages) + 1
    IN  /\ Editable(v)
        /\ p <= MaxPages
        /\ pages' = Append(pages, [owner |-> v, attr |-> a, matchers |-> [d \in Defs |-> 0]])
        /\ Rewrites(v, [versions[v] EXCEPT !.pages = @ \cup {p}])
        /\ UNCHANGED transitions /\ EditRest

UpdatePageType(v, p, a) ==
    /\ Editable(v) /\ p \in OwnPages(v)
    /\ pages' = [pages EXCEPT ![p].attr = a]
    /\ UNCHANGED <<versions, transitions>> /\ EditRest

\* Mutant: Only transitions keep a page type from being deleted.
InUseByTransition(v, p) ==
    \E t \in OwnTransitions(v) : p \in {transitions[t].src, transitions[t].dst}

\* page_type_is_in_use: a budget, a seed row's hint or a transition names it.
InUse(v, p) ==
    \/ p \in versions[v].budget
    \/ p \in versions[v].seeds
    \/ \E t \in OwnTransitions(v) : p \in {transitions[t].src, transitions[t].dst}

DeletePageType(v, p) ==
    /\ Editable(v) /\ p \in OwnPages(v)
    /\ ~InUse(v, p)
    /\ pages' = [pages EXCEPT ![p] = Gone]
    /\ Rewrites(v, [versions[v] EXCEPT !.pages = @ \ {p}])
    /\ UNCHANGED transitions /\ EditRest

CreateUrlMatcher(v, p, d) ==
    /\ Editable(v) /\ p \in OwnPages(v)
    /\ pages[p].matchers[d] < MaxMatchers
    /\ pages' = [pages EXCEPT ![p].matchers[d] = @ + 1]
    /\ UNCHANGED <<versions, transitions>> /\ EditRest

UpdateUrlMatcher(v, p, d, e) ==
    /\ Editable(v) /\ p \in OwnPages(v)
    /\ d # e /\ pages[p].matchers[d] > 0 /\ pages[p].matchers[e] < MaxMatchers
    /\ pages' = [pages EXCEPT ![p].matchers[d] = @ - 1, ![p].matchers[e] = @ + 1]
    /\ UNCHANGED <<versions, transitions>> /\ EditRest

DeleteUrlMatcher(v, p, d) ==
    /\ Editable(v) /\ p \in OwnPages(v)
    /\ pages[p].matchers[d] > 0
    /\ pages' = [pages EXCEPT ![p].matchers[d] = @ - 1]
    /\ UNCHANGED <<versions, transitions>> /\ EditRest

CreateDiscoveryTransition(v, p, q) ==
    LET t == Len(transitions) + 1
    IN  /\ Editable(v) /\ {p, q} \subseteq OwnPages(v)
        /\ t <= MaxTransitions
        /\ transitions' = Append(transitions, [owner |-> v, src |-> p, dst |-> q, latest |-> FALSE])
        /\ Rewrites(v, [versions[v] EXCEPT !.transitions = @ \cup {t}])
        /\ UNCHANGED pages /\ EditRest

\* The replacement comes from the request, which carries no evidence.
UpdateDiscoveryTransition(v, t, p, q) ==
    /\ Editable(v) /\ t \in OwnTransitions(v) /\ {p, q} \subseteq OwnPages(v)
    /\ transitions' = [transitions EXCEPT ![t] = [owner |-> v, src |-> p, dst |-> q, latest |-> FALSE]]
    /\ UNCHANGED <<versions, pages>> /\ EditRest

DeleteDiscoveryTransition(v, t) ==
    /\ Editable(v) /\ t \in OwnTransitions(v)
    /\ transitions' = [transitions EXCEPT ![t] = Gone]
    /\ Rewrites(v, [versions[v] EXCEPT !.transitions = @ \ {t}])
    /\ UNCHANGED pages /\ EditRest

\* update_crawler_version_guardrails; the canonicalisation and scope
\* policies are rewritten the same way and name no child.
UpdateGuardrails(v, budget) ==
    /\ Editable(v)
    /\ budget \subseteq versions[v].pages
    /\ Rewrites(v, [versions[v] EXCEPT !.budget = budget])
    /\ UNCHANGED <<pages, transitions>> /\ EditRest

-----------------------------------------------------------------------------
(* Test Lab *)

\* What a test can evaluate: the page type it resolves to, or a transition.
Targets(v) == {PageType(p) : p \in OwnPages(v)} \cup {Transition(t) : t \in OwnTransitions(v)}

\* evaluation_snapshot: one read transaction; the page is fetched after it.
StartTest(v, x) ==
    /\ lab = <<>> /\ Cardinality(evidence) < MaxTests
    /\ \A p \in OwnPages(v), d \in Defs \ TestedDefs : pages[p].matchers[d] = 0
    /\ draft = v /\ SnapshotLoads(v)
    /\ x \in Targets(v)
    /\ lab' = <<[version |-> v, hash |-> Hash(Config(v)), target |-> x, config |-> Config(v)]>>
    /\ UNCHANGED <<draft, published, versions, pages, transitions, evidence, copy>>

ReferenceExists(x) ==
    IF x[1] = "page_type" THEN x[2] \in PageIds /\ pages[x[2]].owner # None
    ELSE x[2] \in TransIds /\ transitions[x[2]].owner # None

\* current_draft_semantic_hash_in_transaction, compared.
CurrentHashIs(v, h) == draft = v /\ SnapshotLoads(v) /\ Hash(Config(v)) = h

\* persist_if_configuration_matches: only if the draft's hash is the one the
\* test started from.  Of what the evidence names only the target is kept here;
\* the code looks up every page type that was a candidate as well.
FinishTest ==
    /\ lab # <<>>
    /\ lab' = <<>>
    /\ LET v == lab[1].version
           x == lab[1].target
           kept == CurrentHashIs(v, lab[1].hash) /\ ReferenceExists(x)
       IN  IF kept
           THEN /\ evidence' = evidence \cup {lab[1]}
                /\ transitions' = IF x[1] = "transition"
                                  THEN [transitions EXCEPT ![x[2]].latest = TRUE]
                                  ELSE transitions
           ELSE UNCHANGED <<evidence, transitions>>
    /\ UNCHANGED <<draft, published, versions, pages, copy>>

-----------------------------------------------------------------------------
(* Publication *)

\* Evidence whose hash is the candidate's must name existing children.
EvidenceLoads(v) ==
    \A e \in evidence : e.version = v /\ e.hash = Hash(Config(v)) => ReferenceExists(e.target)

\* publication_validation_context
ContextLoads(v) ==
    /\ PointersLoad
    /\ PageRecordsLoad(v) /\ OwnTransitions(v) = versions[v].transitions
    /\ EvidenceLoads(v)

\* Two page types claim one URL with the same priority, and none a better one.
Ambiguous(v) ==
    \E d \in Defs :
       LET claim == {p \in OwnPages(v) : pages[p].matchers[d] > 0}
           best == {p \in claim : \A q \in claim : pages[q].attr <= pages[p].attr}
       IN  Cardinality(best) > 1

\* CoreVersionValidationContributor reports no error.
Publishable(v) ==
    /\ versions[v].seeds # {}
    /\ versions[v].seeds \ {NoHint} \subseteq OwnPages(v)
    /\ versions[v].budget \subseteq OwnPages(v)
    /\ \A t \in OwnTransitions(v) : {transitions[t].src, transitions[t].dst} \subseteq OwnPages(v)
    /\ ~Ambiguous(v)

\* publish_in_transaction: the validation and the two updates are one
\* transaction, and the audit event records the hash that was validated.
Publish(v) ==
    /\ draft = v /\ versions[v].state = "DRAFT"
    /\ ContextLoads(v) /\ Publishable(v)
    /\ versions' = [versions EXCEPT ![v].state = "PUBLISHED", ![v].hash = Hash(Config(v))]
    /\ published' = v /\ draft' = None
    /\ UNCHANGED <<pages, transitions, evidence, lab, copy>>

\* reactivate_in_transaction: any published version of the crawler.
Reactivate(v) ==
    /\ versions[v].state = "PUBLISHED" /\ v # published
    /\ published' = v
    /\ UNCHANGED <<draft, versions, pages, transitions, evidence, lab, copy>>

EditStep ==
    \E v \in Versions :
       \/ \E a \in Attrs : CreatePageType(v, a) \/ \E p \in PageIds : UpdatePageType(v, p, a)
       \/ \E p \in PageIds : DeletePageType(v, p)
       \/ \E p \in PageIds, d \in Defs : CreateUrlMatcher(v, p, d) \/ DeleteUrlMatcher(v, p, d)
       \/ \E p \in PageIds, d, e \in Defs : UpdateUrlMatcher(v, p, d, e)
       \/ \E p, q \in PageIds : CreateDiscoveryTransition(v, p, q)
       \/ \E t \in TransIds, p, q \in PageIds : UpdateDiscoveryTransition(v, t, p, q)
       \/ \E t \in TransIds : DeleteDiscoveryTransition(v, t)
       \/ \E b \in SUBSET PageIds : UpdateGuardrails(v, b)

AuthoringNext ==
    \/ CreateDraft
    \/ ReadDraft
    \/ SaveDraft
    \/ \E v \in Versions : CloneDraft(v) \/ Publish(v) \/ Reactivate(v)
    \/ EditStep
    \/ \E v \in Versions : \E x \in Targets(v) : StartTest(v, x)
    \/ FinishTest

AuthoringSpec == AuthoringInit /\ [][AuthoringNext]_authoringVars
-----------------------------------------------------------------------------
(* Properties *)

\* Type invariant: the rows of versions, page types and transitions.
AuthoringTypeOK ==
    /\ draft \in 0..Len(versions) /\ published \in 0..Len(versions)
    /\ \A v \in Versions :
          /\ versions[v].state \in {"DRAFT", "PUBLISHED"}
          /\ versions[v].pages \subseteq PageIds
          /\ versions[v].transitions \subseteq TransIds
          /\ versions[v].base \in 0..(v - 1)
    /\ \A p \in PageIds : pages[p].owner \in 0..Len(versions)
    /\ \A t \in TransIds : transitions[t].owner \in 0..Len(versions)
    /\ Len(versions) <= MaxVersions /\ Len(pages) <= MaxPages /\ Len(transitions) <= MaxTransitions
    /\ Len(lab) <= 1 /\ Len(copy) <= 1

\* Whatever order drafts are created, cloned, published and reactivated in,
\* both pointers name versions of their own state and the crawler has no
\* draft but the active one (create_draft, publish, reactivate).
PointersAgree ==
    /\ PointersLoad
    /\ \A v \in Versions : versions[v].state = "DRAFT" => draft = v

\* No version comes to declare other children than it has, nor a transition,
\* hint or budget that names a page type outside it: the draft can be edited
\* and any published version cloned and run (load_mutation_version and
\* load_semantic_snapshot refuse everything else for good).
ChildrenDeclared ==
    \A v \in Versions : RecordsLoad(v) /\ SeedsLoad(v) /\ ContractHolds(versions[v])

\* A published version can be run for good: it starts somewhere, no URL has
\* two equally good page types, and its children are the declared ones,
\* edits of later drafts included.
PublishedIsSound ==
    \A v \in Versions : versions[v].state = "PUBLISHED" =>
       /\ versions[v].seeds # {} /\ RecordsLoad(v) /\ SeedsLoad(v)
       /\ \A p, q \in OwnPages(v), d \in Defs :
             p # q /\ pages[p].matchers[d] > 0 /\ pages[q].matchers[d] > 0 /\ pages[p].attr = pages[q].attr
               => \E r \in OwnPages(v) : pages[r].matchers[d] > 0 /\ pages[r].attr > pages[p].attr

\* Whatever order drafts are created, edited, cloned, published and reactivated
\* in, the two pointers name versions of their own state, every version declares
\* exactly the children it has, and a published one can be run for good
\* (load_mutation_version, load_semantic_snapshot, publish).
VersionsAreWhole == AuthoringTypeOK /\ PointersAgree /\ ChildrenDeclared /\ PublishedIsSound

\* Evidence does not go stale by itself: as long as the draft means what was
\* tested, whatever its children are called, the stored hash is its hash.
EvidenceKept ==
    \A e \in evidence :
       draft = e.version /\ RecordsLoad(draft) /\ SameMeaning(e.config, Config(draft))
         => e.hash = Hash(Config(draft))

\* No step changes a published version: neither its row nor the
\* configuration its child rows make up, and the hash audited at its
\* publication is that configuration's (ensure_editable_draft, publish).
FrozenStep ==
    \A v \in Versions :
       /\ versions[v].state = "PUBLISHED" => versions'[v] = versions[v] /\ Config(v)' = Config(v)
       /\ versions[v].state = "DRAFT" /\ versions'[v].state = "PUBLISHED"
             => versions'[v].hash = Hash(Config(v)')
PublishedFrozen == [][FrozenStep]_authoringVars

\* A draft made from a published version means what that version means and
\* has its hash, under identities of its own (create_draft_from_published).
CloneStep ==
    \A v \in DOMAIN versions', s \in Versions : v \notin Versions /\ versions'[v].base = s =>
       /\ Hash(Config(v)') = Hash(Config(s))
       /\ SameMeaning(Config(s), Config(v)')
CloneKeepsMeaning == [][CloneStep]_authoringVars

=============================================================================

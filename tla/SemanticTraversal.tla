------------------------- MODULE SemanticTraversal -------------------------
(***************************************************************************)
(* The in-memory traversal that Discovery Preview and Production share     *)
(* (erabi-crawler, discovery_preview/service.rs): the frontier, the sets   *)
(* it deduplicates with and the budgets it charges.  A traversal is a      *)
(* record; admitting the roots, processing one observed page and restoring *)
(* from durable rows are operators on it.  CrawlTraversal gives the        *)
(* traversal its handler, its database and its crashes.                    *)
(*                                                                         *)
(* A URL is its canonical identity, a number whose order is the BINARY     *)
(* collation the queue and the SQL statements sort by.  Scope, page-type   *)
(* resolution and the frozen transitions are constants of the run.         *)
(***************************************************************************)
EXTENDS Naturals, Sequences, FiniteSets, FiniteSetsExt, Functions

CONSTANTS
    Url,          \* canonical URLs
    Seeds,        \* the selected seeds' canonical URLs, in request order
    PageType,
    Scope,        \* DomainScope classification of each URL
    Match,        \* resolve_page_type: a PageType, "UNMATCHED" or "AMBIGUOUS"
    Transition,   \* enabled transitions that carry no URL constraint
    PageBudget,   \* page_budget of each PageType
    MaxPages, MaxDepth, MaxBytes, \* EffectiveDiscoveryPreviewLimits
    Invalid       \* an href that resolves to no canonical URL

NoType == "NO_TYPE"

\* What an instance must satisfy; the MC modules assume it of theirs.
TraversalAssumption ==
    /\ Url \subseteq Nat
    /\ Invalid \in Nat \ Url
    /\ Seeds \in Seq(Url)
    /\ Scope \in [Url -> {"IN_SCOPE", "EXTERNAL", "BLOCKED"}]
    /\ Match \in [Url -> PageType \cup {"UNMATCHED", "AMBIGUOUS"}]
    /\ {"UNMATCHED", "AMBIGUOUS", NoType} \cap PageType = {}
    /\ PageBudget \in [PageType -> Nat \ {0}]
    /\ {MaxPages, MaxDepth, MaxBytes} \subseteq Nat
    /\ \A i \in DOMAIN Transition :
          Transition[i] \in [source : PageType, target : PageType, sel : Nat,
                             depth : Nat, perPage : Nat \ {0}, total : Nat \ {0}]

InScope(u) == Scope[u] = "IN_SCOPE"
Matched(u) == Match[u] \in PageType

\* One observed link: where it leads, its selector, and whether it is a
\* pagination observation.  An observation: the canonical final URL, its links,
\* whether a pagination control had no target, whether the provider result was
\* complete, and the bytes it cost.
Link        == [to : Url \cup {Invalid}, sel : Nat, pag : BOOLEAN]
Observation == [final : Url, links : SUBSET Link, targetless : BOOLEAN,
                full : BOOLEAN, bytes : Nat]

NewTraversal ==
    [queued     |-> <<>>,              \* frontier: url -> queue entry
     admitted   |-> {}, seen |-> {}, sampled |-> {}, expanded |-> {},
     inScope    |-> {},                \* URLs registered with a match decision
     newly      |-> 0,                 \* newly_enqueued_urls
     scheduled  |-> [p \in PageType |-> 0],
     edges      |-> [i \in DOMAIN Transition |-> [u \in Url |-> 0]],
     bytes      |-> 0,
     timeHit    |-> FALSE, unexpanded |-> FALSE, truncated |-> FALSE]

Without(f, u) == Restrict(f, DOMAIN f \ {u})
With(f, u, v) == [x \in DOMAIN f \cup {u} |-> IF x = u THEN v ELSE f[x]]

-----------------------------------------------------------------------------
(* Roots.  A duplicate root is merged into the queued one; a root beyond    *)
(* max_pages stays seen, unadmitted.                                        *)
RootStatus(t, u) ==
    CASE u \in t.seen                        -> "CANONICAL_DUPLICATE"
      [] u \notin t.seen /\ ~InScope(u)      -> Scope[u]
      [] u \notin t.seen /\ InScope(u) /\ Cardinality(t.admitted) >= MaxPages
                                             -> "BUDGET_EXCLUDED"
      [] OTHER                               -> "ADMITTED"

AdmitRoot(acc, i) ==
    LET u      == Seeds[i]
        t      == acc.t
        status == RootStatus(t, u)
        seen   == [t EXCEPT !.seen = @ \cup {u}]
    IN  [t |-> IF status # "ADMITTED" THEN seen
               ELSE [seen EXCEPT !.admitted = @ \cup {u},
                        !.queued = With(@, u, [depth |-> 0, type |-> NoType,
                                               order |-> i - 1, pag |-> FALSE]),
                        !.newly = @ + 1],
         paths |-> acc.paths \cup {<<u, status>>}]

RootsAdmitted[n \in 0..Len(Seeds)] ==
    IF n = 0 THEN [t |-> NewTraversal, paths |-> {}] ELSE AdmitRoot(RootsAdmitted[n - 1], n)

AdmitRoots == RootsAdmitted[Len(Seeds)]

-----------------------------------------------------------------------------
(* The queue order of rebuild_queue, and its head.                          *)
QueueBefore(t, u, v) ==
    LET a == t.queued[u]  b == t.queued[v]
    IN  \/ a.depth < b.depth
        \/ a.depth = b.depth /\ a.order < b.order
        \/ a.depth = b.depth /\ a.order = b.order /\ u < v

NextUrl(t) ==
    CHOOSE u \in DOMAIN t.queued :
        \A v \in DOMAIN t.queued \ {u} : QueueBefore(t, u, v)

\* What step() does before it asks the provider for a page.
Exhausted(t, late) == DOMAIN t.queued = {} \/ late \/ t.bytes >= MaxBytes
AtCompletion(t, late) ==
    IF DOMAIN t.queued # {} /\ late THEN [t EXCEPT !.timeHit = TRUE] ELSE t

-----------------------------------------------------------------------------
(* Transition budgets.  admitted and scheduled do not change while the      *)
(* transitions of one link are evaluated, and each transition has counters  *)
(* of its own, so the order of evaluation does not matter; for the same     *)
(* reason the page-budget and max_pages tests that follow the evaluation    *)
(* cannot fail when a transition is eligible.                               *)
EdgesOf(count) == UNION {{u} \X (1..count[u]) : u \in Url}
EdgeTotal(t, i) == Cardinality(EdgesOf(t.edges[i]))

\* Mutant of Excluded: each edge limit admits one edge too many.
ExcludedOneLate(t, i, depth, src) ==
    LET tr == Transition[i] IN
    \/ depth + tr.depth > MaxDepth
    \/ t.scheduled[tr.target] >= PageBudget[tr.target]
    \/ t.edges[i][src] > tr.perPage
    \/ EdgeTotal(t, i) > tr.total

\* DiscoveryBudgetEvaluator::evaluate.
Excluded(t, i, depth, src) ==
    LET tr == Transition[i] IN
    \/ depth + tr.depth > MaxDepth
    \/ t.scheduled[tr.target] >= PageBudget[tr.target]
    \/ t.edges[i][src] >= tr.perPage
    \/ EdgeTotal(t, i) >= tr.total

BudgetHit(t, i, depth, src) ==
    Cardinality(t.admitted) >= MaxPages \/ Excluded(t, i, depth, src)

Semantic(src, l) ==
    {i \in DOMAIN Transition : /\ Transition[i].source = Match[src]
                               /\ Transition[i].target = Match[l.to]
                               /\ Transition[i].sel = l.sel}
Eligible(t, src, depth, l) ==
    {i \in Semantic(src, l) : ~BudgetHit(t, i, depth, src)}

ProspectiveDepth(S, depth) == Min({depth + Transition[i].depth : i \in S})

LinkStatus(t, src, depth, l) ==
    LET u == l.to
        new == u \notin t.seen
        eligible == Eligible(t, src, depth, l)
    IN  CASE u = Invalid                                      -> "INVALID"
          [] u # Invalid /\ ~new                              -> "CANONICAL_DUPLICATE"
          [] u # Invalid /\ new /\ ~InScope(u)                -> Scope[u]
          [] u # Invalid /\ new /\ InScope(u) /\ Match[u] = "AMBIGUOUS"
                                                              -> "AMBIGUOUS_PAGE_TYPE"
          [] u # Invalid /\ new /\ InScope(u) /\ Match[u] = "UNMATCHED" -> "UNMATCHED"
          [] u # Invalid /\ new /\ InScope(u) /\ Matched(u) /\ eligible # {} -> "ADMITTED"
          [] u # Invalid /\ new /\ InScope(u) /\ Matched(u) /\ eligible = {}
                                 /\ Semantic(src, l) # {}     -> "BUDGET_EXCLUDED"
          [] OTHER                                            -> "TRANSITION_INELIGIBLE"

\* Admission of a new child.
Admit(t, src, depth, l) ==
    LET eligible == Eligible(t, src, depth, l)
    IN  [t EXCEPT !.admitted  = @ \cup {l.to},
                  !.scheduled = [t.scheduled EXCEPT ![Match[l.to]] = @ + 1],
                  !.edges     = [i \in DOMAIN Transition |->
                                   IF i \in eligible THEN [t.edges[i] EXCEPT ![src] = @ + 1]
                                   ELSE t.edges[i]],
                  !.queued    = With(@, l.to,
                                   [depth |-> ProspectiveDepth(eligible, depth),
                                    type  |-> Match[l.to],
                                    order |-> t.newly + Len(Seeds),
                                    pag   |-> l.pag]),
                  !.newly     = @ + 1]

\* A repeated link can only bring a queued, unsampled child nearer.
Nearer(t, src, depth, l) ==
    LET S == {i \in DOMAIN Transition : /\ Transition[i].source = Match[src]
                                        /\ Transition[i].target = t.queued[l.to].type
                                        /\ Transition[i].sel = l.sel}
        old == t.queued[l.to].depth
    IN  IF l.to \in DOMAIN t.queued \ t.sampled /\ S # {} /\ InScope(l.to)
        THEN [t EXCEPT !.queued[l.to].depth = Min({old, ProspectiveDepth(S, depth)})]
        ELSE t

VisitLink(src, depth, acc, l) ==
    LET t      == acc.t
        status == LinkStatus(t, src, depth, l)
        seen   == IF l.to = Invalid THEN t
                  ELSE [t EXCEPT !.seen = @ \cup {l.to},
                                 !.inScope = IF l.to \notin t.seen /\ InScope(l.to)
                                             THEN @ \cup {l.to} ELSE @]
        moved  == CASE status = "ADMITTED"            -> Admit(seen, src, depth, l)
                    [] status = "CANONICAL_DUPLICATE" -> Nearer(t, src, depth, l)
                    [] OTHER                          -> seen
    IN  [t     |-> IF l.pag /\ status = "BUDGET_EXCLUDED"
                   THEN [moved EXCEPT !.truncated = TRUE] ELSE moved,
         paths |-> acc.paths \cup {<<IF l.to = Invalid THEN src ELSE l.to, status>>}]

\* The same href and selector coalesce, pagination wins.
Coalesced(links) ==
    {l \in links : \A m \in links : (m.to = l.to /\ m.sel = l.sel /\ m.pag) => l.pag}

\* Links are visited in raw_href order.
FirstLink(links) ==
    CHOOSE l \in links :
        \A m \in links \ {l} : l.to < m.to \/ (l.to = m.to /\ l.sel < m.sel)

VisitFirst(src, depth, acc) ==
    LET l       == FirstLink(acc.left)
        visited == VisitLink(src, depth, acc, l)
    IN  [t |-> visited.t, paths |-> visited.paths, left |-> acc.left \ {l}]

\* What the first n of the links have made of the page's traversal.
Expansion(t, src, depth, links) ==
    LET visited[n \in 0..Cardinality(links)] ==
            IF n = 0
            THEN [t |-> [t EXCEPT !.expanded = @ \cup {src}], paths |-> {}, left |-> links]
            ELSE VisitFirst(src, depth, visited[n - 1])
    IN  visited

ExpandPage(t, src, depth, links) ==
    LET all == Coalesced(links)
        end == Expansion(t, src, depth, all)[Cardinality(all)]
    IN  [t |-> end.t, paths |-> end.paths]

-----------------------------------------------------------------------------
(* A redirect moves the admitted identity to the final URL, or collapses    *)
(* into it when the final URL is admitted already.                          *)

Redirect(t, alias, final, type) ==
    LET collapse == alias \in t.admitted /\ final \in t.admitted
    IN  IF alias = final THEN t
        ELSE [t EXCEPT !.admitted  = IF alias \in @ THEN (@ \ {alias}) \cup {final} ELSE @,
                       !.newly     = IF collapse THEN @ - 1 ELSE @,
                       !.scheduled = IF collapse /\ type # NoType
                                     THEN [t.scheduled EXCEPT ![type] = @ - 1] ELSE @,
                       !.inScope   = @ \ {alias},
                       !.queued    = Without(@, final)]

\* A root or a redirected page holds no reservation under its final PageType.
FinalBudgetHit(t, final, type) ==
    /\ final \notin t.sampled
    /\ Matched(final) /\ InScope(final)
    /\ type # Match[final]
    /\ t.scheduled[Match[final]] >= PageBudget[Match[final]]

\* process_observation of the page popped for u.  t is the traversal after the
\* pop and e the popped entry.  The retention cap on provenance, past which links
\* are only counted (MAX_PREVIEW_PROVENANCE_EDGES), is taken as not reached.
ProcessObservation(t, u, e, obs, late) ==
    LET f        == obs.final
        t1       == Redirect([t EXCEPT !.seen = @ \cup {f}, !.bytes = @ + obs.bytes],
                             u, f, e.type)
        hit      == FinalBudgetHit(t1, f, e.type)
        canGo    == InScope(f) /\ Matched(f)
        paging   == \E l \in obs.links : l.pag
        regular  == \E l \in obs.links : ~l.pag
        t2       == [t1 EXCEPT !.sampled = @ \cup {f},
                               !.inScope = IF InScope(f) THEN @ \cup {f} ELSE @,
                               !.timeHit = @ \/ late,
                               !.truncated = @ \/ (canGo /\ obs.targetless)
                                               \/ (canGo /\ paging /\ (late \/ hit)),
                               !.unexpanded = @ \/ (late /\ regular)]
    IN  IF ~late /\ ~hit /\ canGo /\ f \notin t2.expanded
        THEN ExpandPage(t2, f, e.depth, obs.links)
        ELSE [t |-> t2, paths |-> {}]

-----------------------------------------------------------------------------
(* restore_state refuses a checkpoint that breaks one of these.             *)
RestoreAccepts(c) ==
    /\ c.admitted \subseteq c.seen
    /\ c.sampled \subseteq c.seen
    /\ c.expanded \subseteq c.sampled
    /\ Cardinality(c.admitted) <= MaxPages
    /\ c.bytes <= MaxBytes
    /\ \A u \in DOMAIN c.queued :
          /\ u \in c.admitted
          /\ u \notin c.sampled \cup c.expanded
          /\ c.queued[u].depth <= MaxDepth

\* restore_for_recovery: exactly the selected units are queued, sampled or not.
RecoveryAccepts(c, entries) ==
    /\ RestoreAccepts(c)
    /\ \A u \in DOMAIN entries : u \in c.admitted /\ entries[u].depth <= MaxDepth
RestoredForRecovery(c, entries) == [c EXCEPT !.queued = entries]
=============================================================================

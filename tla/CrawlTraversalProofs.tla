------------------------ MODULE CrawlTraversalProofs ------------------------
(***************************************************************************)
(* What TLC checks of CrawlTraversal on three small sites holds of every   *)
(* site, budget and answer.                                                *)
(***************************************************************************)
EXTENDS CrawlTraversal, FiniteSetTheorems, SequenceTheorems, WellFoundedInduction, TLAPS

-----------------------------------------------------------------------------
(* Naturals, cardinalities and choices.                                     *)

LEMMA Counting ==
    ASSUME NEW n \in Nat, NEW S, 0 \in S, \A k \in 1..n : k - 1 \in S => k \in S
    PROVE  \A k \in 0..n : k \in S
<1> DEFINE T == {k \in 0..n : k \notin S}
<1>0. T \subseteq Nat
  OBVIOUS
<1>1. SUFFICES ASSUME T # {} PROVE FALSE
  OBVIOUS
<1>2. PICK k \in T : \A i \in T : ~(<<i, k>> \in OpToRel(<, Nat))
  BY <1>0, <1>1, NatLessThanWellFounded, WFMin
<1>3. \A i \in T : ~(i < k)
  BY <1>0, <1>2 DEF OpToRel
<1>4. k \in 0..n /\ k \notin S
  BY <1>2
<1> HIDE DEF T
<1>5. k \in 1..n /\ k - 1 \in 0..n /\ k - 1 < k
  BY <1>4
<1>6. k - 1 \notin S
  BY <1>4, <1>5
<1>7. k - 1 \in T
  BY <1>5, <1>6 DEF T
<1> QED
  BY <1>3, <1>5, <1>7

LEMMA LeastOf ==
    ASSUME NEW S, S \subseteq Nat, S # {}
    PROVE  \E m \in S : \A n \in S : m <= n
<1>1. PICK m \in S : \A n \in S : ~(<<n, m>> \in OpToRel(<, Nat))
  BY NatLessThanWellFounded, WFMin
<1>2. \A n \in S : ~(n < m) /\ n \in Nat /\ m \in Nat
  BY <1>1 DEF OpToRel
<1> QED
  BY <1>2

LEMMA MinIsLeast ==
    ASSUME NEW S, S \subseteq Nat, S # {}
    PROVE  Min(S) \in S /\ \A n \in S : Min(S) <= n
BY LeastOf DEF Min

LEMMA OneMore ==
    ASSUME NEW S, IsFiniteSet(S), NEW x, x \notin S
    PROVE  /\ IsFiniteSet(S \cup {x})
           /\ Cardinality(S \cup {x}) = Cardinality(S) + 1 /\ Cardinality(S) \in Nat
BY FS_AddElement, FS_CardinalityType

LEMMA OneLess ==
    ASSUME NEW S, IsFiniteSet(S), NEW x \in S
    PROVE  /\ IsFiniteSet(S \ {x})
           /\ Cardinality(S) = Cardinality(S \ {x}) + 1 /\ Cardinality(S \ {x}) \in Nat
<1>1. IsFiniteSet(S \ {x})
  BY FS_Subset
<1>2. x \notin S \ {x} /\ S = (S \ {x}) \cup {x}
  OBVIOUS
<1> QED
  BY <1>1, <1>2, OneMore

-----------------------------------------------------------------------------
(* Heads of queues.                                                         *)

Entry == [depth : Nat, type : PageType \cup {NoType}, order : Nat, pag : BOOLEAN]

LEMMA NextIsQueued ==
    ASSUME TraversalAssumption, NEW t, DOMAIN t.queued \subseteq Url, DOMAIN t.queued # {},
           \A u \in DOMAIN t.queued : t.queued[u] \in Entry
    PROVE  NextUrl(t) \in DOMAIN t.queued
<1> DEFINE Q == DOMAIN t.queued
           q(u) == t.queued[u]
           D == {q(u).depth : u \in Q}
<1>0. \A u \in Q : q(u).depth \in Nat /\ q(u).order \in Nat /\ u \in Nat
  BY DEF Entry, TraversalAssumption
<1>1. PICK d \in D : \A e \in D : d <= e
  BY <1>0, LeastOf
<1> DEFINE P == {u \in Q : q(u).depth = d}
           O == {q(u).order : u \in P}
<1>2. P # {} /\ O # {} /\ O \subseteq Nat
  BY <1>0, <1>1
<1>3. PICK o \in O : \A e \in O : o <= e
  BY <1>2, LeastOf
<1> DEFINE R == {u \in P : q(u).order = o}
<1>4. R # {} /\ R \subseteq Nat
  BY <1>0, <1>3
<1>5. PICK r \in R : \A e \in R : r <= e
  BY <1>4, LeastOf
<1>6. ASSUME NEW v \in Q \ {r} PROVE QueueBefore(t, r, v)
  <2>1. q(r).depth = d /\ q(r).order = o /\ d <= q(v).depth /\ r \in Q
    BY <1>1, <1>5
  <2>2. CASE q(v).depth # d
    BY <1>0, <2>1, <2>2 DEF QueueBefore
  <2>3. CASE q(v).depth = d /\ q(v).order # o
    <3>1. o <= q(v).order
      BY <1>3, <2>3
    <3> QED
      BY <1>0, <2>1, <2>3, <3>1 DEF QueueBefore
  <2>4. CASE q(v).depth = d /\ q(v).order = o
    <3>1. r <= v
      BY <1>5, <2>4
    <3> QED
      BY <1>0, <2>1, <2>4, <3>1 DEF QueueBefore
  <2> QED
    BY <2>2, <2>3, <2>4
<1>7. r \in DOMAIN t.queued /\ \A v \in DOMAIN t.queued \ {r} : QueueBefore(t, r, v)
  BY <1>5, <1>6
<1> QED
  BY <1>7 DEF NextUrl

\* No two links of a set have the same target and selector.
Distinct(links) == \A l, m \in links : l.to = m.to /\ l.sel = m.sel => l = m

LEMMA CoalescedAreDistinct ==
    ASSUME NEW links, links \subseteq Link
    PROVE  Coalesced(links) \subseteq links /\ Distinct(Coalesced(links))
<1>1. \A l, m \in Link : l.to = m.to /\ l.sel = m.sel /\ l.pag = m.pag => l = m
  BY DEF Link
<1>2. \A l \in Link : l.pag \in BOOLEAN
  BY DEF Link
<1> QED
  BY <1>1, <1>2 DEF Coalesced, Distinct

LEMMA FirstIsALink ==
    ASSUME TraversalAssumption, NEW links, links \subseteq Link, links # {}, Distinct(links)
    PROVE  FirstLink(links) \in links
<1> DEFINE T == {l.to : l \in links}
<1>0. \A l \in links : l.to \in Nat /\ l.sel \in Nat
  BY DEF Link, TraversalAssumption
<1>1. T # {} /\ T \subseteq Nat
  BY <1>0
<1>2. PICK a \in T : \A e \in T : a <= e
  BY <1>1, LeastOf
<1> DEFINE S == {l.sel : l \in {m \in links : m.to = a}}
<1>3. S # {} /\ S \subseteq Nat
  BY <1>0, <1>2
<1>4. PICK b \in S : \A e \in S : b <= e
  BY <1>3, LeastOf
<1>5. PICK l \in links : l.to = a /\ l.sel = b
  BY <1>4
<1>6. ASSUME NEW m \in links \ {l} PROVE l.to < m.to \/ (l.to = m.to /\ l.sel < m.sel)
  <2>1. a <= m.to /\ (m.to = a => b <= m.sel)
    BY <1>2, <1>4
  <2>2. m.to # a \/ m.sel # b
    BY <1>5 DEF Distinct
  <2> QED
    BY <1>0, <1>5, <2>1, <2>2
<1> QED
  BY <1>5, <1>6 DEF FirstLink

-----------------------------------------------------------------------------
(* The two recursions are functions: what a page's links make of the        *)
(* traversal, and what the roots do, one link and one root at a time.       *)

ExpansionStart(t, src, links) ==
    [t |-> [t EXCEPT !.expanded = @ \cup {src}], paths |-> {}, left |-> links]

LEMMA ExpansionIs ==
    ASSUME NEW t, NEW src, NEW depth, NEW links, NEW n \in Nat, n = Cardinality(links)
    PROVE  LET E == Expansion(t, src, depth, links)
           IN  /\ E[0] = ExpansionStart(t, src, links)
               /\ \A k \in 1..n : E[k] = VisitFirst(src, depth, E[k - 1])
<1> DEFINE Upto(k, g) ==
        g = [m \in 0..k |-> IF m = 0 THEN ExpansionStart(t, src, links)
                            ELSE VisitFirst(src, depth, g[m - 1])]
           S == {k \in 0..n : \E g : Upto(k, g)}
<1>1. 0 \in S
  <2>1. Upto(0, [m \in 0..0 |-> ExpansionStart(t, src, links)])
    OBVIOUS
  <2> HIDE DEF Upto
  <2> QED
    BY <2>1
<1>2. ASSUME NEW k \in 1..n, k - 1 \in S PROVE k \in S
  <2>1. PICK g : Upto(k - 1, g)
    BY <1>2
  <2>2. PICK f : f = [m \in 0..k |-> IF m = k THEN VisitFirst(src, depth, g[k - 1]) ELSE g[m]]
    OBVIOUS
  <2>3. ASSUME NEW m \in 0..k
        PROVE  f[m] = IF m = 0 THEN ExpansionStart(t, src, links)
                      ELSE VisitFirst(src, depth, f[m - 1])
    <3>1. CASE m = k
      BY <2>2, <3>1
    <3>2. CASE m # k
      <4>1. m \in 0..(k - 1) /\ f[m] = g[m] /\ (m # 0 => f[m - 1] = g[m - 1])
        BY <2>2, <3>2
      <4> QED
        BY <2>1, <4>1
    <3> QED
      BY <3>1, <3>2
  <2>4. Upto(k, f)
    BY <2>2, <2>3
  <2> HIDE DEF Upto
  <2> QED
    BY <1>2, <2>4
<1>3. \A k \in 0..n : k \in S
  <2> HIDE DEF S
  <2> QED
    BY <1>1, <1>2, Counting
<1>4. \E g : Upto(n, g)
  BY <1>3
<1>5. Upto(n, Expansion(t, src, depth, links))
  BY <1>4, Zenon DEF Expansion, ExpansionStart
<1> QED
  BY <1>5

RootsStart == [t |-> NewTraversal, paths |-> {}]

LEMMA RootsAre ==
    ASSUME NEW n \in Nat, n = Len(Seeds)
    PROVE  /\ RootsAdmitted[0] = RootsStart
           /\ \A k \in 1..n : RootsAdmitted[k] = AdmitRoot(RootsAdmitted[k - 1], k)
<1> DEFINE Upto(k, g) ==
        g = [m \in 0..k |-> IF m = 0 THEN RootsStart
                            ELSE AdmitRoot(g[m - 1], m)]
           S == {k \in 0..n : \E g : Upto(k, g)}
<1>1. 0 \in S
  <2>1. Upto(0, [m \in 0..0 |-> RootsStart])
    OBVIOUS
  <2> HIDE DEF Upto
  <2> QED
    BY <2>1
<1>2. ASSUME NEW k \in 1..n, k - 1 \in S PROVE k \in S
  <2>1. PICK g : Upto(k - 1, g)
    BY <1>2
  <2>2. PICK f : f = [m \in 0..k |-> IF m = k THEN AdmitRoot(g[k - 1], k) ELSE g[m]]
    OBVIOUS
  <2>3. ASSUME NEW m \in 0..k
        PROVE  f[m] = IF m = 0 THEN RootsStart
                      ELSE AdmitRoot(f[m - 1], m)
    <3>1. CASE m = k
      BY <2>2, <3>1
    <3>2. CASE m # k
      <4>1. m \in 0..(k - 1) /\ f[m] = g[m] /\ (m # 0 => f[m - 1] = g[m - 1])
        BY <2>2, <3>2
      <4> QED
        BY <2>1, <4>1
    <3> QED
      BY <3>1, <3>2
  <2>4. Upto(k, f)
    BY <2>2, <2>3
  <2> HIDE DEF Upto
  <2> QED
    BY <1>2, <2>4
<1>3. \A k \in 0..n : k \in S
  <2> HIDE DEF S
  <2> QED
    BY <1>1, <1>2, Counting
<1>4. \E g : Upto(n, g)
  BY <1>3
<1>5. Upto(n, RootsAdmitted)
  BY <1>4, Zenon DEF RootsAdmitted, RootsStart
<1> QED
  BY <1>5

-----------------------------------------------------------------------------
(* A traversal, and one that extends the rows R: what it has admitted is A  *)
(* and the units that R has no row of, what it queues is Q and the same     *)
(* units, and its counters count them within the budgets.                   *)

Trav(t) ==
    /\ DOMAIN t = {"queued", "admitted", "seen", "sampled", "expanded", "inScope", "newly",
                   "scheduled", "edges", "bytes", "timeHit", "unexpanded", "truncated"}
    /\ DOMAIN t.queued \subseteq t.admitted /\ \A u \in DOMAIN t.queued : t.queued[u] \in Entry
    /\ t.admitted \subseteq t.seen /\ t.sampled \subseteq t.seen /\ t.inScope \subseteq t.seen
    /\ t.seen \subseteq Url /\ t.expanded \subseteq t.sampled
    /\ IsFiniteSet(t.admitted) /\ t.newly = Cardinality(t.admitted)

Fresh(t, R) == {u \in DOMAIN t.queued : R[u].adm = "NONE"}
TypeIn(t, R, u) == IF R[u].adm = "NONE" THEN t.queued[u].type ELSE R[u].type
PagesOf(t, R, p) == {u \in t.admitted : TypeIn(t, R, u) = p}

EdgesHold(edges) ==
    /\ edges \in [DOMAIN Transition -> [Url -> Nat]]
    /\ \A i \in DOMAIN Transition :
          /\ IsFiniteSet(EdgesOf(edges[i]))
          /\ Cardinality(EdgesOf(edges[i])) <= Transition[i].total
          /\ \A u \in Url : edges[i][u] <= Transition[i].perPage

Counts(t, R) ==
    /\ Cardinality(t.admitted) <= MaxPages
    /\ t.scheduled = [p \in PageType |-> Cardinality(PagesOf(t, R, p))]
    /\ \A p \in PageType : Cardinality(PagesOf(t, R, p)) <= PageBudget[p]

Extends(t, R, A, Q) ==
    /\ Present(R) \subseteq t.seen /\ Q \subseteq A /\ A \subseteq Present(R)
    /\ t.admitted = A \cup Fresh(t, R) /\ DOMAIN t.queued = Q \cup Fresh(t, R)
    /\ \A u \in Q : /\ t.queued[u].type = R[u].type /\ t.queued[u].order = R[u].seq
                    /\ t.queued[u].pag = R[u].pag
    /\ Counts(t, R)
    /\ EdgesHold(t.edges)

\* What the visit of a link does to a traversal.
Grows(t, t2) ==
    /\ Trav(t2) /\ t2.sampled = t.sampled /\ t2.expanded = t.expanded
    /\ t.seen \subseteq t2.seen /\ DOMAIN t.queued \subseteq DOMAIN t2.queued
    /\ \A u \in DOMAIN t2.queued : u \in t.seen => u \in DOMAIN t.queued
    /\ \A R, A, Q : Extends(t, R, A, Q) => Extends(t2, R, A, Q)

LEMMA GrowsOnwards ==
    ASSUME NEW t, NEW t2, NEW t3, Grows(t, t2), Grows(t2, t3)
    PROVE  Grows(t, t3)
BY DEF Grows

\* The fields that Extends looks at.
LEMMA SameExtends ==
    ASSUME NEW t, NEW t2, NEW R, NEW A, NEW Q, Extends(t, R, A, Q),
           t2.queued = t.queued, t2.admitted = t.admitted,
           t2.scheduled = t.scheduled, t2.edges = t.edges, t.seen \subseteq t2.seen
    PROVE  Extends(t2, R, A, Q)
<1>1. Fresh(t2, R) = Fresh(t, R) /\ \A u \in t.admitted : TypeIn(t2, R, u) = TypeIn(t, R, u)
  BY DEF Fresh, TypeIn
<1>2. \A p : PagesOf(t2, R, p) = PagesOf(t, R, p)
  BY <1>1 DEF PagesOf
<1>3. Counts(t2, R)
  BY <1>2 DEF Counts, Extends
<1> QED
  BY <1>1, <1>3 DEF Extends

LEMMA SameGrows ==
    ASSUME NEW t, NEW t2, Trav(t2), t2.queued = t.queued, t2.admitted = t.admitted,
           t2.scheduled = t.scheduled, t2.edges = t.edges, t.seen \subseteq t2.seen,
           t2.sampled = t.sampled, t2.expanded = t.expanded
    PROVE  Grows(t, t2)
BY SameExtends DEF Grows

-----------------------------------------------------------------------------
(* One link.                                                                *)

LEMMA EdgeAdded ==
    ASSUME NEW c \in [Url -> Nat], NEW src \in Url, IsFiniteSet(EdgesOf(c))
    PROVE  LET d == [c EXCEPT ![src] = @ + 1]
           IN  /\ IsFiniteSet(EdgesOf(d))
               /\ Cardinality(EdgesOf(d)) = Cardinality(EdgesOf(c)) + 1
<1> DEFINE d == [c EXCEPT ![src] = @ + 1]
           e == <<src, c[src] + 1>>
<1>1. ASSUME NEW k \in [Url -> Nat], NEW x
      PROVE  x \in EdgesOf(k) <=> \E u \in Url : \E n \in 1..k[u] : x = <<u, n>>
  BY DEF EdgesOf
<1>2. d \in [Url -> Nat]
  OBVIOUS
<1>0. e \notin EdgesOf(c)
  <2>1. SUFFICES ASSUME e \in EdgesOf(c) PROVE FALSE
    OBVIOUS
  <2>0. PICK u \in Url : \E n \in 1..c[u] : e = <<u, n>>
    BY <1>1, <2>1
  <2>2. PICK n \in 1..c[u] : e = <<u, n>>
    BY <2>0
  <2>3. u = src /\ n = c[src] + 1
    BY <2>2
  <2> QED
    BY <2>3
<1>3. ASSUME NEW x \in EdgesOf(d) PROVE x \in EdgesOf(c) \cup {e}
  <2>0. PICK u \in Url : \E n \in 1..d[u] : x = <<u, n>>
    BY <1>1, <1>2, <1>3
  <2>1. PICK n \in 1..d[u] : x = <<u, n>>
    BY <2>0
  <2>2. CASE u = src /\ n = c[src] + 1
    BY <2>1, <2>2
  <2>3. CASE ~(u = src /\ n = c[src] + 1)
    <3>1. n \in 1..c[u]
      BY <2>3
    <3> QED
      BY <1>1, <2>1, <3>1
  <2> QED
    BY <2>2, <2>3
<1>4. ASSUME NEW x \in EdgesOf(c) \cup {e} PROVE x \in EdgesOf(d)
  <2>1. CASE x = e
    <3>1. c[src] + 1 \in 1..d[src]
      OBVIOUS
    <3> QED
      BY <1>1, <1>2, <2>1, <3>1
  <2>2. CASE x \in EdgesOf(c)
    <3>0. PICK u \in Url : \E n \in 1..c[u] : x = <<u, n>>
      BY <1>1, <2>2
    <3>1. PICK n \in 1..c[u] : x = <<u, n>>
      BY <3>0
    <3>2. n \in 1..d[u]
      OBVIOUS
    <3> QED
      BY <1>1, <1>2, <3>1, <3>2
  <2> QED
    BY <1>4, <2>1, <2>2
<1>5. EdgesOf(d) = EdgesOf(c) \cup {e}
  BY <1>3, <1>4
<1> HIDE DEF d, e
<1> QED
  BY <1>0, <1>5, OneMore DEF d

LEMMA ProspectiveIsNat ==
    ASSUME TraversalAssumption, NEW S, S \subseteq DOMAIN Transition, S # {}, NEW depth \in Nat
    PROVE  ProspectiveDepth(S, depth) \in Nat
<1> DEFINE D == {depth + Transition[i].depth : i \in S}
<1>0. \A i \in S : Transition[i].depth \in Nat
  BY DEF TraversalAssumption
<1>1. D \subseteq Nat /\ D # {}
  BY <1>0
<1> QED
  BY <1>1, MinIsLeast DEF ProspectiveDepth

\* What the limits leave room for, and who they leave it for.
LEMMA EligibleFits ==
    ASSUME TraversalAssumption, NEW t, NEW src, NEW depth, NEW l, NEW i \in Eligible(t, src, depth, l)
    PROVE  /\ i \in DOMAIN Transition /\ Transition[i].target = Match[l.to]
           /\ ~(Cardinality(t.admitted) >= MaxPages)
           /\ ~(t.scheduled[Match[l.to]] >= PageBudget[Match[l.to]])
           /\ ~(t.edges[i][src] >= Transition[i].perPage)
           /\ ~(Cardinality(EdgesOf(t.edges[i])) >= Transition[i].total)
BY DEF Eligible, Semantic, BudgetHit, Excluded, EdgeTotal

LEMMA EdgesStayHeld ==
    ASSUME TraversalAssumption, NEW edges, EdgesHold(edges), NEW src \in Url, NEW E, NEW edges2,
           \A i \in DOMAIN Transition : i \in E =>
                /\ ~(edges[i][src] >= Transition[i].perPage)
                /\ ~(Cardinality(EdgesOf(edges[i])) >= Transition[i].total),
           edges2 = [i \in DOMAIN Transition |-> IF i \in E THEN [edges[i] EXCEPT ![src] = @ + 1]
                                                  ELSE edges[i]]
    PROVE  EdgesHold(edges2)
<1>1. DOMAIN edges = DOMAIN Transition /\ \A i \in DOMAIN Transition : edges[i] \in [Url -> Nat]
  BY DEF EdgesHold
<1>2. ASSUME NEW i \in DOMAIN Transition
      PROVE  /\ edges2[i] \in [Url -> Nat] /\ IsFiniteSet(EdgesOf(edges2[i]))
             /\ Cardinality(EdgesOf(edges2[i])) <= Transition[i].total
             /\ \A u \in Url : edges2[i][u] <= Transition[i].perPage
  <2>1. CASE i \notin E
    BY <1>1, <2>1 DEF EdgesHold
  <2>2. CASE i \in E
    <3>1. edges2[i] = [edges[i] EXCEPT ![src] = @ + 1]
      BY <1>1, <2>2
    <3>2. Transition[i].total \in Nat /\ Transition[i].perPage \in Nat
      BY DEF TraversalAssumption
    <3>3. IsFiniteSet(EdgesOf(edges[i])) /\ Cardinality(EdgesOf(edges[i])) \in Nat
      BY FS_CardinalityType DEF EdgesHold
    <3>4. /\ IsFiniteSet(EdgesOf(edges2[i]))
          /\ Cardinality(EdgesOf(edges2[i])) = Cardinality(EdgesOf(edges[i])) + 1
      BY <1>1, <3>1, <3>3, EdgeAdded
    <3>5. Cardinality(EdgesOf(edges2[i])) <= Transition[i].total
      BY <2>2, <3>2, <3>3, <3>4
    <3>6. edges2[i] \in [Url -> Nat] /\ \A u \in Url : edges2[i][u] <= Transition[i].perPage
      BY <1>1, <2>2, <3>1, <3>2 DEF EdgesHold
    <3> QED
      BY <3>4, <3>5, <3>6
  <2> QED
    BY <2>1, <2>2
<1> QED
  BY <1>1, <1>2 DEF EdgesHold

\* An admitted child is one more page, one more of its type and one more edge of
\* each eligible transition.
LEMMA AdmitGrows ==
    ASSUME TraversalAssumption, NEW t, Trav(t), NEW src \in Url, NEW depth \in Nat, NEW l \in Link,
           l.to \in Url, l.to \notin t.seen, Matched(l.to),
           Eligible(t, src, depth, l) # {},
           NEW s, s = [t EXCEPT !.seen = @ \cup {l.to}, !.inScope = @ \cup {l.to}]
    PROVE  /\ Grows(t, Admit(s, src, depth, l))
           /\ l.to \in DOMAIN Admit(s, src, depth, l).queued
<1> DEFINE u == l.to
           E == Eligible(t, src, depth, l)
           e == [depth |-> ProspectiveDepth(E, depth), type |-> Match[u],
                 order |-> t.newly + Len(Seeds), pag |-> l.pag]
<1>1. PICK v : v = Admit(s, src, depth, l)
  OBVIOUS
<1>2. Eligible(s, src, depth, l) = E
  BY DEF Trav, Eligible, BudgetHit, Excluded, EdgeTotal
<1>3. /\ DOMAIN v = DOMAIN t /\ v.admitted = t.admitted \cup {u} /\ v.seen = t.seen \cup {u}
      /\ v.inScope = t.inScope \cup {u} /\ v.sampled = t.sampled /\ v.expanded = t.expanded
      /\ v.newly = t.newly + 1 /\ v.queued = With(t.queued, u, e)
      /\ v.scheduled = [t.scheduled EXCEPT ![Match[u]] = @ + 1]
      /\ v.edges = [i \in DOMAIN Transition |->
                      IF i \in E THEN [t.edges[i] EXCEPT ![src] = @ + 1] ELSE t.edges[i]]
  BY <1>1, <1>2 DEF Admit, Trav
<1>4. u \notin t.admitted /\ u \notin DOMAIN t.queued /\ IsFiniteSet(t.admitted)
      /\ t.newly = Cardinality(t.admitted) /\ t.newly \in Nat
  BY FS_CardinalityType DEF Trav
<1>5. IsFiniteSet(v.admitted) /\ Cardinality(v.admitted) = Cardinality(t.admitted) + 1
  BY <1>3, <1>4, OneMore
<1>6. DOMAIN v.queued = DOMAIN t.queued \cup {u} /\ v.queued[u] = e
      /\ \A x \in DOMAIN t.queued : v.queued[x] = t.queued[x]
  BY <1>3, <1>4 DEF With
<1>7. e \in Entry
  <2>1. E \subseteq DOMAIN Transition
    BY DEF Eligible, Semantic
  <2>2. ProspectiveDepth(E, depth) \in Nat
    BY <2>1, ProspectiveIsNat
  <2>3. Len(Seeds) \in Nat
    BY DEF TraversalAssumption
  <2>4. t.newly + Len(Seeds) \in Nat
    BY <1>4, <2>3
  <2>5. Match[u] \in PageType /\ l.pag \in BOOLEAN
    BY DEF Matched, Link
  <2> QED
    BY <2>2, <2>4, <2>5 DEF Entry
<1> HIDE DEF e
<1>8. Trav(v)
  BY <1>3, <1>4, <1>5, <1>6, <1>7 DEF Trav
<1>9. ASSUME NEW R, NEW A, NEW Q, Extends(t, R, A, Q) PROVE Extends(v, R, A, Q)
  <2>0. PICK i \in E : TRUE
    OBVIOUS
  <2>1. R[u].adm = "NONE" /\ u \notin A
    BY <1>9 DEF Extends, Present
  <2>2. Fresh(v, R) = Fresh(t, R) \cup {u}
    BY <1>6, <2>1 DEF Fresh
  <2>3. e.type = Match[u]
    BY DEF e
  <2>4. TypeIn(v, R, u) = Match[u]
        /\ \A x \in t.admitted : TypeIn(v, R, x) = TypeIn(t, R, x)
    <3>1. \A x \in t.admitted : R[x].adm = "NONE" => x \in DOMAIN t.queued
      BY <1>9 DEF Extends, Present, Fresh
    <3> QED
      BY <1>6, <2>1, <2>3, <3>1 DEF TypeIn
  <2>5. ASSUME NEW p \in PageType
        PROVE  /\ IsFiniteSet(PagesOf(t, R, p)) /\ Cardinality(PagesOf(t, R, p)) \in Nat
               /\ Cardinality(PagesOf(v, R, p)) = Cardinality(PagesOf(t, R, p))
                                                   + (IF p = Match[u] THEN 1 ELSE 0)
    <3>1. IsFiniteSet(PagesOf(t, R, p)) /\ Cardinality(PagesOf(t, R, p)) \in Nat
      BY <1>4, FS_Subset, FS_CardinalityType DEF PagesOf
    <3>2. CASE p = Match[u]
      <4>1. PagesOf(v, R, p) = PagesOf(t, R, p) \cup {u} /\ u \notin PagesOf(t, R, p)
        BY <1>3, <1>4, <2>4, <3>2 DEF PagesOf
      <4> QED
        BY <3>1, <3>2, <4>1, OneMore
    <3>3. CASE p # Match[u]
      <4>1. PagesOf(v, R, p) = PagesOf(t, R, p)
        BY <1>3, <1>4, <2>4, <3>3 DEF PagesOf
      <4> QED
        BY <3>1, <3>3, <4>1
    <3> QED
      BY <3>2, <3>3
  <2>6. /\ ~(Cardinality(t.admitted) >= MaxPages)
        /\ ~(t.scheduled[Match[u]] >= PageBudget[Match[u]])
    BY <2>0, EligibleFits
  <2>7. Match[u] \in PageType /\ MaxPages \in Nat /\ \A p \in PageType : PageBudget[p] \in Nat
    BY DEF Matched, TraversalAssumption
  <2>8. Counts(v, R)
    <3>1. t.scheduled = [p \in PageType |-> Cardinality(PagesOf(t, R, p))]
          /\ \A p \in PageType : Cardinality(PagesOf(t, R, p)) <= PageBudget[p]
      BY <1>9 DEF Extends, Counts
    <3>2. v.scheduled = [p \in PageType |-> Cardinality(PagesOf(v, R, p))]
      BY <1>3, <2>5, <2>7, <3>1
    <3>3. ASSUME NEW p \in PageType PROVE Cardinality(PagesOf(v, R, p)) <= PageBudget[p]
      <4>1. CASE p = Match[u]
        BY <2>5, <2>6, <2>7, <3>1, <4>1
      <4>2. CASE p # Match[u]
        BY <2>5, <3>1, <4>2
      <4> QED
        BY <4>1, <4>2
    <3>4. Cardinality(v.admitted) <= MaxPages
      BY <1>4, <1>5, <2>6, <2>7
    <3> QED
      BY <3>2, <3>3, <3>4 DEF Counts
  <2>9. EdgesHold(v.edges)
    <3>1. \A j \in DOMAIN Transition : j \in E =>
                /\ ~(t.edges[j][src] >= Transition[j].perPage)
                /\ ~(Cardinality(EdgesOf(t.edges[j])) >= Transition[j].total)
      BY EligibleFits
    <3>2. EdgesHold(t.edges)
      BY <1>9 DEF Extends
    <3> HIDE DEF E
    <3> QED
      BY <1>3, <3>1, <3>2, EdgesStayHeld
  <2>10. \A x \in Q : x \in DOMAIN t.queued
    BY <1>9 DEF Extends
  <2> QED
    BY <1>3, <1>6, <1>9, <2>2, <2>8, <2>9, <2>10 DEF Extends
<1> QED
  BY <1>1, <1>3, <1>6, <1>8, <1>9 DEF Grows

LEMMA NearerGrows ==
    ASSUME TraversalAssumption, NEW t, Trav(t), NEW src, NEW depth \in Nat, NEW l
    PROVE  Grows(t, Nearer(t, src, depth, l))
<1> DEFINE S == {i \in DOMAIN Transition : /\ Transition[i].source = Match[src]
                                           /\ Transition[i].target = t.queued[l.to].type
                                           /\ Transition[i].sel = l.sel}
           D == {t.queued[l.to].depth, ProspectiveDepth(S, depth)}
<1>1. PICK v : v = Nearer(t, src, depth, l)
  OBVIOUS
<1>2. CASE ~(l.to \in DOMAIN t.queued \ t.sampled /\ S # {} /\ InScope(l.to))
  <2>1. v = t
    BY <1>1, <1>2 DEF Nearer
  <2> QED
    BY <1>1, <2>1 DEF Grows
<1>3. CASE l.to \in DOMAIN t.queued \ t.sampled /\ S # {} /\ InScope(l.to)
  <2>1. v = [t EXCEPT !.queued[l.to].depth = Min(D)]
    BY <1>1, <1>3 DEF Nearer
  <2>2. t.queued[l.to] \in Entry /\ l.to \in DOMAIN t.queued
    BY <1>3 DEF Trav
  <2>3. Min(D) \in Nat
    <3>1. D \subseteq Nat
      BY <1>3, <2>2, ProspectiveIsNat DEF Entry
    <3> QED
      BY <3>1, MinIsLeast
  <2> HIDE DEF D
  <2>4. v.queued = [t.queued EXCEPT ![l.to] = [t.queued[l.to] EXCEPT !.depth = Min(D)]]
        /\ DOMAIN v = DOMAIN t /\ v.admitted = t.admitted /\ v.seen = t.seen
        /\ v.inScope = t.inScope /\ v.sampled = t.sampled /\ v.expanded = t.expanded
        /\ v.newly = t.newly /\ v.scheduled = t.scheduled /\ v.edges = t.edges
    BY <2>1 DEF Trav
  <2>5. DOMAIN v.queued = DOMAIN t.queued
        /\ \A x \in DOMAIN t.queued :
              /\ v.queued[x] \in Entry
              /\ v.queued[x].type = t.queued[x].type /\ v.queued[x].order = t.queued[x].order
              /\ v.queued[x].pag = t.queued[x].pag
    BY <2>2, <2>3, <2>4 DEF Trav, Entry
  <2>6. Trav(v)
    BY <2>4, <2>5 DEF Trav
  <2>7. ASSUME NEW R, NEW A, NEW Q, Extends(t, R, A, Q) PROVE Extends(v, R, A, Q)
    <3>1. Fresh(v, R) = Fresh(t, R)
      BY <2>5 DEF Fresh
    <3>2. \A x \in t.admitted : R[x].adm = "NONE" => x \in DOMAIN t.queued
      BY <2>7 DEF Extends, Present, Fresh
    <3>3. \A x \in t.admitted : TypeIn(v, R, x) = TypeIn(t, R, x)
      BY <2>5, <3>2 DEF TypeIn
    <3>4. \A p : PagesOf(v, R, p) = PagesOf(t, R, p)
      BY <2>4, <3>3 DEF PagesOf
    <3>5. Counts(v, R)
      BY <2>4, <2>7, <3>4 DEF Extends, Counts
    <3>6. \A x \in Q : x \in DOMAIN t.queued
      BY <2>7 DEF Extends
    <3> QED
      BY <2>4, <2>5, <2>7, <3>1, <3>5, <3>6 DEF Extends
  <2> QED
    BY <1>1, <2>4, <2>5, <2>6, <2>7 DEF Grows
<1> QED
  BY <1>2, <1>3

\* The evidence a link leaves: a URL, which is queued if it was admitted.
Left(paths, paths2, t) ==
    \E p : /\ paths2 = paths \cup {p} /\ p[1] \in Url
           /\ p[2] = "ADMITTED" => p[1] \in DOMAIN t.queued

LEMMA VisitGrows ==
    ASSUME TraversalAssumption, NEW src \in Url, NEW depth \in Nat, NEW acc, Trav(acc.t),
           NEW l \in Link
    PROVE  LET v == VisitLink(src, depth, acc, l)
           IN  Grows(acc.t, v.t) /\ Left(acc.paths, v.paths, v.t)
<1> DEFINE t == acc.t
           u == l.to
           said == LinkStatus(t, src, depth, l)
           seen   == IF u = Invalid THEN t
                     ELSE [t EXCEPT !.seen = @ \cup {u},
                                    !.inScope = IF u \notin t.seen /\ InScope(u)
                                                THEN @ \cup {u} ELSE @]
           moved  == CASE said = "ADMITTED"            -> Admit(seen, src, depth, l)
                       [] said = "CANONICAL_DUPLICATE" -> Nearer(t, src, depth, l)
                       [] OTHER                          -> seen
           p == <<IF u = Invalid THEN src ELSE u, said>>
<1>1. u \in Url \cup {Invalid} /\ Invalid \notin Url
  BY DEF Link, TraversalAssumption
<1>2. /\ Trav(moved) /\ Grows(t, moved)
      /\ p[1] \in Url /\ (p[2] = "ADMITTED" => p[1] \in DOMAIN moved.queued)
  <2>1. CASE said = "ADMITTED"
    <3>1. /\ u # Invalid /\ u \notin t.seen /\ InScope(u) /\ Matched(u)
          /\ Eligible(t, src, depth, l) # {}
      <4>1. u \in Url => Scope[u] \in {"IN_SCOPE", "EXTERNAL", "BLOCKED"}
        BY DEF TraversalAssumption
      <4> QED
        BY <1>1, <2>1, <4>1 DEF LinkStatus, InScope
    <3>2. seen = [t EXCEPT !.seen = @ \cup {u}, !.inScope = @ \cup {u}]
      BY <3>1
    <3> HIDE DEF seen
    <3>3. Grows(t, Admit(seen, src, depth, l)) /\ u \in DOMAIN Admit(seen, src, depth, l).queued
      BY <1>1, <3>1, <3>2, AdmitGrows
    <3>4. moved = Admit(seen, src, depth, l)
      BY <2>1
    <3> QED
      BY <1>1, <3>1, <3>3, <3>4 DEF Grows
  <2>2. CASE said = "CANONICAL_DUPLICATE"
    <3>1. moved = Nearer(t, src, depth, l)
      BY <2>2
    <3>2. Grows(t, moved)
      BY <3>1, NearerGrows
    <3> HIDE DEF moved
    <3> QED
      BY <1>1, <2>2, <3>2 DEF Grows
  <2>3. CASE said # "ADMITTED" /\ said # "CANONICAL_DUPLICATE"
    <3>1. moved = seen
      BY <2>3
    <3>2. /\ DOMAIN seen = DOMAIN t /\ t.seen \subseteq seen.seen /\ seen.seen \subseteq Url
          /\ seen.inScope \subseteq seen.seen
          /\ seen.queued = t.queued /\ seen.admitted = t.admitted /\ seen.newly = t.newly
          /\ seen.scheduled = t.scheduled /\ seen.edges = t.edges
          /\ seen.sampled = t.sampled /\ seen.expanded = t.expanded
      BY <1>1 DEF Trav
    <3> HIDE DEF seen
    <3>3. Trav(seen)
      BY <3>2 DEF Trav
    <3>4. Grows(t, seen)
      BY <3>2, <3>3, SameGrows
    <3> QED
      BY <1>1, <2>3, <3>1, <3>3, <3>4
  <2> QED
    BY <2>1, <2>2, <2>3
<1>3. PICK m : m = moved
  OBVIOUS
<1>4. PICK b : b = (l.pag /\ said = "BUDGET_EXCLUDED")
  OBVIOUS
<1>5. PICK n : n = IF b THEN [m EXCEPT !.truncated = TRUE] ELSE m
  OBVIOUS
<1>6. VisitLink(src, depth, acc, l) = [t |-> n, paths |-> acc.paths \cup {p}]
  BY <1>3, <1>4, <1>5 DEF VisitLink
<1> HIDE DEF moved, said
<1>7. Trav(m) /\ Grows(t, m)
  BY <1>2, <1>3
<1>8. /\ DOMAIN n = DOMAIN m /\ n.queued = m.queued /\ n.admitted = m.admitted
      /\ n.seen = m.seen /\ n.inScope = m.inScope /\ n.newly = m.newly
      /\ n.scheduled = m.scheduled /\ n.edges = m.edges
      /\ n.sampled = m.sampled /\ n.expanded = m.expanded
  BY <1>5, <1>7 DEF Trav
<1>9. Trav(n)
  BY <1>7, <1>8 DEF Trav
<1>10. Grows(m, n)
  BY <1>8, <1>9, SameGrows
<1>11. Grows(t, n)
  BY <1>7, <1>10, GrowsOnwards
<1>12. Left(acc.paths, acc.paths \cup {p}, n)
  BY <1>2, <1>3, <1>8 DEF Left
<1> QED
  BY <1>6, <1>11, <1>12

-----------------------------------------------------------------------------
(* One page.                                                                *)

Evident(paths, t) ==
    \A p \in paths : p[1] \in Url /\ (p[2] = "ADMITTED" => p[1] \in DOMAIN t.queued)

LEMMA MoreEvident ==
    ASSUME NEW paths, NEW t, NEW paths2, NEW t2, Evident(paths, t), Grows(t, t2),
           Left(paths, paths2, t2)
    PROVE  Evident(paths2, t2)
<1>1. PICK p : /\ paths2 = paths \cup {p} /\ p[1] \in Url
               /\ p[2] = "ADMITTED" => p[1] \in DOMAIN t2.queued
  BY DEF Left
<1>2. DOMAIN t.queued \subseteq DOMAIN t2.queued
  BY DEF Grows
<1> QED
  BY <1>1, <1>2 DEF Evident

LEMMA ExpandGrows ==
    ASSUME TraversalAssumption, NEW t, Trav(t), NEW src \in Url, src \in t.sampled,
           NEW depth \in Nat, NEW links, links \subseteq Link, IsFiniteSet(links)
    PROVE  LET x == ExpandPage(t, src, depth, links)
           IN  Grows([t EXCEPT !.expanded = @ \cup {src}], x.t) /\ Evident(x.paths, x.t)
<1> DEFINE all == Coalesced(links)
           E == Expansion(t, src, depth, all)
           s == [t EXCEPT !.expanded = @ \cup {src}]
           Good(acc, k) == /\ Grows(s, acc.t) /\ Evident(acc.paths, acc.t)
                           /\ acc.left \subseteq all /\ IsFiniteSet(acc.left)
                           /\ Cardinality(acc.left) + k = Cardinality(all)
<1>1. all \subseteq links /\ Distinct(all) /\ IsFiniteSet(all)
  BY CoalescedAreDistinct, FS_Subset
<1>2. PICK n \in Nat : n = Cardinality(all)
  BY <1>1, FS_CardinalityType
<1>3. /\ E[0] = ExpansionStart(t, src, all)
      /\ \A k \in 1..n : E[k] = VisitFirst(src, depth, E[k - 1])
  <2> HIDE DEF all
  <2> QED
    BY <1>2, ExpansionIs
<1>4. Trav(s) /\ Grows(s, s)
  BY DEF Trav, Grows
<1>5. Good(E[0], 0)
  <2>1. E[0].t = s /\ E[0].paths = {} /\ E[0].left = all
    BY <1>3 DEF ExpansionStart
  <2> HIDE DEF E, all, s
  <2> QED
    BY <1>1, <1>2, <1>4, <2>1 DEF Evident
<1>6. ASSUME NEW k \in 1..n, Good(E[k - 1], k - 1) PROVE Good(E[k], k)
  <2>1. PICK acc : acc = E[k - 1]
    OBVIOUS
  <2>2. PICK l : l = FirstLink(acc.left)
    OBVIOUS
  <2>3. PICK v : v = VisitLink(src, depth, acc, l)
    OBVIOUS
  <2>4. E[k] = [t |-> v.t, paths |-> v.paths, left |-> acc.left \ {l}]
    BY <1>3, <2>1, <2>2, <2>3 DEF VisitFirst
  <2>5. Good(acc, k - 1)
    BY <1>6, <2>1
  <2>6. Cardinality(acc.left) \in Nat /\ Cardinality(acc.left) # 0
    BY <1>2, <2>5, FS_CardinalityType
  <2>7. acc.left # {} /\ Distinct(acc.left) /\ acc.left \subseteq Link
    BY <1>1, <2>5, <2>6, FS_EmptySet DEF Distinct
  <2>8. l \in acc.left /\ l \in Link
    BY <2>2, <2>7, FirstIsALink
  <2>9. Trav(acc.t)
    BY <2>5 DEF Grows
  <2>10. Grows(acc.t, v.t) /\ Left(acc.paths, v.paths, v.t)
    BY <2>3, <2>8, <2>9, VisitGrows
  <2>11. Grows(s, v.t) /\ Evident(v.paths, v.t)
    BY <2>5, <2>10, GrowsOnwards, MoreEvident
  <2>12. /\ IsFiniteSet(acc.left \ {l})
         /\ Cardinality(acc.left) = Cardinality(acc.left \ {l}) + 1
         /\ Cardinality(acc.left \ {l}) \in Nat
    BY <2>5, <2>8, OneLess
  <2>13. Cardinality(acc.left \ {l}) + k = Cardinality(all)
    BY <2>5, <2>12
  <2> HIDE DEF E, all, s
  <2> QED
    BY <2>4, <2>5, <2>11, <2>12, <2>13
<1> DEFINE F(k) == Good(E[k], k)
           G == {k \in 0..n : F(k)}
<1>7. F(0) /\ \A k \in 1..n : F(k - 1) => F(k)
  BY <1>5, <1>6
<1> HIDE DEF F
<1>8. 0 \in G /\ \A k \in 1..n : k - 1 \in G => k \in G
  BY <1>7
<1>9. \A k \in 0..n : k \in G
  <2> HIDE DEF G
  <2> QED
    BY <1>8, Counting
<1>10. Good(E[n], n)
  <2>1. n \in 0..n
    OBVIOUS
  <2>2. F(n)
    BY <1>9, <2>1
  <2> HIDE DEF Good, E, G
  <2> QED
    BY <2>2 DEF F
<1>11. ExpandPage(t, src, depth, links) = [t |-> E[n].t, paths |-> E[n].paths]
  <2> HIDE DEF Good, F, G
  <2> QED
    BY <1>2 DEF ExpandPage
<1> HIDE DEF E, all
<1> QED
  BY <1>10, <1>11

-----------------------------------------------------------------------------
(* The roots.                                                               *)

Rooted(acc) ==
    LET t == acc.t IN
    /\ Trav(t) /\ Evident(acc.paths, t)
    /\ t.admitted = DOMAIN t.queued /\ Cardinality(t.admitted) <= MaxPages
    /\ t.sampled = {} /\ t.expanded = {} /\ t.inScope = {}
    /\ t.edges = NewTraversal.edges /\ t.scheduled = NewTraversal.scheduled
    /\ \A u \in DOMAIN t.queued : t.queued[u].type = NoType
    /\ \A p \in acc.paths : p[1] \in t.seen
    /\ \A u \in t.seen \ DOMAIN t.queued : \E p \in acc.paths : p[1] = u /\ p[2] # "ADMITTED"

LEMMA NewIsRooted == TraversalAssumption => Rooted([t |-> NewTraversal, paths |-> {}])
<1>0. SUFFICES ASSUME TraversalAssumption PROVE Rooted([t |-> NewTraversal, paths |-> {}])
  OBVIOUS
<1>1. IsFiniteSet({}) /\ Cardinality({}) = 0 /\ DOMAIN <<>> = {}
  BY FS_EmptySet
<1>2. PICK t : t = NewTraversal
  OBVIOUS
<1>3. /\ DOMAIN t = {"queued", "admitted", "seen", "sampled", "expanded", "inScope", "newly",
                     "scheduled", "edges", "bytes", "timeHit", "unexpanded", "truncated"}
      /\ t.queued = <<>> /\ t.admitted = {} /\ t.seen = {} /\ t.sampled = {}
      /\ t.expanded = {} /\ t.inScope = {} /\ t.newly = 0
  BY <1>2 DEF NewTraversal
<1>4. DOMAIN t.queued = {}
  BY <1>1, <1>3
<1>5. Trav(t)
  BY <1>1, <1>3, <1>4 DEF Trav
<1>6. MaxPages \in Nat
  BY <1>0 DEF TraversalAssumption
<1>7. PICK acc : acc = [t |-> NewTraversal, paths |-> {}]
  OBVIOUS
<1>8. acc.t = t /\ acc.paths = {} /\ Cardinality(t.admitted) <= MaxPages
      /\ t.seen \ DOMAIN t.queued = {}
  BY <1>1, <1>2, <1>3, <1>6, <1>7
<1>9. Rooted(acc)
  BY <1>2, <1>3, <1>4, <1>5, <1>8 DEF Rooted, Evident
<1> QED
  BY <1>7, <1>9

LEMMA RootStaysRooted ==
    ASSUME TraversalAssumption, NEW acc, Rooted(acc), NEW i, Seeds[i] \in Url, i - 1 \in Nat
    PROVE  Rooted(AdmitRoot(acc, i))
<1> DEFINE u == Seeds[i]
           t == acc.t
           said == RootStatus(t, u)
           seen == [t EXCEPT !.seen = @ \cup {u}]
           e == [depth |-> 0, type |-> NoType, order |-> i - 1, pag |-> FALSE]
           v == IF said # "ADMITTED" THEN seen
                ELSE [seen EXCEPT !.admitted = @ \cup {u}, !.queued = With(@, u, e),
                                  !.newly = @ + 1]
           p == <<u, said>>
<1>1. AdmitRoot(acc, i) = [t |-> v, paths |-> acc.paths \cup {p}]
  BY DEF AdmitRoot
<1>2. Trav(t) /\ t.newly \in Nat /\ t.newly = Cardinality(t.admitted)
  BY FS_CardinalityType DEF Rooted, Trav
<1>3. /\ DOMAIN v = DOMAIN t /\ v.seen = t.seen \cup {u} /\ v.inScope = t.inScope
      /\ v.sampled = t.sampled /\ v.expanded = t.expanded /\ v.edges = t.edges
      /\ v.scheduled = t.scheduled
  BY <1>2 DEF Trav
<1>4. CASE said # "ADMITTED"
  <2>1. v.queued = t.queued /\ v.admitted = t.admitted /\ v.newly = t.newly
    BY <1>2, <1>4 DEF Trav
  <2>2. Trav(v)
    BY <1>2, <1>3, <2>1 DEF Trav
  <2> HIDE DEF v, said
  <2>3. p[1] = u /\ p[2] = said
    OBVIOUS
  <2> HIDE DEF p
  <2>4. Evident(acc.paths \cup {p}, v)
    BY <1>4, <2>1, <2>3 DEF Rooted, Evident
  <2>5. \A x \in v.seen \ DOMAIN v.queued :
            \E q \in acc.paths \cup {p} : q[1] = x /\ q[2] # "ADMITTED"
    BY <1>3, <1>4, <2>1, <2>3 DEF Rooted
  <2>6. \A q \in acc.paths \cup {p} : q[1] \in v.seen
    BY <1>3, <2>3 DEF Rooted
  <2> QED
    BY <1>1, <1>3, <2>1, <2>2, <2>4, <2>5, <2>6 DEF Rooted
<1>5. CASE said = "ADMITTED"
  <2>1. u \notin t.seen /\ ~(Cardinality(t.admitted) >= MaxPages)
    <3>1. Scope[u] \in {"IN_SCOPE", "EXTERNAL", "BLOCKED"}
      BY DEF TraversalAssumption
    <3> QED
      BY <1>5, <3>1 DEF RootStatus, InScope
  <2>2. /\ v.queued = With(t.queued, u, e) /\ v.admitted = t.admitted \cup {u}
        /\ v.newly = t.newly + 1
    BY <1>2, <1>5 DEF Trav
  <2>3. u \notin t.admitted /\ u \notin DOMAIN t.queued /\ IsFiniteSet(t.admitted)
    BY <1>2, <2>1 DEF Trav
  <2>4. IsFiniteSet(v.admitted) /\ Cardinality(v.admitted) = Cardinality(t.admitted) + 1
    BY <2>2, <2>3, OneMore
  <2>5. DOMAIN v.queued = DOMAIN t.queued \cup {u} /\ v.queued[u] = e
        /\ \A x \in DOMAIN t.queued : v.queued[x] = t.queued[x]
    BY <2>2, <2>3 DEF With
  <2>6. e \in Entry /\ e.type = NoType
    BY DEF Entry
  <2> HIDE DEF e
  <2>7. Trav(v)
    BY <1>2, <1>3, <2>2, <2>4, <2>5, <2>6 DEF Trav
  <2>8. Cardinality(v.admitted) <= MaxPages
    BY <1>2, <2>1, <2>4 DEF TraversalAssumption
  <2> HIDE DEF v, said
  <2>9. p[1] = u
    OBVIOUS
  <2> HIDE DEF p
  <2>10. Evident(acc.paths \cup {p}, v)
    BY <2>5, <2>9 DEF Rooted, Evident
  <2>11. \A x \in v.seen \ DOMAIN v.queued :
            \E q \in acc.paths \cup {p} : q[1] = x /\ q[2] # "ADMITTED"
    BY <1>3, <2>5 DEF Rooted
  <2>12. \A q \in acc.paths \cup {p} : q[1] \in v.seen
    BY <1>3, <2>9 DEF Rooted
  <2>13. v.admitted = DOMAIN v.queued
    BY <2>2, <2>5 DEF Rooted
  <2>14. \A x \in DOMAIN v.queued : v.queued[x].type = NoType
    BY <2>5, <2>6 DEF Rooted
  <2> QED
    BY <1>1, <1>3, <2>7, <2>8, <2>10, <2>11, <2>12, <2>13, <2>14 DEF Rooted
<1> QED
  BY <1>4, <1>5

LEMMA RootsAreRooted == TraversalAssumption => Rooted(AdmitRoots)
<1> SUFFICES ASSUME TraversalAssumption PROVE Rooted(AdmitRoots)
  OBVIOUS
<1>1. PICK n \in Nat : n = Len(Seeds)
  BY DEF TraversalAssumption
<1> DEFINE F(k) == Rooted(RootsAdmitted[k])
           G == {k \in 0..n : F(k)}
<1>2. F(0)
  BY <1>1, RootsAre, NewIsRooted DEF RootsStart
<1>3. ASSUME NEW k \in 1..n, F(k - 1) PROVE F(k)
  <2>1. Seeds[k] \in Url
    BY <1>1, ElementOfSeq DEF TraversalAssumption
  <2>2. RootsAdmitted[k] = AdmitRoot(RootsAdmitted[k - 1], k) /\ k - 1 \in Nat
    BY <1>1, RootsAre
  <2> QED
    BY <1>3, <2>1, <2>2, RootStaysRooted
<1>4. F(0) /\ \A k \in 1..n : F(k - 1) => F(k)
  BY <1>2, <1>3
<1> HIDE DEF F
<1>5. 0 \in G /\ \A k \in 1..n : k - 1 \in G => k \in G
  BY <1>4
<1>6. \A k \in 0..n : k \in G
  <2> HIDE DEF G
  <2> QED
    BY <1>5, Counting
<1>7. F(n)
  BY <1>6
<1> QED
  BY <1>1, <1>7 DEF F, AdmitRoots

-----------------------------------------------------------------------------
(* One observed page.                                                       *)

LEMMA PoppedIs ==
    ASSUME NEW t, Trav(t), NEW u
    PROVE  /\ DOMAIN Popped(t, u) = DOMAIN t
           /\ DOMAIN Popped(t, u).queued = DOMAIN t.queued \ {u}
           /\ \A x \in DOMAIN t.queued \ {u} : Popped(t, u).queued[x] = t.queued[x]
           /\ \A field \in DOMAIN t \ {"queued"} : Popped(t, u)[field] = t[field]
           /\ Trav(Popped(t, u))
<1>1. PICK v : v = Popped(t, u)
  OBVIOUS
<1>2. /\ DOMAIN v = DOMAIN t
      /\ DOMAIN v.queued = DOMAIN t.queued \ {u}
      /\ \A x \in DOMAIN t.queued \ {u} : v.queued[x] = t.queued[x]
      /\ \A field \in DOMAIN t \ {"queued"} : v[field] = t[field]
  BY <1>1 DEF Popped, Without, Restrict, Trav
<1>3. Trav(v)
  BY <1>2 DEF Trav
<1> QED
  BY <1>1, <1>2, <1>3

LEMMA PopExtends ==
    ASSUME NEW t, Trav(t), NEW R, NEW A, NEW Q, Extends(t, R, A, Q), NEW u \in Q
    PROVE  Extends(Popped(t, u), R, A, Q \ {u})
<1>1. PICK v : v = Popped(t, u)
  OBVIOUS
<1>2. /\ DOMAIN v.queued = DOMAIN t.queued \ {u} /\ v.admitted = t.admitted
      /\ v.seen = t.seen /\ v.scheduled = t.scheduled /\ v.edges = t.edges
      /\ \A x \in DOMAIN t.queued \ {u} : v.queued[x] = t.queued[x]
  BY <1>1, PoppedIs DEF Trav
<1>3. R[u].adm # "NONE" /\ u \notin Fresh(t, R)
  BY DEF Extends, Present, Fresh
<1>4. Fresh(v, R) = Fresh(t, R)
  BY <1>2, <1>3 DEF Fresh
<1>5. \A x \in t.admitted : R[x].adm = "NONE" => x \in DOMAIN t.queued \ {u}
  BY <1>3 DEF Extends, Present, Fresh
<1>6. \A x \in t.admitted : TypeIn(v, R, x) = TypeIn(t, R, x)
  BY <1>2, <1>5 DEF TypeIn
<1>7. \A p : PagesOf(v, R, p) = PagesOf(t, R, p)
  BY <1>2, <1>6 DEF PagesOf
<1>8. Counts(v, R)
  BY <1>2, <1>7 DEF Extends, Counts
<1>9. Extends(v, R, A, Q \ {u})
  BY <1>2, <1>3, <1>4, <1>8 DEF Extends
<1> QED
  BY <1>1, <1>9

\* What is left of t when a is found to be f, which is admitted too.
Collapsed(t, v, a, f, type) ==
    /\ v.admitted = t.admitted \ {a}
    /\ DOMAIN v.queued = DOMAIN t.queued \ {f}
    /\ \A x \in DOMAIN t.queued \ {f} : v.queued[x] = t.queued[x]
    /\ v.scheduled = IF type # NoType THEN [t.scheduled EXCEPT ![type] = @ - 1]
                     ELSE t.scheduled

LEMMA RedirectIs ==
    ASSUME NEW t, Trav(t), NEW a \in t.admitted, a \notin DOMAIN t.queued, NEW f \in t.seen,
           NEW type, NEW v, v = Redirect(t, a, f, type)
    PROVE  /\ Trav(v) /\ v.sampled = t.sampled /\ v.seen = t.seen
           /\ v.expanded = t.expanded /\ v.edges = t.edges
           /\ a = f => v = t
           /\ a # f => f \notin DOMAIN v.queued
           /\ (a # f /\ f \in t.admitted) => Collapsed(t, v, a, f, type)
<1>1. v = Redirect(t, a, f, type)
  OBVIOUS
<1>2. CASE a = f
  BY <1>1, <1>2 DEF Redirect
<1>3. CASE a # f
  <2>1. /\ DOMAIN v = DOMAIN t /\ v.admitted = (t.admitted \ {a}) \cup {f}
        /\ v.newly = IF f \in t.admitted THEN t.newly - 1 ELSE t.newly
        /\ v.scheduled = IF f \in t.admitted /\ type # NoType
                         THEN [t.scheduled EXCEPT ![type] = @ - 1] ELSE t.scheduled
        /\ v.inScope = t.inScope \ {a} /\ v.seen = t.seen /\ v.sampled = t.sampled
        /\ v.expanded = t.expanded /\ v.edges = t.edges
        /\ v.queued = Without(t.queued, f)
    BY <1>1, <1>3 DEF Redirect, Trav
  <2>2. DOMAIN v.queued = DOMAIN t.queued \ {f}
        /\ \A x \in DOMAIN t.queued \ {f} : v.queued[x] = t.queued[x]
    BY <2>1 DEF Without, Restrict
  <2>3. /\ IsFiniteSet(t.admitted \ {a}) /\ Cardinality(t.admitted \ {a}) \in Nat
        /\ t.newly = Cardinality(t.admitted \ {a}) + 1
    BY OneLess DEF Trav
  <2>4. IsFiniteSet(v.admitted) /\ v.newly = Cardinality(v.admitted)
    <3>1. CASE f \in t.admitted
      <4>1. v.admitted = t.admitted \ {a}
        BY <1>3, <2>1, <3>1
      <4>2. PICK c \in Nat : c = Cardinality(t.admitted \ {a})
        BY <2>3
      <4>3. v.newly = (c + 1) - 1
        BY <2>1, <2>3, <3>1, <4>2
      <4> QED
        BY <2>3, <4>1, <4>2, <4>3
    <3>2. CASE f \notin t.admitted
      BY <2>1, <2>3, <3>2, OneMore
    <3> QED
      BY <3>1, <3>2
  <2>5. DOMAIN v.queued \subseteq v.admitted
    BY <2>1, <2>2 DEF Trav
  <2>6. Trav(v)
    BY <2>1, <2>2, <2>4, <2>5 DEF Trav
  <2>7. f \in t.admitted => v.admitted = t.admitted \ {a}
    BY <1>3, <2>1
  <2> QED
    BY <1>1, <1>3, <2>1, <2>2, <2>6, <2>7 DEF Collapsed
<1> QED
  BY <1>2, <1>3

\* A redirect into an admitted unit gives one page back, and one of its type.
LEMMA RedirectExtends ==
    ASSUME TraversalAssumption, NEW t, Trav(t), NEW R, NEW A, NEW Q, Extends(t, R, A, Q),
           NEW a \in A, a \notin Q, NEW f \in A, a # f, R[a].type \in PageType \cup {NoType}
    PROVE  Extends(Redirect(t, a, f, R[a].type), R, A \ {a}, Q \ {f})
<1>0. PICK type : type = R[a].type
  OBVIOUS
<1>1. PICK v : v = Redirect(t, a, f, type)
  OBVIOUS
<1>2. /\ a \in t.admitted /\ f \in t.admitted /\ R[a].adm # "NONE" /\ R[f].adm # "NONE"
      /\ a \notin DOMAIN t.queued /\ f \in t.seen
  BY DEF Extends, Present, Fresh, Trav
<1>3. /\ v.admitted = t.admitted \ {a} /\ v.seen = t.seen /\ v.edges = t.edges
      /\ DOMAIN v.queued = DOMAIN t.queued \ {f}
      /\ \A x \in DOMAIN t.queued \ {f} : v.queued[x] = t.queued[x]
      /\ v.scheduled = IF type # NoType
                       THEN [t.scheduled EXCEPT ![type] = @ - 1] ELSE t.scheduled
  <2>1. Trav(t) /\ a \in t.admitted /\ a \notin DOMAIN t.queued /\ f \in t.seen
    BY <1>2
  <2> HIDE DEF Trav
  <2>2. Collapsed(t, v, a, f, type) /\ v.seen = t.seen /\ v.edges = t.edges
    BY <1>1, <1>2, <2>1, RedirectIs
  <2> QED
    BY <2>2 DEF Collapsed
<1>4. Fresh(v, R) = Fresh(t, R) /\ a \notin Fresh(t, R) /\ f \notin Fresh(t, R)
  BY <1>2, <1>3 DEF Fresh
<1>5. \A x \in v.admitted : TypeIn(v, R, x) = TypeIn(t, R, x)
  <2>1. \A x \in v.admitted : R[x].adm = "NONE" => x \in DOMAIN t.queued \ {f}
    BY <1>2, <1>3 DEF Extends, Present, Fresh
  <2> QED
    BY <1>3, <2>1 DEF TypeIn
<1>6. TypeIn(t, R, a) = type
  BY <1>0, <1>2 DEF TypeIn
<1>7. ASSUME NEW p \in PageType
      PROVE  /\ Cardinality(PagesOf(t, R, p)) \in Nat /\ Cardinality(PagesOf(v, R, p)) \in Nat
             /\ Cardinality(PagesOf(v, R, p)) = Cardinality(PagesOf(t, R, p))
                                                 - (IF p = type THEN 1 ELSE 0)
  <2>1. IsFiniteSet(PagesOf(t, R, p)) /\ Cardinality(PagesOf(t, R, p)) \in Nat
    BY FS_Subset, FS_CardinalityType DEF PagesOf, Trav
  <2>2. CASE p = type
    <3>1. a \in PagesOf(t, R, p) /\ PagesOf(v, R, p) = PagesOf(t, R, p) \ {a}
      BY <1>2, <1>3, <1>5, <1>6, <2>2 DEF PagesOf
    <3> QED
      BY <2>1, <2>2, <3>1, OneLess
  <2>3. CASE p # type
    <3>1. PagesOf(v, R, p) = PagesOf(t, R, p)
      BY <1>2, <1>3, <1>5, <1>6, <2>3 DEF PagesOf
    <3> QED
      BY <2>1, <2>3, <3>1
  <2> QED
    BY <2>2, <2>3
<1>8. Counts(v, R)
  <2>1. t.scheduled = [p \in PageType |-> Cardinality(PagesOf(t, R, p))]
        /\ (\A p \in PageType : Cardinality(PagesOf(t, R, p)) <= PageBudget[p])
        /\ Cardinality(t.admitted) <= MaxPages
    BY DEF Extends, Counts
  <2>2. type \in PageType \cup {NoType} /\ NoType \notin PageType /\ MaxPages \in Nat /\ \A p \in PageType : PageBudget[p] \in Nat
    BY <1>0 DEF TraversalAssumption
  <2>3. v.scheduled = [p \in PageType |-> Cardinality(PagesOf(v, R, p))]
    BY <1>3, <1>7, <2>1, <2>2
  <2>4. \A p \in PageType : Cardinality(PagesOf(v, R, p)) <= PageBudget[p]
    BY <1>7, <2>1, <2>2
  <2>5. Cardinality(v.admitted) <= MaxPages
    <3>1. /\ Cardinality(t.admitted) = Cardinality(v.admitted) + 1
          /\ Cardinality(v.admitted) \in Nat
      BY <1>2, <1>3, OneLess DEF Trav
    <3> QED
      BY <2>1, <2>2, <3>1
  <2> QED
    BY <2>3, <2>4, <2>5 DEF Counts
<1>9. Extends(v, R, A \ {a}, Q \ {f})
  <2>1. /\ Present(R) \subseteq v.seen /\ Q \ {f} \subseteq A \ {a} /\ A \ {a} \subseteq Present(R)
        /\ v.admitted = (A \ {a}) \cup Fresh(v, R)
        /\ DOMAIN v.queued = (Q \ {f}) \cup Fresh(v, R)
    BY <1>3, <1>4 DEF Extends
  <2>2. \A x \in Q \ {f} : /\ v.queued[x].type = R[x].type /\ v.queued[x].order = R[x].seq
                           /\ v.queued[x].pag = R[x].pag
    BY <1>3 DEF Extends
  <2>3. EdgesHold(v.edges)
    BY <1>3 DEF Extends
  <2> QED
    BY <1>8, <2>1, <2>2, <2>3 DEF Extends
<1> QED
  BY <1>0, <1>1, <1>9

\* The traversal after a page that was popped for u and that turned out to be f
\* extends the rows it extended before, without the unit that was redirected.
\* What the observation of u, found to be f, makes of a traversal.
Observes(t, u, f, r) ==
    /\ Trav(r.t) /\ Evident(r.paths, r.t) /\ r.t.sampled = t.sampled \cup {f}
    /\ f # u => f \notin DOMAIN r.t.queued
    /\ \A R, A, Q :
          /\ Extends(t, R, A, Q) /\ u \in Q /\ R[u].type \in PageType \cup {NoType}
          /\ f = u \/ f \in A
          => Extends(r.t, R, IF f = u THEN A ELSE A \ {u}, Q \ {u, f})

LEMMA ObservationIs ==
    ASSUME TraversalAssumption, NEW t, Trav(t), NEW u \in DOMAIN t.queued, NEW obs,
           obs \in Observation, IsFiniteSet(obs.links), NEW late,
           NEW r, r = ProcessObservation(Popped(t, u), u, t.queued[u], obs, late)
    PROVE  Observes(t, u, obs.final, r)
<1> DEFINE f == obs.final
           e == t.queued[u]
           pop == Popped(t, u)
           start == [pop EXCEPT !.seen = @ \cup {f}, !.bytes = @ + obs.bytes]
           t1 == Redirect(start, u, f, e.type)
           hit == FinalBudgetHit(t1, f, e.type)
           canGo == InScope(f) /\ Matched(f)
           paging == \E l \in obs.links : l.pag
           regular == \E l \in obs.links : ~l.pag
           t2 == [t1 EXCEPT !.sampled = @ \cup {f},
                            !.inScope = IF InScope(f) THEN @ \cup {f} ELSE @,
                            !.timeHit = @ \/ late,
                            !.truncated = @ \/ (canGo /\ obs.targetless)
                                            \/ (canGo /\ paging /\ (late \/ hit)),
                            !.unexpanded = @ \/ (late /\ regular)]
           go == ~late /\ ~hit /\ canGo /\ f \notin t2.expanded
           x == ExpandPage(t2, f, e.depth, obs.links)
           s == [t2 EXCEPT !.expanded = @ \cup {f}]
           A2(A) == IF f = u THEN A ELSE A \ {u}
           Kept(v) == \A R, A, Q :
                 /\ Extends(t, R, A, Q) /\ u \in Q /\ R[u].type \in PageType \cup {NoType}
                 /\ f = u \/ f \in A
                 => Extends(v, R, A2(A), Q \ {u, f})
<1>1. r = IF go THEN x ELSE [t |-> t2, paths |-> {}]
  BY DEF ProcessObservation
<1>2. f \in Url /\ obs.links \subseteq Link /\ e \in Entry /\ e.depth \in Nat /\ u \in t.admitted
  BY DEF Observation, Trav, Entry
<1>3. /\ DOMAIN pop = DOMAIN t /\ DOMAIN pop.queued = DOMAIN t.queued \ {u}
      /\ pop.admitted = t.admitted /\ pop.sampled = t.sampled /\ pop.seen = t.seen
      /\ Trav(pop)
  BY PoppedIs DEF Trav
<1> HIDE DEF pop
<1>4. /\ DOMAIN start = DOMAIN pop /\ start.seen = pop.seen \cup {f}
      /\ start.queued = pop.queued /\ start.admitted = pop.admitted
      /\ start.sampled = pop.sampled /\ start.expanded = pop.expanded
      /\ start.inScope = pop.inScope /\ start.newly = pop.newly
      /\ start.scheduled = pop.scheduled /\ start.edges = pop.edges
  BY <1>3 DEF Trav
<1> HIDE DEF start
<1>5. Trav(start)
  BY <1>2, <1>3, <1>4 DEF Trav
<1>6. u \in start.admitted /\ u \notin DOMAIN start.queued /\ f \in start.seen
  BY <1>2, <1>3, <1>4
<1>7. /\ Trav(t1) /\ t1.sampled = t.sampled /\ t1.seen = start.seen /\ (u = f => t1 = start)
      /\ u # f => f \notin DOMAIN t1.queued
  BY <1>3, <1>4, <1>5, <1>6, RedirectIs
<1>8. Kept(t1)
  <2>1. SUFFICES ASSUME NEW R, NEW A, NEW Q, Extends(t, R, A, Q), u \in Q,
                        R[u].type \in PageType \cup {NoType}, f = u \/ f \in A
                 PROVE  Extends(t1, R, A2(A), Q \ {u, f})
    OBVIOUS
  <2>2. Extends(pop, R, A, Q \ {u})
    BY <2>1, PopExtends DEF pop
  <2>3. Extends(start, R, A, Q \ {u})
    BY <1>4, <2>2, SameExtends
  <2>4. CASE f = u
    <3>1. Q \ {u, f} = Q \ {u} /\ A2(A) = A /\ t1 = start
      BY <1>7, <2>4
    <3> HIDE DEF t1, A2
    <3> QED
      BY <2>3, <3>1
  <2>5. CASE f # u
    <3>1. e.type = R[u].type /\ u \in A /\ f \in A
      BY <2>1, <2>5 DEF Extends
    <3>2. Q \ {u, f} = (Q \ {u}) \ {f} /\ A2(A) = A \ {u}
      BY <2>5
    <3> HIDE DEF A2
    <3>3. Extends(Redirect(start, u, f, R[u].type), R, A \ {u}, (Q \ {u}) \ {f})
      BY <1>5, <2>1, <2>3, <2>5, <3>1, RedirectExtends
    <3> QED
      BY <3>1, <3>2, <3>3
  <2> QED
    BY <2>4, <2>5
<1> HIDE DEF t1
<1>9. /\ DOMAIN t2 = DOMAIN t1 /\ t2.sampled = t1.sampled \cup {f} /\ t2.seen = t1.seen
      /\ t2.inScope = IF InScope(f) THEN t1.inScope \cup {f} ELSE t1.inScope
      /\ t2.queued = t1.queued /\ t2.admitted = t1.admitted /\ t2.newly = t1.newly
      /\ t2.scheduled = t1.scheduled /\ t2.edges = t1.edges /\ t2.expanded = t1.expanded
  BY <1>7 DEF Trav
<1> HIDE DEF t2, go
<1>10. Trav(t2)
  BY <1>4, <1>7, <1>9 DEF Trav
<1>11. Kept(t2)
  BY <1>8, <1>9, SameExtends
<1>12. CASE ~go
  <2>1. r.t = t2 /\ r.paths = {}
    BY <1>1, <1>12
  <2> QED
    BY <1>7, <1>9, <1>10, <1>11, <2>1 DEF Evident, Observes
<1>13. CASE go
  <2>1. r = x
    BY <1>1, <1>13
  <2>2. f \in t2.sampled
    BY <1>9
  <2>3. Grows(s, x.t) /\ Evident(x.paths, x.t)
    BY <1>2, <1>10, <2>2, ExpandGrows
  <2> HIDE DEF x
  <2>4. /\ DOMAIN s = DOMAIN t2 /\ s.sampled = t2.sampled /\ s.seen = t2.seen
        /\ s.queued = t2.queued /\ s.admitted = t2.admitted
        /\ s.scheduled = t2.scheduled /\ s.edges = t2.edges
    BY <1>10 DEF Trav
  <2> HIDE DEF s
  <2>5. Kept(s)
    BY <1>11, <2>4, SameExtends
  <2>6. Kept(x.t)
    BY <2>3, <2>5 DEF Grows
  <2>7. Trav(x.t) /\ x.t.sampled = t.sampled \cup {f}
    BY <1>7, <1>9, <2>3, <2>4 DEF Grows
  <2>8. u # f => f \notin DOMAIN x.t.queued
    <3>1. f \in s.seen /\ (u # f => f \notin DOMAIN s.queued)
      BY <1>4, <1>7, <1>9, <2>4
    <3> QED
      BY <2>3, <3>1 DEF Grows
  <2> QED
    BY <2>1, <2>3, <2>6, <2>7, <2>8 DEF Observes
<1> QED
  BY <1>12, <1>13

-----------------------------------------------------------------------------
(* The rows: what validate_state asks of them, and what a transaction that  *)
(* takes no unit up again leaves of them.                                   *)

Done == {"COMPLETED", "PARTIAL", "FAILED"}

Row == [adm : {"NONE", "ADMITTED", "PRESERVE_ONLY", "RESOLVED"}, to : Url \cup {Invalid},
        seq : Nat, depth : Nat, type : PageType \cup {NoType}, pag : BOOLEAN,
        work : WorkState \cup {NoWork}, gen : 0..MaxGen, exec : BOOLEAN,
        sampled : BOOLEAN, expanded : BOOLEAN, inScope : BOOLEAN]

RowOK(r) ==
    /\ r \in Row
    /\ r.adm = "ADMITTED" <=> r.work # NoWork
    /\ r.exec <=> r.work \in Done
    /\ r.expanded => r.sampled
    /\ r.adm = "NONE" => r = NoRow
    /\ r.adm = "PRESERVE_ONLY" => ~r.sampled

RowsOK(R) ==
    /\ DOMAIN R = Url /\ \A u \in Url : RowOK(R[u])
    /\ \A u \in Url : R[u].adm = "RESOLVED" => R[u].to # u /\ R[u].to \in Known(R)
    /\ ResolutionsEnd(R)
    /\ IsFiniteSet(Admitted(R))

Follows(R, R2) ==
    \A u \in Url :
        /\ R[u].adm = "RESOLVED" => R2[u].adm = "RESOLVED"
        /\ R[u].adm = "PRESERVE_ONLY" => R2[u].adm = "PRESERVE_ONLY"
        /\ R[u].adm = "ADMITTED" => R2[u].adm \in {"ADMITTED", "RESOLVED"}
        /\ R2[u].gen = R[u].gen
        /\ R[u].exec => R2[u].adm = "RESOLVED" \/ R2[u].exec
        /\ R2[u].exec => R[u].exec /\ R2[u].work = R[u].work

LEMMA FollowsOnwards ==
    ASSUME NEW R, NEW R2, NEW R3, Follows(R, R2), Follows(R2, R3)
    PROVE  Follows(R, R3)
BY DEF Follows

LEMMA ResolutionsStillEnd ==
    ASSUME NEW R, NEW R2, ResolutionsEnd(R),
           \A u \in Url : R2[u].adm = "RESOLVED" =>
               \/ R[u].adm = "RESOLVED" /\ R2[u].to = R[u].to
               \/ R2[u].to \in Admitted(R2)
    PROVE  ResolutionsEnd(R2)
<1>1. SUFFICES ASSUME NEW S \in SUBSET Known(R2), S # {}, Closed(R2, S),
                      S \cap Admitted(R2) = {}
               PROVE  FALSE
  BY DEF ResolutionsEnd
<1>2. \A u \in S : u \in Url /\ R2[u].adm = "RESOLVED" /\ R2[u].to \in S
  BY <1>1 DEF Known, Admitted, Closed
<1>3. \A u \in S : R[u].adm = "RESOLVED" /\ R[u].to \in S
  BY <1>1, <1>2
<1>4. S \in SUBSET Known(R) /\ Closed(R, S) /\ S \cap Admitted(R) = {}
  BY <1>2, <1>3 DEF Known, Closed, Admitted
<1> QED
  BY <1>1, <1>4 DEF ResolutionsEnd

LEMMA MaterializeKeeps ==
    ASSUME TraversalAssumption, NEW R, RowsOK(R), NEW t, Trav(t), UpsertAccepts(R, t),
           NEW paths, NEW M, M = Materialize(R, t, paths)
    PROVE  /\ RowsOK(M) /\ Follows(R, M) /\ Admitted(M) = Admitted(R) \cup Fresh(t, R)
           /\ Known(R) \subseteq Known(M)
           /\ \A u \in Url :
                 /\ M[u].sampled = R[u].sampled /\ M[u].expanded = R[u].expanded
                 /\ M[u].inScope = R[u].inScope
                 /\ R[u].adm # "NONE" => M[u].adm = R[u].adm /\ M[u].work = R[u].work
                                         /\ M[u].exec = R[u].exec
<1>1. \A u \in DOMAIN t.queued : /\ u \in Url /\ t.queued[u] \in Entry
                                 /\ R[u].adm \in {"NONE", "ADMITTED"}
  BY DEF Trav, UpsertAccepts
<1>2. ASSUME NEW u \in Url
      PROVE  /\ RowOK(M[u])
             /\ M[u].to = R[u].to /\ M[u].gen = R[u].gen /\ M[u].exec = R[u].exec
             /\ M[u].sampled = R[u].sampled /\ M[u].expanded = R[u].expanded
             /\ M[u].inScope = R[u].inScope
             /\ R[u].adm # "NONE" => M[u].adm = R[u].adm /\ M[u].work = R[u].work
             /\ M[u].adm = "ADMITTED" <=> R[u].adm = "ADMITTED" \/ u \in Fresh(t, R)
             /\ M[u].exec => M[u].work = R[u].work
             /\ M[u].adm = "RESOLVED" => R[u].adm = "RESOLVED"
  <2>1. RowOK(R[u]) /\ R[u].to \in Url \cup {Invalid}
    BY DEF RowsOK, RowOK, Row
  <2>2. CASE u \in DOMAIN t.queued /\ R[u].adm = "NONE"
    <3>1. M[u] = [R[u] EXCEPT !.adm = "ADMITTED", !.work = "PENDING",
                    !.seq = t.queued[u].order, !.depth = t.queued[u].depth,
                    !.type = t.queued[u].type, !.pag = t.queued[u].pag]
      BY <2>1, <2>2 DEF Materialize, Upsert, RowOK, Row
    <3>2. t.queued[u] \in Entry
      BY <1>1, <2>2
    <3> QED
      BY <2>1, <2>2, <3>1, <3>2 DEF RowOK, Row, Entry, WorkState, NoWork, Done, Fresh, NoRow
  <2>3. CASE u \in DOMAIN t.queued /\ R[u].adm # "NONE" /\ R[u].work = "PENDING"
    <3>1. M[u] = [R[u] EXCEPT !.seq = t.queued[u].order, !.depth = t.queued[u].depth,
                    !.type = t.queued[u].type, !.pag = t.queued[u].pag]
      BY <2>3 DEF Materialize, Upsert
    <3>2. t.queued[u] \in Entry /\ R[u].adm = "ADMITTED"
      BY <1>1, <2>3
    <3> QED
      BY <2>1, <2>3, <3>1, <3>2 DEF RowOK, Row, Entry, Fresh
  <2>4. CASE u \in DOMAIN t.queued /\ R[u].adm # "NONE" /\ R[u].work # "PENDING"
    <3>1. M[u] = R[u]
      BY <2>4 DEF Materialize, Upsert
    <3> QED
      BY <2>1, <2>4, <3>1 DEF Fresh
  <2>5. CASE u \notin DOMAIN t.queued /\ Preserved(R, t, paths, u)
    <3>1. M[u] = [R[u] EXCEPT !.adm = "PRESERVE_ONLY"] /\ R[u].adm = "NONE"
      BY <2>5 DEF Materialize, Preserved
    <3> QED
      BY <2>1, <2>5, <3>1 DEF RowOK, Row, Fresh, NoRow, NoWork, WorkState
  <2>6. CASE u \notin DOMAIN t.queued /\ ~Preserved(R, t, paths, u)
    <3>1. M[u] = R[u]
      BY <2>6 DEF Materialize
    <3> QED
      BY <2>1, <2>6, <3>1 DEF Fresh
  <2> QED
    BY <2>2, <2>3, <2>4, <2>5, <2>6
<1>3. Follows(R, M)
  BY <1>2 DEF Follows
<1>4. Fresh(t, R) \subseteq Url
  BY <1>1 DEF Fresh
<1>5. Admitted(M) = Admitted(R) \cup Fresh(t, R)
  BY <1>2, <1>4 DEF Admitted
<1>6. IsFiniteSet(Admitted(M))
  <2>1. IsFiniteSet(Fresh(t, R))
    BY FS_Subset DEF Trav, Fresh
  <2> QED
    BY <1>5, <2>1, FS_Union DEF RowsOK
<1>7. Known(R) \subseteq Known(M)
  BY <1>2 DEF Known
<1>8. \A u \in Url : M[u].adm = "RESOLVED" => R[u].adm = "RESOLVED" /\ M[u].to = R[u].to
  BY <1>2
<1>9. ResolutionsEnd(M)
  BY <1>8, ResolutionsStillEnd DEF RowsOK
<1>10. DOMAIN M = Url
  BY DEF Materialize
<1> QED
  BY <1>2, <1>3, <1>5, <1>6, <1>7, <1>8, <1>9, <1>10 DEF RowsOK

\* A redirect that is accepted either changes nothing or resolves an admitted
\* unit into another: a copy for a URL without a row would share its sequence.
LEMMA ReconcileIs ==
    ASSUME TraversalAssumption, NEW R, RowsOK(R), NEW a \in Url, NEW f \in Url,
           RedirectAccepts(R, a, f), SequencesUnique(Copied(R, a, f)),
           NEW C, C = Reconcile(R, a, f)
    PROVE  \/ C = R /\ (a = f \/ R[a].adm = "RESOLVED")
           \/ /\ a # f /\ R[a].adm = "ADMITTED" /\ R[f].adm = "ADMITTED"
              /\ C = [R EXCEPT ![a] = Resolved(R, a, f)]
<1>1. CASE a = f \/ R[a].adm = "RESOLVED"
  BY <1>1 DEF Reconcile
<1>2. CASE ~(a = f \/ R[a].adm = "RESOLVED")
  <2>1. a # f /\ R[a].adm = "ADMITTED" /\ R[f].adm \in {"NONE", "ADMITTED"}
    BY <1>2 DEF RedirectAccepts
  <2>2. RowOK(R[a]) /\ DOMAIN R = Url
    BY DEF RowsOK
  <2>3. R[f].adm # "NONE"
    <3>1. SUFFICES ASSUME R[f].adm = "NONE" PROVE FALSE
      OBVIOUS
    <3>2. PICK c : c = [R[a] EXCEPT !.exec = FALSE]
      OBVIOUS
    <3>3. Copied(R, a, f) = [R EXCEPT ![f] = c]
      BY <2>1, <3>1, <3>2 DEF Copied
    <3>4. c.adm = "ADMITTED" /\ c.seq = R[a].seq
      BY <2>1, <2>2, <3>2 DEF RowOK, Row
    <3>5. Copied(R, a, f)[f] = c /\ Copied(R, a, f)[a] = R[a]
      BY <2>1, <2>2, <3>3
    <3> QED
      BY <2>1, <3>4, <3>5 DEF SequencesUnique, Admitted
  <2>4. C = [R EXCEPT ![a] = Resolved(R, a, f)]
    BY <1>2, <2>1, <2>2, <2>3 DEF Reconcile
  <2> QED
    BY <2>1, <2>3, <2>4
<1> QED
  BY <1>1, <1>2

LEMMA ResolvedIs ==
    ASSUME NEW R, NEW a \in Url, NEW f \in Url, RowOK(R[a])
    PROVE  LET r == Resolved(R, a, f)
           IN  /\ RowOK(r) /\ r.adm = "RESOLVED" /\ r.to = f /\ r.gen = R[a].gen
               /\ ~r.exec /\ ~r.sampled /\ ~r.expanded
<1>1. PICK r : r = Resolved(R, a, f)
  OBVIOUS
<1>2. r = [NoRow EXCEPT !.adm = "RESOLVED", !.to = f, !.gen = R[a].gen, !.pag = R[a].pag]
  BY <1>1 DEF Resolved
<1>3. R[a].gen \in 0..MaxGen /\ R[a].pag \in BOOLEAN
  BY DEF RowOK, Row
<1>4. r = [adm |-> "RESOLVED", to |-> f, seq |-> 0, depth |-> 0, type |-> NoType,
           pag |-> R[a].pag, work |-> NoWork, gen |-> R[a].gen, exec |-> FALSE,
           sampled |-> FALSE, expanded |-> FALSE, inScope |-> FALSE]
  BY <1>2 DEF NoRow
<1>5. RowOK(r)
  BY <1>3, <1>4 DEF RowOK, Row, Done, NoWork
<1> QED
  BY <1>1, <1>4, <1>5

LEMMA ReconcileKeeps ==
    ASSUME TraversalAssumption, NEW R, RowsOK(R), NEW a \in Url, NEW f \in Url,
           RedirectAccepts(R, a, f), SequencesUnique(Copied(R, a, f)),
           NEW C, C = Reconcile(R, a, f)
    PROVE  RowsOK(C) /\ Follows(R, C) /\ Known(C) = Known(R)
<1>1. CASE C = R
  BY <1>1 DEF Follows
<1>2. CASE /\ a # f /\ R[a].adm = "ADMITTED" /\ R[f].adm = "ADMITTED"
           /\ C = [R EXCEPT ![a] = Resolved(R, a, f)]
  <2>1. DOMAIN R = Url /\ \A u \in Url : RowOK(R[u])
    BY DEF RowsOK
  <2>2. DOMAIN C = Url /\ C[a] = Resolved(R, a, f) /\ \A u \in Url \ {a} : C[u] = R[u]
    BY <1>2, <2>1
  <2>3. /\ RowOK(C[a]) /\ C[a].adm = "RESOLVED" /\ C[a].to = f /\ C[a].gen = R[a].gen
        /\ ~C[a].exec
    BY <2>1, <2>2, ResolvedIs
  <2>4. \A u \in Url : RowOK(C[u])
    BY <2>1, <2>2, <2>3
  <2>5. Known(C) = Known(R) /\ Admitted(C) = Admitted(R) \ {a} /\ f \in Admitted(C)
    BY <1>2, <2>2, <2>3 DEF Known, Admitted
  <2>6. IsFiniteSet(Admitted(C))
    BY <2>5, FS_Subset DEF RowsOK
  <2>7. Follows(R, C)
    BY <1>2, <2>2, <2>3 DEF Follows
  <2>8. \A u \in Url : C[u].adm = "RESOLVED" => C[u].to # u /\ C[u].to \in Known(C)
    BY <1>2, <2>2, <2>3, <2>5 DEF RowsOK, Known
  <2>9. ResolutionsEnd(C)
    <3>1. \A u \in Url : C[u].adm = "RESOLVED" =>
               \/ R[u].adm = "RESOLVED" /\ C[u].to = R[u].to
               \/ C[u].to \in Admitted(C)
      BY <2>2, <2>3, <2>5
    <3> QED
      BY <3>1, ResolutionsStillEnd DEF RowsOK
  <2> QED
    BY <2>2, <2>4, <2>5, <2>6, <2>7, <2>8, <2>9 DEF RowsOK
<1> QED
  BY <1>1, <1>2, ReconcileIs

\* Two sets of rows that differ in no identity.
LEMMA SameIdentities ==
    ASSUME NEW R, RowsOK(R), NEW P, DOMAIN P = Url,
           \A u \in Url : RowOK(P[u]) /\ P[u].adm = R[u].adm /\ P[u].to = R[u].to
    PROVE  /\ RowsOK(P) /\ Known(P) = Known(R) /\ Admitted(P) = Admitted(R)
           /\ Present(P) = Present(R)
<1>1. Known(P) = Known(R) /\ Admitted(P) = Admitted(R) /\ Present(P) = Present(R)
  BY DEF Known, Admitted, Present
<1>2. ResolutionsEnd(P)
  <2>1. \A u \in Url : P[u].adm = "RESOLVED" => R[u].adm = "RESOLVED" /\ P[u].to = R[u].to
    OBVIOUS
  <2> QED
    BY <2>1, ResolutionsStillEnd DEF RowsOK
<1> QED
  BY <1>1, <1>2 DEF RowsOK

LEMMA Truth == ASSUME NEW S, NEW x PROVE \E b \in BOOLEAN : b = (x \in S)
<1> DEFINE m == x \in S
<1>1. m \in BOOLEAN
  OBVIOUS
<1> HIDE DEF m
<1>2. \E b \in BOOLEAN : b = m
  BY <1>1
<1> QED
  BY <1>2 DEF m

LEMMA ProjectKeeps ==
    ASSUME NEW R, RowsOK(R), NEW t, Trav(t), t.seen \subseteq Present(R),
           t.sampled \subseteq Known(R), NEW P, P = Project(R, t)
    PROVE  /\ RowsOK(P) /\ Follows(R, P) /\ Known(P) = Known(R) /\ Admitted(P) = Admitted(R)
           /\ Present(P) = Present(R)
           /\ \A u \in Url :
                 /\ P[u].adm = R[u].adm /\ P[u].to = R[u].to /\ P[u].seq = R[u].seq
                 /\ P[u].depth = R[u].depth /\ P[u].type = R[u].type /\ P[u].pag = R[u].pag
                 /\ P[u].work = R[u].work /\ P[u].gen = R[u].gen /\ P[u].exec = R[u].exec
                 /\ u \in t.seen => /\ P[u].sampled = (u \in t.sampled)
                                    /\ P[u].expanded = (u \in t.expanded)
                                    /\ P[u].inScope = (u \in t.inScope)
<1>1. ASSUME NEW u \in Url
      PROVE  /\ RowOK(P[u])
             /\ P[u].adm = R[u].adm /\ P[u].to = R[u].to /\ P[u].seq = R[u].seq
             /\ P[u].depth = R[u].depth /\ P[u].type = R[u].type /\ P[u].pag = R[u].pag
             /\ P[u].work = R[u].work /\ P[u].gen = R[u].gen /\ P[u].exec = R[u].exec
             /\ u \in t.seen => /\ P[u].sampled = (u \in t.sampled)
                                /\ P[u].expanded = (u \in t.expanded)
                                /\ P[u].inScope = (u \in t.inScope)
  <2>1. RowOK(R[u])
    BY DEF RowsOK
  <2>2. CASE u \notin t.seen
    <3>1. P[u] = R[u]
      BY <2>2 DEF Project
    <3> QED
      BY <2>1, <2>2, <3>1
  <2>3. CASE u \in t.seen
    <3>1. P[u] = [R[u] EXCEPT !.sampled = u \in t.sampled, !.expanded = u \in t.expanded,
                              !.inScope = u \in t.inScope]
      BY <2>3 DEF Project
    <3>2. R[u].adm # "NONE" /\ (u \in t.sampled => R[u].adm \in {"ADMITTED", "RESOLVED"})
      BY <2>3 DEF Present, Known
    <3>3. u \in t.expanded => u \in t.sampled
      BY DEF Trav
    <3>4. PICK s \in BOOLEAN : s = (u \in t.sampled)
      BY Truth
    <3>9. PICK x \in BOOLEAN : x = (u \in t.expanded)
      BY Truth
    <3>10. PICK i \in BOOLEAN : i = (u \in t.inScope)
      BY Truth
    <3>5. P[u] = [R[u] EXCEPT !.sampled = s, !.expanded = x, !.inScope = i]
      BY <3>1, <3>4, <3>9, <3>10
    <3>6. (x => s) /\ (R[u].adm = "PRESERVE_ONLY" => ~s)
      BY <3>2, <3>3, <3>4, <3>9
    <3>7. RowOK(P[u])
      BY <2>1, <3>2, <3>5, <3>6 DEF RowOK, Row
    <3>8. /\ P[u].adm = R[u].adm /\ P[u].to = R[u].to /\ P[u].seq = R[u].seq
          /\ P[u].depth = R[u].depth /\ P[u].type = R[u].type /\ P[u].pag = R[u].pag
          /\ P[u].work = R[u].work /\ P[u].gen = R[u].gen /\ P[u].exec = R[u].exec
          /\ P[u].sampled = s /\ P[u].expanded = x /\ P[u].inScope = i
      BY <2>1, <3>5 DEF RowOK, Row
    <3> QED
      BY <3>4, <3>7, <3>8, <3>9, <3>10
  <2> QED
    BY <2>2, <2>3
<1>2. DOMAIN P = Url
  BY DEF Project
<1>3. Follows(R, P)
  BY <1>1 DEF Follows
<1>4. \A u \in Url : RowOK(P[u]) /\ P[u].adm = R[u].adm /\ P[u].to = R[u].to
  BY <1>1
<1> QED
  BY <1>1, <1>2, <1>3, <1>4, SameIdentities

LEMMA MarkKeeps ==
    ASSUME NEW R, RowsOK(R), NEW page, page.final \in Url,
           InFlightAccepts(R, page), NEW D, D = MarkInFlight(R, page)
    PROVE  /\ RowsOK(D) /\ Follows(R, D) /\ Known(D) = Known(R) /\ Admitted(D) = Admitted(R)
           /\ Present(D) = Present(R)
           /\ D = R \/ /\ D = [R EXCEPT ![page.final] = [R[page.final] EXCEPT !.work = "RUNNING"]]
                       /\ R[page.final].adm = "ADMITTED"
                       /\ R[page.final].work \in {"PENDING", "RUNNING"}
<1>1. CASE page.outcome = "FAILED" \/ R[page.final].work = "COMPLETED"
  <2>1. D = R
    BY <1>1 DEF MarkInFlight
  <2> QED
    BY <2>1 DEF Follows
<1>2. CASE ~(page.outcome = "FAILED" \/ R[page.final].work = "COMPLETED")
  <2> DEFINE f == page.final
  <2>1. R[f].adm = "ADMITTED" /\ R[f].work \in {"PENDING", "RUNNING"}
    BY <1>2 DEF InFlightAccepts
  <2>2. DOMAIN R = Url /\ \A u \in Url : RowOK(R[u])
    BY DEF RowsOK
  <2>3. D = [R EXCEPT ![f] = [R[f] EXCEPT !.work = "RUNNING"]]
    BY <1>2, <2>2 DEF MarkInFlight
  <2>4. DOMAIN D = Url /\ D[f] = [R[f] EXCEPT !.work = "RUNNING"]
        /\ \A u \in Url \ {f} : D[u] = R[u]
    BY <2>2, <2>3
  <2>5. RowOK(D[f]) /\ D[f].adm = R[f].adm /\ D[f].to = R[f].to /\ D[f].gen = R[f].gen
        /\ D[f].exec = R[f].exec /\ ~R[f].exec
    <3>1. RowOK(R[f])
      BY <2>2
    <3> QED
      BY <2>1, <2>4, <3>1 DEF RowOK, Row, Done, WorkState, NoWork
  <2>6. Follows(R, D)
    BY <2>1, <2>4, <2>5 DEF Follows
  <2>7. \A u \in Url : RowOK(D[u]) /\ D[u].adm = R[u].adm /\ D[u].to = R[u].to
    BY <2>2, <2>4, <2>5
  <2> HIDE DEF f
  <2>8. RowsOK(D) /\ Known(D) = Known(R) /\ Admitted(D) = Admitted(R) /\ Present(D) = Present(R)
    BY <2>4, <2>7, SameIdentities
  <2> QED
    BY <2>1, <2>3, <2>6, <2>8 DEF f
<1> QED
  BY <1>1, <1>2

-----------------------------------------------------------------------------
(* The invariant of a run, whatever happens to it.                          *)

HandlerOK(R, x) ==
    /\ DOMAIN x = {"pc", "t", "page", "paths", "late", "next"}
    /\ DOMAIN x.page = {"url", "final", "gen", "outcome"}
    /\ Trav(x.t)
    /\ x.next \in {"none", "loop", "finalize", "cancel", "pressure"}
    /\ x.pc = "fetch" => x.page.url \in DOMAIN x.t.queued /\ x.page.url \in Known(R)
    /\ x.pc \in {"discover", "execute"} =>
          x.page.url \in Url /\ x.page.final \in Url /\ x.page.outcome \in Done
    /\ x.pc = "discover" => /\ Evident(x.paths, x.t)
                            /\ x.page.outcome = "FAILED" => x.page.final \in Known(R)
    /\ x.t.sampled \subseteq Known(R) \cup (IF x.pc = "discover" THEN {x.page.final} ELSE {})

HandlersInv == DOMAIN h = Handler /\ \A w \in Handler : HandlerOK(rows, h[w])

WorkInv ==
    /\ DOMAIN prepared = 1..MaxJobs
    /\ \A j \in 1..MaxJobs : Selection(j) \subseteq Url /\ (~prepared[j].done => Selection(j) = {})
    /\ \A u \in Url : rows[u].gen = Cardinality({j \in 1..MaxJobs : u \in Selection(j)})

ExecInv ==
    \A u \in Url :
        rows[u].exec => [url |-> u, gen |-> rows[u].gen, outcome |-> rows[u].work] \in execs

EvidenceInv ==
    \A p \in evidence : p[1] \in Url /\ (p[2] = "ADMITTED" => p[1] \in Known(rows))

DurableInv == RowsOK(rows) /\ WorkInv /\ ExecInv /\ EvidenceInv

QueueInv ==
    /\ jobs \in Seq({"PRODUCTION_CRAWL", "RETRY", "RETRY_FAILED_PARTS", "RESUME_CHECKPOINT"})
    /\ Len(jobs) \in 1..MaxJobs
    /\ jobState \in {"QUEUED", "RUNNING", "SUCCEEDED", "FAILED", "CANCELLED"}
    /\ owner \in Handler \cup {NoHandler}
    /\ owner # NoHandler <=> jobState = "RUNNING"
    /\ status \in {"QUEUED", "RUNNING", "SUCCEEDED", "PARTIAL_RESULT", "FAILED", "CANCELLED"}

\* Until the roots are stored there is nothing, and nobody is past their storing.
StartedInv ==
    ~control.exists => /\ rows = [u \in Url |-> NoRow] /\ ~ckpt
                       /\ \A w \in Handler : h[w].pc \in {"idle", "start", "fresh"}

CrawlInv == DurableInv /\ HandlersInv /\ QueueInv /\ StartedInv

\* What every step shows.
Kept == CrawlInv' /\ StableStep

LEMMA NewTrav == TraversalAssumption => Trav(NewTraversal)
BY NewIsRooted DEF Rooted

LEMMA IdleIsOK == ASSUME TraversalAssumption, NEW R PROVE HandlerOK(R, Idle)
<1>1. Trav(NewTraversal) /\ NewTraversal.sampled = {}
  BY NewTrav DEF NewTraversal
<1> HIDE DEF NewTraversal
<1> QED
  BY <1>1 DEF HandlerOK, Idle, NoPage

LEMMA HandlersStay ==
    ASSUME HandlersInv, NEW w \in Handler, NEW rec, h' = [h EXCEPT ![w] = rec],
           Known(rows) \subseteq Known(rows'), HandlerOK(rows', rec)
    PROVE  HandlersInv'
<1>1. ASSUME NEW v \in Handler PROVE HandlerOK(rows', h'[v])
  <2>1. CASE v = w
    BY <2>1 DEF HandlersInv
  <2>2. CASE v # w
    <3>1. h'[v] = h[v] /\ HandlerOK(rows, h[v])
      BY <2>2 DEF HandlersInv
    <3>2. HandlerOK(rows', h[v])
      BY <3>1 DEF HandlerOK
    <3> QED
      BY <3>1, <3>2
  <2> QED
    BY <2>1, <2>2
<1> QED
  BY <1>1 DEF HandlersInv

LEMMA DurableStays ==
    ASSUME DurableInv, UNCHANGED durable
    PROVE  DurableInv' /\ StableStep
<1>1. rows' = rows /\ control' = control /\ evidence' = evidence /\ execs' = execs
      /\ prepared' = prepared
  BY DEF durable
<1>2. DurableInv'
  BY <1>1 DEF DurableInv, WorkInv, ExecInv, EvidenceInv, Selection
<1> QED
  BY <1>1, <1>2 DEF StableStep

\* Rows that follow the ones before.
LEMMA DurableFollows ==
    ASSUME DurableInv, RowsOK(rows'), Follows(rows, rows'), Known(rows) \subseteq Known(rows'),
           execs' = execs, prepared' = prepared,
           NEW paths, evidence' = evidence \cup paths,
           \A p \in paths : p[1] \in Url /\ (p[2] = "ADMITTED" => p[1] \in Known(rows'))
    PROVE  DurableInv' /\ StableStep
<1>1. WorkInv'
  BY DEF DurableInv, WorkInv, Selection, Follows
<1>2. ExecInv'
  BY DEF DurableInv, ExecInv, Follows
<1>3. EvidenceInv'
  BY DEF DurableInv, EvidenceInv
<1>4. \A u \in Url : rows[u].work \in Done => rows[u].exec
  BY DEF DurableInv, RowsOK, RowOK
<1>5. StableStep
  BY <1>4 DEF StableStep, Follows, Done
<1> QED
  BY <1>1, <1>2, <1>3, <1>5 DEF DurableInv

LEMMA StartedStays ==
    ASSUME StartedInv, DOMAIN h = Handler, NEW w \in Handler, NEW rec,
           h' = [h EXCEPT ![w] = rec],
           rows' = rows, control' = control, ckpt' = ckpt,
           rec.pc \in {"idle", "start", "fresh"} \/ control.exists
    PROVE  StartedInv'
BY DEF StartedInv

LEMMA ReleaseKeeps ==
    ASSUME QueueInv, NEW again, Release(again), NoHandler \notin Handler
    PROVE  QueueInv'
BY DEF QueueInv, Release, JobStateOf, TerminalRun

LEMMA FailKeeps ==
    ASSUME CrawlAssumption, CrawlInv, NEW w \in Handler, Fail(w)
    PROVE  Kept
<1>1. h' = [h EXCEPT ![w] = Idle] /\ UNCHANGED <<durable, ckpt>>
  BY DEF Fail, Become
<1>2. rows' = rows /\ control' = control /\ ckpt' = ckpt /\ UNCHANGED durable
  BY <1>1 DEF durable
<1>3. HandlersInv'
  BY <1>1, <1>2, HandlersStay, IdleIsOK DEF CrawlInv, CrawlAssumption
<1>4. StartedInv'
  BY <1>1, <1>2, StartedStays DEF CrawlInv, HandlersInv, Idle
<1>5. QueueInv'
  <2>1. CASE owner = w
    BY <2>1, ReleaseKeeps DEF Fail, CrawlInv, CrawlAssumption
  <2>2. CASE owner # w
    BY <2>2 DEF Fail, CrawlInv, QueueInv, queue
  <2> QED
    BY <2>1, <2>2
<1> QED
  BY <1>2, <1>3, <1>4, <1>5, DurableStays DEF Kept, CrawlInv

\* A step of a handler that stores nothing.
LEMMA HandlerKeeps ==
    ASSUME CrawlAssumption, CrawlInv, NEW w \in Handler, NEW rec, h' = [h EXCEPT ![w] = rec],
           UNCHANGED durable, QueueInv', ckpt' = ckpt, HandlerOK(rows, rec),
           rec.pc \in {"idle", "start", "fresh"} \/ control.exists
    PROVE  Kept
<1>1. rows' = rows /\ control' = control
  BY DEF durable
<1>2. HandlersInv'
  BY <1>1, HandlersStay DEF CrawlInv
<1>3. StartedInv'
  BY <1>1, StartedStays DEF CrawlInv, HandlersInv
<1> QED
  BY <1>2, <1>3, DurableStays DEF Kept, CrawlInv

-----------------------------------------------------------------------------
(* The steps that store nothing.                                            *)

LEMMA GotoIs ==
    ASSUME CrawlInv, NEW w \in Handler, NEW pc
    PROVE  LET rec == [h[w] EXCEPT !.pc = pc]
           IN  /\ rec.pc = pc /\ rec.t = h[w].t /\ rec.page = h[w].page
               /\ rec.paths = h[w].paths /\ rec.next = h[w].next /\ DOMAIN rec = DOMAIN h[w]
               /\ rec.late = h[w].late
BY DEF CrawlInv, HandlersInv, HandlerOK

LEMMA AcquireKeeps ==
    ASSUME CrawlAssumption, CrawlInv, NEW w \in Handler, Acquire(w)
    PROVE  Kept
<1>1. PICK late : h' = [h EXCEPT ![w] = [Idle EXCEPT !.pc = "start", !.late = late]]
  BY DEF Acquire, Become
<1> DEFINE rec == [Idle EXCEPT !.pc = "start", !.late = late]
<1>2. Trav(NewTraversal) /\ NewTraversal.sampled = {}
  BY NewTrav DEF NewTraversal, CrawlAssumption
<1>3. rec.pc = "start" /\ HandlerOK(rows, rec)
  <2> HIDE DEF NewTraversal
  <2> QED
    BY <1>2 DEF HandlerOK, Idle, NoPage
<1>4. QueueInv'
  BY DEF Acquire, CrawlInv, QueueInv, CrawlAssumption
<1> HIDE DEF rec
<1> QED
  BY <1>1, <1>3, <1>4, HandlerKeeps DEF rec, Acquire

LEMMA StartKeeps ==
    ASSUME CrawlAssumption, CrawlInv, NEW w \in Handler, Start(w)
    PROVE  Kept
<1>1. CASE StartRefused
  BY <1>1, FailKeeps DEF Start
<1>2. CASE ~StartRefused
  <2>1. PICK pc : pc = IF ~ckpt THEN "fresh" ELSE IF Acting THEN "adopt" ELSE "restore"
    OBVIOUS
  <2> DEFINE rec == [h[w] EXCEPT !.pc = pc]
  <2>2. h' = [h EXCEPT ![w] = rec] /\ UNCHANGED durable /\ ckpt' = ckpt /\ UNCHANGED queue
        /\ status' = "RUNNING"
    BY <1>2, <2>1 DEF Start, Goto, Become
  <2>3. HandlerOK(rows, rec)
    <3>1. HandlerOK(rows, h[w]) /\ h[w].pc = "start" /\ pc \notin {"fetch", "discover", "execute"}
      BY <2>1 DEF Start, CrawlInv, HandlersInv
    <3>2. /\ rec.pc = pc /\ rec.t = h[w].t /\ rec.page = h[w].page
          /\ rec.next = h[w].next /\ DOMAIN rec = DOMAIN h[w]
      BY GotoIs
    <3> HIDE DEF rec
    <3> QED
      BY <3>1, <3>2 DEF HandlerOK
  <2>4. QueueInv'
    BY <2>2 DEF CrawlInv, QueueInv, queue
  <2>5. rec.pc \in {"idle", "start", "fresh"} \/ control.exists
    BY <1>2, <2>1, GotoIs DEF StartRefused
  <2> HIDE DEF rec
  <2> QED
    BY <2>2, <2>3, <2>4, <2>5, HandlerKeeps
<1> QED
  BY <1>1, <1>2

\* A step of a handler to a label at which nothing but its traversal matters.
LEMMA PlainKeeps ==
    ASSUME CrawlAssumption, CrawlInv, NEW w \in Handler, h[w].pc \notin {"idle", "start", "fresh"},
           NEW rec, h' = [h EXCEPT ![w] = rec],
           UNCHANGED durable, QueueInv', ckpt' = ckpt,
           DOMAIN rec = DOMAIN h[w], rec.pc \notin {"fetch", "discover", "execute"},
           DOMAIN rec.page = DOMAIN h[w].page,
           rec.next \in {"none", "loop", "finalize", "cancel", "pressure"},
           Trav(rec.t), rec.t.sampled \subseteq Known(rows)
    PROVE  Kept
<1>1. HandlerOK(rows, h[w])
  BY DEF CrawlInv, HandlersInv
<1>2. HandlerOK(rows, rec)
  BY <1>1 DEF HandlerOK
<1>3. control.exists
  BY DEF CrawlInv, StartedInv
<1> QED
  BY <1>2, <1>3, HandlerKeeps

LEMMA GotoKeeps ==
    ASSUME CrawlAssumption, CrawlInv, NEW w \in Handler,
           h[w].pc \notin {"idle", "start", "fresh", "discover"},
           NEW pc, pc \notin {"fetch", "discover", "execute"}, Goto(w, pc),
           UNCHANGED durable, QueueInv', ckpt' = ckpt
    PROVE  Kept
<1>1. PICK rec : rec = [h[w] EXCEPT !.pc = pc]
  OBVIOUS
<1>2. HandlerOK(rows, h[w])
  BY DEF CrawlInv, HandlersInv
<1>3. /\ rec.pc = pc /\ rec.t = h[w].t /\ rec.page = h[w].page
      /\ rec.next = h[w].next /\ DOMAIN rec = DOMAIN h[w]
  BY <1>1, GotoIs
<1>4. Trav(rec.t) /\ rec.t.sampled \subseteq Known(rows)
      /\ rec.next \in {"none", "loop", "finalize", "cancel", "pressure"}
  BY <1>2, <1>3 DEF HandlerOK
<1>5. h' = [h EXCEPT ![w] = rec]
  BY <1>1 DEF Goto, Become
<1> QED
  BY <1>3, <1>4, <1>5, PlainKeeps

LEMMA QueueSame ==
    ASSUME CrawlInv, UNCHANGED <<jobs, jobState, owner, status>>
    PROVE  QueueInv'
BY DEF CrawlInv, QueueInv

LEMMA AdoptKeeps ==
    ASSUME CrawlAssumption, CrawlInv, NEW w \in Handler, Adopt(w)
    PROVE  Kept
<1>1. CASE owner # w
  BY <1>1, FailKeeps DEF Adopt
<1>2. CASE owner = w
  BY <1>2, QueueSame, GotoKeeps DEF Adopt
<1> QED
  BY <1>1, <1>2

LEMMA PrepareAgainKeeps ==
    ASSUME CrawlAssumption, CrawlInv, NEW w \in Handler, PrepareAgain(w) \/ PrepareStale(w)
    PROVE  Kept
<1>1. CASE Fail(w)
  BY <1>1, FailKeeps
<1>2. CASE h[w].pc = "prepare" /\ Goto(w, "restore") /\ UNCHANGED <<durable, queue, status, ckpt>>
  BY <1>2, QueueSame, GotoKeeps DEF queue
<1> QED
  BY <1>1, <1>2 DEF PrepareAgain, PrepareStale

LEMMA SaveKeeps ==
    ASSUME CrawlAssumption, CrawlInv, NEW w \in Handler, Save(w)
    PROVE  Kept
<1>1. CASE owner # w
  BY <1>1, FailKeeps DEF Save
<1>2. CASE owner = w
  <2>1. /\ h[w].pc = "save" /\ Goto(w, h[w].next) /\ UNCHANGED durable
        /\ UNCHANGED <<jobs, jobState, owner, status>> /\ ckpt' = TRUE
    BY <1>2 DEF Save
  <2>2. h[w].next \in {"none", "loop", "finalize", "cancel", "pressure"}
    BY DEF CrawlInv, HandlersInv, HandlerOK
  <2>3. PICK rec : rec = [h[w] EXCEPT !.pc = h[w].next]
    OBVIOUS
  <2>4. /\ rec.pc = h[w].next /\ rec.t = h[w].t /\ rec.page = h[w].page
        /\ rec.next = h[w].next /\ DOMAIN rec = DOMAIN h[w]
    BY <2>3, GotoIs
  <2>5. HandlerOK(rows, rec)
    <3>1. HandlerOK(rows, h[w])
      BY DEF CrawlInv, HandlersInv
    <3> QED
      BY <2>1, <2>2, <2>4, <3>1 DEF HandlerOK
  <2>6. h' = [h EXCEPT ![w] = rec]
    BY <2>1, <2>3 DEF Goto, Become
  <2>7. rows' = rows /\ control' = control
    BY <2>1 DEF durable
  <2>8. HandlersInv'
    BY <2>5, <2>6, <2>7, HandlersStay DEF CrawlInv
  <2>9. control.exists
    BY <2>1 DEF CrawlInv, StartedInv
  <2>10. StartedInv'
    BY <2>7, <2>9 DEF StartedInv
  <2> QED
    BY <2>1, <2>8, <2>10, QueueSame, DurableStays DEF Kept, CrawlInv
<1> QED
  BY <1>1, <1>2

LEMMA CompleteKeeps ==
    ASSUME CrawlAssumption, CrawlInv, NEW w \in Handler, Complete(w)
    PROVE  Kept
<1>1. PICK t : t = AtCompletion(h[w].t, h[w].late)
  OBVIOUS
<1>2. PICK rec : rec = [h[w] EXCEPT !.pc = "sync", !.next = "finalize", !.t = t]
  OBVIOUS
<1>3. HandlerOK(rows, h[w]) /\ h[w].pc = "loop"
  BY DEF CrawlInv, HandlersInv, Complete
<1>4. Trav(t) /\ t.sampled = h[w].t.sampled
  BY <1>1, <1>3 DEF HandlerOK, Trav, AtCompletion
<1>5. /\ rec.pc = "sync" /\ rec.t = t /\ rec.page = h[w].page
      /\ rec.next = "finalize" /\ DOMAIN rec = DOMAIN h[w]
  BY <1>2, <1>3 DEF HandlerOK
<1>6. h' = [h EXCEPT ![w] = rec] /\ UNCHANGED <<durable, queue, status, ckpt>>
  BY <1>1, <1>2 DEF Complete, Become
<1>7. rec.t.sampled \subseteq Known(rows)
  BY <1>3, <1>4, <1>5 DEF HandlerOK
<1> QED
  BY <1>3, <1>4, <1>5, <1>6, <1>7, QueueSame, PlainKeeps DEF queue

LEMMA InterruptedKeeps ==
    ASSUME CrawlAssumption, CrawlInv, NEW w \in Handler, NEW why \in {"cancel", "pressure"},
           Interrupted(w, why)
    PROVE  Kept
<1>1. PICK rec : rec = [h[w] EXCEPT !.pc = "sync", !.next = why]
  OBVIOUS
<1>2. HandlerOK(rows, h[w]) /\ h[w].pc = "fetch"
  BY DEF CrawlInv, HandlersInv, Interrupted
<1>3. /\ rec.pc = "sync" /\ rec.t = h[w].t /\ rec.page = h[w].page
      /\ rec.next = why /\ DOMAIN rec = DOMAIN h[w]
  BY <1>1, <1>2 DEF HandlerOK
<1>4. h' = [h EXCEPT ![w] = rec] /\ UNCHANGED <<durable, queue, status, ckpt>>
  BY <1>1 DEF Interrupted, Become
<1>5. rec.t.sampled \subseteq Known(rows) /\ Trav(rec.t)
  BY <1>2, <1>3 DEF HandlerOK
<1> QED
  BY <1>2, <1>3, <1>4, <1>5, QueueSame, PlainKeeps DEF queue

LEMMA TimeKeeps ==
    ASSUME CrawlAssumption, CrawlInv, NEW w \in Handler, TimePasses(w)
    PROVE  Kept
<1>1. PICK rec : rec = [h[w] EXCEPT !.late = TRUE]
  OBVIOUS
<1>2. HandlerOK(rows, h[w]) /\ h[w].pc \in {"loop", "fetch"}
  BY DEF CrawlInv, HandlersInv, TimePasses
<1>3. /\ rec.pc = h[w].pc /\ rec.t = h[w].t /\ rec.page = h[w].page
      /\ rec.next = h[w].next /\ DOMAIN rec = DOMAIN h[w] /\ rec.paths = h[w].paths
  BY <1>1, <1>2 DEF HandlerOK
<1>4. h' = [h EXCEPT ![w] = rec] /\ UNCHANGED <<durable, queue, status, ckpt>>
  BY <1>1 DEF TimePasses, Become
<1>5. HandlerOK(rows, rec)
  BY <1>2, <1>3 DEF HandlerOK
<1>6. control.exists
  BY <1>2 DEF CrawlInv, StartedInv
<1> QED
  BY <1>4, <1>5, <1>6, QueueSame, HandlerKeeps DEF queue

LEMMA DispatchKeeps ==
    ASSUME CrawlAssumption, CrawlInv, NEW w \in Handler, Dispatch(w)
    PROVE  Kept
<1>1. PICK u : u = NextUrl(h[w].t)
  OBVIOUS
<1>2. CASE rows[u].adm # "ADMITTED"
  BY <1>1, <1>2, FailKeeps DEF Dispatch
<1>3. CASE rows[u].adm = "ADMITTED"
  <2>1. PICK page : page = [NoPage EXCEPT !.url = u, !.gen = rows[u].gen]
    OBVIOUS
  <2>2. PICK rec : rec = [h[w] EXCEPT !.pc = "fetch", !.page = page]
    OBVIOUS
  <2>3. HandlerOK(rows, h[w]) /\ h[w].pc = "loop" /\ ~Exhausted(h[w].t, h[w].late)
    BY DEF CrawlInv, HandlersInv, Dispatch
  <2>4. u \in DOMAIN h[w].t.queued /\ u \in Url
    <3>1. DOMAIN h[w].t.queued # {} /\ Trav(h[w].t)
      BY <2>3 DEF Exhausted, HandlerOK
    <3>2. DOMAIN h[w].t.queued \subseteq Url
          /\ \A x \in DOMAIN h[w].t.queued : h[w].t.queued[x] \in Entry
      BY <3>1 DEF Trav
    <3> QED
      BY <1>1, <3>1, <3>2, NextIsQueued DEF CrawlAssumption
  <2>5. u \in Known(rows)
    BY <1>3, <2>4 DEF Known
  <2>6. /\ rec.pc = "fetch" /\ rec.t = h[w].t /\ rec.page = page
        /\ rec.next = h[w].next /\ DOMAIN rec = DOMAIN h[w]
    BY <2>2, <2>3 DEF HandlerOK
  <2>7. page.url = u /\ DOMAIN page = {"url", "final", "gen", "outcome"}
    BY <2>1 DEF NoPage
  <2>8. h' = [h EXCEPT ![w] = rec] /\ UNCHANGED <<durable, queue, status, ckpt>>
    BY <1>1, <1>3, <2>1, <2>2 DEF Dispatch, Become
  <2>9. HandlerOK(rows, rec)
    BY <2>3, <2>4, <2>5, <2>6, <2>7 DEF HandlerOK
  <2>10. control.exists
    BY <2>3 DEF CrawlInv, StartedInv
  <2> QED
    BY <2>8, <2>9, <2>10, QueueSame, HandlerKeeps DEF queue
<1> QED
  BY <1>2, <1>3

LEMMA FinalIsAUrl == ASSUME NEW obs \in Observation PROVE obs.final \in Url
BY DEF Observation

\* What an answer of the provider is.
Chosen == setting \in Settings
LEMMA AnswerIs ==
    ASSUME CrawlAssumption, Chosen, NEW u \in Url, NEW obs \in setting.content[u]
    PROVE  obs \in Observation /\ IsFiniteSet(obs.links)
<1>1. setting.content \in [Url -> SUBSET Observation]
  BY DEF Chosen, CrawlAssumption, Setting
<1> QED
  BY <1>1 DEF Chosen, CrawlAssumption

LEMMA ObservedKeeps ==
    ASSUME CrawlAssumption, CrawlInv, NEW w \in Handler, h[w].pc = "fetch",
           Chosen, NEW obs \in setting.content[h[w].page.url], Observed(w, obs)
    PROVE  Kept
<1>1. CASE obs.bytes > MaxBytes - h[w].t.bytes
  BY <1>1, FailKeeps DEF Observed
<1>2. CASE ~(obs.bytes > MaxBytes - h[w].t.bytes)
  <2> DEFINE t == h[w].t
             u == h[w].page.url
  <2>1. PICK r : r = ProcessObservation(Popped(t, u), u, t.queued[u], obs, h[w].late)
    OBVIOUS
  <2>2. PICK paths : paths = r.paths \cup PageEvidence(obs.final)
    OBVIOUS
  <2>3. PICK outcome : outcome = IF obs.full THEN "COMPLETED" ELSE "PARTIAL"
    OBVIOUS
  <2>4. PICK page : page = [h[w].page EXCEPT !.final = obs.final, !.outcome = outcome]
    OBVIOUS
  <2>5. PICK rec : rec = [h[w] EXCEPT !.pc = "discover", !.t = r.t, !.paths = paths,
                                      !.page = page]
    OBVIOUS
  <2>6. HandlerOK(rows, h[w])
    BY DEF CrawlInv, HandlersInv
  <2>7. h' = [h EXCEPT ![w] = rec] /\ UNCHANGED <<durable, queue, status, ckpt>>
    BY <1>2, <2>1, <2>2, <2>3, <2>4, <2>5, <2>6 DEF Observed, Become, HandlerOK
  <2>8. /\ rec.pc = "discover" /\ rec.t = r.t /\ rec.page = page /\ rec.paths = paths
        /\ rec.next = h[w].next /\ DOMAIN rec = DOMAIN h[w]
        /\ page.url = u /\ page.final = obs.final /\ page.outcome = outcome
        /\ DOMAIN page = DOMAIN h[w].page
    BY <2>4, <2>5, <2>6 DEF HandlerOK
  <2>9. u \in DOMAIN t.queued /\ u \in Url /\ Trav(t) /\ t.sampled \subseteq Known(rows)
    BY <2>6 DEF HandlerOK, Trav
  <2>10. obs \in Observation /\ IsFiniteSet(obs.links) /\ obs.final \in Url
    <3>1. obs \in Observation /\ IsFiniteSet(obs.links)
      BY <2>9, AnswerIs
    <3> QED
      BY <3>1, FinalIsAUrl
  <2>11. Trav(r.t) /\ Evident(r.paths, r.t) /\ r.t.sampled = t.sampled \cup {obs.final}
    <3>1. PICK t0 : t0 = t
      OBVIOUS
    <3>2. PICK u0 : u0 = u
      OBVIOUS
    <3>3. PICK late : late = h[w].late
      OBVIOUS
    <3>4. /\ Trav(t0) /\ u0 \in DOMAIN t0.queued
          /\ r = ProcessObservation(Popped(t0, u0), u0, t0.queued[u0], obs, late)
      BY <2>1, <2>9, <3>1, <3>2, <3>3
    <3>5. TraversalAssumption
      BY DEF CrawlAssumption
    <3>6. Observes(t0, u0, obs.final, r)
      BY <2>10, <3>4, <3>5, ObservationIs
    <3>7. Trav(r.t) /\ Evident(r.paths, r.t) /\ r.t.sampled = t0.sampled \cup {obs.final}
      BY <3>6 DEF Observes
    <3> QED
      BY <3>1, <3>7
  <2>12. Evident(paths, r.t)
    BY <2>2, <2>10, <2>11 DEF Evident, PageEvidence
  <2>13. outcome \in Done /\ outcome # "FAILED"
    BY <2>3 DEF Done
  <2>14. HandlerOK(rows, rec)
    BY <2>6, <2>8, <2>9, <2>10, <2>11, <2>12, <2>13 DEF HandlerOK
  <2>15. control.exists
    BY DEF CrawlInv, StartedInv
  <2> QED
    BY <2>7, <2>14, <2>15, QueueSame, HandlerKeeps DEF queue
<1> QED
  BY <1>1, <1>2

LEMMA PageFailedKeeps ==
    ASSUME CrawlAssumption, CrawlInv, NEW w \in Handler, PageFailed(w)
    PROVE  Kept
<1> DEFINE t == h[w].t
           u == h[w].page.url
<1>1. PICK p : p = Popped(t, u)
  OBVIOUS
<1>2. PICK t2 : t2 = [p EXCEPT !.timeHit = t.timeHit \/ h[w].late]
  OBVIOUS
<1>3. PICK page : page = [h[w].page EXCEPT !.final = u, !.outcome = "FAILED"]
  OBVIOUS
<1>4. PICK rec : rec = [h[w] EXCEPT !.pc = "discover", !.paths = {}, !.t = t2, !.page = page]
  OBVIOUS
<1>5. HandlerOK(rows, h[w]) /\ h[w].pc = "fetch"
  BY DEF CrawlInv, HandlersInv, PageFailed
<1>6. h' = [h EXCEPT ![w] = rec] /\ UNCHANGED <<durable, queue, status, ckpt>>
  BY <1>1, <1>2, <1>3, <1>4, <1>5 DEF PageFailed, Become, HandlerOK
<1>7. /\ rec.pc = "discover" /\ rec.t = t2 /\ rec.page = page /\ rec.paths = {}
      /\ rec.next = h[w].next /\ DOMAIN rec = DOMAIN h[w]
      /\ page.url = u /\ page.final = u /\ page.outcome = "FAILED"
      /\ DOMAIN page = DOMAIN h[w].page
  BY <1>3, <1>4, <1>5 DEF HandlerOK
<1>8. u \in Url /\ u \in Known(rows) /\ Trav(t) /\ t.sampled \subseteq Known(rows)
  <2>1. u \in Known(rows) /\ Trav(t) /\ t.sampled \subseteq Known(rows)
    BY <1>5 DEF HandlerOK
  <2> QED
    BY <2>1 DEF Known
<1>9. Trav(p) /\ p.sampled = t.sampled
  <2>1. PICK t0 : t0 = t
    OBVIOUS
  <2>2. Trav(t0) /\ p = Popped(t0, u)
    BY <1>1, <1>8, <2>1
  <2>3. Trav(p) /\ p.sampled = t0.sampled
    BY <2>2, PoppedIs DEF Trav
  <2> QED
    BY <2>1, <2>3
<1>10. Trav(t2) /\ t2.sampled = t.sampled
  BY <1>2, <1>9 DEF Trav
<1>11. HandlerOK(rows, rec)
  BY <1>5, <1>7, <1>8, <1>10 DEF HandlerOK, Evident, Done
<1>12. control.exists
  BY <1>5 DEF CrawlInv, StartedInv
<1> QED
  BY <1>6, <1>11, <1>12, QueueSame, HandlerKeeps DEF queue

\* What is rebuilt from the rows is a traversal.
LEMMA ReconstructedIs ==
    ASSUME NEW R, RowsOK(R), NEW c, NEW selected, NEW t, t = Reconstructed(R, c, selected)
    PROVE  /\ Trav(t) /\ t.sampled \subseteq Known(R) /\ t.seen = Present(R)
           /\ t.admitted = Admitted(R)
           /\ DOMAIN t.queued = {u \in selected : R[u].work = "PENDING"} \cap Url
           \/ ~(selected \subseteq Url)
<1>1. SUFFICES ASSUME selected \subseteq Url
               PROVE  /\ Trav(t) /\ t.sampled \subseteq Known(R) /\ t.seen = Present(R)
                      /\ t.admitted = Admitted(R)
                      /\ DOMAIN t.queued = {u \in selected : R[u].work = "PENDING"}
  OBVIOUS
<1>2. \A u \in Url : /\ R[u].sampled => u \in Known(R)
                     /\ R[u].sampled \/ R[u].expanded \/ R[u].inScope => R[u].adm # "NONE"
                     /\ R[u].expanded => R[u].sampled
                     /\ R[u].work = "PENDING" => R[u].adm = "ADMITTED"
                     /\ EntryOf(R, u) \in Entry
  BY DEF RowsOK, RowOK, Row, NoRow, NoWork, Known, EntryOf, Entry
<1>3. /\ DOMAIN t = {"queued", "admitted", "seen", "sampled", "expanded", "inScope", "newly",
                     "scheduled", "edges", "bytes", "timeHit", "unexpanded", "truncated"}
      /\ t.queued = [u \in {v \in selected : R[v].work = "PENDING"} |-> EntryOf(R, u)]
      /\ t.admitted = Admitted(R) /\ t.seen = Present(R)
      /\ t.sampled = {u \in Url : R[u].sampled} /\ t.expanded = {u \in Url : R[u].expanded}
      /\ t.inScope = {u \in Url : R[u].inScope} /\ t.newly = Cardinality(Admitted(R))
  BY DEF Reconstructed
<1>4. IsFiniteSet(Admitted(R)) /\ Admitted(R) \subseteq Present(R)
  BY DEF RowsOK, Admitted, Present
<1>5. \A u \in DOMAIN t.queued : u \in t.admitted /\ t.queued[u] \in Entry
  BY <1>1, <1>2, <1>3 DEF Admitted
<1>6. t.sampled \subseteq t.seen /\ t.inScope \subseteq t.seen /\ t.expanded \subseteq t.sampled
      /\ t.seen \subseteq Url
  BY <1>2, <1>3 DEF Present
<1>7. Trav(t)
  <2>1. DOMAIN t.queued \subseteq t.admitted /\ t.admitted \subseteq t.seen
    BY <1>3, <1>4, <1>5
  <2>2. IsFiniteSet(t.admitted) /\ t.newly = Cardinality(t.admitted)
    BY <1>3, <1>4
  <2>3. DOMAIN t = {"queued", "admitted", "seen", "sampled", "expanded", "inScope", "newly",
                    "scheduled", "edges", "bytes", "timeHit", "unexpanded", "truncated"}
    BY <1>3
  <2> QED
    BY <1>5, <1>6, <2>1, <2>2, <2>3 DEF Trav
<1>8. t.sampled \subseteq Known(R)
  BY <1>2, <1>3
<1> QED
  BY <1>3, <1>7, <1>8

LEMMA RestoreKeeps ==
    ASSUME CrawlAssumption, CrawlInv, NEW w \in Handler, Restore(w)
    PROVE  Kept
<1>1. CASE Fail(w)
  BY <1>1, FailKeeps
<1>2. CASE ~Fail(w)
  <2>1. PICK selected : selected = IF Acting THEN Selection(This) ELSE Url
    OBVIOUS
  <2>2. PICK c : c = Reconstructed(rows, control, selected)
    OBVIOUS
  <2>3. PICK entries : entries = RecoveryEntries(rows, selected)
    OBVIOUS
  <2>4. PICK t : t = IF Acting THEN RestoredForRecovery(c, entries) ELSE c
    OBVIOUS
  <2>5. PICK rec : rec = [h[w] EXCEPT !.pc = "sync", !.next = "loop", !.t = t]
    OBVIOUS
  <2>6. HandlerOK(rows, h[w]) /\ h[w].pc = "restore" /\ RowsOK(rows) /\ QueueInv /\ WorkInv
    BY DEF CrawlInv, HandlersInv, Restore, DurableInv
  <2>7. /\ h' = [h EXCEPT ![w] = rec] /\ UNCHANGED <<durable, queue, status, ckpt>>
        /\ Acting => RecoveryAccepts(c, entries)
    BY <1>2, <2>1, <2>2, <2>3, <2>4, <2>5 DEF Restore, Become
  <2>8. selected \subseteq Url
    BY <2>1, <2>6 DEF QueueInv, WorkInv, This
  <2>9. Trav(c) /\ c.sampled \subseteq Known(rows) /\ c.admitted = Admitted(rows)
    BY <2>2, <2>6, <2>8, ReconstructedIs
  <2>10. Trav(t) /\ t.sampled = c.sampled
    <3>1. CASE ~Acting
      BY <2>4, <2>9, <3>1
    <3>2. CASE Acting
      <4>1. DOMAIN t = DOMAIN c /\ t.queued = entries
            /\ \A field \in DOMAIN c \ {"queued"} : t[field] = c[field]
        BY <2>4, <2>9, <3>2 DEF RestoredForRecovery, Trav
      <4>2. DOMAIN entries \subseteq c.admitted /\ \A u \in DOMAIN entries : entries[u] = EntryOf(rows, u)
        BY <2>3, <2>7, <3>2 DEF RecoveryAccepts, RecoveryEntries
      <4>3. \A u \in Url : EntryOf(rows, u) \in Entry
        BY <2>6 DEF RowsOK, RowOK, Row, EntryOf, Entry
      <4>4. \A u \in DOMAIN entries : entries[u] \in Entry
        BY <2>9, <4>2, <4>3 DEF Trav
      <4> QED
        BY <2>9, <4>1, <4>2, <4>4 DEF Trav
    <3> QED
      BY <3>1, <3>2
  <2>11. /\ rec.pc = "sync" /\ rec.t = t /\ rec.page = h[w].page
         /\ rec.next = "loop" /\ DOMAIN rec = DOMAIN h[w]
    BY <2>5, <2>6 DEF HandlerOK
  <2> QED
    BY <2>6, <2>7, <2>9, <2>10, <2>11, QueueSame, PlainKeeps DEF queue
<1> QED
  BY <1>1, <1>2

-----------------------------------------------------------------------------
(* The ends of a handler, and what happens around it.                       *)

LEMMA IdleKeeps ==
    ASSUME CrawlAssumption, CrawlInv, NEW w \in Handler, Become(w, Idle),
           UNCHANGED durable, QueueInv', ckpt' = ckpt
    PROVE  Kept
BY IdleIsOK, HandlerKeeps DEF Become, Idle, CrawlAssumption

LEMMA EndKeeps ==
    ASSUME CrawlAssumption, CrawlInv, NEW w \in Handler,
           NEW to \in {"SUCCEEDED", "PARTIAL_RESULT", "FAILED", "CANCELLED"}, End(w, to)
    PROVE  Kept
<1>1. CASE Fail(w)
  BY <1>1, FailKeeps
<1>2. CASE ~Fail(w)
  <2>1. /\ status' = to /\ Become(w, Idle) /\ UNCHANGED <<durable, jobs, tries, saved, ckpt>>
        /\ IF owner = w THEN owner' = NoHandler /\ jobState' = JobStateOf(to)
           ELSE UNCHANGED <<owner, jobState>>
    BY <1>2 DEF End
  <2>2. QueueInv'
    BY <2>1 DEF CrawlInv, QueueInv, JobStateOf, CrawlAssumption
  <2> QED
    BY <2>1, <2>2, IdleKeeps
<1> QED
  BY <1>1, <1>2

LEMMA FinishKeeps ==
    ASSUME CrawlAssumption, CrawlInv, NEW w \in Handler, Finalize(w) \/ Cancelled(w)
    PROVE  Kept
<1>1. FinalStatus \in {"SUCCEEDED", "PARTIAL_RESULT", "FAILED", "CANCELLED"}
  BY DEF FinalStatus, TerminalRun
<1> QED
  BY <1>1, EndKeeps DEF Finalize, Cancelled

LEMMA PressedKeeps ==
    ASSUME CrawlAssumption, CrawlInv, NEW w \in Handler, Pressed(w)
    PROVE  Kept
<1>1. QueueInv'
  <2>1. CASE owner = w
    BY <2>1, ReleaseKeeps DEF Pressed, CrawlInv, CrawlAssumption
  <2>2. CASE owner # w
    BY <2>2, QueueSame DEF Pressed, queue
  <2> QED
    BY <2>1, <2>2
<1> QED
  BY <1>1, IdleKeeps DEF Pressed

LEMMA AroundKeeps ==
    ASSUME CrawlAssumption, CrawlInv, Chosen,
           Crash \/ LeaseExpires \/ \E k \in setting.actions : Ask(k)
    PROVE  Kept
<1>1. UNCHANGED <<durable, ckpt>>
  BY DEF Crash, LeaseExpires, Ask
<1>2. rows' = rows /\ control' = control /\ ckpt' = ckpt
  BY <1>1 DEF durable
<1>3. QueueInv'
  <2>1. CASE Crash
    <3>1. CASE jobState = "RUNNING"
      BY <2>1, <3>1, ReleaseKeeps DEF Crash, CrawlInv, CrawlAssumption
    <3>2. CASE jobState # "RUNNING"
      BY <2>1, <3>2, QueueSame DEF Crash, queue
    <3> QED
      BY <3>1, <3>2
  <2>2. CASE LeaseExpires
    BY <2>2, ReleaseKeeps DEF LeaseExpires, CrawlInv, CrawlAssumption
  <2>3. CASE \E k \in setting.actions : Ask(k)
    <3>1. PICK k \in setting.actions : Ask(k)
      BY <2>3
    <3> DEFINE Kinds == {"PRODUCTION_CRAWL", "RETRY", "RETRY_FAILED_PARTS", "RESUME_CHECKPOINT"}
    <3>2. k \in Kinds /\ jobs \in Seq(Kinds) /\ Len(jobs) \in 1..MaxJobs /\ MaxJobs \in Nat
      <4>1. setting.jobs \in 1..MaxJobs /\ setting.actions \subseteq Kinds
        BY DEF Chosen, CrawlAssumption, Setting
      <4> QED
        BY <4>1 DEF CrawlInv, QueueInv, CrawlAssumption
    <3>3. jobs' = Append(jobs, k) /\ Len(jobs) < MaxJobs
      <4>1. setting.jobs \in 1..MaxJobs /\ Len(jobs) < setting.jobs
        BY <3>1 DEF Chosen, CrawlAssumption, Setting, Ask
      <4> QED
        BY <3>1, <3>2, <4>1 DEF Ask
    <3> HIDE DEF Kinds
    <3>4. jobs' \in Seq(Kinds) /\ Len(jobs') = Len(jobs) + 1
      BY <3>2, <3>3, AppendProperties
    <3>5. Len(jobs') \in 1..MaxJobs
      BY <3>2, <3>3, <3>4
    <3>6. /\ jobState' = "QUEUED" /\ status' = "QUEUED" /\ owner' = owner
          /\ jobState \in {"FAILED", "CANCELLED"}
      BY <3>1 DEF Ask
    <3> QED
      BY <3>4, <3>5, <3>6 DEF CrawlInv, QueueInv, Kinds
  <2> QED
    BY <2>1, <2>2, <2>3
<1>4. HandlersInv' /\ StartedInv'
  <2>1. CASE Crash
    <3>1. h' = [w \in Handler |-> Idle]
      BY <2>1 DEF Crash
    <3>2. \A w \in Handler : HandlerOK(rows', h'[w]) /\ h'[w].pc = "idle"
      BY <3>1, IdleIsOK DEF Idle, CrawlAssumption
    <3>3. DOMAIN h' = Handler
      BY <3>1
    <3> QED
      BY <1>2, <3>2, <3>3 DEF HandlersInv, StartedInv, CrawlInv
  <2>2. CASE h' = h
    BY <1>2, <2>2 DEF CrawlInv, HandlersInv, StartedInv
  <2> QED
    BY <2>1, <2>2 DEF LeaseExpires, Ask
<1> QED
  BY <1>1, <1>3, <1>4, DurableStays DEF Kept, CrawlInv

-----------------------------------------------------------------------------
(* The transactions.                                                        *)

LEMMA PrepareFirstKeeps ==
    ASSUME CrawlAssumption, CrawlInv, NEW w \in Handler, PrepareFirst(w)
    PROVE  Kept
<1>1. /\ h[w].pc = "prepare" /\ ~prepared[This].done
      /\ \A u \in Selected : rows[u].gen < MaxGen
      /\ prepared' = [prepared EXCEPT ![This] =
                        [done |-> TRUE, gens |-> [u \in Selected |-> rows[u].gen + 1]]]
      /\ rows' = [u \in Url |->
                    IF u \in Selected
                    THEN [rows[u] EXCEPT !.gen = @ + 1, !.work = "PENDING", !.exec = FALSE]
                    ELSE rows[u]]
      /\ Goto(w, "restore")
      /\ UNCHANGED <<control, evidence, execs, queue, status, ckpt>>
  BY DEF PrepareFirst
<1>2. Selected \subseteq Admitted(rows) /\ Admitted(rows) \subseteq Url
  BY DEF Selected, Admitted
<1>3. RowsOK(rows) /\ WorkInv /\ ExecInv /\ EvidenceInv /\ QueueInv /\ HandlersInv
  BY DEF CrawlInv, DurableInv
<1>4. ASSUME NEW u \in Url
      PROVE  /\ RowOK(rows'[u]) /\ rows'[u].adm = rows[u].adm /\ rows'[u].to = rows[u].to
             /\ u \notin Selected => rows'[u] = rows[u]
             /\ u \in Selected => ~rows'[u].exec /\ rows'[u].gen = rows[u].gen + 1
                                  /\ rows[u].gen \in Nat
  <2>1. RowOK(rows[u]) /\ MaxGen \in Nat
    BY <1>3 DEF RowsOK, CrawlAssumption
  <2>2. CASE u \notin Selected
    BY <1>1, <2>1, <2>2
  <2>3. CASE u \in Selected
    <3>1. rows'[u] = [rows[u] EXCEPT !.gen = rows[u].gen + 1, !.work = "PENDING", !.exec = FALSE]
      BY <1>1, <2>1, <2>3 DEF RowOK, Row
    <3>2. rows[u].gen \in 0..MaxGen /\ rows[u].gen < MaxGen /\ rows[u].adm = "ADMITTED"
      BY <1>1, <1>2, <2>1, <2>3 DEF RowOK, Row, Admitted
    <3>3. rows[u].gen + 1 \in 0..MaxGen /\ rows[u].gen \in Nat
      BY <2>1, <3>2
    <3> QED
      BY <2>1, <2>3, <3>1, <3>2, <3>3 DEF RowOK, Row, WorkState, NoWork, Done
  <2> QED
    BY <2>2, <2>3
<1>5. RowsOK(rows') /\ Known(rows') = Known(rows)
  <2>1. DOMAIN rows' = Url
    BY <1>1
  <2>2. \A u \in Url : RowOK(rows'[u]) /\ rows'[u].adm = rows[u].adm /\ rows'[u].to = rows[u].to
    BY <1>4
  <2>3. PICK R : R = rows'
    OBVIOUS
  <2>4. RowsOK(R) /\ Known(R) = Known(rows)
    BY <1>3, <2>1, <2>2, <2>3, SameIdentities
  <2> QED
    BY <2>3, <2>4
<1>6. PICK sel : sel = [j \in 1..MaxJobs |-> DOMAIN prepared[j].gens]
  OBVIOUS
<1>7. PICK sel2 : sel2 = [j \in 1..MaxJobs |-> DOMAIN prepared'[j].gens]
  OBVIOUS
<1>8. WorkInv'
  <2> DEFINE J(u) == {j \in 1..MaxJobs : u \in sel[j]}
             J2(u) == {j \in 1..MaxJobs : u \in sel2[j]}
  <2>1. \A j \in 1..MaxJobs : sel[j] \subseteq Url /\ (~prepared[j].done => sel[j] = {})
    BY <1>3, <1>6 DEF WorkInv, Selection
  <2>2. \A u \in Url : rows[u].gen = Cardinality(J(u))
    BY <1>3, <1>6 DEF WorkInv, Selection
  <2>3. This \in 1..MaxJobs /\ DOMAIN prepared = 1..MaxJobs
    BY <1>3 DEF QueueInv, WorkInv, This
  <2>4. DOMAIN prepared' = 1..MaxJobs /\ prepared'[This].done /\ sel2[This] = Selected
        /\ \A j \in (1..MaxJobs) \ {This} : prepared'[j] = prepared[j] /\ sel2[j] = sel[j]
    BY <1>1, <1>6, <1>7, <2>3
  <2>5. sel[This] = {}
    BY <1>1, <2>1, <2>3
  <2>6. ASSUME NEW u \in Url PROVE rows'[u].gen = Cardinality(J2(u))
    <3>1. CASE u \notin Selected
      <4>1. J2(u) = J(u)
        BY <2>3, <2>4, <2>5, <3>1
      <4> QED
        BY <1>4, <2>2, <3>1, <4>1
    <3>2. CASE u \in Selected
      <4>1. J2(u) = J(u) \cup {This} /\ This \notin J(u)
        BY <2>3, <2>4, <2>5, <3>2
      <4>2. IsFiniteSet(J(u))
        <5>1. IsFiniteSet(1..MaxJobs) /\ J(u) \subseteq 1..MaxJobs
          BY FS_Interval DEF CrawlAssumption
        <5> QED
          BY <5>1, FS_Subset
      <4>3. rows[u].gen = Cardinality(J(u))
        BY <2>2
      <4> HIDE DEF J, J2
      <4>4. Cardinality(J2(u)) = Cardinality(J(u)) + 1
        BY <4>1, <4>2, OneMore
      <4> QED
        BY <1>4, <3>2, <4>3, <4>4
    <3> QED
      BY <3>1, <3>2
  <2>7. \A j \in 1..MaxJobs : sel2[j] \subseteq Url /\ (~prepared'[j].done => sel2[j] = {})
    BY <1>2, <2>1, <2>4
  <2> QED
    BY <1>7, <2>4, <2>6, <2>7 DEF WorkInv, Selection
<1>9. ExecInv'
  <2>1. execs' = execs /\ \A u \in Url : rows'[u].exec => rows'[u] = rows[u]
    BY <1>1, <1>4
  <2> QED
    BY <1>3, <2>1 DEF ExecInv
<1>10. EvidenceInv'
  BY <1>1, <1>3, <1>5 DEF EvidenceInv
<1>11. StableStep
  <2>1. \A u \in Url : rows'[u] = rows[u] \/ rows'[u].gen > rows[u].gen
    BY <1>4
  <2> QED
    BY <1>1, <2>1 DEF StableStep
<1>12. control.exists
  BY <1>1 DEF CrawlInv, StartedInv
<1>13. StartedInv' /\ QueueInv'
  BY <1>1, <1>12, QueueSame DEF StartedInv, queue
<1>14. HandlersInv'
  <2>1. PICK rec : rec = [h[w] EXCEPT !.pc = "restore"]
    OBVIOUS
  <2>2. HandlerOK(rows, h[w])
    BY <1>3 DEF HandlersInv
  <2>3. /\ rec.pc = "restore" /\ rec.t = h[w].t /\ rec.page = h[w].page
        /\ rec.next = h[w].next /\ DOMAIN rec = DOMAIN h[w]
    BY <2>1, GotoIs
  <2>4. HandlerOK(rows', rec)
    BY <1>1, <1>5, <2>2, <2>3 DEF HandlerOK
  <2>5. h' = [h EXCEPT ![w] = rec]
    BY <1>1, <2>1 DEF Goto, Become
  <2> QED
    BY <1>3, <1>5, <2>4, <2>5, HandlersStay
<1> QED
  BY <1>5, <1>8, <1>9, <1>10, <1>11, <1>13, <1>14 DEF Kept, CrawlInv, DurableInv

LEMMA NoRowIsOK == CrawlAssumption => RowOK(NoRow)
BY DEF CrawlAssumption, RowOK, Row, NoRow, NoWork, WorkState, Done

LEMMA NothingIsOK ==
    ASSUME CrawlAssumption, NEW R, R = [u \in Url |-> NoRow]
    PROVE  RowsOK(R) /\ Known(R) = {} /\ Present(R) = {} /\ Admitted(R) = {}
           /\ \A u \in Url : R[u].adm = "NONE" /\ R[u].gen = 0 /\ ~R[u].exec
<1>1. \A u \in Url : R[u] = NoRow /\ R[u].adm = "NONE" /\ R[u].gen = 0 /\ ~R[u].exec
  BY DEF NoRow
<1>2. Known(R) = {} /\ Present(R) = {} /\ Admitted(R) = {}
  BY <1>1 DEF Known, Present, Admitted
<1>3. ResolutionsEnd(R)
  BY <1>2 DEF ResolutionsEnd
<1>4. IsFiniteSet(Admitted(R))
  BY <1>2, FS_EmptySet
<1>5. \A u \in Url : RowOK(R[u])
  BY <1>1, NoRowIsOK
<1> QED
  BY <1>1, <1>2, <1>3, <1>4, <1>5 DEF RowsOK

\* The rows of the roots.
LEMMA InitialRowsAre ==
    ASSUME CrawlAssumption, NEW R, R = [u \in Url |-> NoRow], NEW acc, Rooted(acc),
           NEW M, M = Materialize(R, acc.t, acc.paths), NEW P, P = Project(M, acc.t)
    PROVE  /\ RowsOK(P) /\ Follows(R, P) /\ Known(R) \subseteq Known(P)
           /\ Present(M) = acc.t.seen /\ acc.t.sampled \subseteq Known(M)
           /\ RowsOK(M) /\ UpsertAccepts(R, acc.t)
           /\ \A p \in acc.paths : p[1] \in Url /\ (p[2] = "ADMITTED" => p[1] \in Known(P))
<1> DEFINE t == acc.t
<1>1. RowsOK(R) /\ Known(R) = {} /\ \A u \in Url : R[u].adm = "NONE"
  BY NothingIsOK
<1>2. Trav(t) /\ Evident(acc.paths, t) /\ t.sampled = {}
  BY DEF Rooted
<1>3. UpsertAccepts(R, t)
  BY <1>1, <1>2 DEF UpsertAccepts, Trav
<1>4. /\ RowsOK(M) /\ Follows(R, M) /\ Known(R) \subseteq Known(M)
      /\ Admitted(M) = Admitted(R) \cup Fresh(t, R)
  BY <1>1, <1>2, <1>3, MaterializeKeeps DEF CrawlAssumption
<1>5. DOMAIN t.queued \subseteq Admitted(M) /\ DOMAIN t.queued \subseteq Url /\ t.seen \subseteq Url
  BY <1>1, <1>2, <1>4 DEF Fresh, Trav
<1>6. ASSUME NEW u \in Url PROVE u \in t.seen <=> M[u].adm # "NONE"
  <2>1. CASE u \in DOMAIN t.queued
    BY <1>2, <1>5, <2>1 DEF Trav, Admitted
  <2>2. CASE u \notin DOMAIN t.queued /\ u \in t.seen
    <3>1. \E p \in acc.paths : p[1] = u /\ p[2] # "ADMITTED"
      BY <2>2 DEF Rooted
    <3>2. M[u] = [R[u] EXCEPT !.adm = "PRESERVE_ONLY"]
      BY <1>1, <2>2, <3>1 DEF Materialize, Preserved
    <3>3. R[u] = NoRow
      OBVIOUS
    <3> QED
      BY <2>2, <3>2, <3>3 DEF NoRow
  <2>3. CASE u \notin t.seen
    <3>1. ~\E p \in acc.paths : p[1] = u
      BY <2>3 DEF Rooted
    <3>2. u \notin DOMAIN t.queued
      BY <1>2, <2>3 DEF Trav
    <3>3. M[u] = R[u]
      BY <3>1, <3>2 DEF Materialize, Preserved
    <3> QED
      BY <1>1, <2>3, <3>3
  <2> QED
    BY <2>1, <2>2, <2>3
<1>7. Present(M) = t.seen /\ t.sampled \subseteq Known(M)
  BY <1>2, <1>5, <1>6 DEF Present
<1>8. RowsOK(P) /\ Follows(M, P) /\ Known(P) = Known(M)
  BY <1>2, <1>4, <1>7, ProjectKeeps
<1>9. DOMAIN t.queued \subseteq Known(P)
  BY <1>5, <1>8 DEF Known, Admitted
<1> QED
  BY <1>1, <1>2, <1>3, <1>4, <1>7, <1>8, <1>9, FollowsOnwards DEF Evident

LEMMA InitializeKeeps ==
    ASSUME CrawlAssumption, CrawlInv, NEW w \in Handler, Initialize(w)
    PROVE  Kept
<1>1. CASE owner # w \/ control.exists
  BY <1>1, FailKeeps DEF Initialize
<1>2. CASE ~(owner # w \/ control.exists)
  <2>1. PICK acc : acc = AdmitRoots
    OBVIOUS
  <2>2. PICK rec : rec = [h[w] EXCEPT !.pc = "loop", !.t = acc.t]
    OBVIOUS
  <2>3. /\ h[w].pc = "fresh" /\ rows' = InitialRows(acc)
        /\ evidence' = evidence \cup acc.paths /\ control' = ControlOf(acc.t, h[w].late)
        /\ h' = [h EXCEPT ![w] = rec]
        /\ UNCHANGED <<execs, prepared, jobs, jobState, tries, owner, status>>
    BY <1>2, <2>1, <2>2 DEF Initialize, Become
  <2>4. PICK R : R = rows
    OBVIOUS
  <2>5. PICK M : M = Materialize(R, acc.t, acc.paths)
    OBVIOUS
  <2>6. PICK P : P = Project(M, acc.t)
    OBVIOUS
  <2>7. P = rows'
    BY <2>3, <2>4, <2>5, <2>6 DEF InitialRows
  <2>8. R = [u \in Url |-> NoRow]
    BY <1>2, <2>4 DEF CrawlInv, StartedInv
  <2>9. Rooted(acc)
    BY <2>1, RootsAreRooted DEF CrawlAssumption
  <2>10. /\ RowsOK(P) /\ Follows(R, P) /\ Known(R) \subseteq Known(P)
         /\ \A p \in acc.paths : p[1] \in Url /\ (p[2] = "ADMITTED" => p[1] \in Known(P))
    BY <2>5, <2>6, <2>8, <2>9, InitialRowsAre
  <2>11. DurableInv' /\ StableStep
    BY <2>3, <2>4, <2>7, <2>10, DurableFollows DEF CrawlInv
  <2>12. HandlerOK(rows, h[w])
    BY DEF CrawlInv, HandlersInv
  <2>13. /\ rec.pc = "loop" /\ rec.t = acc.t /\ rec.page = h[w].page
         /\ rec.next = h[w].next /\ DOMAIN rec = DOMAIN h[w]
    BY <2>2, <2>12 DEF HandlerOK
  <2>14. Trav(acc.t) /\ acc.t.sampled = {}
    BY <2>9 DEF Rooted
  <2>15. HandlerOK(rows', rec)
    BY <2>12, <2>13, <2>14 DEF HandlerOK
  <2>16. Known(rows) \subseteq Known(rows')
    BY <2>4, <2>7, <2>10
  <2>17. HandlersInv'
    BY <2>3, <2>15, <2>16, HandlersStay DEF CrawlInv
  <2>18. StartedInv'
    BY <2>3 DEF StartedInv, ControlOf
  <2> QED
    BY <2>3, <2>11, <2>17, <2>18, QueueSame DEF Kept, CrawlInv
<1> QED
  BY <1>1, <1>2

\* A handler that goes on after its transaction.
LEMMA StoredKeeps ==
    ASSUME CrawlAssumption, CrawlInv, NEW w \in Handler, h[w].pc \notin {"idle", "start", "fresh"},
           NEW pc, pc \notin {"fetch", "discover"},
           pc = "execute" => h[w].pc = "discover", Goto(w, pc),
           DurableInv', StableStep, Known(rows) \subseteq Known(rows'),
           h[w].t.sampled \subseteq Known(rows'),
           control'.exists, UNCHANGED <<jobs, jobState, owner, status>>
    PROVE  Kept
<1>1. PICK rec : rec = [h[w] EXCEPT !.pc = pc]
  OBVIOUS
<1>2. HandlerOK(rows, h[w])
  BY DEF CrawlInv, HandlersInv
<1>3. /\ rec.pc = pc /\ rec.t = h[w].t /\ rec.page = h[w].page
      /\ rec.next = h[w].next /\ DOMAIN rec = DOMAIN h[w]
  BY <1>1, GotoIs
<1>4. HandlerOK(rows', rec)
  BY <1>2, <1>3 DEF HandlerOK
<1>5. h' = [h EXCEPT ![w] = rec]
  BY <1>1 DEF Goto, Become
<1>6. HandlersInv'
  BY <1>4, <1>5, HandlersStay DEF CrawlInv
<1> QED
  BY <1>6, QueueSame DEF Kept, CrawlInv, StartedInv

LEMMA SyncKeeps ==
    ASSUME CrawlAssumption, CrawlInv, NEW w \in Handler, Sync(w)
    PROVE  Kept
<1>1. CASE Fail(w)
  BY <1>1, FailKeeps
<1>2. CASE ~Fail(w)
  <2>1. PICK t : t = h[w].t
    OBVIOUS
  <2>2. PICK R : R = rows
    OBVIOUS
  <2>3. PICK M : M = Materialize(R, t, {})
    OBVIOUS
  <2>4. PICK P : P = Project(M, t)
    OBVIOUS
  <2>5. /\ h[w].pc = "sync" /\ SyncAccepts(t, {}) /\ rows' = P
        /\ control' = ControlOf(t, h[w].late) /\ Goto(w, "save")
        /\ UNCHANGED <<evidence, execs, prepared, queue, status, ckpt>>
    BY <1>2, <2>1, <2>2, <2>3, <2>4 DEF Sync
  <2>6. HandlerOK(R, h[w]) /\ RowsOK(R)
    BY <2>2 DEF CrawlInv, HandlersInv, DurableInv
  <2>7. Trav(t) /\ t.sampled \subseteq Known(R)
    BY <2>1, <2>5, <2>6 DEF HandlerOK
  <2>8. UpsertAccepts(R, t) /\ t.seen = Present(M)
    BY <2>2, <2>3, <2>5 DEF SyncAccepts, ProjectionAccepts
  <2>9. RowsOK(M) /\ Follows(R, M) /\ Known(R) \subseteq Known(M)
    BY <2>3, <2>6, <2>7, <2>8, MaterializeKeeps DEF CrawlAssumption
  <2>10. RowsOK(P) /\ Follows(M, P) /\ Known(P) = Known(M)
    BY <2>4, <2>7, <2>8, <2>9, ProjectKeeps
  <2>11. Follows(R, P)
    BY <2>9, <2>10, FollowsOnwards
  <2>12. DurableInv' /\ StableStep
    <3>1. PICK none : none = {}
      OBVIOUS
    <3>2. evidence' = evidence \cup none /\ execs' = execs /\ prepared' = prepared
      BY <2>5, <3>1
    <3>3. \A p \in none : p[1] \in Url /\ (p[2] = "ADMITTED" => p[1] \in Known(rows'))
      BY <3>1
    <3>4. RowsOK(rows') /\ Follows(rows, rows') /\ Known(rows) \subseteq Known(rows')
      BY <2>2, <2>5, <2>9, <2>10, <2>11
    <3> QED
      BY <3>2, <3>3, <3>4, DurableFollows DEF CrawlInv
  <2>13. Known(rows) \subseteq Known(rows') /\ h[w].t.sampled \subseteq Known(rows')
    BY <2>1, <2>2, <2>5, <2>7, <2>9, <2>10
  <2>14. control'.exists
    BY <2>5 DEF ControlOf
  <2> QED
    BY <2>5, <2>12, <2>13, <2>14, StoredKeeps DEF queue
<1> QED
  BY <1>1, <1>2

LEMMA MarkFollows ==
    ASSUME NEW R, RowsOK(R), NEW page, page.final \in Url, InFlightAccepts(R, page)
    PROVE  /\ RowsOK(MarkInFlight(R, page)) /\ Follows(R, MarkInFlight(R, page))
           /\ Known(MarkInFlight(R, page)) = Known(R)
<1>1. PICK D : D = MarkInFlight(R, page)
  OBVIOUS
<1>2. RowsOK(D) /\ Follows(R, D) /\ Known(D) = Known(R)
  BY ONLY RowsOK(R), page.final \in Url, InFlightAccepts(R, page), <1>1, MarkKeeps
<1> QED
  BY <1>1, <1>2

\* One discovery transaction, stage by stage.
LEMMA DiscoveredIs ==
    ASSUME CrawlAssumption, NEW R, RowsOK(R), NEW t, Trav(t), NEW paths, NEW page,
           page.url \in Url, page.final \in Url,
           t.sampled \subseteq Known(R) \cup {page.final},
           page.outcome = "FAILED" => page.final \in Known(R),
           NEW M, M = Materialize(R, t, paths),
           NEW C, C = Reconcile(M, page.url, page.final),
           NEW P, P = Project(C, t), NEW D, D = MarkInFlight(P, page),
           UpsertAccepts(R, t), RedirectAccepts(M, page.url, page.final),
           SequencesUnique(Copied(M, page.url, page.final)),
           ProjectionAccepts(C, t), InFlightAccepts(P, page)
    PROVE  /\ RowsOK(M) /\ RowsOK(C) /\ RowsOK(P) /\ RowsOK(D) /\ Follows(R, D)
           /\ t.seen = Present(C) /\ t.sampled \subseteq Known(C)
           /\ Known(R) \subseteq Known(D) /\ page.final \in Known(D)
           /\ DOMAIN t.queued \subseteq Known(D) /\ t.sampled \subseteq Known(D)
<1> DEFINE f == page.final
<1>1. /\ RowsOK(M) /\ Follows(R, M) /\ Known(R) \subseteq Known(M)
      /\ Admitted(M) = Admitted(R) \cup Fresh(t, R)
  BY MaterializeKeeps DEF CrawlAssumption
<1>2. RowsOK(C) /\ Follows(M, C) /\ Known(C) = Known(M)
  BY <1>1, ReconcileKeeps DEF CrawlAssumption
<1>3. t.seen = Present(C)
  BY DEF ProjectionAccepts
<1>4. f \in Known(C)
  <2>1. CASE page.outcome = "FAILED"
    BY <1>1, <1>2, <2>1
  <2>2. CASE page.outcome # "FAILED"
    <3>1. P[f].adm = "ADMITTED"
      BY <2>2 DEF InFlightAccepts
    <3>2. P[f] = C[f] \/ P[f] = [C[f] EXCEPT !.sampled = f \in t.sampled,
                                              !.expanded = f \in t.expanded,
                                              !.inScope = f \in t.inScope]
      BY DEF Project
    <3>3. RowOK(C[f])
      BY <1>2 DEF RowsOK
    <3>4. P[f].adm = C[f].adm
      BY <3>2, <3>3 DEF RowOK, Row
    <3> QED
      BY <3>1, <3>4 DEF Known
  <2> QED
    BY <2>1, <2>2
<1>5. t.sampled \subseteq Known(C)
  BY <1>1, <1>2, <1>4
<1>6. RowsOK(P) /\ Follows(C, P) /\ Known(P) = Known(C)
  <2>1. t.seen \subseteq Present(C) /\ Trav(t) /\ RowsOK(C)
    BY <1>2, <1>3
  <2> QED
    BY <2>1, <1>5, ProjectKeeps
<1>7. RowsOK(D) /\ Follows(P, D) /\ Known(D) = Known(P)
  <2>1. RowsOK(P) /\ page.final \in Url /\ InFlightAccepts(P, page)
    BY <1>6
  <2>2. /\ RowsOK(MarkInFlight(P, page)) /\ Follows(P, MarkInFlight(P, page))
        /\ Known(MarkInFlight(P, page)) = Known(P)
    BY <2>1, MarkFollows
  <2> QED
    BY <2>2
<1>8. Follows(R, D)
  BY <1>1, <1>2, <1>6, <1>7, FollowsOnwards
<1>9. DOMAIN t.queued \subseteq Known(M)
  BY <1>1 DEF UpsertAccepts, Trav, Fresh, Admitted, Known
<1> QED
  BY <1>1, <1>2, <1>3, <1>4, <1>5, <1>6, <1>7, <1>8, <1>9

LEMMA DiscoverKeeps ==
    ASSUME CrawlAssumption, CrawlInv, NEW w \in Handler, Discover(w)
    PROVE  Kept
<1>1. CASE Fail(w)
  BY <1>1, FailKeeps
<1>2. CASE ~Fail(w)
  <2>1. PICK t : t = h[w].t
    OBVIOUS
  <2>2. PICK page : page = h[w].page
    OBVIOUS
  <2>3. PICK paths : paths = h[w].paths
    OBVIOUS
  <2>4. PICK R : R = rows
    OBVIOUS
  <2>5. PICK M : M = Materialize(R, t, paths)
    OBVIOUS
  <2>6. PICK C : C = Reconcile(M, page.url, page.final)
    OBVIOUS
  <2>7. PICK P : P = Project(C, t)
    OBVIOUS
  <2>8. PICK D : D = MarkInFlight(P, page)
    OBVIOUS
  <2>9. /\ h[w].pc = "discover" /\ DiscoveryAccepts(t, paths, page) /\ rows' = D
        /\ evidence' = evidence \cup paths
        /\ control' = ControlOf(t, h[w].late) /\ Goto(w, "execute")
        /\ UNCHANGED <<execs, prepared, queue, status, ckpt>>
    BY <1>2, <2>1, <2>2, <2>3, <2>4, <2>5, <2>6, <2>7, <2>8 DEF Discover, Discovered
  <2>10. HandlerOK(R, h[w]) /\ RowsOK(R)
    BY <2>4 DEF CrawlInv, HandlersInv, DurableInv
  <2>11. /\ Trav(t) /\ page.url \in Url /\ page.final \in Url
         /\ t.sampled \subseteq Known(R) \cup {page.final}
         /\ page.outcome = "FAILED" => page.final \in Known(R)
         /\ Evident(paths, t)
    BY <2>1, <2>2, <2>3, <2>9, <2>10 DEF HandlerOK
  <2>12. /\ UpsertAccepts(R, t) /\ RedirectAccepts(M, page.url, page.final)
         /\ SequencesUnique(Copied(M, page.url, page.final))
         /\ ProjectionAccepts(C, t) /\ InFlightAccepts(P, page)
    BY <2>4, <2>5, <2>6, <2>7, <2>9 DEF DiscoveryAccepts
  <2>13. /\ RowsOK(D) /\ Follows(R, D) /\ Known(R) \subseteq Known(D) /\ page.final \in Known(D)
         /\ DOMAIN t.queued \subseteq Known(D) /\ t.sampled \subseteq Known(D)
    BY <2>5, <2>6, <2>7, <2>8, <2>10, <2>11, <2>12, DiscoveredIs
  <2>14. \A p \in paths : p[1] \in Url /\ (p[2] = "ADMITTED" => p[1] \in Known(D))
    BY <2>11, <2>13 DEF Evident
  <2>15. DurableInv' /\ StableStep
    BY <2>4, <2>9, <2>13, <2>14, DurableFollows DEF CrawlInv
  <2>16. control'.exists
    BY <2>9 DEF ControlOf
  <2>17. Known(rows) \subseteq Known(rows') /\ h[w].t.sampled \subseteq Known(rows')
    BY <2>1, <2>4, <2>9, <2>13
  <2> QED
    BY <2>9, <2>15, <2>16, <2>17, StoredKeeps DEF queue
<1> QED
  BY <1>1, <1>2

\* A result is recorded.
LEMMA WorkAfterIs ==
    ASSUME CrawlAssumption, RowsOK(rows), NEW page, page.final \in Url, page.outcome \in Done,
           Current(page), NEW R, R = WorkAfter(page)
    PROVE  /\ RowsOK(R) /\ Known(R) = Known(rows) /\ Admitted(R) = Admitted(rows)
           /\ Present(R) = Present(rows)
           /\ ~rows[page.final].exec /\ R[page.final].work = page.outcome
           /\ R[page.final].exec /\ R[page.final].gen = rows[page.final].gen
           /\ \A u \in Url \ {page.final} : R[u] = rows[u]
           /\ \A u \in Url :
                 /\ R[u].adm = rows[u].adm /\ R[u].to = rows[u].to /\ R[u].seq = rows[u].seq
                 /\ R[u].depth = rows[u].depth /\ R[u].type = rows[u].type
                 /\ R[u].pag = rows[u].pag /\ R[u].sampled = rows[u].sampled
                 /\ R[u].expanded = rows[u].expanded /\ R[u].inScope = rows[u].inScope
<1> DEFINE f == page.final
<1>1. RowOK(rows[f]) /\ DOMAIN rows = Url /\ \A u \in Url : RowOK(rows[u])
  BY DEF RowsOK
<1>2. /\ rows[f].adm = "ADMITTED" /\ rows[f].work \in {"PENDING", "RUNNING"}
  BY DEF Current
<1>3. R = [rows EXCEPT ![f].work = page.outcome, ![f].exec = TRUE]
  BY DEF WorkAfter
<1>4. /\ R[f] = [rows[f] EXCEPT !.work = page.outcome, !.exec = TRUE]
      /\ DOMAIN R = Url /\ \A u \in Url \ {f} : R[u] = rows[u]
  BY <1>1, <1>3
<1>5. /\ RowOK(R[f]) /\ R[f].adm = rows[f].adm /\ R[f].to = rows[f].to /\ ~rows[f].exec
      /\ R[f].work = page.outcome /\ R[f].exec /\ R[f].gen = rows[f].gen
  BY <1>1, <1>2, <1>4 DEF RowOK, Row, Done, WorkState, NoWork
<1>9. /\ R[f].seq = rows[f].seq /\ R[f].depth = rows[f].depth /\ R[f].type = rows[f].type
      /\ R[f].pag = rows[f].pag /\ R[f].sampled = rows[f].sampled
      /\ R[f].expanded = rows[f].expanded /\ R[f].inScope = rows[f].inScope
  BY <1>1, <1>4 DEF RowOK, Row
<1> HIDE DEF f
<1>6. \A u \in Url :
         /\ RowOK(R[u]) /\ R[u].adm = rows[u].adm /\ R[u].to = rows[u].to
         /\ R[u].seq = rows[u].seq /\ R[u].depth = rows[u].depth /\ R[u].type = rows[u].type
         /\ R[u].pag = rows[u].pag /\ R[u].sampled = rows[u].sampled
         /\ R[u].expanded = rows[u].expanded /\ R[u].inScope = rows[u].inScope
  BY <1>1, <1>4, <1>5, <1>9
<1>7. PICK R0 : R0 = rows
  OBVIOUS
<1>8. RowsOK(R) /\ Known(R) = Known(R0) /\ Admitted(R) = Admitted(R0) /\ Present(R) = Present(R0)
  BY <1>4, <1>6, <1>7, SameIdentities
<1> QED
  BY <1>4, <1>5, <1>6, <1>7, <1>8 DEF f

LEMMA ExecuteKeeps ==
    ASSUME CrawlAssumption, CrawlInv, NEW w \in Handler, Execute(w)
    PROVE  Kept
<1>1. CASE Fail(w)
  BY <1>1, FailKeeps
<1>2. CASE ~Fail(w)
  <2>1. PICK page : page = h[w].page
    OBVIOUS
  <2>2. PICK next \in {"loop"} \cup (setting.faults \cap {"cancel", "pressure"}) :
            Become(w, [h[w] EXCEPT !.pc = "save", !.next = next,
                                   !.page = NoPage, !.paths = {}])
    BY <1>2 DEF Execute
  <2>3. /\ h[w].pc = "execute" /\ (Current(page) \/ Historical(page))
        /\ execs' = execs \cup {ExecutionOf(page)} /\ rows' = WorkAfter(page)
        /\ UNCHANGED <<control, evidence, prepared, queue, status, ckpt>>
    BY <1>2, <2>1 DEF Execute
  <2>4. HandlerOK(rows, h[w]) /\ RowsOK(rows) /\ WorkInv /\ ExecInv /\ EvidenceInv
        /\ HandlersInv
    BY DEF CrawlInv, HandlersInv, DurableInv
  <2>5. page.final \in Url /\ page.outcome \in Done /\ h[w].t.sampled \subseteq Known(rows)
    BY <2>1, <2>3, <2>4 DEF HandlerOK
  <2>6. DurableInv' /\ StableStep /\ Known(rows') = Known(rows)
    <3>1. CASE Current(page)
      <4>1. PICK R : R = WorkAfter(page) /\ R = rows'
        BY <2>3
      <4>2. /\ RowsOK(R) /\ Known(R) = Known(rows)
            /\ ~rows[page.final].exec /\ R[page.final].work = page.outcome
            /\ R[page.final].exec /\ R[page.final].gen = rows[page.final].gen
            /\ \A u \in Url \ {page.final} : R[u] = rows[u]
        <5>1. RowsOK(rows) /\ R = WorkAfter(page)
          BY <2>4, <4>1
        <5> QED
          BY <2>5, <3>1, <5>1, WorkAfterIs
      <4>3. WorkInv'
        BY <2>3, <2>4, <4>1, <4>2 DEF WorkInv, Selection
      <4>4. ExecInv'
        BY <2>3, <2>4, <4>1, <4>2 DEF ExecInv, ExecutionOf
      <4>5. EvidenceInv'
        BY <2>3, <2>4, <4>1, <4>2 DEF EvidenceInv
      <4>6. rows[page.final].work \notin Done
        BY <2>4, <2>5, <4>2 DEF RowsOK, RowOK
      <4>7. StableStep
        BY <2>3, <4>1, <4>2, <4>6 DEF StableStep, Done
      <4> QED
        BY <4>1, <4>2, <4>3, <4>4, <4>5, <4>7 DEF DurableInv
    <3>2. CASE ~Current(page)
      <4>1. rows' = rows /\ execs \subseteq execs'
        BY <2>3, <3>2 DEF WorkAfter
      <4>2. WorkInv' /\ ExecInv' /\ EvidenceInv'
        BY <2>3, <2>4, <4>1 DEF WorkInv, Selection, ExecInv, EvidenceInv
      <4>3. StableStep
        BY <2>3, <4>1 DEF StableStep
      <4> QED
        BY <2>4, <4>1, <4>2, <4>3 DEF DurableInv
    <3> QED
      BY <3>1, <3>2
  <2>7. HandlersInv'
    <3>1. PICK rec : rec = [h[w] EXCEPT !.pc = "save", !.next = next,
                                        !.page = NoPage, !.paths = {}]
      OBVIOUS
    <3>2. /\ rec.pc = "save" /\ rec.next = next /\ rec.page = NoPage /\ rec.t = h[w].t
          /\ DOMAIN rec = {"pc", "t", "page", "paths", "late", "next"}
      BY <2>4, <3>1 DEF HandlerOK
    <3>3. HandlerOK(rows', rec)
      BY <2>4, <2>5, <2>6, <3>2 DEF HandlerOK, NoPage
    <3>4. h' = [h EXCEPT ![w] = rec]
      BY <2>2, <3>1 DEF Become
    <3> QED
      BY <2>4, <2>6, <3>3, <3>4, HandlersStay
  <2>8. QueueInv'
    BY <2>3, QueueSame DEF queue
  <2>9. StartedInv'
    BY <2>3 DEF CrawlInv, StartedInv
  <2> QED
    BY <2>6, <2>7, <2>8, <2>9 DEF Kept, CrawlInv
<1> QED
  BY <1>1, <1>2

-----------------------------------------------------------------------------
LEMMA StepKeeps ==
    ASSUME CrawlAssumption, Chosen, CrawlInv, CrawlNext
    PROVE  Kept
<1>1. ASSUME NEW w \in Handler, Step(w) PROVE Kept
  <2>1. CASE Acquire(w) \/ Start(w) \/ Initialize(w) \/ Adopt(w)
    BY <2>1, AcquireKeeps, StartKeeps, InitializeKeeps, AdoptKeeps
  <2>2. CASE PrepareFirst(w) \/ PrepareAgain(w) \/ PrepareStale(w) \/ Restore(w)
    BY <2>2, PrepareFirstKeeps, PrepareAgainKeeps, RestoreKeeps
  <2>3. CASE Sync(w) \/ Save(w) \/ Dispatch(w) \/ Complete(w) \/ TimePasses(w)
    BY <2>3, SyncKeeps, SaveKeeps, DispatchKeeps, CompleteKeeps, TimeKeeps
  <2>4. ASSUME NEW obs \in UNION {setting.content[u] : u \in Url},
               h[w].pc = "fetch" /\ obs \in setting.content[h[w].page.url] /\ Observed(w, obs)
        PROVE  Kept
    BY <2>4, ObservedKeeps
  <2>5. ASSUME NEW why \in {"cancel", "pressure"}, Interrupted(w, why) PROVE Kept
    BY <2>5, InterruptedKeeps
  <2>6. CASE PageFailed(w) \/ Discover(w) \/ Execute(w)
    BY <2>6, PageFailedKeeps, DiscoverKeeps, ExecuteKeeps
  <2>7. CASE Finalize(w) \/ Cancelled(w) \/ Pressed(w)
    BY <2>7, FinishKeeps, PressedKeeps
  <2> QED
    BY <1>1, <2>1, <2>2, <2>3, <2>4, <2>5, <2>6, <2>7 DEF Step
<1> QED
  BY <1>1, AroundKeeps DEF CrawlNext

LEMMA NothingKeeps ==
    ASSUME CrawlInv, UNCHANGED crawlVars
    PROVE  Kept
<1>1. /\ UNCHANGED durable /\ UNCHANGED <<jobs, jobState, owner, status>>
      /\ rows' = rows /\ control' = control /\ ckpt' = ckpt /\ h' = h
  BY DEF crawlVars, durable, queue
<1>2. DurableInv' /\ StableStep
  BY <1>1, DurableStays DEF CrawlInv
<1>3. QueueInv'
  BY <1>1, QueueSame
<1> QED
  BY <1>1, <1>2, <1>3 DEF Kept, CrawlInv, HandlersInv, StartedInv

LEMMA InitKeeps ==
    ASSUME CrawlAssumption, CrawlInit
    PROVE  CrawlInv
<1>1. /\ rows = [u \in Url |-> NoRow] /\ ~control.exists /\ evidence = {} /\ execs = {}
      /\ prepared = [j \in 1..MaxJobs |-> [done |-> FALSE, gens |-> <<>>]]
      /\ jobs = <<"PRODUCTION_CRAWL">> /\ jobState = "QUEUED" /\ owner = NoHandler
      /\ status = "QUEUED" /\ ~ckpt /\ h = [w \in Handler |-> Idle]
  BY DEF CrawlInit, NoControl
<1>2. PICK R : R = rows
  OBVIOUS
<1>3. RowsOK(rows) /\ \A u \in Url : rows[u].gen = 0 /\ ~rows[u].exec
  BY <1>1, <1>2, NothingIsOK
<1>4. WorkInv
  <2>1. \A j \in 1..MaxJobs : Selection(j) = {}
    BY <1>1 DEF Selection
  <2>2. \A u \in Url : {j \in 1..MaxJobs : u \in Selection(j)} = {}
    BY <2>1
  <2>3. DOMAIN prepared = 1..MaxJobs
    BY <1>1
  <2> QED
    BY <1>3, <2>1, <2>2, <2>3, FS_EmptySet DEF WorkInv
<1>5. ExecInv /\ EvidenceInv
  BY <1>1, <1>3 DEF ExecInv, EvidenceInv
<1>6. HandlersInv /\ \A w \in Handler : h[w].pc = "idle"
  <2>1. HandlerOK(rows, Idle)
    BY <1>2, IdleIsOK DEF CrawlAssumption
  <2> QED
    BY <1>1, <2>1 DEF HandlersInv, Idle
<1>7. QueueInv
  <2>1. Len(jobs) = 1 /\ jobs \in Seq({"PRODUCTION_CRAWL", "RETRY", "RETRY_FAILED_PARTS",
                                       "RESUME_CHECKPOINT"})
    BY <1>1
  <2>2. 1 \in 1..MaxJobs /\ NoHandler \notin Handler
    BY DEF CrawlAssumption
  <2> QED
    BY <1>1, <2>1, <2>2 DEF QueueInv
<1> QED
  BY <1>1, <1>3, <1>4, <1>5, <1>6, <1>7 DEF CrawlInv, DurableInv, StartedInv

LEMMA InvIsEnough ==
    ASSUME CrawlAssumption, CrawlInv
    PROVE  CrawlTypeOK /\ RowsReconstructible /\ GenerationsCountActions
<1>1. RowsOK(rows) /\ WorkInv /\ ExecInv /\ EvidenceInv /\ QueueInv
  BY DEF CrawlInv, DurableInv
<1>2. \A u \in Url : RowOK(rows[u])
  BY <1>1 DEF RowsOK
<1>3. CrawlTypeOK
  BY <1>1, <1>2 DEF CrawlTypeOK, QueueInv, EvidenceInv, RowOK, Row
<1>4. \A u \in Url : rows[u].adm = "PRESERVE_ONLY" => ~rows[u].sampled /\ ~rows[u].expanded
  BY <1>2 DEF RowOK
<1>5. RowsReconstructible
  BY <1>1, <1>2, <1>4 DEF RowsReconstructible, RowsOK, RowOK
<1>6. GenerationsCountActions
  BY <1>1, <1>2 DEF GenerationsCountActions, WorkInv, ExecInv, RowOK, Done, Admitted
<1> QED
  BY <1>3, <1>5, <1>6

LEMMA NextKeeps ==
    CrawlAssumption =>
        (Chosen /\ CrawlInv /\ [CrawlNext]_crawlVars => CrawlInv' /\ StableStep)
BY StepKeeps, NothingKeeps DEF Kept

LEMMA ChosenHolds == CrawlSpec => []Chosen
<1>1. CrawlInit => Chosen
  BY DEF CrawlInit, Chosen
<1>2. Chosen /\ [CrawlNext]_crawlVars => Chosen'
  BY DEF CrawlNext, crawlVars, Chosen
<1> QED
  BY <1>1, <1>2, PTL DEF CrawlSpec

LEMMA CrawlInvHolds == CrawlAssumption => (CrawlSpec => []CrawlInv)
<1> SUFFICES ASSUME CrawlAssumption PROVE CrawlSpec => []CrawlInv
  OBVIOUS
<1>1. CrawlInit => CrawlInv
  BY InitKeeps
<1>2. Chosen /\ CrawlInv /\ [CrawlNext]_crawlVars => CrawlInv'
  BY NextKeeps
<1> QED
  BY <1>1, <1>2, ChosenHolds, PTL DEF CrawlSpec

\* No step of any handler, owner or crash takes back a result: a unit leaves
\* what it came to only with a higher generation or as the alias of another,
\* and executions and evidence are only ever added (persist_current_work,
\* prepare_recovery, reconcile_redirect).
THEOREM ResultsStayStable == CrawlAssumption => (CrawlSpec => ResultsAreStable)
<1> SUFFICES ASSUME CrawlAssumption PROVE CrawlSpec => ResultsAreStable
  OBVIOUS
<1>1. Chosen /\ CrawlInv /\ [CrawlNext]_crawlVars => [StableStep]_crawlVars
  BY NextKeeps
<1> QED
  BY <1>1, ChosenHolds, CrawlInvHolds, PTL DEF CrawlSpec, ResultsAreStable

-----------------------------------------------------------------------------
(* While no handler outlives its lease.                                     *)

\* The rows whose work is pending, and the queue of a page's handler on them.
Waiting(R) == {u \in Url : R[u].work = "PENDING"}
Kin(t, R)  == DOMAIN t.queued \cap Admitted(R)

RowBudget(R) ==
    /\ Cardinality(Admitted(R)) <= MaxPages
    /\ \A p \in PageType : Cardinality({u \in Admitted(R) : R[u].type = p}) <= PageBudget[p]

\* The traversal t is what the rows R say.
Agrees(t, R) ==
    /\ t.admitted = Admitted(R) /\ t.seen = Present(R)
    /\ t.sampled = {u \in Url : R[u].sampled} /\ t.expanded = {u \in Url : R[u].expanded}
    /\ t.inScope = {u \in Url : R[u].inScope}
    /\ t.scheduled = [p \in PageType |-> Cardinality({u \in Admitted(R) : R[u].type = p})]
    /\ \A u \in DOMAIN t.queued :
          /\ R[u].work # "COMPLETED" /\ t.queued[u].type = R[u].type
          /\ t.queued[u].order = R[u].seq /\ t.queued[u].pag = R[u].pag
          /\ R[u].work = "PENDING" => t.queued[u].depth = R[u].depth

Charged(t, c) ==
    /\ t.edges = c.edges /\ t.bytes = c.bytes
    /\ t.unexpanded = c.unexpanded /\ t.truncated = c.truncated

\* What an observed page will make of the rows.
Foretells(t, page, R) ==
    LET a == page.url  f == page.final IN
    /\ a \in Admitted(R)
    /\ f \notin Admitted(R) => f \notin DOMAIN t.queued
    /\ f \in Admitted(R) =>
          /\ Extends(t, R, IF f = a THEN Admitted(R) ELSE Admitted(R) \ {a}, Kin(t, R))
          /\ a \notin DOMAIN t.queued /\ f \notin DOMAIN t.queued
          /\ \A u \in Kin(t, R) : R[u].work # "COMPLETED"

MemOf(x, R, c, acting) ==
    LET t == x.t IN
    /\ x.pc \in {"loop", "fetch", "sync", "save"} =>
          Agrees(t, R) /\ Charged(t, c) /\ (~acting => DOMAIN t.queued = Waiting(R))
    /\ x.pc \in {"loop", "fetch", "save"} => t.timeHit = c.timeHit
    /\ x.pc = "discover" =>
          /\ Foretells(t, x.page, R)
          /\ ~acting /\ x.page.final \in Admitted(R) =>
                Kin(t, R) = Waiting(R) \ {x.page.url, x.page.final}
    /\ x.pc = "execute" =>
          /\ Agrees(t, R) /\ Charged(t, c) /\ t.timeHit = c.timeHit
          /\ x.page.final \notin DOMAIN t.queued
          /\ ~acting => DOMAIN t.queued = Waiting(R) \ {x.page.final}

Alone == \A w \in Handler : h[w].pc # "idle" => owner = w
Within == RowBudget(rows) /\ EdgesHold(control.edges)
Ended ==
    status = "SUCCEEDED" =>
        jobState = "SUCCEEDED" /\ \A u \in Admitted(rows) : rows[u].work = "COMPLETED"
SoloInv ==
    /\ Alone /\ Within /\ Ended
    /\ \A w \in Handler : MemOf(h[w], rows, control, Acting)

LEMMA WorkingIs ==
    ASSUME CrawlAssumption, CrawlInv, SoloInv, NEW w \in Handler, h[w].pc # "idle"
    PROVE  owner = w /\ jobState = "RUNNING" /\ status # "SUCCEEDED"
<1>1. owner = w
  BY DEF SoloInv, Alone
<1>2. jobState = "RUNNING"
  BY <1>1 DEF CrawlInv, QueueInv, CrawlAssumption
<1> QED
  BY <1>1, <1>2 DEF SoloInv, Ended

LEMMA NobodyWorks ==
    ASSUME CrawlAssumption, CrawlInv, SoloInv, jobState # "RUNNING"
    PROVE  owner = NoHandler /\ \A w \in Handler : h[w].pc = "idle"
<1>1. owner = NoHandler
  BY DEF CrawlInv, QueueInv
<1> QED
  BY <1>1 DEF SoloInv, Alone, CrawlAssumption

LEMMA SoloRests ==
    ASSUME \A w \in Handler : h'[w].pc = "idle", Within', Ended'
    PROVE  SoloInv'
<1>1. Alone'
  BY DEF Alone
<1>2. \A w \in Handler : MemOf(h'[w], rows', control', Acting')
  BY DEF MemOf
<1> QED
  BY <1>1, <1>2 DEF SoloInv

LEMMA SoloGoes ==
    ASSUME CrawlAssumption, CrawlInv, SoloInv, NEW w \in Handler, h[w].pc # "idle",
           NEW rec, h' = [h EXCEPT ![w] = rec], owner' = owner, jobs' = jobs,
           Within', status' # "SUCCEEDED", MemOf(rec, rows', control', Acting)
    PROVE  SoloInv'
<1>1. owner = w
  BY WorkingIs
<1>2. DOMAIN h = Handler /\ h'[w] = rec /\ \A v \in Handler \ {w} : h'[v] = h[v]
  BY DEF CrawlInv, HandlersInv
<1>3. \A v \in Handler \ {w} : h[v].pc = "idle"
  BY <1>1 DEF SoloInv, Alone
<1>4. Alone'
  BY <1>1, <1>2, <1>3 DEF Alone
<1>5. Acting' = Acting
  BY DEF Acting, Kind
<1>6. ASSUME NEW v \in Handler PROVE MemOf(h'[v], rows', control', Acting')
  <2>1. CASE v = w
    BY <1>2, <1>5, <2>1
  <2>2. CASE v # w
    <3>1. h'[v].pc = "idle"
      BY <1>2, <1>3, <2>2
    <3> QED
      BY <3>1 DEF MemOf
  <2> QED
    BY <2>1, <2>2
<1>7. Ended'
  BY DEF Ended
<1> QED
  BY <1>4, <1>6, <1>7 DEF SoloInv

LEMMA WithinStays ==
    ASSUME SoloInv, rows' = rows, control' = control
    PROVE  Within'
BY DEF SoloInv, Within

LEMMA SoloIdles ==
    ASSUME CrawlAssumption, CrawlInv, SoloInv, NEW w \in Handler, h[w].pc # "idle",
           Become(w, Idle), UNCHANGED durable, Ended'
    PROVE  SoloInv'
<1>1. owner = w
  BY WorkingIs
<1>2. \A v \in Handler : h'[v].pc = "idle"
  BY <1>1 DEF Become, Idle, SoloInv, Alone, CrawlInv, HandlersInv
<1>3. Within'
  BY WithinStays DEF durable
<1> QED
  BY <1>2, <1>3, SoloRests

LEMMA ReleaseEnds ==
    ASSUME CrawlAssumption, CrawlInv, SoloInv, NEW again, Release(again), rows' = rows,
           status # "SUCCEEDED"
    PROVE  Ended'
BY DEF Release, Ended

LEMMA SoloFails ==
    ASSUME CrawlAssumption, CrawlInv, SoloInv, NEW w \in Handler, h[w].pc # "idle", Fail(w)
    PROVE  SoloInv'
<1>1. owner = w /\ status # "SUCCEEDED"
  BY WorkingIs
<1>2. Become(w, Idle) /\ UNCHANGED durable /\ \E again \in BOOLEAN : Release(again)
  BY <1>1 DEF Fail
<1>3. Ended'
  BY <1>1, <1>2, ReleaseEnds DEF durable
<1> QED
  BY <1>2, <1>3, SoloIdles

\* Stages that know nothing of the rows yet, or no more.
Plain == {"start", "fresh", "adopt", "prepare", "restore", "finalize", "cancel", "pressure", "none"}

LEMMA PlainMem == ASSUME NEW x, x.pc \in Plain, NEW R, NEW c, NEW acting PROVE MemOf(x, R, c, acting)
BY DEF Plain, MemOf

LEMMA SoloPlain ==
    ASSUME CrawlAssumption, CrawlInv, SoloInv, NEW w \in Handler, h[w].pc # "idle",
           NEW pc \in Plain, Goto(w, pc), owner' = owner, jobs' = jobs, Within',
           status' # "SUCCEEDED"
    PROVE  SoloInv'
<1>1. PICK rec : rec = [h[w] EXCEPT !.pc = pc]
  OBVIOUS
<1>2. rec.pc = pc
  BY <1>1 DEF CrawlInv, HandlersInv, HandlerOK
<1>3. h' = [h EXCEPT ![w] = rec]
  BY <1>1 DEF Goto, Become
<1>4. MemOf(rec, rows', control', Acting)
  BY <1>2, PlainMem
<1> QED
  BY <1>3, <1>4, SoloGoes

LEMMA AcquireSolo ==
    ASSUME CrawlAssumption, CrawlInv, SoloInv, NEW w \in Handler, Acquire(w)
    PROVE  SoloInv'
<1>1. /\ jobState = "QUEUED" /\ owner' = w /\ UNCHANGED <<durable, status, jobs>>
  BY DEF Acquire
<1>2. PICK late : h' = [h EXCEPT ![w] = [Idle EXCEPT !.pc = "start", !.late = late]]
  BY DEF Acquire, Become
<1>3. \A v \in Handler : h[v].pc = "idle"
  BY <1>1, NobodyWorks
<1>4. status # "SUCCEEDED"
  BY <1>1 DEF SoloInv, Ended
<1>5. DOMAIN h = Handler /\ h'[w].pc = "start" /\ \A v \in Handler \ {w} : h'[v] = h[v]
  BY <1>2 DEF Idle, CrawlInv, HandlersInv
<1>6. Alone'
  BY <1>1, <1>3, <1>5 DEF Alone
<1>7. \A v \in Handler : MemOf(h'[v], rows', control', Acting')
  BY <1>3, <1>5 DEF MemOf
<1>8. Within'
  BY <1>1, WithinStays DEF durable
<1>9. Ended'
  BY <1>1, <1>4 DEF Ended
<1> QED
  BY <1>6, <1>7, <1>8, <1>9 DEF SoloInv

LEMMA StartSolo ==
    ASSUME CrawlAssumption, CrawlInv, SoloInv, NEW w \in Handler, Start(w)
    PROVE  SoloInv'
<1>1. h[w].pc = "start"
  BY DEF Start
<1>2. CASE StartRefused
  BY <1>1, <1>2, SoloFails DEF Start
<1>3. CASE ~StartRefused
  <2>1. PICK pc : pc = IF ~ckpt THEN "fresh" ELSE IF Acting THEN "adopt" ELSE "restore"
    OBVIOUS
  <2>2. Goto(w, pc) /\ UNCHANGED <<durable, queue>> /\ status' = "RUNNING" /\ pc \in Plain
    BY <1>3, <2>1 DEF Start, Plain
  <2>3. Within'
    BY <2>2, WithinStays DEF durable
  <2> QED
    BY <1>1, <2>2, <2>3, SoloPlain DEF queue
<1> QED
  BY <1>2, <1>3

LEMMA PrepareSolo ==
    ASSUME CrawlAssumption, CrawlInv, SoloInv, NEW w \in Handler,
           Adopt(w) \/ PrepareAgain(w) \/ PrepareStale(w)
    PROVE  SoloInv'
<1>1. h[w].pc # "idle"
  BY DEF Adopt, PrepareAgain, PrepareStale
<1>2. CASE Fail(w)
  BY <1>1, <1>2, SoloFails
<1>3. CASE ~Fail(w)
  <2>1. PICK pc \in {"prepare", "restore"} : Goto(w, pc)
    BY <1>3 DEF Adopt, PrepareAgain, PrepareStale
  <2>2. UNCHANGED <<durable, jobs, owner, status>>
    BY <1>3 DEF Adopt, PrepareAgain, PrepareStale, queue
  <2>3. Within'
    BY <2>2, WithinStays DEF durable
  <2>4. status' # "SUCCEEDED"
    BY <1>1, <2>2, WorkingIs
  <2>5. pc \in Plain
    BY DEF Plain
  <2> QED
    BY <1>1, <2>1, <2>2, <2>3, <2>4, <2>5, SoloPlain
<1> QED
  BY <1>2, <1>3

LEMMA SameBudget ==
    ASSUME NEW R, NEW R2, RowBudget(R), Admitted(R2) = Admitted(R),
           \A u \in Admitted(R) : R2[u].type = R[u].type
    PROVE  RowBudget(R2)
<1>1. \A p : {u \in Admitted(R2) : R2[u].type = p} = {u \in Admitted(R) : R[u].type = p}
  OBVIOUS
<1> QED
  BY <1>1 DEF RowBudget

LEMMA PrepareFirstSolo ==
    ASSUME CrawlAssumption, CrawlInv, SoloInv, NEW w \in Handler, PrepareFirst(w)
    PROVE  SoloInv'
<1>1. /\ h[w].pc = "prepare" /\ Goto(w, "restore")
      /\ rows' = [u \in Url |->
                    IF u \in Selected
                    THEN [rows[u] EXCEPT !.gen = @ + 1, !.work = "PENDING", !.exec = FALSE]
                    ELSE rows[u]]
      /\ UNCHANGED <<control, queue, status>>
  BY DEF PrepareFirst
<1>2. \A u \in Url : RowOK(rows[u])
  BY DEF CrawlInv, DurableInv, RowsOK
<1>3. PICK R2 : R2 = rows'
  OBVIOUS
<1>4. ASSUME NEW u \in Url PROVE R2[u].adm = rows[u].adm /\ R2[u].type = rows[u].type
  <2>1. RowOK(rows[u])
    BY <1>2
  <2>2. CASE u \in Selected
    <3>1. R2[u] = [rows[u] EXCEPT !.gen = rows[u].gen + 1, !.work = "PENDING", !.exec = FALSE]
      BY <1>1, <1>3, <2>1, <2>2 DEF RowOK, Row
    <3> QED
      BY <2>1, <3>1 DEF RowOK, Row
  <2>3. CASE u \notin Selected
    BY <1>1, <1>3, <2>3
  <2> QED
    BY <2>2, <2>3
<1>5. Admitted(R2) = Admitted(rows) /\ \A u \in Admitted(rows) : R2[u].type = rows[u].type
  BY <1>4 DEF Admitted
<1>6. RowBudget(R2)
  BY <1>5, SameBudget DEF SoloInv, Within
<1>7. Within'
  BY <1>1, <1>3, <1>6 DEF SoloInv, Within
<1>8. status' # "SUCCEEDED" /\ "restore" \in Plain
  BY <1>1, WorkingIs DEF Plain
<1> QED
  BY <1>1, <1>7, <1>8, SoloPlain DEF queue

LEMMA AgreesAfresh ==
    ASSUME NEW R, NEW c, NEW selected, NEW t, NEW k, k = Reconstructed(R, c, selected),
           \/ t = k
           \/ \E S : t = [k EXCEPT !.queued = RecoveryEntries(R, S)]
    PROVE  Agrees(t, R) /\ Charged(t, c)
<1>1. /\ k.admitted = Admitted(R) /\ k.seen = Present(R)
      /\ k.sampled = {u \in Url : R[u].sampled} /\ k.expanded = {u \in Url : R[u].expanded}
      /\ k.inScope = {u \in Url : R[u].inScope}
      /\ k.scheduled = [p \in PageType |-> Cardinality({u \in Admitted(R) : R[u].type = p})]
      /\ k.edges = c.edges /\ k.bytes = c.bytes
      /\ k.unexpanded = c.unexpanded /\ k.truncated = c.truncated
      /\ k.queued = [u \in {v \in selected : R[v].work = "PENDING"} |-> EntryOf(R, u)]
      /\ DOMAIN k = {"queued", "admitted", "seen", "sampled", "expanded", "inScope", "newly",
                     "scheduled", "edges", "bytes", "timeHit", "unexpanded", "truncated"}
  BY DEF Reconstructed
<1>2. CASE t = k
  BY <1>1, <1>2 DEF Agrees, Charged, EntryOf
<1>3. CASE \E S : t = [k EXCEPT !.queued = RecoveryEntries(R, S)]
  <2>1. PICK S : t = [k EXCEPT !.queued = RecoveryEntries(R, S)]
    BY <1>3
  <2>2. /\ t.admitted = k.admitted /\ t.seen = k.seen /\ t.sampled = k.sampled
        /\ t.expanded = k.expanded /\ t.inScope = k.inScope /\ t.scheduled = k.scheduled
        /\ t.edges = k.edges /\ t.bytes = k.bytes
        /\ t.unexpanded = k.unexpanded /\ t.truncated = k.truncated
        /\ t.queued = RecoveryEntries(R, S)
    BY <1>1, <2>1
  <2>3. \A u \in DOMAIN t.queued : R[u].work # "COMPLETED" /\ t.queued[u] = EntryOf(R, u)
    BY <2>2 DEF RecoveryEntries
  <2> QED
    BY <1>1, <2>2, <2>3 DEF Agrees, Charged, EntryOf
<1> QED
  BY <1>2, <1>3

LEMMA RestoreSolo ==
    ASSUME CrawlAssumption, CrawlInv, SoloInv, NEW w \in Handler, Restore(w)
    PROVE  SoloInv'
<1>1. h[w].pc = "restore"
  BY DEF Restore
<1>2. CASE Fail(w)
  BY <1>1, <1>2, SoloFails
<1>3. CASE ~Fail(w)
  <2>1. PICK selected : selected = IF Acting THEN Selection(This) ELSE Url
    OBVIOUS
  <2>2. PICK R : R = rows
    OBVIOUS
  <2>3. PICK k : k = Reconstructed(R, control, selected)
    OBVIOUS
  <2>4. PICK t : t = IF Acting THEN RestoredForRecovery(k, RecoveryEntries(R, selected)) ELSE k
    OBVIOUS
  <2>5. /\ Become(w, [h[w] EXCEPT !.pc = "sync", !.next = "loop", !.t = t])
        /\ UNCHANGED <<durable, queue, status, ckpt>>
    BY <1>3, <2>1, <2>2, <2>3, <2>4 DEF Restore
  <2>6. t = k \/ \E S : t = [k EXCEPT !.queued = RecoveryEntries(R, S)]
    BY <2>4 DEF RestoredForRecovery
  <2>7. Agrees(t, R) /\ Charged(t, control)
    BY <2>3, <2>6, AgreesAfresh
  <2>8. ~Acting => DOMAIN t.queued = Waiting(R)
    BY <2>1, <2>3, <2>4 DEF Reconstructed, Waiting
  <2>9. PICK rec : rec = [h[w] EXCEPT !.pc = "sync", !.next = "loop", !.t = t]
    OBVIOUS
  <2>10. rec.pc = "sync" /\ rec.t = t
    BY <2>9 DEF CrawlInv, HandlersInv, HandlerOK
  <2>11. rows' = R /\ control' = control /\ owner' = owner /\ jobs' = jobs /\ Within'
    BY <2>2, <2>5, WithinStays DEF durable, queue
  <2>12. MemOf(rec, rows', control', Acting)
    BY <2>7, <2>8, <2>10, <2>11 DEF MemOf
  <2>13. status' # "SUCCEEDED" /\ h' = [h EXCEPT ![w] = rec]
    BY <1>1, <2>5, <2>9, WorkingIs DEF Become
  <2> QED
    BY <1>1, <2>11, <2>12, <2>13, SoloGoes
<1> QED
  BY <1>2, <1>3

\* The placement of a row that a queue has been materialized into.
Placed(R, t, M, u) ==
    /\ u \in DOMAIN t.queued /\ (R[u].adm = "NONE" \/ R[u].work = "PENDING") =>
          /\ M[u].seq = t.queued[u].order /\ M[u].depth = t.queued[u].depth
          /\ M[u].type = t.queued[u].type /\ M[u].pag = t.queued[u].pag
    /\ u \in Fresh(t, R) => M[u].work = "PENDING"
    /\ R[u].adm # "NONE" /\ (u \notin DOMAIN t.queued \/ R[u].work # "PENDING") =>
          /\ M[u].seq = R[u].seq /\ M[u].depth = R[u].depth
          /\ M[u].type = R[u].type /\ M[u].pag = R[u].pag
    /\ R[u].adm = "NONE" /\ u \notin DOMAIN t.queued => M[u].work = R[u].work

LEMMA PlacedIs ==
    ASSUME NEW R, RowsOK(R), NEW t, Trav(t), UpsertAccepts(R, t), NEW paths,
           NEW M, M = Materialize(R, t, paths), NEW u \in Url
    PROVE  Placed(R, t, M, u)
<1>1. RowOK(R[u])
  BY DEF RowsOK
<1>2. CASE u \in DOMAIN t.queued /\ R[u].adm = "NONE"
  <2>1. M[u] = [R[u] EXCEPT !.seq = t.queued[u].order, !.depth = t.queued[u].depth,
                            !.type = t.queued[u].type, !.pag = t.queued[u].pag,
                            !.adm = "ADMITTED", !.work = "PENDING"]
    BY <1>2 DEF Materialize, Upsert
  <2> QED
    BY <1>1, <1>2, <2>1 DEF Placed, RowOK, Row
<1>3. CASE u \in DOMAIN t.queued /\ R[u].adm # "NONE" /\ R[u].work = "PENDING"
  <2>1. M[u] = [R[u] EXCEPT !.seq = t.queued[u].order, !.depth = t.queued[u].depth,
                            !.type = t.queued[u].type, !.pag = t.queued[u].pag]
    BY <1>3 DEF Materialize, Upsert
  <2> QED
    BY <1>1, <1>3, <2>1 DEF Placed, Fresh, RowOK, Row
<1>4. CASE u \in DOMAIN t.queued /\ R[u].adm # "NONE" /\ R[u].work # "PENDING"
  <2>1. M[u] = R[u]
    BY <1>4 DEF Materialize, Upsert
  <2> QED
    BY <1>4, <2>1 DEF Placed, Fresh
<1>5. CASE u \notin DOMAIN t.queued /\ Preserved(R, t, paths, u)
  <2>1. M[u] = [R[u] EXCEPT !.adm = "PRESERVE_ONLY"] /\ R[u].adm = "NONE"
    BY <1>5 DEF Materialize, Preserved
  <2> QED
    BY <1>1, <1>5, <2>1 DEF Placed, Fresh, RowOK, Row
<1>6. CASE u \notin DOMAIN t.queued /\ ~Preserved(R, t, paths, u)
  <2>1. M[u] = R[u]
    BY <1>6 DEF Materialize
  <2> QED
    BY <1>6, <2>1 DEF Placed, Fresh
<1> QED
  BY <1>2, <1>3, <1>4, <1>5, <1>6

\* Rows that differ in their work at most.
Alike(R, P) ==
    \A u \in Url :
        /\ P[u].adm = R[u].adm /\ P[u].seq = R[u].seq /\ P[u].depth = R[u].depth
        /\ P[u].type = R[u].type /\ P[u].pag = R[u].pag
        /\ P[u].sampled = R[u].sampled /\ P[u].expanded = R[u].expanded
        /\ P[u].inScope = R[u].inScope

LEMMA AlikeAgrees ==
    ASSUME NEW R, NEW P, Alike(R, P), NEW t, Trav(t), Agrees(t, R), RowBudget(R),
           \A u \in DOMAIN t.queued : P[u].work = R[u].work
    PROVE  Agrees(t, P) /\ RowBudget(P)
<1>1. Admitted(P) = Admitted(R) /\ Present(P) = Present(R)
  BY DEF Alike, Admitted, Present
<1>2. \A p : {u \in Admitted(P) : P[u].type = p} = {u \in Admitted(R) : R[u].type = p}
  BY DEF Alike, Admitted
<1>3. /\ {u \in Url : P[u].sampled} = {u \in Url : R[u].sampled}
      /\ {u \in Url : P[u].expanded} = {u \in Url : R[u].expanded}
      /\ {u \in Url : P[u].inScope} = {u \in Url : R[u].inScope}
  BY DEF Alike
<1>4. RowBudget(P)
  BY <1>1, <1>2 DEF RowBudget
<1>5. \A u \in DOMAIN t.queued : u \in Url
  BY DEF Trav
<1>6. Agrees(t, P)
  <2>1. t.scheduled = [p \in PageType |-> Cardinality({u \in Admitted(P) : P[u].type = p})]
    <3> DEFINE Of(X, p) == {u \in Admitted(X) : X[u].type = p}
    <3>1. \A p : Of(P, p) = Of(R, p)
      BY <1>2
    <3>2. t.scheduled = [p \in PageType |-> Cardinality(Of(R, p))]
      BY DEF Agrees
    <3> HIDE DEF Of
    <3>3. t.scheduled = [p \in PageType |-> Cardinality(Of(P, p))]
      BY <3>1, <3>2
    <3> QED
      BY <3>3 DEF Of
  <2>2. \A u \in DOMAIN t.queued :
           /\ P[u].work # "COMPLETED" /\ t.queued[u].type = P[u].type
           /\ t.queued[u].order = P[u].seq /\ t.queued[u].pag = P[u].pag
           /\ P[u].work = "PENDING" => t.queued[u].depth = P[u].depth
    BY <1>5 DEF Agrees, Alike
  <2>3. /\ t.admitted = Admitted(P) /\ t.seen = Present(P)
        /\ t.sampled = {u \in Url : P[u].sampled} /\ t.expanded = {u \in Url : P[u].expanded}
        /\ t.inScope = {u \in Url : P[u].inScope}
    BY <1>1, <1>3 DEF Agrees
  <2> QED
    BY <2>1, <2>2, <2>3 DEF Agrees
<1> QED
  BY <1>1, <1>4, <1>6

\* A synchronization of what the rows say already writes nothing new.
LEMMA NothingWritten ==
    ASSUME TraversalAssumption, NEW R, RowsOK(R), NEW t, Trav(t), UpsertAccepts(R, t), Agrees(t, R),
           NEW none, none = {}, NEW M, M = Materialize(R, t, none), t.seen = Present(M),
           NEW P, P = Project(M, t)
    PROVE  Alike(R, P) /\ \A u \in Url : P[u].work = R[u].work
<1>1. \A u \in Url : RowOK(R[u]) /\ Placed(R, t, M, u)
  BY PlacedIs DEF RowsOK
<1>2. Fresh(t, R) = {}
  BY DEF Fresh, Trav, Agrees, Admitted
<1>3. /\ RowsOK(M) /\ Admitted(M) = Admitted(R) \cup Fresh(t, R) /\ Known(R) \subseteq Known(M)
      /\ \A u \in Url :
            /\ M[u].sampled = R[u].sampled /\ M[u].expanded = R[u].expanded
            /\ M[u].inScope = R[u].inScope
            /\ R[u].adm # "NONE" => M[u].adm = R[u].adm /\ M[u].work = R[u].work
  BY MaterializeKeeps
<1>4. t.seen = Present(R)
  BY DEF Agrees
<1>5. ASSUME NEW u \in Url
      PROVE  /\ M[u].adm = R[u].adm /\ M[u].seq = R[u].seq /\ M[u].depth = R[u].depth
             /\ M[u].type = R[u].type /\ M[u].pag = R[u].pag /\ M[u].work = R[u].work
  <2>1. CASE u \in DOMAIN t.queued
    <3>1. R[u].adm = "ADMITTED"
      BY <2>1 DEF Trav, Agrees, Admitted
    <3> QED
      BY <1>1, <1>3, <2>1, <3>1 DEF Placed, Agrees
  <2>2. CASE u \notin DOMAIN t.queued /\ R[u].adm # "NONE"
    BY <1>1, <1>3, <2>2 DEF Placed
  <2>3. CASE u \notin DOMAIN t.queued /\ R[u].adm = "NONE"
    <3>1. M[u] = R[u]
      BY <2>3 DEF Materialize, Preserved
    <3> QED
      BY <3>1
  <2> QED
    BY <2>1, <2>2, <2>3
<1>6. t.seen \subseteq Present(M) /\ t.sampled \subseteq Known(M)
  <2>1. ASSUME NEW u \in t.sampled PROVE u \in Known(R)
    <3>1. u \in Url /\ R[u].sampled /\ u \in t.seen
      BY DEF Agrees, Trav
    <3> QED
      BY <1>1, <1>4, <3>1 DEF RowOK, Row, Known, Present
  <2> QED
    BY <1>3, <2>1
<1>7. \A u \in Url :
         /\ P[u].adm = M[u].adm /\ P[u].seq = M[u].seq /\ P[u].depth = M[u].depth
         /\ P[u].type = M[u].type /\ P[u].pag = M[u].pag /\ P[u].work = M[u].work
         /\ u \in t.seen => /\ P[u].sampled = (u \in t.sampled)
                            /\ P[u].expanded = (u \in t.expanded)
                            /\ P[u].inScope = (u \in t.inScope)
         /\ u \notin t.seen => P[u] = M[u]
  <2>1. \A u \in Url : u \notin t.seen => P[u] = M[u]
    BY DEF Project
  <2> QED
    BY <1>3, <1>6, <2>1, ProjectKeeps
<1>8. ASSUME NEW u \in Url
      PROVE  /\ P[u].sampled = R[u].sampled /\ P[u].expanded = R[u].expanded
             /\ P[u].inScope = R[u].inScope
  <2>1. CASE u \notin t.seen
    BY <1>3, <1>7, <2>1
  <2>2. CASE u \in t.seen
    <3>1. PICK s \in BOOLEAN : s = (u \in t.sampled)
      BY Truth
    <3>2. PICK x \in BOOLEAN : x = (u \in t.expanded)
      BY Truth
    <3>3. PICK i \in BOOLEAN : i = (u \in t.inScope)
      BY Truth
    <3>4. P[u].sampled = s /\ P[u].expanded = x /\ P[u].inScope = i
      BY <1>7, <2>2, <3>1, <3>2, <3>3
    <3>5. R[u].sampled \in BOOLEAN /\ R[u].expanded \in BOOLEAN /\ R[u].inScope \in BOOLEAN
      BY <1>1 DEF RowOK, Row
    <3>6. /\ u \in t.sampled <=> R[u].sampled
          /\ u \in t.expanded <=> R[u].expanded
          /\ u \in t.inScope <=> R[u].inScope
      BY Zenon DEF Agrees
    <3> QED
      BY <3>1, <3>2, <3>3, <3>4, <3>5, <3>6
  <2> QED
    BY <2>1, <2>2
<1> QED
  BY <1>5, <1>7, <1>8 DEF Alike

LEMMA SyncSolo ==
    ASSUME CrawlAssumption, CrawlInv, SoloInv, NEW w \in Handler, Sync(w)
    PROVE  SoloInv'
<1>1. h[w].pc = "sync"
  BY DEF Sync
<1>2. CASE Fail(w)
  BY <1>1, <1>2, SoloFails
<1>3. CASE ~Fail(w)
  <2>1. PICK t : t = h[w].t
    OBVIOUS
  <2>2. PICK R : R = rows
    OBVIOUS
  <2>3. PICK none : none = {}
    OBVIOUS
  <2>4. PICK M : M = Materialize(R, t, none)
    OBVIOUS
  <2>5. PICK P : P = Project(M, t)
    OBVIOUS
  <2>6. /\ SyncAccepts(t, none) /\ rows' = P /\ control' = ControlOf(t, h[w].late)
        /\ Goto(w, "save") /\ UNCHANGED <<queue, status>>
    BY <1>3, <2>1, <2>2, <2>3, <2>4, <2>5 DEF Sync
  <2>7. HandlerOK(R, h[w]) /\ RowsOK(R)
    BY <2>2 DEF CrawlInv, HandlersInv, DurableInv
  <2>8. Trav(t)
    BY <2>1, <2>7 DEF HandlerOK
  <2>9. UpsertAccepts(R, t) /\ t.seen = Present(M)
    BY <2>2, <2>4, <2>6 DEF SyncAccepts, ProjectionAccepts
  <2>10. /\ Agrees(t, R) /\ Charged(t, control) /\ (~Acting => DOMAIN t.queued = Waiting(R))
         /\ RowBudget(R) /\ EdgesHold(control.edges)
    BY <1>1, <2>1, <2>2 DEF SoloInv, MemOf, Within
  <2>11. Alike(R, P) /\ \A u \in Url : P[u].work = R[u].work
    BY <2>3, <2>4, <2>5, <2>7, <2>8, <2>9, <2>10, NothingWritten DEF CrawlAssumption
  <2>12. Agrees(t, P) /\ Waiting(P) = Waiting(R) /\ RowBudget(P)
    <3>1. \A u \in DOMAIN t.queued : P[u].work = R[u].work
      BY <2>8, <2>11 DEF Trav
    <3>2. Waiting(P) = Waiting(R)
      BY <2>11 DEF Waiting
    <3> QED
      BY <2>8, <2>10, <2>11, <3>1, <3>2, AlikeAgrees
  <2>13. Charged(t, control') /\ t.timeHit = control'.timeHit /\ control'.edges = control.edges
    BY <2>6, <2>10 DEF ControlOf, Charged
  <2>14. PICK rec : rec = [h[w] EXCEPT !.pc = "save"]
    OBVIOUS
  <2>15. rec.pc = "save" /\ rec.t = t
    BY <2>1, <2>14, GotoIs
  <2>16. MemOf(rec, rows', control', Acting)
    BY <2>6, <2>10, <2>12, <2>13, <2>15 DEF MemOf
  <2>17. Within' /\ status' # "SUCCEEDED" /\ owner' = owner /\ jobs' = jobs
    BY <1>1, <2>6, <2>10, <2>12, <2>13, WorkingIs DEF Within, queue
  <2>18. h' = [h EXCEPT ![w] = rec]
    BY <2>6, <2>14 DEF Goto, Become
  <2> QED
    BY <1>1, <2>16, <2>17, <2>18, SoloGoes
<1> QED
  BY <1>2, <1>3

\* A step of the loop that leaves the traversal and the rows alone.
LEMMA SoloStays ==
    ASSUME CrawlAssumption, CrawlInv, SoloInv, NEW w \in Handler, h[w].pc # "idle",
           NEW rec, h' = [h EXCEPT ![w] = rec], UNCHANGED durable,
           owner' = owner, jobs' = jobs, status' = status,
           MemOf(rec, rows, control, Acting)
    PROVE  SoloInv'
<1>1. rows' = rows /\ control' = control
  BY DEF durable
<1>2. Within' /\ status' # "SUCCEEDED"
  BY <1>1, WithinStays, WorkingIs
<1> QED
  BY <1>1, <1>2, SoloGoes

LEMMA SaveSolo ==
    ASSUME CrawlAssumption, CrawlInv, SoloInv, NEW w \in Handler, Save(w)
    PROVE  SoloInv'
<1>1. h[w].pc = "save"
  BY DEF Save
<1>2. CASE Fail(w)
  BY <1>1, <1>2, SoloFails
<1>3. CASE ~Fail(w)
  <2>1. Goto(w, h[w].next) /\ UNCHANGED <<durable, jobs, owner, status>>
    BY <1>3 DEF Save
  <2>2. PICK next : next = h[w].next
    OBVIOUS
  <2>3. PICK rec : rec = [h[w] EXCEPT !.pc = next]
    OBVIOUS
  <2>4. h' = [h EXCEPT ![w] = rec]
    BY <2>1, <2>2, <2>3 DEF Goto, Become
  <2>5. rec.pc = next /\ rec.t = h[w].t
    BY <2>3, GotoIs
  <2>6. next \in {"none", "loop", "finalize", "cancel", "pressure"}
    BY <2>2 DEF CrawlInv, HandlersInv, HandlerOK
  <2>7. MemOf(h[w], rows, control, Acting)
    BY DEF SoloInv
  <2>8. MemOf(rec, rows, control, Acting)
    BY <1>1, <2>5, <2>6, <2>7 DEF MemOf
  <2> QED
    BY <1>1, <2>1, <2>4, <2>8, SoloStays
<1> QED
  BY <1>2, <1>3

LEMMA DispatchSolo ==
    ASSUME CrawlAssumption, CrawlInv, SoloInv, NEW w \in Handler, Dispatch(w)
    PROVE  SoloInv'
<1>1. h[w].pc = "loop"
  BY DEF Dispatch
<1>2. CASE Fail(w)
  BY <1>1, <1>2, SoloFails
<1>3. CASE ~Fail(w)
  <2>1. PICK page : h' = [h EXCEPT ![w] = [h[w] EXCEPT !.pc = "fetch", !.page = page]]
    BY <1>3 DEF Dispatch, Become
  <2>2. PICK rec : rec = [h[w] EXCEPT !.pc = "fetch", !.page = page]
    OBVIOUS
  <2>3. rec.pc = "fetch" /\ rec.t = h[w].t
    BY <2>2 DEF CrawlInv, HandlersInv, HandlerOK
  <2>4. MemOf(h[w], rows, control, Acting)
    BY DEF SoloInv
  <2>5. MemOf(rec, rows, control, Acting)
    BY <1>1, <2>3, <2>4 DEF MemOf
  <2>6. UNCHANGED <<durable, queue, status>>
    BY <1>3 DEF Dispatch
  <2> QED
    BY <1>1, <2>1, <2>2, <2>5, <2>6, SoloStays DEF queue
<1> QED
  BY <1>2, <1>3

LEMMA CompleteSolo ==
    ASSUME CrawlAssumption, CrawlInv, SoloInv, NEW w \in Handler, Complete(w)
    PROVE  SoloInv'
<1>1. h[w].pc = "loop"
  BY DEF Complete
<1>2. PICK t : t = h[w].t
  OBVIOUS
<1>3. PICK t2 : t2 = AtCompletion(t, h[w].late)
  OBVIOUS
<1>4. HandlerOK(rows, h[w])
  BY DEF CrawlInv, HandlersInv
<1>5. PICK rec : rec = [h[w] EXCEPT !.pc = "sync", !.next = "finalize", !.t = t2]
  OBVIOUS
<1>6. rec.pc = "sync" /\ rec.t = t2
  BY <1>4, <1>5 DEF HandlerOK
<1>7. h' = [h EXCEPT ![w] = rec]
  BY <1>2, <1>3, <1>4, <1>5 DEF Complete, Become, HandlerOK
<1>8. Trav(t) /\ MemOf(h[w], rows, control, Acting)
  BY <1>2, <1>4 DEF HandlerOK, SoloInv
<1>9. \A field \in DOMAIN t \ {"timeHit"} : t2[field] = t[field]
  BY <1>3 DEF AtCompletion
<1>10. /\ t2.queued = t.queued /\ t2.admitted = t.admitted /\ t2.seen = t.seen
       /\ t2.sampled = t.sampled /\ t2.expanded = t.expanded /\ t2.inScope = t.inScope
       /\ t2.scheduled = t.scheduled /\ t2.edges = t.edges /\ t2.bytes = t.bytes
       /\ t2.unexpanded = t.unexpanded /\ t2.truncated = t.truncated
  BY <1>8, <1>9 DEF Trav
<1>11. Agrees(t, rows) /\ Charged(t, control) /\ (~Acting => DOMAIN t.queued = Waiting(rows))
  BY <1>1, <1>2, <1>8 DEF MemOf
<1>12. Agrees(t2, rows) /\ Charged(t2, control) /\ (~Acting => DOMAIN t2.queued = Waiting(rows))
  BY <1>10, <1>11 DEF Agrees, Charged
<1>13. MemOf(rec, rows, control, Acting)
  BY <1>6, <1>12 DEF MemOf
<1>14. UNCHANGED <<durable, queue, status>>
  BY DEF Complete
<1> QED
  BY <1>1, <1>7, <1>13, <1>14, SoloStays DEF queue

LEMMA TimeSolo ==
    ASSUME CrawlAssumption, CrawlInv, SoloInv, NEW w \in Handler, TimePasses(w)
    PROVE  SoloInv'
<1>1. h[w].pc \in {"loop", "fetch"}
  BY DEF TimePasses
<1>2. PICK rec : rec = [h[w] EXCEPT !.late = TRUE]
  OBVIOUS
<1>3. rec.pc = h[w].pc /\ rec.t = h[w].t
  BY <1>2 DEF CrawlInv, HandlersInv, HandlerOK
<1>4. MemOf(h[w], rows, control, Acting)
  BY DEF SoloInv
<1>5. MemOf(rec, rows, control, Acting)
  BY <1>1, <1>3, <1>4 DEF MemOf
<1>6. h' = [h EXCEPT ![w] = rec] /\ UNCHANGED <<durable, queue, status>>
  BY <1>2 DEF TimePasses, Become
<1> QED
  BY <1>1, <1>5, <1>6, SoloStays DEF queue

LEMMA InterruptedSolo ==
    ASSUME CrawlAssumption, CrawlInv, SoloInv, NEW w \in Handler, NEW why, Interrupted(w, why)
    PROVE  SoloInv'
<1>1. h[w].pc = "fetch"
  BY DEF Interrupted
<1>2. PICK rec : rec = [h[w] EXCEPT !.pc = "sync", !.next = why]
  OBVIOUS
<1>3. rec.pc = "sync" /\ rec.t = h[w].t
  BY <1>2 DEF CrawlInv, HandlersInv, HandlerOK
<1>4. MemOf(h[w], rows, control, Acting)
  BY DEF SoloInv
<1>5. MemOf(rec, rows, control, Acting)
  BY <1>1, <1>3, <1>4 DEF MemOf
<1>6. h' = [h EXCEPT ![w] = rec] /\ UNCHANGED <<durable, queue, status>>
  BY <1>2 DEF Interrupted, Become
<1> QED
  BY <1>1, <1>5, <1>6, SoloStays DEF queue

\* A traversal that agrees with the rows extends them by nothing.
LEMMA AgreesExtends ==
    ASSUME NEW R, NEW t, Trav(t), Agrees(t, R), RowBudget(R), EdgesHold(t.edges)
    PROVE  Extends(t, R, Admitted(R), DOMAIN t.queued)
<1>1. t.admitted = Admitted(R) /\ t.seen = Present(R) /\ DOMAIN t.queued \subseteq Admitted(R)
  BY DEF Agrees, Trav
<1>2. \A u \in Admitted(R) : R[u].adm = "ADMITTED"
  BY DEF Admitted
<1>3. Fresh(t, R) = {}
  BY <1>1, <1>2 DEF Fresh
<1>4. \A p : PagesOf(t, R, p) = {u \in Admitted(R) : R[u].type = p}
  BY <1>1, <1>2 DEF PagesOf, TypeIn
<1>5. Counts(t, R)
  <2> DEFINE Of(p) == {u \in Admitted(R) : R[u].type = p}
  <2>1. t.scheduled = [p \in PageType |-> Cardinality(Of(p))]
    BY DEF Agrees
  <2>2. Cardinality(t.admitted) <= MaxPages /\ \A p \in PageType : Cardinality(Of(p)) <= PageBudget[p]
    BY <1>1 DEF RowBudget
  <2>3. \A p : PagesOf(t, R, p) = Of(p)
    BY <1>4
  <2> HIDE DEF Of
  <2> QED
    BY <2>1, <2>2, <2>3 DEF Counts
<1>6. Admitted(R) \subseteq Present(R)
  BY <1>2 DEF Present, Admitted
<1>7. \A u \in DOMAIN t.queued : /\ t.queued[u].type = R[u].type /\ t.queued[u].order = R[u].seq
                                 /\ t.queued[u].pag = R[u].pag
  BY DEF Agrees
<1> QED
  BY <1>1, <1>3, <1>5, <1>6, <1>7 DEF Extends

\* What is left when the page of a, found to be f, is taken from the queue Q.
Taken(t, R, a, f, Q) ==
    /\ f # a => f \notin DOMAIN t.queued
    /\ f \in Admitted(R) =>
          Extends(t, R, IF f = a THEN Admitted(R) ELSE Admitted(R) \ {a}, Q \ {a, f})

KinLeft(t, R, a, f, Q) == f \in Admitted(R) => Kin(t, R) = Q \ {a, f}

\* What a page that was fetched from the rows R foretells of them.
LEMMA Foretold ==
    ASSUME NEW R, NEW t, Trav(t), Agrees(t, R), NEW a \in DOMAIN t.queued, NEW f, NEW t2,
           Taken(t2, R, a, f, DOMAIN t.queued), NEW page, page.url = a, page.final = f
    PROVE  Foretells(t2, page, R) /\ KinLeft(t2, R, a, f, DOMAIN t.queued)
<1>0. /\ f # a => f \notin DOMAIN t2.queued
      /\ f \in Admitted(R) => Extends(t2, R, IF f = a THEN Admitted(R) ELSE Admitted(R) \ {a},
                                       DOMAIN t.queued \ {a, f})
  BY DEF Taken
<1>1. a \in Admitted(R) /\ DOMAIN t.queued \subseteq Admitted(R)
  BY DEF Agrees, Trav
<1>2. ASSUME f \in Admitted(R)
      PROVE  /\ Kin(t2, R) = DOMAIN t.queued \ {a, f}
             /\ a \notin DOMAIN t2.queued /\ f \notin DOMAIN t2.queued
  <2>1. DOMAIN t2.queued = (DOMAIN t.queued \ {a, f}) \cup Fresh(t2, R)
    BY <1>0, <1>2 DEF Extends
  <2>2. Fresh(t2, R) \cap Admitted(R) = {}
    BY DEF Fresh, Admitted
  <2> QED
    BY <1>0, <1>1, <1>2, <2>1, <2>2 DEF Kin
<1>3. f \notin Admitted(R) => f \notin DOMAIN t2.queued
  BY <1>0, <1>1
<1>4. ASSUME f \in Admitted(R)
      PROVE  /\ Extends(t2, R, IF f = a THEN Admitted(R) ELSE Admitted(R) \ {a}, Kin(t2, R))
             /\ \A u \in Kin(t2, R) : R[u].work # "COMPLETED"
  BY <1>0, <1>2, <1>4 DEF Agrees
<1> QED
  BY <1>1, <1>2, <1>3, <1>4 DEF Foretells, KinLeft

LEMMA FetchingIs ==
    ASSUME CrawlInv, SoloInv, NEW w \in Handler, h[w].pc = "fetch"
    PROVE  /\ HandlerOK(rows, h[w]) /\ RowsOK(rows) /\ Trav(h[w].t) /\ Agrees(h[w].t, rows)
           /\ Extends(h[w].t, rows, Admitted(rows), DOMAIN h[w].t.queued)
           /\ h[w].page.url \in DOMAIN h[w].t.queued
           /\ ~Acting => DOMAIN h[w].t.queued = Waiting(rows)
<1>1. PICK t : t = h[w].t
  OBVIOUS
<1>2. HandlerOK(rows, h[w]) /\ RowsOK(rows)
  BY DEF CrawlInv, HandlersInv, DurableInv
<1>3. /\ Trav(t) /\ h[w].page.url \in DOMAIN t.queued
      /\ Agrees(t, rows) /\ Charged(t, control) /\ (~Acting => DOMAIN t.queued = Waiting(rows))
  BY <1>1, <1>2 DEF HandlerOK, SoloInv, MemOf
<1>4. RowBudget(rows) /\ EdgesHold(t.edges)
  BY <1>3 DEF SoloInv, Within, Charged
<1>5. Extends(t, rows, Admitted(rows), DOMAIN t.queued)
  BY <1>3, <1>4, AgreesExtends
<1> QED
  BY <1>1, <1>2, <1>3, <1>5

LEMMA ObservedSolo ==
    ASSUME CrawlAssumption, CrawlInv, SoloInv, NEW w \in Handler, h[w].pc = "fetch",
           Chosen, NEW obs \in setting.content[h[w].page.url], Observed(w, obs)
    PROVE  SoloInv'
<1>1. CASE obs.bytes > MaxBytes - h[w].t.bytes
  BY <1>1, SoloFails DEF Observed
<1>2. CASE ~(obs.bytes > MaxBytes - h[w].t.bytes)
  <2>1. PICK t : t = h[w].t
    OBVIOUS
  <2>2. PICK u : u = h[w].page.url
    OBVIOUS
  <2>3. PICK late : late = h[w].late
    OBVIOUS
  <2>4. PICK r : r = ProcessObservation(Popped(t, u), u, t.queued[u], obs, late)
    OBVIOUS
  <2>5. PICK paths, outcome : /\ paths = r.paths \cup PageEvidence(obs.final)
                              /\ outcome = IF obs.full THEN "COMPLETED" ELSE "PARTIAL"
    OBVIOUS
  <2>6. PICK page : page = [h[w].page EXCEPT !.final = obs.final, !.outcome = outcome]
    OBVIOUS
  <2>7. PICK rec : rec = [h[w] EXCEPT !.pc = "discover", !.t = r.t, !.paths = paths,
                                      !.page = page]
    OBVIOUS
  <2>8. PICK R : R = rows
    OBVIOUS
  <2>9. /\ HandlerOK(R, h[w]) /\ RowsOK(R) /\ Trav(t) /\ Agrees(t, R)
        /\ Extends(t, R, Admitted(R), DOMAIN t.queued) /\ u \in DOMAIN t.queued
        /\ ~Acting => DOMAIN t.queued = Waiting(R)
    BY <2>1, <2>2, <2>8, FetchingIs
  <2>10. h' = [h EXCEPT ![w] = rec] /\ UNCHANGED <<durable, queue, status, ckpt>>
    BY <1>2, <2>1, <2>2, <2>3, <2>4, <2>5, <2>6, <2>7, <2>9 DEF Observed, Become, HandlerOK
  <2>11. /\ rec.pc = "discover" /\ rec.t = r.t /\ rec.page = page
         /\ page.url = u /\ page.final = obs.final
    BY <2>2, <2>6, <2>7, <2>9 DEF HandlerOK
  <2>12. u \in Url /\ R[u].type \in PageType \cup {NoType}
    <3>1. u \in Url
      BY <2>9 DEF Trav
    <3> QED
      BY <2>9, <3>1 DEF RowsOK, RowOK, Row
  <2>13. obs \in Observation /\ IsFiniteSet(obs.links) /\ TraversalAssumption
    BY <2>2, <2>12, AnswerIs DEF CrawlAssumption
  <2>14. PICK f : f = obs.final
    OBVIOUS
  <2>15. Observes(t, u, f, r)
    BY <2>4, <2>9, <2>13, <2>14, ObservationIs
  <2>16. f # u => f \notin DOMAIN r.t.queued
    BY <2>15 DEF Observes
  <2>17. f \in Admitted(R) => Extends(r.t, R, IF f = u THEN Admitted(R) ELSE Admitted(R) \ {u},
                                      DOMAIN t.queued \ {u, f})
    BY <2>9, <2>12, <2>15 DEF Observes
  <2>18. PICK t2 : t2 = r.t
    OBVIOUS
  <2>19. Taken(t2, R, u, f, DOMAIN t.queued)
    BY <2>16, <2>17, <2>18 DEF Taken
  <2>20. Foretells(t2, page, R) /\ KinLeft(t2, R, u, f, DOMAIN t.queued)
    BY <2>9, <2>11, <2>14, <2>19, Foretold
  <2>21. MemOf(rec, R, control, Acting)
    BY <2>9, <2>11, <2>14, <2>18, <2>20 DEF MemOf, KinLeft
  <2> QED
    BY <2>8, <2>10, <2>21, SoloStays DEF queue
<1> QED
  BY <1>1, <1>2

LEMMA PageFailedSolo ==
    ASSUME CrawlAssumption, CrawlInv, SoloInv, NEW w \in Handler, PageFailed(w)
    PROVE  SoloInv'
<1>1. h[w].pc = "fetch"
  BY DEF PageFailed
<1>2. PICK t : t = h[w].t
  OBVIOUS
<1>3. PICK u : u = h[w].page.url
  OBVIOUS
<1>4. PICK p : p = Popped(t, u)
  OBVIOUS
<1>5. PICK t2 : t2 = [p EXCEPT !.timeHit = t.timeHit \/ h[w].late]
  OBVIOUS
<1>6. PICK page : page = [h[w].page EXCEPT !.final = u, !.outcome = "FAILED"]
  OBVIOUS
<1>7. PICK rec : rec = [h[w] EXCEPT !.pc = "discover", !.paths = {}, !.t = t2, !.page = page]
  OBVIOUS
<1>8. PICK R : R = rows
  OBVIOUS
<1>9. /\ HandlerOK(R, h[w]) /\ Trav(t) /\ Agrees(t, R)
      /\ Extends(t, R, Admitted(R), DOMAIN t.queued) /\ u \in DOMAIN t.queued
      /\ ~Acting => DOMAIN t.queued = Waiting(R)
  BY <1>1, <1>2, <1>3, <1>8, FetchingIs
<1>10. h' = [h EXCEPT ![w] = rec] /\ UNCHANGED <<durable, queue, status, ckpt>>
  BY <1>2, <1>3, <1>4, <1>5, <1>6, <1>7, <1>9 DEF PageFailed, Become, HandlerOK
<1>11. rec.pc = "discover" /\ rec.t = t2 /\ rec.page = page /\ page.url = u /\ page.final = u
  BY <1>3, <1>6, <1>7, <1>9 DEF HandlerOK
<1>12. Trav(p) /\ Extends(p, R, Admitted(R), DOMAIN t.queued \ {u})
  BY <1>4, <1>9, PoppedIs, PopExtends
<1>13. /\ t2.queued = p.queued /\ t2.admitted = p.admitted /\ t2.scheduled = p.scheduled
       /\ t2.edges = p.edges /\ t2.seen = p.seen
  BY <1>5, <1>12 DEF Trav
<1>14. Extends(t2, R, Admitted(R), DOMAIN t.queued \ {u})
  BY <1>12, <1>13, SameExtends
<1>15. PICK f : f = u
  OBVIOUS
<1>16. Taken(t2, R, u, f, DOMAIN t.queued)
  BY <1>14, <1>15 DEF Taken
<1>17. Foretells(t2, page, R) /\ KinLeft(t2, R, u, f, DOMAIN t.queued)
  BY <1>9, <1>11, <1>15, <1>16, Foretold
<1>18. MemOf(rec, R, control, Acting)
  BY <1>9, <1>11, <1>15, <1>17 DEF MemOf, KinLeft
<1> QED
  BY <1>1, <1>8, <1>10, <1>18, SoloStays DEF queue

LEMMA ExecuteSolo ==
    ASSUME CrawlAssumption, CrawlInv, SoloInv, NEW w \in Handler, Execute(w)
    PROVE  SoloInv'
<1>1. h[w].pc = "execute"
  BY DEF Execute
<1>2. CASE Fail(w)
  BY <1>1, <1>2, SoloFails
<1>3. CASE ~Fail(w)
  <2>1. PICK page : page = h[w].page
    OBVIOUS
  <2>2. PICK t : t = h[w].t
    OBVIOUS
  <2>3. PICK f : f = page.final
    OBVIOUS
  <2>4. PICK next : Become(w, [h[w] EXCEPT !.pc = "save", !.next = next,
                                           !.page = NoPage, !.paths = {}])
    BY <1>3 DEF Execute
  <2>5. /\ Current(page) \/ Historical(page)
        /\ rows' = WorkAfter(page) /\ UNCHANGED <<control, queue, status>>
    BY <1>3, <2>1 DEF Execute
  <2>6. HandlerOK(rows, h[w]) /\ RowsOK(rows)
    BY DEF CrawlInv, HandlersInv, DurableInv
  <2>7. Trav(t) /\ f \in Url /\ page.outcome \in Done
    BY <1>1, <2>1, <2>2, <2>3, <2>6 DEF HandlerOK
  <2>8. /\ Agrees(t, rows) /\ Charged(t, control) /\ t.timeHit = control.timeHit
        /\ f \notin DOMAIN t.queued /\ (~Acting => DOMAIN t.queued = Waiting(rows) \ {f})
        /\ RowBudget(rows) /\ EdgesHold(control.edges)
    BY <1>1, <2>1, <2>2, <2>3 DEF SoloInv, MemOf, Within
  <2>9. PICK R : R = rows'
    OBVIOUS
  <2>10. Agrees(t, R) /\ RowBudget(R) /\ Waiting(R) = Waiting(rows) \ {f}
    <3>1. CASE Current(page)
      <4>1. R = WorkAfter(page)
        BY <2>5, <2>9
      <4>2. /\ R[f].work = page.outcome /\ \A u \in Url \ {f} : R[u] = rows[u]
            /\ \A u \in Url :
                  /\ R[u].adm = rows[u].adm /\ R[u].seq = rows[u].seq
                  /\ R[u].depth = rows[u].depth /\ R[u].type = rows[u].type
                  /\ R[u].pag = rows[u].pag /\ R[u].sampled = rows[u].sampled
                  /\ R[u].expanded = rows[u].expanded /\ R[u].inScope = rows[u].inScope
        BY <2>3, <2>6, <2>7, <3>1, <4>1, WorkAfterIs
      <4>3. PICK R0 : R0 = rows
        OBVIOUS
      <4>4. Alike(R0, R)
        BY <4>2, <4>3 DEF Alike
      <4>5. \A u \in DOMAIN t.queued : R[u].work = R0[u].work
        BY <2>7, <2>8, <4>2, <4>3 DEF Trav
      <4>6. Agrees(t, R) /\ RowBudget(R)
        BY <2>7, <2>8, <4>3, <4>4, <4>5, AlikeAgrees
      <4>7. Waiting(R) = Waiting(rows) \ {f}
        BY <2>7, <4>2 DEF Waiting, Done
      <4> QED
        BY <4>6, <4>7
    <3>2. CASE ~Current(page)
      <4>1. R = rows /\ rows[f].work \notin {"PENDING", "RUNNING"}
        BY <2>3, <2>5, <2>9, <3>2 DEF WorkAfter, Historical
      <4> QED
        BY <2>8, <4>1 DEF Waiting
    <3> QED
      BY <3>1, <3>2
  <2>11. PICK rec : rec = [h[w] EXCEPT !.pc = "save", !.next = next,
                                       !.page = NoPage, !.paths = {}]
    OBVIOUS
  <2>12. rec.pc = "save" /\ rec.t = t /\ h' = [h EXCEPT ![w] = rec]
    BY <2>2, <2>4, <2>6, <2>11 DEF HandlerOK, Become
  <2>13. MemOf(rec, rows', control', Acting)
    BY <2>5, <2>8, <2>9, <2>10, <2>12 DEF MemOf
  <2>14. Within' /\ status' # "SUCCEEDED" /\ owner' = owner /\ jobs' = jobs
    BY <1>1, <2>5, <2>8, <2>9, <2>10, WorkingIs DEF Within, queue
  <2> QED
    BY <1>1, <2>12, <2>13, <2>14, SoloGoes
<1> QED
  BY <1>2, <1>3

\* What is said of a unit's row besides its work.
Says(P, R, u) ==
    /\ P[u].adm = R[u].adm /\ P[u].seq = R[u].seq /\ P[u].depth = R[u].depth
    /\ P[u].type = R[u].type /\ P[u].pag = R[u].pag

\* The rows that a traversal is projected to.
LEMMA ProjectedIs ==
    ASSUME NEW C, RowsOK(C), NEW t, Trav(t), t.seen = Present(C), t.sampled \subseteq Known(C),
           NEW P, P = Project(C, t)
    PROVE  /\ RowsOK(P) /\ Admitted(P) = Admitted(C) /\ Present(P) = Present(C)
           /\ \A u \in Url : Says(P, C, u) /\ P[u].work = C[u].work
           /\ t.sampled = {u \in Url : P[u].sampled}
           /\ t.expanded = {u \in Url : P[u].expanded}
           /\ t.inScope = {u \in Url : P[u].inScope}
<1>1. /\ RowsOK(P) /\ Admitted(P) = Admitted(C) /\ Present(P) = Present(C)
      /\ \A u \in Url : Says(P, C, u) /\ P[u].work = C[u].work
      /\ \A u \in t.seen : /\ P[u].sampled = (u \in t.sampled)
                           /\ P[u].expanded = (u \in t.expanded)
                           /\ P[u].inScope = (u \in t.inScope)
  <2>1. t.seen \subseteq Url /\ t.seen \subseteq Present(C)
    BY DEF Trav
  <2> QED
    BY <2>1, ProjectKeeps DEF Says
<1>2. ASSUME NEW u \in Url
      PROVE  /\ u \in t.sampled <=> P[u].sampled
             /\ u \in t.expanded <=> P[u].expanded
             /\ u \in t.inScope <=> P[u].inScope
  <2>1. CASE u \in t.seen
    <3>1. PICK s \in BOOLEAN : s = (u \in t.sampled)
      BY Truth
    <3>2. PICK x \in BOOLEAN : x = (u \in t.expanded)
      BY Truth
    <3>3. PICK i \in BOOLEAN : i = (u \in t.inScope)
      BY Truth
    <3>4. P[u].sampled = s /\ P[u].expanded = x /\ P[u].inScope = i
      BY <1>1, <2>1, <3>1, <3>2, <3>3
    <3> QED
      BY <3>1, <3>2, <3>3, <3>4
  <2>2. CASE u \notin t.seen
    <3>1. u \notin t.sampled /\ u \notin t.expanded /\ u \notin t.inScope
      BY <2>2 DEF Trav
    <3>2. P[u].adm = "NONE" /\ RowOK(P[u])
      BY <1>1, <2>2 DEF Present, RowsOK
    <3>3. ~P[u].sampled /\ ~P[u].expanded /\ ~P[u].inScope
      BY <3>2 DEF RowOK, NoRow
    <3> QED
      BY <3>1, <3>3
  <2> QED
    BY <2>1, <2>2
<1>3. t.sampled \subseteq Url /\ t.expanded \subseteq Url /\ t.inScope \subseteq Url
  BY DEF Trav
<1> QED
  BY <1>1, <1>2, <1>3

\* The last two stages of a discovery transaction.
LEMMA MarkedIs ==
    ASSUME NEW C, RowsOK(C), NEW t, Trav(t), t.seen = Present(C), t.sampled \subseteq Known(C),
           NEW P, P = Project(C, t), NEW page, page.final \in Url, InFlightAccepts(P, page),
           NEW D, D = MarkInFlight(P, page)
    PROVE  /\ Admitted(D) = Admitted(C) /\ Present(D) = Present(C)
           /\ \A u \in Url : Says(D, C, u)
           /\ \A u \in Url \ {page.final} : D[u].work = C[u].work
           /\ t.sampled = {u \in Url : D[u].sampled}
           /\ t.expanded = {u \in Url : D[u].expanded}
           /\ t.inScope = {u \in Url : D[u].inScope}
<1> DEFINE f == page.final
<1>1. /\ RowsOK(P) /\ Admitted(P) = Admitted(C) /\ Present(P) = Present(C)
      /\ \A u \in Url : Says(P, C, u) /\ P[u].work = C[u].work
      /\ t.sampled = {u \in Url : P[u].sampled}
      /\ t.expanded = {u \in Url : P[u].expanded}
      /\ t.inScope = {u \in Url : P[u].inScope}
  BY ProjectedIs
<1>2. /\ RowsOK(D) /\ Admitted(D) = Admitted(P) /\ Present(D) = Present(P)
      /\ D = P \/ D = [P EXCEPT ![f] = [P[f] EXCEPT !.work = "RUNNING"]]
  BY <1>1, MarkKeeps
<1>3. DOMAIN P = Url /\ \A u \in Url : RowOK(P[u])
  BY <1>1 DEF RowsOK
<1>4. ASSUME NEW u \in Url
      PROVE  /\ Says(D, P, u) /\ (u # f => D[u].work = P[u].work)
             /\ D[u].sampled = P[u].sampled /\ D[u].expanded = P[u].expanded
             /\ D[u].inScope = P[u].inScope
  <2>1. CASE D = P
    BY <2>1 DEF Says
  <2>2. CASE D = [P EXCEPT ![f] = [P[f] EXCEPT !.work = "RUNNING"]]
    <3>1. CASE u = f
      <4>1. D[u] = [P[u] EXCEPT !.work = "RUNNING"] /\ RowOK(P[u])
        BY <1>3, <2>2, <3>1
      <4> QED
        BY <3>1, <4>1 DEF Says, RowOK, Row
    <3>2. CASE u # f
      <4>1. D[u] = P[u]
        BY <1>3, <2>2, <3>2
      <4> QED
        BY <4>1 DEF Says
    <3> QED
      BY <3>1, <3>2
  <2> QED
    BY <1>2, <2>1, <2>2
<1>5. \A u \in Url : Says(D, C, u) /\ (u # f => D[u].work = C[u].work)
  BY <1>1, <1>4 DEF Says
<1>6. /\ t.sampled = {u \in Url : D[u].sampled} /\ t.expanded = {u \in Url : D[u].expanded}
      /\ t.inScope = {u \in Url : D[u].inScope}
  BY <1>1, <1>4
<1> QED
  BY <1>1, <1>2, <1>5, <1>6

\* The stages of a discovery transaction that is accepted.
Commits(R, t, paths, page, M, C, P, D) ==
    /\ M = Materialize(R, t, paths) /\ C = Reconcile(M, page.url, page.final)
    /\ P = Project(C, t) /\ D = MarkInFlight(P, page)
    /\ UpsertAccepts(R, t) /\ RedirectAccepts(M, page.url, page.final)
    /\ SequencesUnique(Copied(M, page.url, page.final))
    /\ ProjectionAccepts(C, t) /\ InFlightAccepts(P, page)

\* A page that was foretold is found to be an admitted unit, or itself.
LEMMA ForetoldFinal ==
    ASSUME CrawlAssumption, NEW R, RowsOK(R), NEW t, Trav(t), NEW paths, NEW page,
           page.url \in Url, page.final \in Url, Foretells(t, page, R),
           NEW M, NEW C, NEW P, NEW D, Commits(R, t, paths, page, M, C, P, D)
    PROVE  /\ page.final \in Admitted(R)
           /\ IF page.final = page.url THEN C = M
              ELSE C = [M EXCEPT ![page.url] = Resolved(M, page.url, page.final)]
<1> DEFINE a == page.url
           f == page.final
<1>1. RowsOK(M) /\ Admitted(M) = Admitted(R) \cup Fresh(t, R)
  BY MaterializeKeeps DEF CrawlAssumption, Commits
<1>2. a \in Admitted(R) /\ (f \notin Admitted(R) => f \notin DOMAIN t.queued)
  BY DEF Foretells
<1>3. M[a].adm = "ADMITTED"
  <2>1. a \in Admitted(M)
    BY <1>1, <1>2
  <2> QED
    BY <2>1 DEF Admitted
<1>4. \/ C = M /\ (a = f \/ M[a].adm = "RESOLVED")
      \/ /\ a # f /\ M[f].adm = "ADMITTED"
         /\ C = [M EXCEPT ![a] = Resolved(M, a, f)]
  <2>1. /\ RedirectAccepts(M, a, f) /\ SequencesUnique(Copied(M, a, f))
        /\ C = Reconcile(M, a, f) /\ TraversalAssumption
    BY DEF Commits, CrawlAssumption
  <2> HIDE DEF a, f
  <2>2. a \in Url /\ f \in Url
    BY DEF a, f
  <2> QED
    BY <1>1, <2>1, <2>2, ReconcileIs
<1>5. CASE a = f
  BY <1>2, <1>3, <1>4, <1>5
<1>6. CASE a # f
  <2>1. M[f].adm = "ADMITTED" /\ C = [M EXCEPT ![a] = Resolved(M, a, f)]
    BY <1>3, <1>4, <1>6
  <2>2. f \in Admitted(M)
    BY <2>1 DEF Admitted
  <2>3. f \in Admitted(R)
    BY <1>1, <1>2, <2>2 DEF Fresh
  <2> QED
    BY <1>6, <2>1, <2>3
<1> QED
  BY <1>5, <1>6

\* What the stages make of the rows M that the queue was materialized into.
Committed(t, M, D, a, f) ==
    /\ \A u \in Url : u # a \/ f = a => Says(D, M, u)
    /\ \A u \in Url \ {a, f} : D[u].work = M[u].work
    /\ f # a => D[a].work = NoWork
    /\ t.seen = Present(D)
    /\ t.sampled = {u \in Url : D[u].sampled}
    /\ t.expanded = {u \in Url : D[u].expanded}
    /\ t.inScope = {u \in Url : D[u].inScope}
    /\ Admitted(D) = Admitted(M) \ (IF f = a THEN {} ELSE {a})

LEMMA CommittedRow ==
    ASSUME CrawlAssumption, NEW R, RowsOK(R), NEW t, Trav(t), NEW paths, NEW page,
           page.url \in Url, page.final \in Url, Foretells(t, page, R),
           t.sampled \subseteq Known(R) \cup {page.final},
           page.outcome = "FAILED" => page.final \in Known(R),
           NEW M, NEW C, NEW P, NEW D, Commits(R, t, paths, page, M, C, P, D)
    PROVE  Committed(t, M, D, page.url, page.final)
<1> DEFINE a == page.url
           f == page.final
<1>1. IF f = a THEN C = M ELSE C = [M EXCEPT ![a] = Resolved(M, a, f)]
  BY ForetoldFinal
<1>2. RowsOK(M) /\ RowsOK(C) /\ t.seen = Present(C) /\ t.sampled \subseteq Known(C)
  BY DiscoveredIs DEF Commits
<1>3. /\ Admitted(D) = Admitted(C) /\ Present(D) = Present(C)
      /\ \A u \in Url : Says(D, C, u)
      /\ \A u \in Url \ {f} : D[u].work = C[u].work
      /\ t.sampled = {u \in Url : D[u].sampled}
      /\ t.expanded = {u \in Url : D[u].expanded}
      /\ t.inScope = {u \in Url : D[u].inScope}
  <2>1. P = Project(C, t) /\ InFlightAccepts(P, page) /\ D = MarkInFlight(P, page)
    BY DEF Commits
  <2> QED
    BY <1>2, <2>1, MarkedIs
<1>4. CASE f = a
  <2>1. C = M
    BY <1>1, <1>4
  <2> QED
    BY <1>2, <1>3, <1>4, <2>1 DEF Committed
<1>5. CASE f # a
  <2>1. C = [M EXCEPT ![a] = Resolved(M, a, f)] /\ DOMAIN M = Url /\ RowOK(M[a])
    BY <1>1, <1>2, <1>5 DEF RowsOK
  <2>2. C[a] = Resolved(M, a, f) /\ \A u \in Url \ {a} : C[u] = M[u]
    BY <2>1
  <2>3. C[a].adm = "RESOLVED" /\ RowOK(C[a])
    BY <2>1, <2>2, ResolvedIs
  <2>4. C[a].work = NoWork
    BY <2>3 DEF RowOK
  <2>5. D[a].work = NoWork
    BY <1>3, <1>5, <2>4
  <2>6. Admitted(C) = Admitted(M) \ {a}
    BY <2>2, <2>3 DEF Admitted
  <2>7. \A u \in Url \ {a} : Says(D, M, u)
    BY <1>3, <2>2 DEF Says
  <2>8. \A u \in Url \ {a, f} : D[u].work = M[u].work
    BY <1>3, <2>2
  <2> QED
    BY <1>2, <1>3, <1>5, <2>5, <2>6, <2>7, <2>8 DEF Committed
<1> QED
  BY <1>4, <1>5

\* The rows become what the traversal of the page's handler says.
LEMMA DiscoveredAgrees ==
    ASSUME CrawlAssumption, NEW R, RowsOK(R), NEW t, Trav(t), NEW paths, NEW page,
           page.url \in Url, page.final \in Url, Foretells(t, page, R),
           t.sampled \subseteq Known(R) \cup {page.final},
           page.outcome = "FAILED" => page.final \in Known(R),
           NEW M, NEW C, NEW P, NEW D, Commits(R, t, paths, page, M, C, P, D)
    PROVE  /\ Agrees(t, D) /\ RowBudget(D) /\ EdgesHold(t.edges)
           /\ page.final \in Admitted(R) /\ page.final \notin DOMAIN t.queued
           /\ DOMAIN t.queued = Kin(t, R) \cup Fresh(t, R)
           /\ Waiting(D) \ {page.final} =
                 (Waiting(R) \ {page.url, page.final}) \cup Fresh(t, R)
<1> DEFINE a == page.url
           f == page.final
           A == IF f = a THEN Admitted(R) ELSE Admitted(R) \ {a}
<1>1. f \in Admitted(R)
  BY ForetoldFinal
<1>2. /\ Extends(t, R, A, Kin(t, R)) /\ a \notin DOMAIN t.queued /\ f \notin DOMAIN t.queued
      /\ \A u \in Kin(t, R) : R[u].work # "COMPLETED"
  BY <1>1 DEF Foretells
<1>3. /\ \A u \in Url : u # a \/ f = a => Says(D, M, u)
      /\ \A u \in Url \ {a, f} : D[u].work = M[u].work
      /\ f # a => D[a].work = NoWork
      /\ t.seen = Present(D)
      /\ t.sampled = {u \in Url : D[u].sampled} /\ t.expanded = {u \in Url : D[u].expanded}
      /\ t.inScope = {u \in Url : D[u].inScope}
      /\ Admitted(D) = Admitted(M) \ (IF f = a THEN {} ELSE {a})
  <2>1. Committed(t, M, D, page.url, page.final)
    BY CommittedRow
  <2> QED
    BY <2>1 DEF Committed
<1>4. /\ RowsOK(M) /\ Admitted(M) = Admitted(R) \cup Fresh(t, R)
      /\ \A u \in Url : R[u].adm # "NONE" => M[u].adm = R[u].adm /\ M[u].work = R[u].work
  BY MaterializeKeeps DEF CrawlAssumption, Commits
<1>5. \A u \in Url : Placed(R, t, M, u)
  BY PlacedIs DEF Commits
<1>6. /\ t.admitted = A \cup Fresh(t, R) /\ DOMAIN t.queued = Kin(t, R) \cup Fresh(t, R)
      /\ \A u \in Kin(t, R) : /\ t.queued[u].type = R[u].type /\ t.queued[u].order = R[u].seq
                              /\ t.queued[u].pag = R[u].pag
      /\ Counts(t, R) /\ EdgesHold(t.edges)
  BY <1>2 DEF Extends
<1> HIDE DEF A
<1>7. DOMAIN t.queued \subseteq Url \ {a, f} /\ t.admitted \subseteq Url
  BY <1>2 DEF Trav
<1>8. /\ \A u \in Kin(t, R) : R[u].adm = "ADMITTED"
      /\ \A u \in Fresh(t, R) : R[u].adm = "NONE" /\ u \in DOMAIN t.queued
      /\ R[a].adm = "ADMITTED" /\ R[f].adm = "ADMITTED"
  BY <1>1 DEF Kin, Fresh, Admitted, Foretells
<1>9. Admitted(D) = t.admitted
  BY <1>3, <1>4, <1>6, <1>8 DEF A
<1>10. ASSUME NEW u \in DOMAIN t.queued
       PROVE  /\ D[u].work # "COMPLETED" /\ t.queued[u].type = D[u].type
              /\ t.queued[u].order = D[u].seq /\ t.queued[u].pag = D[u].pag
              /\ D[u].work = "PENDING" => t.queued[u].depth = D[u].depth
  <2>1. u \in Url /\ u # a /\ u # f /\ Says(D, M, u) /\ D[u].work = M[u].work /\ Placed(R, t, M, u)
    BY <1>3, <1>5, <1>7
  <2>2. CASE u \in Fresh(t, R)
    <3>1. R[u].adm = "NONE"
      BY <1>8, <2>2
    <3> QED
      BY <2>1, <2>2, <3>1 DEF Placed, Says
  <2>3. CASE u \in Kin(t, R)
    <3>1. R[u].adm = "ADMITTED" /\ M[u].work = R[u].work /\ R[u].work # "COMPLETED"
      BY <1>2, <1>4, <1>8, <2>1, <2>3
    <3>2. CASE R[u].work = "PENDING"
      BY <2>1, <3>1, <3>2 DEF Placed, Says
    <3>3. CASE R[u].work # "PENDING"
      BY <1>6, <2>1, <2>3, <3>1, <3>3 DEF Placed, Says
    <3> QED
      BY <3>2, <3>3
  <2> QED
    BY <1>6, <2>2, <2>3
<1>11. \A u \in t.admitted : D[u].type = TypeIn(t, R, u)
  <2>1. SUFFICES ASSUME NEW u \in t.admitted PROVE D[u].type = TypeIn(t, R, u)
    OBVIOUS
  <2>2. u \in Url /\ (u # a \/ f = a)
    BY <1>6, <1>7, <1>8 DEF A
  <2>3. CASE u \in DOMAIN t.queued
    <3>1. D[u].type = t.queued[u].type
      BY <1>10, <2>3
    <3>2. u \in Kin(t, R) => R[u].type = t.queued[u].type
      BY <1>6
    <3>3. u \in Fresh(t, R) => R[u].adm = "NONE"
      BY <1>8
    <3> QED
      BY <1>6, <1>8, <2>3, <3>1, <3>2, <3>3 DEF TypeIn
  <2>4. CASE u \notin DOMAIN t.queued
    <3>1. R[u].adm = "ADMITTED"
      BY <1>6, <1>8, <2>4 DEF A, Admitted
    <3>2. Says(D, M, u) /\ Placed(R, t, M, u)
      BY <1>3, <1>5, <2>2
    <3> QED
      BY <2>4, <3>1, <3>2 DEF Says, Placed, TypeIn
  <2> QED
    BY <2>3, <2>4
<1>12. RowBudget(D) /\ t.scheduled = [p \in PageType |-> Cardinality({u \in Admitted(D) : D[u].type = p})]
  <2> DEFINE Of(p) == {u \in Admitted(D) : D[u].type = p}
  <2>1. \A p : Of(p) = PagesOf(t, R, p)
    BY <1>9, <1>11 DEF PagesOf
  <2>2. /\ Cardinality(Admitted(D)) <= MaxPages
        /\ t.scheduled = [p \in PageType |-> Cardinality(PagesOf(t, R, p))]
        /\ \A p \in PageType : Cardinality(PagesOf(t, R, p)) <= PageBudget[p]
    BY <1>6, <1>9 DEF Counts
  <2> HIDE DEF Of
  <2>3. /\ t.scheduled = [p \in PageType |-> Cardinality(Of(p))]
        /\ \A p \in PageType : Cardinality(Of(p)) <= PageBudget[p]
    BY <2>1, <2>2
  <2> QED
    BY <2>2, <2>3 DEF RowBudget, Of
<1>13. Agrees(t, D)
  BY <1>3, <1>9, <1>10, <1>12 DEF Agrees
<1>14. ASSUME NEW u \in Url \ {f}
       PROVE  D[u].work = "PENDING" <=> (R[u].work = "PENDING" /\ u # a) \/ u \in Fresh(t, R)
  <2>1. CASE u = a
    <3>1. D[u].work = NoWork
      BY <1>3, <2>1
    <3>2. u \notin Fresh(t, R)
      BY <1>8, <2>1
    <3> QED
      BY <2>1, <3>1, <3>2 DEF NoWork
  <2>2. CASE u # a
    <3>1. D[u].work = M[u].work /\ Placed(R, t, M, u) /\ RowOK(R[u])
      BY <1>3, <1>5, <2>2 DEF RowsOK
    <3>2. CASE u \in Fresh(t, R)
      BY <3>1, <3>2 DEF Placed
    <3>3. CASE u \notin Fresh(t, R)
      <4>1. M[u].work = R[u].work
        BY <1>4, <3>1, <3>3 DEF Placed, Fresh
      <4> QED
        BY <2>2, <3>1, <3>3, <4>1
    <3> QED
      BY <3>2, <3>3
  <2> QED
    BY <2>1, <2>2
<1>15. Fresh(t, R) \subseteq Url \ {f}
  BY <1>7, <1>8
<1>16. Waiting(D) \ {f} = (Waiting(R) \ {a, f}) \cup Fresh(t, R)
  BY <1>14, <1>15 DEF Waiting
<1> QED
  BY <1>1, <1>2, <1>6, <1>12, <1>13, <1>16

LEMMA DiscoverSolo ==
    ASSUME CrawlAssumption, CrawlInv, SoloInv, NEW w \in Handler, Discover(w)
    PROVE  SoloInv'
<1>1. h[w].pc = "discover"
  BY DEF Discover
<1>2. CASE Fail(w)
  BY <1>1, <1>2, SoloFails
<1>3. CASE ~Fail(w)
  <2>1. PICK t : t = h[w].t
    OBVIOUS
  <2>2. PICK page : page = h[w].page
    OBVIOUS
  <2>3. PICK paths : paths = h[w].paths
    OBVIOUS
  <2>4. PICK R : R = rows
    OBVIOUS
  <2>5. PICK M : M = Materialize(R, t, paths)
    OBVIOUS
  <2>6. PICK C : C = Reconcile(M, page.url, page.final)
    OBVIOUS
  <2>7. PICK P : P = Project(C, t)
    OBVIOUS
  <2>8. PICK D : D = MarkInFlight(P, page)
    OBVIOUS
  <2>9. /\ DiscoveryAccepts(t, paths, page) /\ rows' = D
        /\ control' = ControlOf(t, h[w].late) /\ Goto(w, "execute")
        /\ UNCHANGED <<queue, status>>
    BY <1>3, <2>1, <2>2, <2>3, <2>4, <2>5, <2>6, <2>7, <2>8 DEF Discover, Discovered
  <2>10. HandlerOK(R, h[w]) /\ RowsOK(R)
    BY <2>4 DEF CrawlInv, HandlersInv, DurableInv
  <2>11. /\ Trav(t) /\ page.url \in Url /\ page.final \in Url
         /\ t.sampled \subseteq Known(R) \cup {page.final}
         /\ page.outcome = "FAILED" => page.final \in Known(R)
    BY <1>1, <2>1, <2>2, <2>10 DEF HandlerOK
  <2>12. Commits(R, t, paths, page, M, C, P, D)
    BY <2>4, <2>5, <2>6, <2>7, <2>8, <2>9 DEF DiscoveryAccepts, Commits
  <2>13. /\ Foretells(t, page, R)
         /\ ~Acting /\ page.final \in Admitted(R) =>
               Kin(t, R) = Waiting(R) \ {page.url, page.final}
    BY <1>1, <2>1, <2>2, <2>4 DEF SoloInv, MemOf
  <2>14. /\ Agrees(t, D) /\ RowBudget(D) /\ EdgesHold(t.edges)
         /\ page.final \in Admitted(R) /\ page.final \notin DOMAIN t.queued
         /\ DOMAIN t.queued = Kin(t, R) \cup Fresh(t, R)
         /\ Waiting(D) \ {page.final} =
               (Waiting(R) \ {page.url, page.final}) \cup Fresh(t, R)
    BY <2>10, <2>11, <2>12, <2>13, DiscoveredAgrees
  <2>15. ~Acting => DOMAIN t.queued = Waiting(D) \ {page.final}
    BY <2>13, <2>14
  <2>16. Charged(t, control') /\ t.timeHit = control'.timeHit /\ control'.edges = t.edges
    BY <2>9 DEF ControlOf, Charged
  <2>17. PICK rec : rec = [h[w] EXCEPT !.pc = "execute"]
    OBVIOUS
  <2>18. rec.pc = "execute" /\ rec.t = t /\ rec.page = page
    BY <2>1, <2>2, <2>17, GotoIs
  <2>19. MemOf(rec, rows', control', Acting)
    BY <2>9, <2>14, <2>15, <2>16, <2>18 DEF MemOf
  <2>20. Within' /\ status' # "SUCCEEDED" /\ owner' = owner /\ jobs' = jobs
    BY <1>1, <2>9, <2>14, <2>16, WorkingIs DEF Within, queue
  <2>21. h' = [h EXCEPT ![w] = rec]
    BY <2>9, <2>17 DEF Goto, Become
  <2> QED
    BY <1>1, <2>19, <2>20, <2>21, SoloGoes
<1> QED
  BY <1>2, <1>3

-----------------------------------------------------------------------------
(* The roots, the owner, and the end of a handler.                          *)

LEMMA NoEdgesHold == TraversalAssumption => EdgesHold(NewTraversal.edges)
<1> SUFFICES ASSUME TraversalAssumption PROVE EdgesHold(NewTraversal.edges)
  OBVIOUS
<1>1. PICK edges : edges = NewTraversal.edges
  OBVIOUS
<1>2. edges = [i \in DOMAIN Transition |-> [u \in Url |-> 0]]
  BY <1>1 DEF NewTraversal
<1>3. ASSUME NEW i \in DOMAIN Transition
      PROVE  /\ IsFiniteSet(EdgesOf(edges[i]))
             /\ Cardinality(EdgesOf(edges[i])) <= Transition[i].total
             /\ \A u \in Url : edges[i][u] <= Transition[i].perPage
  <2>1. \A u \in Url : edges[i][u] = 0
    BY <1>2
  <2>2. ASSUME NEW x \in EdgesOf(edges[i]) PROVE FALSE
    <3>1. PICK u \in Url : x \in {u} \X (1..edges[i][u])
      BY DEF EdgesOf
    <3>2. edges[i][u] = 0 /\ 1..0 = {}
      BY <2>1
    <3>3. x \in {u} \X {}
      BY <3>1, <3>2
    <3> QED
      BY <3>3
  <2>3. EdgesOf(edges[i]) = {}
    BY <2>2
  <2>4. Transition[i].perPage \in Nat \ {0} /\ Transition[i].total \in Nat \ {0}
    BY DEF TraversalAssumption
  <2> QED
    BY <2>1, <2>3, <2>4, FS_EmptySet
<1>4. edges \in [DOMAIN Transition -> [Url -> Nat]]
  BY <1>2
<1> QED
  BY <1>1, <1>3, <1>4 DEF EdgesHold

\* No page has a type before it is sampled, and roots have none.
LEMMA RootBudget ==
    ASSUME TraversalAssumption, NEW R, Cardinality(Admitted(R)) <= MaxPages,
           \A u \in Admitted(R) : R[u].type = NoType
    PROVE  /\ RowBudget(R)
           /\ NewTraversal.scheduled =
                 [p \in PageType |-> Cardinality({u \in Admitted(R) : R[u].type = p})]
<1> DEFINE Of(p) == {u \in Admitted(R) : R[u].type = p}
<1>1. NoType \notin PageType /\ \A p \in PageType : PageBudget[p] \in Nat
  BY DEF TraversalAssumption
<1>2. \A p \in PageType : Of(p) = {}
  BY <1>1
<1> HIDE DEF Of
<1>3. \A p \in PageType : Cardinality(Of(p)) = 0
  BY <1>2, FS_EmptySet
<1>4. \A p \in PageType : Cardinality(Of(p)) <= PageBudget[p]
  BY <1>1, <1>3
<1>5. NewTraversal.scheduled = [p \in PageType |-> Cardinality(Of(p))]
  BY <1>3 DEF NewTraversal
<1> QED
  BY <1>4, <1>5 DEF RowBudget, Of

LEMMA RootsAgree ==
    ASSUME CrawlAssumption, NEW R, R = [u \in Url |-> NoRow], NEW acc, Rooted(acc),
           NEW M, M = Materialize(R, acc.t, acc.paths), NEW P, P = Project(M, acc.t)
    PROVE  /\ Agrees(acc.t, P) /\ RowBudget(P) /\ EdgesHold(acc.t.edges)
           /\ DOMAIN acc.t.queued = Waiting(P)
<1> DEFINE t == acc.t
<1>1. /\ RowsOK(M) /\ UpsertAccepts(R, t) /\ Present(M) = t.seen /\ t.sampled \subseteq Known(M)
  BY InitialRowsAre
<1>2. /\ Trav(t) /\ t.admitted = DOMAIN t.queued /\ Cardinality(t.admitted) <= MaxPages
      /\ t.edges = NewTraversal.edges /\ t.scheduled = NewTraversal.scheduled
      /\ \A u \in DOMAIN t.queued : t.queued[u].type = NoType
  BY DEF Rooted
<1>3. RowsOK(R) /\ Admitted(R) = {} /\ \A u \in Url : R[u].adm = "NONE" /\ R[u].work = NoWork
  BY NothingIsOK DEF NoRow
<1>4. Admitted(M) = Admitted(R) \cup Fresh(t, R)
  BY <1>1, <1>2, <1>3, MaterializeKeeps DEF CrawlAssumption
<1>5. \A u \in Url : Placed(R, t, M, u)
  BY <1>1, <1>2, <1>3, PlacedIs
<1>6. DOMAIN t.queued \subseteq Url /\ Fresh(t, R) = DOMAIN t.queued
  BY <1>2, <1>3 DEF Trav, Fresh
<1>7. /\ Admitted(P) = Admitted(M) /\ Present(P) = Present(M)
      /\ \A u \in Url : Says(P, M, u) /\ P[u].work = M[u].work
      /\ t.sampled = {u \in Url : P[u].sampled}
      /\ t.expanded = {u \in Url : P[u].expanded}
      /\ t.inScope = {u \in Url : P[u].inScope}
  BY <1>1, <1>2, ProjectedIs
<1>8. \A u \in DOMAIN t.queued :
         /\ P[u].work = "PENDING" /\ t.queued[u].type = P[u].type
         /\ t.queued[u].order = P[u].seq /\ t.queued[u].pag = P[u].pag
         /\ t.queued[u].depth = P[u].depth
  BY <1>3, <1>5, <1>6, <1>7 DEF Placed, Says
<1>9. \A u \in Url \ DOMAIN t.queued : P[u].work # "PENDING"
  BY <1>3, <1>5, <1>7 DEF Placed, NoWork
<1>10. Waiting(P) = DOMAIN t.queued
  BY <1>6, <1>8, <1>9 DEF Waiting
<1>11. Admitted(P) = DOMAIN t.queued /\ \A u \in Admitted(P) : P[u].type = NoType
  <2>1. Admitted(P) = DOMAIN t.queued
    BY <1>3, <1>4, <1>6, <1>7
  <2> QED
    BY <1>2, <1>8, <2>1
<1>12. /\ RowBudget(P)
       /\ t.scheduled = [p \in PageType |-> Cardinality({u \in Admitted(P) : P[u].type = p})]
  BY <1>2, <1>11, RootBudget DEF CrawlAssumption
<1>13. Agrees(t, P)
  BY <1>1, <1>2, <1>7, <1>8, <1>11, <1>12 DEF Agrees
<1> QED
  BY <1>2, <1>10, <1>12, <1>13, NoEdgesHold DEF CrawlAssumption

LEMMA InitializeSolo ==
    ASSUME CrawlAssumption, CrawlInv, SoloInv, NEW w \in Handler, Initialize(w)
    PROVE  SoloInv'
<1>1. h[w].pc = "fresh"
  BY DEF Initialize
<1>2. CASE owner # w \/ control.exists
  BY <1>1, <1>2, SoloFails DEF Initialize
<1>3. CASE ~(owner # w \/ control.exists)
  <2>1. PICK acc : acc = AdmitRoots
    OBVIOUS
  <2>2. PICK rec : rec = [h[w] EXCEPT !.pc = "loop", !.t = acc.t]
    OBVIOUS
  <2>3. /\ rows' = InitialRows(acc) /\ control' = ControlOf(acc.t, h[w].late)
        /\ h' = [h EXCEPT ![w] = rec] /\ UNCHANGED <<jobs, owner, status>>
    BY <1>3, <2>1, <2>2 DEF Initialize, Become
  <2>4. PICK R : R = rows
    OBVIOUS
  <2>5. PICK M : M = Materialize(R, acc.t, acc.paths)
    OBVIOUS
  <2>6. PICK P : P = Project(M, acc.t)
    OBVIOUS
  <2>7. P = rows'
    BY <2>3, <2>4, <2>5, <2>6 DEF InitialRows
  <2>8. R = [u \in Url |-> NoRow]
    BY <1>3, <2>4 DEF CrawlInv, StartedInv
  <2>9. Rooted(acc)
    BY <2>1, RootsAreRooted DEF CrawlAssumption
  <2>10. /\ Agrees(acc.t, P) /\ RowBudget(P) /\ EdgesHold(acc.t.edges)
         /\ DOMAIN acc.t.queued = Waiting(P)
    BY <2>5, <2>6, <2>8, <2>9, RootsAgree
  <2>11. rec.pc = "loop" /\ rec.t = acc.t
    BY <2>2 DEF CrawlInv, HandlersInv, HandlerOK
  <2>12. /\ Charged(acc.t, control') /\ acc.t.timeHit = control'.timeHit
         /\ control'.edges = acc.t.edges
    BY <2>3 DEF ControlOf, Charged
  <2>13. MemOf(rec, rows', control', Acting)
    BY <2>7, <2>10, <2>11, <2>12 DEF MemOf
  <2>14. Within' /\ status' # "SUCCEEDED"
    BY <1>1, <2>3, <2>7, <2>10, <2>12, WorkingIs DEF Within
  <2> QED
    BY <1>1, <2>3, <2>13, <2>14, SoloGoes
<1> QED
  BY <1>2, <1>3

LEMMA FinishSolo ==
    ASSUME CrawlAssumption, CrawlInv, SoloInv, NEW w \in Handler, Finalize(w) \/ Cancelled(w)
    PROVE  SoloInv'
<1>1. h[w].pc # "idle"
  BY DEF Finalize, Cancelled
<1>2. owner = w /\ status # "SUCCEEDED"
  BY <1>1, WorkingIs
<1>3. PICK to : End(w, to) /\ (to = FinalStatus \/ to = "CANCELLED")
  BY DEF Finalize, Cancelled
<1>4. CASE Fail(w)
  BY <1>1, <1>4, SoloFails
<1>5. CASE ~Fail(w)
  <2>1. /\ status' = to /\ jobState' = JobStateOf(to) /\ Become(w, Idle) /\ UNCHANGED durable
    BY <1>2, <1>3, <1>5 DEF End
  <2>2. to = "SUCCEEDED" => ~StructurallyIncomplete
    BY <1>2, <1>3 DEF FinalStatus
  <2>3. to = "SUCCEEDED" => \A u \in Admitted(rows) : rows[u].work = "COMPLETED"
    BY <2>2 DEF StructurallyIncomplete, Unresolved
  <2>4. to = "SUCCEEDED" => jobState' = "SUCCEEDED"
    BY <2>1 DEF JobStateOf
  <2>5. rows' = rows
    BY <2>1 DEF durable
  <2>6. Ended'
    BY <2>1, <2>3, <2>4, <2>5 DEF Ended
  <2> QED
    BY <1>1, <2>1, <2>6, SoloIdles
<1> QED
  BY <1>4, <1>5

LEMMA PressedSolo ==
    ASSUME CrawlAssumption, CrawlInv, SoloInv, NEW w \in Handler, Pressed(w)
    PROVE  SoloInv'
<1>1. h[w].pc # "idle" /\ Become(w, Idle) /\ UNCHANGED durable
  BY DEF Pressed
<1>2. owner = w /\ status # "SUCCEEDED"
  BY <1>1, WorkingIs
<1>3. Release(saved) /\ rows' = rows
  BY <1>1, <1>2 DEF Pressed, durable
<1>4. Ended'
  BY <1>2, <1>3, ReleaseEnds
<1> QED
  BY <1>1, <1>4, SoloIdles

LEMMA CrashSolo ==
    ASSUME CrawlAssumption, CrawlInv, SoloInv, Crash
    PROVE  SoloInv'
<1>1. h' = [w \in Handler |-> Idle] /\ UNCHANGED durable
  BY DEF Crash
<1>2. rows' = rows /\ control' = control
  BY <1>1 DEF durable
<1>3. Within'
  BY <1>2, WithinStays
<1>4. Ended'
  <2>1. CASE jobState = "RUNNING"
    <3>1. status # "SUCCEEDED"
      BY <2>1 DEF SoloInv, Ended
    <3>2. Release(saved)
      BY <2>1 DEF Crash
    <3> QED
      BY <1>2, <3>1, <3>2, ReleaseEnds
  <2>2. CASE jobState # "RUNNING"
    BY <1>2, <2>2 DEF Crash, queue, SoloInv, Ended
  <2> QED
    BY <2>1, <2>2
<1>5. \A w \in Handler : h'[w].pc = "idle"
  BY <1>1 DEF Idle
<1> QED
  BY <1>3, <1>4, <1>5, SoloRests

LEMMA AskSolo ==
    ASSUME CrawlAssumption, CrawlInv, SoloInv, NEW k, Ask(k)
    PROVE  SoloInv'
<1>1. /\ jobState \in {"FAILED", "CANCELLED"} /\ status' = "QUEUED"
      /\ UNCHANGED <<durable, h>>
  BY DEF Ask
<1>2. \A w \in Handler : h'[w].pc = "idle"
  BY <1>1, NobodyWorks
<1>3. Within'
  BY <1>1, WithinStays DEF durable
<1>4. Ended'
  BY <1>1 DEF Ended
<1> QED
  BY <1>2, <1>3, <1>4, SoloRests

LEMMA StepSolo ==
    ASSUME CrawlAssumption, Chosen, CrawlInv, SoloInv, CrawlNext, ~Overlapping
    PROVE  SoloInv'
<1>1. ASSUME NEW w \in Handler, Step(w) PROVE SoloInv'
  <2>1. CASE Acquire(w) \/ Start(w) \/ Initialize(w)
    BY <2>1, AcquireSolo, StartSolo, InitializeSolo
  <2>2. CASE Adopt(w) \/ PrepareFirst(w) \/ PrepareAgain(w) \/ PrepareStale(w) \/ Restore(w)
    BY <2>2, PrepareSolo, PrepareFirstSolo, RestoreSolo
  <2>3. CASE Sync(w) \/ Save(w) \/ Dispatch(w) \/ Complete(w) \/ TimePasses(w)
    BY <2>3, SyncSolo, SaveSolo, DispatchSolo, CompleteSolo, TimeSolo
  <2>4. ASSUME NEW obs \in UNION {setting.content[u] : u \in Url},
               h[w].pc = "fetch" /\ obs \in setting.content[h[w].page.url] /\ Observed(w, obs)
        PROVE  SoloInv'
    BY <2>4, ObservedSolo
  <2>5. ASSUME NEW why \in {"cancel", "pressure"}, Interrupted(w, why) PROVE SoloInv'
    BY <2>5, InterruptedSolo
  <2>6. CASE PageFailed(w) \/ Discover(w) \/ Execute(w)
    BY <2>6, PageFailedSolo, DiscoverSolo, ExecuteSolo
  <2>7. CASE Finalize(w) \/ Cancelled(w) \/ Pressed(w)
    BY <2>7, FinishSolo, PressedSolo
  <2> QED
    BY <1>1, <2>1, <2>2, <2>3, <2>4, <2>5, <2>6, <2>7 DEF Step
<1>2. ASSUME NEW k, Ask(k) PROVE SoloInv'
  BY <1>2, AskSolo
<1>3. CASE Crash
  BY <1>3, CrashSolo
<1>4. ~LeaseExpires
  BY DEF LeaseExpires, Overlapping
<1> QED
  BY <1>1, <1>2, <1>3, <1>4 DEF CrawlNext

LEMMA NothingSolo ==
    ASSUME SoloInv, UNCHANGED crawlVars
    PROVE  SoloInv'
<1>1. /\ rows' = rows /\ control' = control /\ h' = h /\ owner' = owner /\ status' = status
      /\ jobState' = jobState /\ jobs' = jobs
  BY DEF crawlVars, durable, queue
<1>2. Acting' = Acting
  BY <1>1 DEF Acting, Kind
<1>3. Alone' /\ Within' /\ Ended'
  BY <1>1 DEF SoloInv, Alone, Within, Ended
<1>4. \A w \in Handler : MemOf(h'[w], rows', control', Acting')
  BY <1>1, <1>2 DEF SoloInv
<1> QED
  BY <1>3, <1>4 DEF SoloInv

LEMMA InitSolo ==
    ASSUME CrawlAssumption, CrawlInit
    PROVE  SoloInv
<1>1. /\ rows = [u \in Url |-> NoRow] /\ control = NoControl /\ status = "QUEUED"
      /\ h = [w \in Handler |-> Idle]
  BY DEF CrawlInit
<1>2. PICK R : R = rows
  OBVIOUS
<1>3. Admitted(R) = {}
  BY <1>1, <1>2, NothingIsOK
<1>4. Cardinality(Admitted(R)) <= MaxPages
  BY <1>3, FS_EmptySet DEF CrawlAssumption, TraversalAssumption
<1>5. RowBudget(R)
  BY <1>3, <1>4, RootBudget DEF CrawlAssumption
<1>6. control.edges = NewTraversal.edges
  BY <1>1 DEF NoControl
<1>7. Within
  BY <1>2, <1>5, <1>6, NoEdgesHold DEF Within, CrawlAssumption
<1>8. \A w \in Handler : h[w].pc = "idle"
  BY <1>1 DEF Idle
<1>9. Alone /\ \A w \in Handler : MemOf(h[w], rows, control, Acting)
  BY <1>8 DEF Alone, MemOf
<1>10. Ended
  BY <1>1 DEF Ended
<1> QED
  BY <1>7, <1>9, <1>10 DEF SoloInv

LEMMA SoloInvHolds ==
    CrawlAssumption => (CrawlSpec => [](~Overlapping => SoloInv))
<1> SUFFICES ASSUME CrawlAssumption PROVE CrawlSpec => [](~Overlapping => SoloInv)
  OBVIOUS
<1>1. CrawlInit => (~Overlapping => SoloInv)
  BY InitSolo
<1>2. Chosen /\ CrawlInv /\ (~Overlapping => SoloInv) /\ [CrawlNext]_crawlVars
         => (~Overlapping => SoloInv)'
  <2>1. [CrawlNext]_crawlVars => Overlapping' = Overlapping
    BY DEF CrawlNext, crawlVars, Overlapping
  <2> QED
    BY <2>1, StepSolo, NothingSolo
<1> QED
  BY <1>1, <1>2, ChosenHolds, CrawlInvHolds, PTL DEF CrawlSpec

\* An entry of the queue is what its four fields are.
LEMMA EntryIs ==
    ASSUME NEW e \in Entry
    PROVE  e = [depth |-> e.depth, type |-> e.type, order |-> e.order, pag |-> e.pag]
BY DEF Entry

LEMMA MemoryAgrees ==
    ASSUME NEW R, NEW c, NEW t, Trav(t), Agrees(t, R), Charged(t, c), t.timeHit = c.timeHit,
           NEW k, k = Reconstructed(R, c, Url)
    PROVE  /\ \A field \in DOMAIN k \ {"queued"} : t[field] = k[field]
           /\ \A u \in DOMAIN t.queued \cap DOMAIN k.queued : t.queued[u] = k.queued[u]
           /\ DOMAIN k.queued = Waiting(R)
<1>1. /\ k.admitted = Admitted(R) /\ k.seen = Present(R)
      /\ k.sampled = {u \in Url : R[u].sampled} /\ k.expanded = {u \in Url : R[u].expanded}
      /\ k.inScope = {u \in Url : R[u].inScope} /\ k.newly = Cardinality(Admitted(R))
      /\ k.scheduled = [p \in PageType |-> Cardinality({u \in Admitted(R) : R[u].type = p})]
      /\ k.edges = c.edges /\ k.bytes = c.bytes /\ k.timeHit = c.timeHit
      /\ k.unexpanded = c.unexpanded /\ k.truncated = c.truncated
      /\ k.queued = [u \in Waiting(R) |-> EntryOf(R, u)]
      /\ DOMAIN k = {"queued", "admitted", "seen", "sampled", "expanded", "inScope", "newly",
                     "scheduled", "edges", "bytes", "timeHit", "unexpanded", "truncated"}
  BY DEF Reconstructed, Waiting
<1>2. t.newly = Cardinality(Admitted(R))
  BY DEF Trav, Agrees
<1>3. t.scheduled = k.scheduled
  BY <1>1 DEF Agrees
<1>4. /\ t.admitted = k.admitted /\ t.seen = k.seen /\ t.sampled = k.sampled
      /\ t.expanded = k.expanded /\ t.inScope = k.inScope /\ t.newly = k.newly
      /\ t.edges = k.edges /\ t.bytes = k.bytes /\ t.timeHit = k.timeHit
      /\ t.unexpanded = k.unexpanded /\ t.truncated = k.truncated
  BY <1>1, <1>2 DEF Agrees, Charged
<1>5. \A field \in DOMAIN k \ {"queued"} : t[field] = k[field]
  BY <1>1, <1>3, <1>4
<1>6. ASSUME NEW u \in DOMAIN t.queued \cap DOMAIN k.queued
      PROVE  t.queued[u] = k.queued[u]
  <2>1. R[u].work = "PENDING" /\ k.queued[u] = EntryOf(R, u)
    BY <1>1 DEF Waiting
  <2>2. PICK e : e = t.queued[u]
    OBVIOUS
  <2>3. e \in Entry
    BY <2>2 DEF Trav
  <2>4. /\ e.type = R[u].type /\ e.order = R[u].seq /\ e.pag = R[u].pag /\ e.depth = R[u].depth
    BY <2>1, <2>2 DEF Agrees
  <2>5. e = [depth |-> e.depth, type |-> e.type, order |-> e.order, pag |-> e.pag]
    BY <2>3, EntryIs
  <2>6. e = EntryOf(R, u)
    BY <2>4, <2>5 DEF EntryOf
  <2> QED
    BY <2>1, <2>2, <2>6
<1> QED
  BY <1>1, <1>5, <1>6

LEMMA SoloRemembers ==
    ASSUME CrawlInv, SoloInv
    PROVE  MemoryIsDurable /\ CompletedNotRefetched
<1>1. ASSUME NEW w \in Handler, h[w].pc = "loop"
      PROVE  LET t == h[w].t
                 c == Reconstructed(rows, control, Url)
             IN  /\ \A field \in DOMAIN c \ {"queued"} : t[field] = c[field]
                 /\ \A u \in DOMAIN t.queued \cap DOMAIN c.queued : t.queued[u] = c.queued[u]
                 /\ ~Acting => DOMAIN t.queued = DOMAIN c.queued
  <2>1. PICK t : t = h[w].t
    OBVIOUS
  <2>2. PICK k : k = Reconstructed(rows, control, Url)
    OBVIOUS
  <2>3. /\ Trav(t) /\ Agrees(t, rows) /\ Charged(t, control) /\ t.timeHit = control.timeHit
        /\ (~Acting => DOMAIN t.queued = Waiting(rows))
    BY <1>1, <2>1 DEF SoloInv, MemOf, CrawlInv, HandlersInv, HandlerOK
  <2>4. /\ \A field \in DOMAIN k \ {"queued"} : t[field] = k[field]
        /\ \A u \in DOMAIN t.queued \cap DOMAIN k.queued : t.queued[u] = k.queued[u]
        /\ DOMAIN k.queued = Waiting(rows)
    BY <2>2, <2>3, MemoryAgrees
  <2> QED
    BY <2>1, <2>2, <2>3, <2>4
<1>2. ASSUME NEW w \in Handler, h[w].pc = "fetch" PROVE rows[h[w].page.url].work # "COMPLETED"
  BY <1>2, FetchingIs DEF Agrees
<1> QED
  BY <1>1, <1>2 DEF MemoryIsDurable, CompletedNotRefetched

LEMMA SucceededIs ==
    ASSUME CrawlInv, SoloInv, status = "SUCCEEDED",
           NEW p \in evidence, p[2] = "ADMITTED", NEW S \in SUBSET Url, p[1] \in S,
           Closed(rows, S)
    PROVE  \E u \in S : /\ rows[u].work = "COMPLETED"
                        /\ [url |-> u, gen |-> rows[u].gen, outcome |-> "COMPLETED"] \in execs
<1>1. RowsOK(rows) /\ ExecInv /\ EvidenceInv
  BY DEF CrawlInv, DurableInv
<1>2. p[1] \in Known(rows)
  BY <1>1 DEF EvidenceInv
<1>3. PICK K : K = S \cap Known(rows)
  OBVIOUS
<1>4. Closed(rows, K)
  <2>1. ASSUME NEW u \in K, rows[u].adm = "RESOLVED" PROVE rows[u].to \in K
    <3>1. u \in S /\ u \in Url
      BY <1>3
    <3>2. rows[u].to \in S /\ rows[u].to \in Known(rows)
      BY <1>1, <2>1, <3>1 DEF Closed, RowsOK
    <3> QED
      BY <1>3, <3>2
  <2> QED
    BY <2>1 DEF Closed
<1>5. K \in SUBSET Known(rows) /\ K # {}
  BY <1>2, <1>3
<1>6. PICK u \in K : u \in Admitted(rows)
  BY <1>1, <1>4, <1>5 DEF RowsOK, ResolutionsEnd
<1>7. u \in S /\ u \in Url /\ rows[u].work = "COMPLETED"
  BY <1>3, <1>6 DEF SoloInv, Ended
<1>8. rows[u].exec
  BY <1>1, <1>7 DEF RowsOK, RowOK, Done
<1>9. [url |-> u, gen |-> rows[u].gen, outcome |-> "COMPLETED"] \in execs
  BY <1>1, <1>7, <1>8 DEF ExecInv
<1> QED
  BY <1>7, <1>9

\* Over every crash, lost lease, replayed recovery action and overlap of two
\* handlers, the rows of a run have their types, can always be reconstructed
\* (validate_state of crawl_traversal.rs), every chain of redirects ends in a
\* unit, and the generation of a unit is the number of recovery actions that
\* selected it, with the execution that its result claims.  While no handler
\* outlives its lease, the traversal in its owner's memory is at every round of
\* the loop the one that reconstruct_recovery_state would rebuild, and no unit
\* whose result is complete is asked for again.
THEOREM RowsStayTrue == CrawlAssumption => (CrawlSpec => []RowsAreTheTruth)
<1> SUFFICES ASSUME CrawlAssumption PROVE CrawlSpec => []RowsAreTheTruth
  OBVIOUS
<1>1. CrawlInv /\ (~Overlapping => SoloInv) => RowsAreTheTruth
  BY InvIsEnough, SoloRemembers DEF RowsAreTheTruth
<1> QED
  BY <1>1, CrawlInvHolds, SoloInvHolds, PTL

\* While no handler outlives its lease, the pages, the pages of each type and the
\* edges of each transition and source that a run has stored never exceed its
\* frozen budgets, however often it crashes, is retried or is redirected
\* (check_transition_budget, DiscoveryBudgetEvaluator).
THEOREM BudgetsAlwaysHold == CrawlAssumption => (CrawlSpec => []BudgetsHold)
<1> SUFFICES ASSUME CrawlAssumption PROVE CrawlSpec => []BudgetsHold
  OBVIOUS
<1>1. (~Overlapping => SoloInv) => BudgetsHold
  BY DEF SoloInv, Within, RowBudget, EdgesHold, BudgetsHold
<1> QED
  BY <1>1, SoloInvHolds, PTL

\* A run that ends SUCCEEDED, while no handler outlives its lease, has for every
\* URL it ever recorded as admitted a completed unit with its execution: the URL
\* itself or the one that its redirects lead to (finalize,
\* reconstruct_crawl_structural_facts).
THEOREM SuccessIsComplete == CrawlAssumption => (CrawlSpec => []SucceededIsComplete)
<1> SUFFICES ASSUME CrawlAssumption PROVE CrawlSpec => []SucceededIsComplete
  OBVIOUS
<1>1. CrawlInv /\ (~Overlapping => SoloInv) => SucceededIsComplete
  BY SucceededIs DEF SucceededIsComplete
<1> QED
  BY <1>1, CrawlInvHolds, SoloInvHolds, PTL

=============================================================================

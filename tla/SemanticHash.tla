----------------------------- MODULE SemanticHash -----------------------------
(***************************************************************************)
(* The configuration hash of a crawler version: a payload in which no      *)
(* version-local identity appears.  Every child (page type, matcher,       *)
(* transition, seed) gets a label by colour refinement, the references     *)
(* between children are written with those labels, and the payload is      *)
(* hashed.  SHA-256 is taken as injective, so the hash is the payload.     *)
(*                                                                         *)
(* A configuration c is a record:                                          *)
(*   c.pages         page type id -> its own attributes (name, priority)   *)
(*   c.matchers      page type id -> matcher definition -> how many        *)
(*   c.transitions   transition id -> [src, dst]                           *)
(*   c.seeds         at most one seed, given by its hint (NoHint: none)    *)
(*   c.budget        the page types with a guardrail of their own          *)
(* Attributes and definitions are numbers, compared where the code         *)
(* compares serialised values.                                             *)
(***************************************************************************)
EXTENDS Naturals, FiniteSets, Sequences, SequencesExt, Bags

\* A seed without an entry page type hint; page type ids are positive.
NoHint == 0

Seed(h)       == <<"seed", h>>
PageType(p)   == <<"page_type", p>>
Transition(t) == <<"transition", t>>
Matcher(p, d, k) == <<"url_matcher", p, d, k>>

\* Matchers of one definition on one page type are told apart by a number.
Matchers(c) ==
    {m \in {Matcher(p, d, k) : p \in DOMAIN c.pages, k \in 1..3,
                               d \in UNION {DOMAIN c.matchers[q] : q \in DOMAIN c.pages}} :
        m[4] <= c.matchers[m[2]][m[3]]}

\* Every child of the version, with its kind.
Entities(c) ==
    {Seed(h) : h \in c.seeds}
      \cup {PageType(p) : p \in DOMAIN c.pages}
      \cup {Transition(t) : t \in DOMAIN c.transitions}
      \cup Matchers(c)

\* The references in a child's value: the path (in the order of the paths'
\* text) and the page type it names.
References(c, e) ==
    CASE e[1] = "transition" -> {<<1, c.transitions[e[2]].src>>, <<2, c.transitions[e[2]].dst>>}
      [] e[1] = "seed" /\ e[2] # NoHint -> {<<3, e[2]>>}
      [] e[1] = "url_matcher" -> {<<4, e[2]>>}
      [] OTHER -> {}

\* Who refers to e: path and referrer.
Referrers(c, e) ==
    {x \in (1..4) \X Entities(c) : e[1] = "page_type" /\ <<x[1], e[2]>> \in References(c, x[2])}

\* The values of f in serialised order: the i-th is the one that fewer than i
\* come before and at least i do not come after.
Before(a, b) == a[1] < b[1] \/ (a[1] = b[1] /\ a[2] < b[2])
Ith(f, i) ==
    CHOOSE v \in {f[x] : x \in DOMAIN f} :
       /\ Cardinality({x \in DOMAIN f : Before(f[x], v)}) < i
       /\ Cardinality({x \in DOMAIN f : ~Before(v, f[x])}) >= i
Sorted(f) == [i \in 1..Cardinality(DOMAIN f) |-> Ith(f, i)]

\* Paths and labels of those who refer to e, in serialised order.
Incoming(c, lab, e) == Sorted([x \in Referrers(c, e) |-> <<x[1], lab[x[2]]>>])

\* A reference written with its label and, within one value, a number that
\* tells two children of one label apart.
Ref(lab, p) == <<lab[PageType(p)], 0>>
SecondRef(lab, p, q) ==
    <<lab[PageType(q)], IF q # p /\ lab[PageType(q)] = lab[PageType(p)] THEN 1 ELSE 0>>

\* A child's value with its identity and its references replaced.
Value(c, lab, e) ==
    CASE e[1] = "page_type"   -> <<c.pages[e[2]]>>
      [] e[1] = "url_matcher" -> <<e[3]>> \o Ref(lab, e[2])
      [] e[1] = "transition"  -> LET t == c.transitions[e[2]]
                                 IN  Ref(lab, t.src) \o SecondRef(lab, t.src, t.dst)
      [] e[1] = "seed"        -> IF e[2] = NoHint THEN <<1>> ELSE <<0>> \o Ref(lab, e[2])

\* The text of a signature {incoming, kind, value}: an empty array sorts
\* first, and of two arrays with a common start the longer one.
Signature(c, lab, e) ==
    LET in == Incoming(c, lab, e)
        items == FlattenSeq([i \in 1..Len(in) |-> <<IF i = 1 THEN 3 ELSE 1>> \o in[i]])
    IN  items \o <<2>> \o Value(c, lab, e)

Precedes(s, t) ==
    \E i \in 1..Len(t) : /\ i - 1 <= Len(s)
                         /\ \A j \in 1..(i - 1) : s[j] = t[j]
                         /\ i > Len(s) \/ s[i] < t[i]

\* The member of a singleton.  {F(x) : x \in {e}} evaluates e once for F, and
\* comparing the member makes TLC keep a function's values.
The(S) == CHOOSE x \in S : x = x

\* One round: children of one kind are ranked by their signatures.
Ranks(sig) ==
    [e \in DOMAIN sig |->
       Cardinality({s \in {sig[x] : x \in {y \in DOMAIN sig : y[1] = e[1]}} : Precedes(s, sig[e])})]
Relabel(c, lab) ==
    The({Ranks(sig) : sig \in {The({[e \in Entities(c) |-> Signature(c, lab, e)]})}})

SamePartition(c, a, b) ==
    \A e, f \in Entities(c) : e[1] = f[1] => ((a[e] = a[f]) <=> (b[e] = b[f]))

\* Rounds until a round splits nothing, at most one per child.
FirstRound(c) == [lab |-> Relabel(c, [e \in Entities(c) |-> 0]), done |-> FALSE]
NextRound(c, last) ==
    IF last.done THEN last
    ELSE The({[lab |-> next, done |-> SamePartition(c, last.lab, next)] :
                 next \in {Relabel(c, last.lab)}})
Rounds(c) ==
    LET Round[k \in 0..Cardinality(Entities(c))] ==
            IF k = 0 THEN FirstRound(c)
            ELSE The({NextRound(c, last) : last \in {Round[k - 1]}})
    IN  Round
Labels(c) == Rounds(c)[Cardinality(Entities(c))].lab

BagOf(f) == [v \in {f[x] : x \in DOMAIN f} |-> Cardinality({x \in DOMAIN f : f[x] = v})]

\* Mutant: The canonical payload keeps the ids of page types.
HashWithIds(c) == [meaning |-> Labels(c), pages |-> DOMAIN c.pages]

\* The payload: the values of each kind and the incidence profiles, as
\* multisets, and the page types the version's guardrails name.  With one
\* seed the rest of the version's own JSON repeats these.  Guardrails have
\* no values here, and the numbers (#n) by which a value tells page types of one
\* label apart, in the order it mentions them, are left out.
Payload(c, lab) ==
    LET Of(kind) == {e \in Entities(c) : e[1] = kind}
        Values(kind) == BagOf([e \in Of(kind) |-> Value(c, lab, e)])
    IN  [values |-> [kind \in {"seed", "page_type", "url_matcher", "transition"} |-> Values(kind)],
         profiles |-> BagOf([e \in Entities(c) |-> <<e[1], lab[e], Incoming(c, lab, e)>>]),
         budget |-> BagOf([p \in c.budget |-> lab[PageType(p)]])]

Hash(c) == The(UNION {{Payload(x, lab) : lab \in {Labels(x)}} : x \in {c}})

-----------------------------------------------------------------------------
\* The transitions from one page type to another.
Between(c, p, q) == {t \in DOMAIN c.transitions : c.transitions[t] = [src |-> p, dst |-> q]}

\* What the hash stands for: two configurations mean the same when renaming
\* the page types of one gives the other.
SameMeaning(a, b) ==
    \E f \in [DOMAIN a.pages -> DOMAIN b.pages] :
       /\ {f[p] : p \in DOMAIN f} = DOMAIN b.pages
       /\ Cardinality(DOMAIN a.pages) = Cardinality(DOMAIN b.pages)
       /\ \A p \in DOMAIN f : a.pages[p] = b.pages[f[p]] /\ a.matchers[p] = b.matchers[f[p]]
       /\ b.budget = {f[p] : p \in a.budget}
       /\ b.seeds = {IF h = NoHint THEN NoHint ELSE f[h] : h \in a.seeds}
       /\ \A p, q \in DOMAIN f : Cardinality(Between(a, p, q)) = Cardinality(Between(b, f[p], f[q]))
=============================================================================

----------------------------- MODULE MCAuthoring -----------------------------
(***************************************************************************)
(* Authoring for TLC, in three scenarios that bound what may happen:       *)
(*   "edit"      one draft through all its edits and its publication;      *)
(*   "versions"  versions cloned from published ones, edited, published    *)
(*               again and reactivated;                                    *)
(*   "evidence"  a test of the draft that races its edits.                 *)
(***************************************************************************)
EXTENDS Authoring

ASSUME AuthoringConstants

Scenario == {"edit", "versions", "evidence"}

\* One draft with two page types and a transition between them.
OneVersion == Len(versions) <= 1 /\ Len(pages) <= 2 /\ Len(transitions) <= 1
Untested   == lab = <<>> /\ evidence = {}
\* Page types of one priority, with matchers of these definitions.
Plain(defs) ==
    \A p \in PageIds : pages[p] # Gone =>
        pages[p].attr = 1 /\ \A d \in Defs \ defs : pages[p].matchers[d] = 0
\* Seeds name a page type.
Hinted == \A v \in Versions : versions[v].seeds # {NoHint}

\* At most one page type has a budget.  In "versions" it is the seed's page type,
\* and every version keeps the children it gets, two page types and a transition
\* at most; in "evidence" the budget follows the test.
Within(s) ==
    /\ \A v \in Versions : Cardinality(versions[v].budget) <= 1
    /\ s = "edit" => OneVersion /\ Untested
    /\ s = "versions" =>
         /\ Untested /\ Plain({1}) /\ Hinted
         /\ \A p \in PageIds : pages[p].owner # None
         /\ \A t \in TransIds : transitions[t].owner # None
         /\ \A v \in Versions :
               /\ Cardinality(OwnPages(v)) <= 2 /\ Cardinality(OwnTransitions(v)) <= 1
               /\ versions[v].budget \subseteq versions[v].seeds
    /\ s = "evidence" =>
         /\ OneVersion /\ Plain({}) /\ Hinted
         /\ \A v \in Versions : versions[v].budget # {} => ~Untested
         /\ \A e \in evidence \cup ToSet(lab) : e.config.budget = {}

\* The states explored: those of some scenario.
Bounded == \E s \in Scenario : Within(s)
=============================================================================

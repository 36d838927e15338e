---------------------------- MODULE AuthoringProofs ----------------------------
(***************************************************************************)
(* Theorems about Authoring, for any bounds, priorities and matcher        *)
(* definitions.  A step changes one version, the active draft, or adds     *)
(* one; everything that is said of a version depends on its own row and    *)
(* its own children, so it is kept for the others (Untouched).  The last   *)
(* part is about SemanticHash alone: the hash does not see names.          *)
(***************************************************************************)
EXTENDS Authoring, FiniteSetTheorems, TLAPS

\* The rows.  A version's audited hash may be anything.
PageRow == [owner : Nat, attr : Attrs, matchers : [Defs -> Nat]]
TransitionRow == [owner : Nat, src : Nat, dst : Nat, latest : BOOLEAN]
VersionRow(r) ==
    r \in [state : {"DRAFT", "PUBLISHED"}, pages : SUBSET Nat, transitions : SUBSET Nat,
           seeds : SUBSET Nat, budget : SUBSET Nat, base : Nat, hash : {r.hash}]

TablesTyped ==
    /\ pages \in Seq(PageRow \cup {Gone})
    /\ transitions \in Seq(TransitionRow \cup {Gone})
    /\ \A p \in PageIds : pages[p].owner \in 0..Len(versions)
    /\ \A t \in TransIds : transitions[t].owner \in 0..Len(versions)
    /\ Len(pages) <= MaxPages /\ Len(transitions) <= MaxTransitions
Typed ==
    /\ \E R : versions \in Seq(R)
    /\ Len(versions) <= MaxVersions
    /\ TablesTyped
    /\ lab = <<>> \/ \E x : lab = <<x>>

\* The hash audited at its publication is still a published version's.
HashAudited(v) == versions[v].hash = Hash(Config(v))

\* What is said of one version.
Whole(v) ==
    /\ VersionRow(versions[v]) /\ versions[v].base < v
    /\ RecordsLoad(v) /\ SeedsLoad(v) /\ ContractHolds(versions[v])
    /\ versions[v].state = "PUBLISHED" => versions[v].seeds # {} /\ ~Ambiguous(v) /\ HashAudited(v)

AllWhole == \A v \in Versions : Whole(v)

Pointers ==
    /\ draft \in 0..Len(versions) /\ published \in 0..Len(versions)
    /\ PointersAgree

\* Nobody else edits the draft while a client holds what it read of it; the
\* client's version may be published meanwhile, and is then no draft again.
HoldsDraft(i, r) ==
    /\ copy = <<[id |-> i, row |-> r]>>
    /\ VersionRow(r) /\ r.state = "DRAFT"
    /\ draft = i => versions[i] = r

CopyCurrent == copy = <<>> \/ \E i \in Versions : \E r : HoldsDraft(i, r)

AuthoringInv == Typed /\ AllWhole /\ Pointers /\ CopyCurrent

-----------------------------------------------------------------------------
(* Tables.  Rows are appended, replaced and joined.                         *)

LEMMA TableAppended ==
    ASSUME NEW R, NEW s \in Seq(R), NEW e
    PROVE  LET t == Append(s, e)
           IN  /\ t \in Seq(R \cup {e}) /\ Len(t) = Len(s) + 1
               /\ \A i \in 1..Len(s) : t[i] = s[i]
               /\ t[Len(s) + 1] = e
<1>1. s \in Seq(R \cup {e})  OBVIOUS
<1>2. PICK t : t = Append(s, e)  OBVIOUS
<1>3. t \in Seq(R \cup {e}) /\ Len(t) = Len(s) + 1  BY <1>1, <1>2
<1>4. \A i \in 1..Len(s) : t[i] = s[i]  BY <1>1, <1>2
<1>5. t[Len(s) + 1] = e  BY <1>1, <1>2
<1> QED  BY <1>2, <1>3, <1>4, <1>5

LEMMA TableReplaced ==
    ASSUME NEW R, NEW s \in Seq(R), NEW i \in 1..Len(s), NEW e
    PROVE  LET t == [s EXCEPT ![i] = e]
           IN  /\ t \in Seq(R \cup {e}) /\ Len(t) = Len(s)
               /\ \A j \in 1..Len(s) : t[j] = IF j = i THEN e ELSE s[j]
<1>1. s \in Seq(R \cup {e})  OBVIOUS
<1>2. PICK t : t = [s EXCEPT ![i] = e]  OBVIOUS
<1>3. t \in Seq(R \cup {e}) /\ Len(t) = Len(s)  BY <1>1, <1>2
<1>4. \A j \in 1..Len(s) : t[j] = IF j = i THEN e ELSE s[j]  BY <1>1, <1>2
<1> QED  BY <1>2, <1>3, <1>4

LEMMA TablesJoined ==
    ASSUME NEW R, NEW s \in Seq(R), NEW k \in Nat, NEW g \in [1..k -> R]
    PROVE  /\ s \o g \in Seq(R) /\ Len(s \o g) = Len(s) + k
           /\ \A i \in 1..Len(s) : (s \o g)[i] = s[i]
           /\ \A i \in 1..k : (s \o g)[Len(s) + i] = g[i]
<1>1. g \in Seq(R) /\ Len(g) = k  OBVIOUS
<1>2. PICK n \in Nat : n = Len(s)  OBVIOUS
<1>3. s \o g \in Seq(R) /\ Len(s \o g) = n + k  BY <1>1, <1>2
<1>4. \A i \in 1..n : (s \o g)[i] = s[i]  BY <1>1, <1>2
<1>5. \A i \in 1..k : (s \o g)[n + i] = g[i]  BY <1>1, <1>2
<1> QED  BY <1>2, <1>3, <1>4, <1>5

-----------------------------------------------------------------------------
(* One version and its children.                                            *)

\* The step changes nothing the hash sees of the version's children, nor its row.
ChildrenKept(u) ==
    /\ OwnPages(u)' = OwnPages(u)
    /\ \A p \in OwnPages(u) : pages'[p] = pages[p]
    /\ OwnTransitions(u)' = OwnTransitions(u)
    /\ \A t \in OwnTransitions(u) :
          transitions'[t].src = transitions[t].src /\ transitions'[t].dst = transitions[t].dst
Untouched(u) == versions'[u] = versions[u] /\ ChildrenKept(u)

\* A child of a version is a full row.
LEMMA ChildRows ==
    ASSUME Typed, NEW v \in Nat \ {0}
    PROVE  /\ \A p \in OwnPages(v) : p \in PageIds /\ pages[p] \in PageRow
           /\ \A t \in OwnTransitions(v) : t \in TransIds /\ transitions[t] \in TransitionRow
<1>1. ASSUME NEW p \in OwnPages(v)
      PROVE  p \in PageIds /\ pages[p] \in PageRow
  <2>1. p \in PageIds /\ pages[p].owner # 0  BY DEF OwnPages
  <2>2. pages[p] \in PageRow \cup {Gone}  BY <2>1 DEF Typed, TablesTyped, PageIds
  <2>3. pages[p] # Gone  BY <2>1 DEF Gone, None
  <2> QED  BY <2>1, <2>2, <2>3
<1>2. ASSUME NEW t \in OwnTransitions(v)
      PROVE  t \in TransIds /\ transitions[t] \in TransitionRow
  <2>1. t \in TransIds /\ transitions[t].owner # 0  BY DEF OwnTransitions
  <2>2. transitions[t] \in TransitionRow \cup {Gone}  BY <2>1 DEF Typed, TablesTyped, TransIds
  <2>3. transitions[t] # Gone  BY <2>1 DEF Gone, None
  <2> QED  BY <2>1, <2>2, <2>3
<1> QED  BY <1>1, <1>2

LEMMA ChildrenFinite ==
    ASSUME Typed, NEW v
    PROVE  IsFiniteSet(OwnPages(v)) /\ IsFiniteSet(OwnTransitions(v))
<1>1. PICK n \in Nat : n = Len(pages)  BY DEF Typed, TablesTyped
<1>2. OwnPages(v) \in SUBSET Nat /\ \A p \in OwnPages(v) : p <= n
  BY <1>1 DEF OwnPages, PageIds
<1>3. PICK m \in Nat : m = Len(transitions)  BY DEF Typed, TablesTyped
<1>4. OwnTransitions(v) \in SUBSET Nat /\ \A t \in OwnTransitions(v) : t <= m
  BY <1>3 DEF OwnTransitions, TransIds
<1> QED  BY <1>2, <1>4, FS_BoundedSetOfNaturals

LEMMA UntouchedConfig ==
    ASSUME NEW u, Untouched(u)
    PROVE  Config(u)' = Config(u)
<1>1. [p \in OwnPages(u) |-> pages[p].attr]' = [p \in OwnPages(u) |-> pages[p].attr]
  BY DEF Untouched, ChildrenKept
<1>2. [p \in OwnPages(u) |-> pages[p].matchers]' = [p \in OwnPages(u) |-> pages[p].matchers]
  BY DEF Untouched, ChildrenKept
<1>3. [t \in OwnTransitions(u) |-> [src |-> transitions[t].src, dst |-> transitions[t].dst]]'
        = [t \in OwnTransitions(u) |-> [src |-> transitions[t].src, dst |-> transitions[t].dst]]
  BY DEF Untouched, ChildrenKept
<1>4. versions'[u] = versions[u]  BY DEF Untouched, ChildrenKept
<1> QED  BY <1>1, <1>2, <1>3, <1>4 DEF Config

LEMMA UntouchedAmbiguous ==
    ASSUME NEW u, Untouched(u)
    PROVE  Ambiguous(u)' = Ambiguous(u)
<1>1. ASSUME NEW d
      PROVE  {p \in OwnPages(u) : pages[p].matchers[d] > 0}'
               = {p \in OwnPages(u) : pages[p].matchers[d] > 0}
  BY DEF Untouched, ChildrenKept
<1>2. ASSUME NEW d
      PROVE  LET claim == {p \in OwnPages(u) : pages[p].matchers[d] > 0}
             IN  {p \in claim : \A q \in claim : pages[q].attr <= pages[p].attr}'
                   = {p \in claim : \A q \in claim : pages[q].attr <= pages[p].attr}
  BY <1>1 DEF Untouched, ChildrenKept
<1> QED  BY <1>2 DEF Ambiguous

LEMMA UntouchedWhole ==
    ASSUME NEW u, Untouched(u), Whole(u)
    PROVE  Whole(u)'
<1>1. versions'[u] = versions[u]  BY DEF Untouched, ChildrenKept
<1>2. RecordsLoad(u)'
  <2>1. OwnPages(u)' = versions[u].pages /\ OwnTransitions(u)' = versions[u].transitions
    BY DEF Untouched, ChildrenKept, Whole, RecordsLoad, PageRecordsLoad, TransitionRecordsLoad
  <2>2. \A t \in OwnTransitions(u) : {transitions'[t].src, transitions'[t].dst} \subseteq OwnPages(u)
    BY DEF Untouched, ChildrenKept, Whole, RecordsLoad, TransitionRecordsLoad
  <2>3. \A t \in OwnTransitions(u)' : {transitions'[t].src, transitions'[t].dst} \subseteq OwnPages(u)'
    BY <2>2 DEF Untouched, ChildrenKept
  <2> QED  BY <1>1, <2>1, <2>3 DEF RecordsLoad, PageRecordsLoad, TransitionRecordsLoad
<1>3. SeedsLoad(u)' /\ ContractHolds(versions[u])'
  BY <1>1 DEF Whole, SeedsLoad, ContractHolds
<1>4. HashAudited(u)' = HashAudited(u)
  BY <1>1, UntouchedConfig DEF HashAudited
<1>5. Ambiguous(u)' = Ambiguous(u)  BY UntouchedAmbiguous
<1>6. VersionRow(versions[u])'  BY <1>1 DEF Whole
<1> QED  BY <1>1, <1>2, <1>3, <1>4, <1>5, <1>6 DEF Whole

\* A published version whose children are unambiguous is sound.
LEMMA UnambiguousIsSound ==
    ASSUME Typed, NEW v \in Nat \ {0}, ~Ambiguous(v), AuthoringConstants,
           NEW p \in OwnPages(v), NEW q \in OwnPages(v), NEW d \in Defs,
           p # q, pages[p].matchers[d] > 0, pages[q].matchers[d] > 0,
           pages[p].attr = pages[q].attr
    PROVE  \E r \in OwnPages(v) : pages[r].matchers[d] > 0 /\ pages[r].attr > pages[p].attr
<1> DEFINE claim == {x \in OwnPages(v) : pages[x].matchers[d] > 0}
           best == {x \in claim : \A y \in claim : pages[y].attr <= pages[x].attr}
<1>1. \A x \in OwnPages(v) : pages[x].attr \in Nat
  BY ChildRows DEF PageRow, AuthoringConstants
<1> SUFFICES ASSUME \A r \in OwnPages(v) : pages[r].matchers[d] > 0 => ~(pages[r].attr > pages[p].attr)
             PROVE  FALSE
  OBVIOUS
<1>2. \A r \in claim : pages[r].attr <= pages[p].attr  BY <1>1
<1>3. p \in best /\ q \in best  BY <1>2
<1>4. IsFiniteSet(best) /\ Cardinality(best) \in Nat
  <2>1. best \in SUBSET OwnPages(v)  OBVIOUS
  <2> QED  BY <2>1, ChildrenFinite, FS_Subset, FS_CardinalityType
<1>5. Cardinality(best) # 0  BY <1>3, <1>4, FS_EmptySet
<1>6. Cardinality(best) # 1
  <2> SUFFICES ASSUME Cardinality(best) = 1 PROVE FALSE  OBVIOUS
  <2>1. PICK x : best = {x}  BY <1>4, FS_Singleton
  <2> QED  BY <2>1, <1>3
<1>7. Cardinality(best) > 1  BY <1>4, <1>5, <1>6
<1> QED  BY <1>7 DEF Ambiguous

-----------------------------------------------------------------------------
(* Every step but one that appends leaves the versions but the draft alone. *)

\* Steps that leave the children alone.
LEMMA ChildrenAlone ==
    ASSUME NEW u, UNCHANGED <<pages, transitions>>, versions'[u] = versions[u]
    PROVE  Untouched(u)
BY DEF Untouched, ChildrenKept, OwnPages, OwnTransitions, PageIds, TransIds

\* Only the draft is edited.
LEMMA EditableIsDraft ==
    ASSUME NEW v, Editable(v)
    PROVE  draft = v /\ versions[v].state = "DRAFT" /\ ContractHolds(versions[v]) /\ RecordsLoad(v)
BY DEF Editable

\* A page type is appended for the draft, another stays what it is.
LEMMA PageAppended ==
    ASSUME Typed, NEW v \in Versions, NEW r \in PageRow, r.owner = v,
           pages' = Append(pages, r)
    PROVE  /\ pages' \in Seq(PageRow \cup {Gone}) /\ Len(pages') = Len(pages) + 1
           /\ \A p \in PageIds : pages'[p] = pages[p]
           /\ pages'[Len(pages) + 1] = r
           /\ OwnPages(v)' = OwnPages(v) \cup {Len(pages) + 1}
           /\ \A u : u # v => OwnPages(u)' = OwnPages(u)
           /\ \A p \in PageIds' : pages'[p].owner \in 0..Len(versions)
<1>1. pages \in Seq(PageRow \cup {Gone})  BY DEF Typed, TablesTyped
<1>2. PICK n \in Nat : n = Len(pages)  BY <1>1
<1>3. /\ pages' \in Seq(PageRow \cup {Gone} \cup {r}) /\ Len(pages') = n + 1
      /\ \A p \in 1..n : pages'[p] = pages[p]
      /\ pages'[n + 1] = r
  BY <1>1, <1>2, TableAppended
<1>4. PageRow \cup {Gone} \cup {r} = PageRow \cup {Gone}  OBVIOUS
<1>5. ASSUME NEW u
      PROVE  OwnPages(u)' = OwnPages(u) \cup (IF u = v THEN {n + 1} ELSE {})
  BY <1>2, <1>3 DEF OwnPages, PageIds
<1>6. \A p \in 1..(n + 1) : pages'[p].owner \in 0..Len(versions)
  <2>1. \A p \in 1..n : pages[p].owner \in 0..Len(versions)  BY <1>2 DEF Typed, TablesTyped, PageIds
  <2>2. Len(versions) \in Nat  BY DEF Typed, TablesTyped
  <2>3. r.owner \in 0..Len(versions)  BY <2>2 DEF Versions
  <2> QED  BY <1>3, <2>1, <2>3
<1> QED  BY <1>2, <1>3, <1>4, <1>5, <1>6 DEF PageIds

\* A page type of the draft is replaced by one of the same owner, or goes.
LEMMA PageReplaced ==
    ASSUME Typed, NEW v \in Versions, NEW p \in OwnPages(v), NEW r \in PageRow \cup {Gone},
           r.owner \in {v, 0}, pages' = [pages EXCEPT ![p] = r]
    PROVE  /\ pages' \in Seq(PageRow \cup {Gone}) /\ Len(pages') = Len(pages)
           /\ pages'[p] = r /\ \A q \in PageIds : q # p => pages'[q] = pages[q]
           /\ (r.owner = v => OwnPages(v)' = OwnPages(v))
           /\ (r.owner # v => OwnPages(v)' = OwnPages(v) \ {p})
           /\ \A u \in Versions : u # v => OwnPages(u)' = OwnPages(u) /\ p \notin OwnPages(u)
           /\ \A q \in PageIds' : pages'[q].owner \in 0..Len(versions)
<1>1. pages \in Seq(PageRow \cup {Gone})  BY DEF Typed, TablesTyped
<1>2. PICK n \in Nat : n = Len(pages)  BY <1>1
<1>3. p \in 1..n /\ pages[p].owner = v  BY <1>2 DEF OwnPages, PageIds
<1>4. /\ pages' \in Seq(PageRow \cup {Gone} \cup {r}) /\ Len(pages') = n
      /\ \A q \in 1..n : pages'[q] = IF q = p THEN r ELSE pages[q]
  BY <1>1, <1>2, <1>3, TableReplaced
<1>5. PageRow \cup {Gone} \cup {r} = PageRow \cup {Gone}  OBVIOUS
<1>6. Versions = 1..Len(versions) /\ Len(versions) \in Nat  BY DEF Typed, TablesTyped, Versions
<1>7. /\ r.owner = v => OwnPages(v)' = OwnPages(v)
      /\ r.owner # v => OwnPages(v)' = OwnPages(v) \ {p}
  BY <1>2, <1>3, <1>4 DEF OwnPages, PageIds
<1>8. ASSUME NEW u \in Versions, u # v
      PROVE  OwnPages(u)' = OwnPages(u) /\ p \notin OwnPages(u)
  BY <1>2, <1>3, <1>4, <1>6, <1>8 DEF OwnPages, PageIds
<1>9. \A q \in 1..n : pages'[q].owner \in 0..Len(versions)
  BY <1>2, <1>4, <1>6 DEF Typed, TablesTyped, PageIds
<1> QED  BY <1>2, <1>3, <1>4, <1>5, <1>7, <1>8, <1>9 DEF PageIds

LEMMA TransitionAppended ==
    ASSUME Typed, NEW v \in Versions, NEW r \in TransitionRow, r.owner = v,
           transitions' = Append(transitions, r)
    PROVE  /\ transitions' \in Seq(TransitionRow \cup {Gone})
           /\ Len(transitions') = Len(transitions) + 1
           /\ \A t \in TransIds : transitions'[t] = transitions[t]
           /\ transitions'[Len(transitions) + 1] = r
           /\ OwnTransitions(v)' = OwnTransitions(v) \cup {Len(transitions) + 1}
           /\ \A u : u # v => OwnTransitions(u)' = OwnTransitions(u)
           /\ \A t \in TransIds' : transitions'[t].owner \in 0..Len(versions)
<1>1. transitions \in Seq(TransitionRow \cup {Gone})  BY DEF Typed, TablesTyped
<1>2. PICK n \in Nat : n = Len(transitions)  BY <1>1
<1>3. /\ transitions' \in Seq(TransitionRow \cup {Gone} \cup {r}) /\ Len(transitions') = n + 1
      /\ \A t \in 1..n : transitions'[t] = transitions[t]
      /\ transitions'[n + 1] = r
  BY <1>1, <1>2, TableAppended
<1>4. TransitionRow \cup {Gone} \cup {r} = TransitionRow \cup {Gone}  OBVIOUS
<1>5. ASSUME NEW u
      PROVE  OwnTransitions(u)' = OwnTransitions(u) \cup (IF u = v THEN {n + 1} ELSE {})
  BY <1>2, <1>3 DEF OwnTransitions, TransIds
<1>6. \A t \in 1..(n + 1) : transitions'[t].owner \in 0..Len(versions)
  <2>1. \A t \in 1..n : transitions[t].owner \in 0..Len(versions)  BY <1>2 DEF Typed, TablesTyped, TransIds
  <2>2. Len(versions) \in Nat  BY DEF Typed, TablesTyped
  <2>3. r.owner \in 0..Len(versions)  BY <2>2 DEF Versions
  <2> QED  BY <1>3, <2>1, <2>3
<1> QED  BY <1>2, <1>3, <1>4, <1>5, <1>6 DEF TransIds

LEMMA TransitionReplaced ==
    ASSUME Typed, NEW v \in Versions, NEW t \in OwnTransitions(v),
           NEW r \in TransitionRow \cup {Gone},
           r.owner \in {v, 0}, transitions' = [transitions EXCEPT ![t] = r]
    PROVE  /\ transitions' \in Seq(TransitionRow \cup {Gone}) /\ Len(transitions') = Len(transitions)
           /\ transitions'[t] = r /\ \A x \in TransIds : x # t => transitions'[x] = transitions[x]
           /\ (r.owner = v => OwnTransitions(v)' = OwnTransitions(v))
           /\ (r.owner # v => OwnTransitions(v)' = OwnTransitions(v) \ {t})
           /\ \A u \in Versions : u # v => OwnTransitions(u)' = OwnTransitions(u) /\ t \notin OwnTransitions(u)
           /\ \A x \in TransIds' : transitions'[x].owner \in 0..Len(versions)
<1>1. transitions \in Seq(TransitionRow \cup {Gone})  BY DEF Typed, TablesTyped
<1>2. PICK n \in Nat : n = Len(transitions)  BY <1>1
<1>3. t \in 1..n /\ transitions[t].owner = v  BY <1>2 DEF OwnTransitions, TransIds
<1>4. /\ transitions' \in Seq(TransitionRow \cup {Gone} \cup {r}) /\ Len(transitions') = n
      /\ \A x \in 1..n : transitions'[x] = IF x = t THEN r ELSE transitions[x]
  BY <1>1, <1>2, <1>3, TableReplaced
<1>5. TransitionRow \cup {Gone} \cup {r} = TransitionRow \cup {Gone}  OBVIOUS
<1>6. Versions = 1..Len(versions) /\ Len(versions) \in Nat  BY DEF Typed, TablesTyped, Versions
<1>7. /\ r.owner = v => OwnTransitions(v)' = OwnTransitions(v)
      /\ r.owner # v => OwnTransitions(v)' = OwnTransitions(v) \ {t}
  BY <1>2, <1>3, <1>4 DEF OwnTransitions, TransIds
<1>8. ASSUME NEW u \in Versions, u # v
      PROVE  OwnTransitions(u)' = OwnTransitions(u) /\ t \notin OwnTransitions(u)
  BY <1>2, <1>3, <1>4, <1>6, <1>8 DEF OwnTransitions, TransIds
<1>9. \A x \in 1..n : transitions'[x].owner \in 0..Len(versions)
  BY <1>2, <1>4, <1>6 DEF Typed, TablesTyped, TransIds
<1> QED  BY <1>2, <1>3, <1>4, <1>5, <1>7, <1>8, <1>9 DEF TransIds

-----------------------------------------------------------------------------
(* Edits.                                                                   *)

\* Every version but the draft is left alone.
Kept ==
    /\ Versions \subseteq Versions'
    /\ \A u \in Versions : u # draft => Untouched(u)

\* The children of v are the ones this row declares.
Loads(v, row) ==
    /\ OwnPages(v) = row.pages /\ OwnTransitions(v) = row.transitions
    /\ \A t \in OwnTransitions(v) : {transitions[t].src, transitions[t].dst} \subseteq OwnPages(v)
    /\ row.seeds \ {NoHint} \subseteq row.pages
    /\ row.budget \subseteq row.pages

\* The draft gets another row, and nobody holds the old one.
LEMMA RowRewritten ==
    ASSUME AuthoringInv, NEW v \in Versions, draft = v, versions[v].state = "DRAFT",
           UNCHANGED <<draft, published, lab>>, copy' = <<>>,
           NEW row, VersionRow(row), versions' = [versions EXCEPT ![v] = row],
           row.state = "DRAFT", row.base = versions[v].base,
           Len(versions') = Len(versions) => TablesTyped',
           \A u \in Versions : u # v => ChildrenKept(u),
           Loads(v, row)'
    PROVE  AuthoringInv' /\ Kept
<1>1. PICK R : versions \in Seq(R)  BY DEF AuthoringInv, Typed
<1>2. /\ versions' \in Seq(R \cup {row}) /\ Len(versions') = Len(versions)
      /\ \A j \in 1..Len(versions) : versions'[j] = IF j = v THEN row ELSE versions[j]
  BY <1>1, TableReplaced DEF Versions
<1>3. Versions' = Versions /\ versions'[v] = row
      /\ \A u \in Versions : u # v => versions'[u] = versions[u]
  BY <1>2 DEF Versions
<1>4. \A u \in Versions : u # v => Untouched(u)  BY <1>3 DEF Untouched
<1>6. Typed'  BY <1>2 DEF AuthoringInv, Typed
<1>7. Whole(v)'
  <2>1. VersionRow(versions[v])' /\ versions'[v].base < v
    BY <1>3 DEF AuthoringInv, AllWhole, Whole
  <2>2. RecordsLoad(v)' /\ SeedsLoad(v)' /\ ContractHolds(versions[v])'
    BY <1>3 DEF Loads, RecordsLoad, PageRecordsLoad, TransitionRecordsLoad, SeedsLoad, ContractHolds
  <2>3. versions'[v].state # "PUBLISHED"  BY <1>3
  <2> QED  BY <2>1, <2>2, <2>3 DEF Whole
<1>8. AllWhole'
  <2> SUFFICES ASSUME NEW u \in Versions, u # v PROVE Whole(u)'
    BY <1>3, <1>7 DEF AllWhole
  <2> QED  BY <1>4, UntouchedWhole DEF AuthoringInv, AllWhole
<1>9. Pointers'
  BY <1>2, <1>3 DEF AuthoringInv, Pointers, PointersAgree, PointersLoad, Versions, None
<1>10. CopyCurrent'  BY DEF CopyCurrent, HoldsDraft
<1> QED  BY <1>3, <1>4, <1>6, <1>8, <1>9, <1>10 DEF AuthoringInv, Kept

LEMMA EditKeeps ==
    ASSUME AuthoringInv, AuthoringConstants, ~Concurrent,
           NEW v \in Versions, Editable(v), EditRest,
           NEW row, VersionRow(row), versions' = [versions EXCEPT ![v] = row],
           row.state = "DRAFT", row.base = versions[v].base,
           Len(versions') = Len(versions) => TablesTyped',
           \A u \in Versions : u # v => ChildrenKept(u),
           Loads(v, row)'
    PROVE  AuthoringInv' /\ Kept
<1>1. draft = v /\ versions[v].state = "DRAFT" /\ copy = <<>>  BY DEF Editable
<1>2. UNCHANGED <<draft, published, lab>> /\ copy' = <<>>  BY <1>1 DEF EditRest
<1> QED  BY <1>1, <1>2, RowRewritten

\* An edit that leaves the version's row alone.
LEMMA RowKept ==
    ASSUME AuthoringInv, NEW v \in Versions
    PROVE  versions = [versions EXCEPT ![v] = versions[v]] /\ VersionRow(versions[v])
<1>1. PICK R : versions \in Seq(R)  BY DEF AuthoringInv, Typed
<1> QED  BY <1>1 DEF AuthoringInv, AllWhole, Whole, Versions

\* A row with other children.
LEMMA RowWith ==
    ASSUME NEW r, VersionRow(r), NEW S \in SUBSET Nat
    PROVE  LET a == [r EXCEPT !.pages = S]
               b == [r EXCEPT !.transitions = S]
               c == [r EXCEPT !.budget = S]
               d == [r EXCEPT !.seeds = S]
           IN  /\ VersionRow(a) /\ a.pages = S /\ a.state = r.state /\ a.base = r.base
               /\ a.transitions = r.transitions /\ a.seeds = r.seeds /\ a.budget = r.budget
               /\ VersionRow(b) /\ b.transitions = S /\ b.state = r.state /\ b.base = r.base
               /\ b.pages = r.pages /\ b.seeds = r.seeds /\ b.budget = r.budget
               /\ VersionRow(c) /\ c.budget = S /\ c.state = r.state /\ c.base = r.base
               /\ c.pages = r.pages /\ c.transitions = r.transitions /\ c.seeds = r.seeds
               /\ VersionRow(d) /\ d.seeds = S /\ d.state = r.state /\ d.base = r.base
               /\ d.pages = r.pages /\ d.transitions = r.transitions /\ d.budget = r.budget
BY DEF VersionRow

LEMMA CreatesPageType ==
    ASSUME AuthoringInv, AuthoringConstants, ~Concurrent,
           NEW v \in Versions, NEW a \in Attrs, CreatePageType(v, a)
    PROVE  AuthoringInv' /\ Kept
<1> USE DEF AuthoringInv
<1>1. PICK n \in Nat : n = Len(pages)  BY DEF Typed, TablesTyped
<1>2. PICK r : r = [owner |-> v, attr |-> a, matchers |-> [d \in Defs |-> 0]]  OBVIOUS
<1>3. r \in PageRow /\ r.owner = v  BY <1>2 DEF PageRow, Versions
<1>4. pages' = Append(pages, r) /\ n + 1 <= MaxPages  BY <1>1, <1>2 DEF CreatePageType
<1>5. /\ pages' \in Seq(PageRow \cup {Gone}) /\ Len(pages') = Len(pages) + 1
      /\ \A p \in PageIds : pages'[p] = pages[p]
      /\ OwnPages(v)' = OwnPages(v) \cup {n + 1}
      /\ \A u : u # v => OwnPages(u)' = OwnPages(u)
      /\ \A p \in PageIds' : pages'[p].owner \in 0..Len(versions)
  BY <1>1, <1>3, <1>4, PageAppended
<1>6. UNCHANGED transitions  BY DEF CreatePageType
<1>7. PICK row : row = [versions[v] EXCEPT !.pages = @ \cup {n + 1}]  OBVIOUS
<1>8. /\ VersionRow(row) /\ row.pages = versions[v].pages \cup {n + 1} /\ row.state = versions[v].state
      /\ row.base = versions[v].base /\ row.transitions = versions[v].transitions
      /\ row.seeds = versions[v].seeds /\ row.budget = versions[v].budget
  BY <1>7 DEF AllWhole, Whole, VersionRow
<1>9. versions' = [versions EXCEPT ![v] = row] /\ Editable(v) /\ EditRest
  BY <1>1, <1>7 DEF CreatePageType, Rewrites
<1>10. \A u \in Versions : u # v => ChildrenKept(u)
  BY <1>5, <1>6 DEF ChildrenKept, OwnPages, OwnTransitions, TransIds
<1>11. Len(versions') = Len(versions) => TablesTyped'
  BY <1>1, <1>4, <1>5, <1>6 DEF Typed, TablesTyped, TransIds
<1>12. Loads(v, row)'
  <2>1. OwnPages(v)' = row.pages  BY <1>5, <1>8 DEF AllWhole, Whole, RecordsLoad, PageRecordsLoad
  <2>2. OwnTransitions(v)' = OwnTransitions(v)  BY <1>6 DEF OwnTransitions, TransIds
  <2>3. OwnTransitions(v)' = row.transitions
        /\ \A t \in OwnTransitions(v)' : {transitions'[t].src, transitions'[t].dst} \subseteq OwnPages(v)'
    BY <1>5, <1>6, <1>8, <2>2 DEF AllWhole, Whole, RecordsLoad, TransitionRecordsLoad
  <2>4. row.seeds \ {NoHint} \subseteq row.pages /\ row.budget \subseteq row.pages
    BY <1>8 DEF AllWhole, Whole, SeedsLoad, ContractHolds
  <2> QED  BY <2>1, <2>3, <2>4 DEF Loads
<1>13. row.state = "DRAFT"  BY <1>8, <1>9, EditableIsDraft
<1> QED  BY <1>8, <1>9, <1>10, <1>11, <1>12, <1>13, EditKeeps

\* A page type's own attributes or matchers change.
LEMMA PageEdited ==
    ASSUME AuthoringInv, AuthoringConstants, ~Concurrent,
           NEW v \in Versions, NEW p \in OwnPages(v), Editable(v), EditRest,
           NEW r \in PageRow, r.owner = v,
           pages' = [pages EXCEPT ![p] = r], UNCHANGED <<versions, transitions>>
    PROVE  AuthoringInv' /\ Kept
<1> USE DEF AuthoringInv
<1>0. Typed /\ r \in PageRow \cup {Gone} /\ r.owner \in {v, 0} /\ r.owner = v
      /\ pages' = [pages EXCEPT ![p] = r]
  OBVIOUS
<1>a. pages' \in Seq(PageRow \cup {Gone}) /\ Len(pages') = Len(pages)  BY <1>0, PageReplaced
<1>b. \A q \in PageIds : q # p => pages'[q] = pages[q]  BY <1>0, PageReplaced
<1>c. OwnPages(v)' = OwnPages(v)  BY <1>0, PageReplaced
<1>d. \A u \in Versions : u # v => OwnPages(u)' = OwnPages(u) /\ p \notin OwnPages(u)
  BY <1>0, PageReplaced
<1>e. \A q \in PageIds' : pages'[q].owner \in 0..Len(versions)  BY <1>0, PageReplaced
<1>1. /\ pages' \in Seq(PageRow \cup {Gone}) /\ Len(pages') = Len(pages)
      /\ \A q \in PageIds : q # p => pages'[q] = pages[q]
      /\ OwnPages(v)' = OwnPages(v)
      /\ \A u \in Versions : u # v => OwnPages(u)' = OwnPages(u) /\ p \notin OwnPages(u)
      /\ \A q \in PageIds' : pages'[q].owner \in 0..Len(versions)
  BY <1>a, <1>b, <1>c, <1>d, <1>e
<1>2. versions' = [versions EXCEPT ![v] = versions[v]] /\ VersionRow(versions[v])
  BY RowKept
<1>3. \A u \in Versions : u # v => ChildrenKept(u)
  <2> SUFFICES ASSUME NEW u \in Versions, u # v PROVE ChildrenKept(u)  OBVIOUS
  <2>1. OwnPages(u)' = OwnPages(u)  BY <1>1
  <2>2. \A q \in OwnPages(u) : pages'[q] = pages[q]  BY <1>1 DEF OwnPages
  <2> QED  BY <2>1, <2>2 DEF ChildrenKept, OwnTransitions, TransIds
<1>4. Len(versions') = Len(versions) => TablesTyped'
  BY <1>1 DEF Typed, TablesTyped, TransIds
<1>5. Loads(v, versions[v])'
  <2>1. OwnPages(v)' = versions[v].pages  BY <1>1 DEF AllWhole, Whole, RecordsLoad, PageRecordsLoad
  <2>2. OwnTransitions(v)' = OwnTransitions(v)  BY DEF OwnTransitions, TransIds
  <2>3. OwnTransitions(v)' = versions[v].transitions
        /\ \A t \in OwnTransitions(v)' : {transitions'[t].src, transitions'[t].dst} \subseteq OwnPages(v)'
    BY <1>1, <2>2 DEF AllWhole, Whole, RecordsLoad, TransitionRecordsLoad
  <2>4. versions[v].seeds \ {NoHint} \subseteq versions[v].pages /\ versions[v].budget \subseteq versions[v].pages
    BY DEF AllWhole, Whole, SeedsLoad, ContractHolds
  <2> QED  BY <2>1, <2>3, <2>4 DEF Loads
<1>6. versions[v].state = "DRAFT"  BY EditableIsDraft
<1> QED  BY <1>2, <1>3, <1>4, <1>5, <1>6, EditKeeps

LEMMA UpdatesPageType ==
    ASSUME AuthoringInv, AuthoringConstants, ~Concurrent,
           NEW v \in Versions, NEW p \in PageIds, NEW a \in Attrs, UpdatePageType(v, p, a)
    PROVE  AuthoringInv' /\ Kept
<1>1. p \in OwnPages(v) /\ Editable(v) /\ EditRest /\ UNCHANGED <<versions, transitions>>
  BY DEF UpdatePageType
<1>2. v \in Nat \ {0}  BY DEF Versions, AuthoringInv, Typed
<1>3. pages[p] \in PageRow /\ pages[p].owner = v
  BY <1>1, <1>2, ChildRows DEF AuthoringInv, OwnPages
<1>4. PICK r : r = [pages[p] EXCEPT !.attr = a]  OBVIOUS
<1>5. r \in PageRow /\ r.owner = v  BY <1>3, <1>4 DEF PageRow
<1>6. pages' = [pages EXCEPT ![p] = r]  BY <1>4 DEF UpdatePageType
<1> QED  BY <1>1, <1>5, <1>6, PageEdited

LEMMA EditsMatchers ==
    ASSUME AuthoringInv, AuthoringConstants, ~Concurrent,
           NEW v \in Versions, NEW p \in PageIds, NEW d \in Defs,
           \/ CreateUrlMatcher(v, p, d)
           \/ \E e \in Defs : UpdateUrlMatcher(v, p, d, e)
           \/ DeleteUrlMatcher(v, p, d)
    PROVE  AuthoringInv' /\ Kept
<1>1. p \in OwnPages(v) /\ Editable(v) /\ EditRest /\ UNCHANGED <<versions, transitions>>
  BY DEF CreateUrlMatcher, UpdateUrlMatcher, DeleteUrlMatcher
<1>2. v \in Nat \ {0}  BY DEF Versions, AuthoringInv, Typed
<1>3. pages[p] \in PageRow /\ pages[p].owner = v
  BY <1>1, <1>2, ChildRows DEF AuthoringInv, OwnPages
<1>4. PICK m : m = pages[p].matchers  OBVIOUS
<1>5. m \in [Defs -> Nat]  BY <1>3, <1>4 DEF PageRow
<1>6. ASSUME NEW g \in [Defs -> Nat], pages' = [pages EXCEPT ![p] = [pages[p] EXCEPT !.matchers = g]]
      PROVE  AuthoringInv' /\ Kept
  <2>1. PICK r : r = [pages[p] EXCEPT !.matchers = g]  OBVIOUS
  <2>2. r \in PageRow /\ r.owner = v  BY <1>3, <2>1 DEF PageRow
  <2>3. pages' = [pages EXCEPT ![p] = r]  BY <1>6, <2>1
  <2> QED  BY <1>1, <2>2, <2>3, PageEdited
<1>7. CASE CreateUrlMatcher(v, p, d)
  <2>1. PICK g : g = [m EXCEPT ![d] = @ + 1]  OBVIOUS
  <2>2. g \in [Defs -> Nat]  BY <1>5, <2>1
  <2>3. pages' = [pages EXCEPT ![p] = [pages[p] EXCEPT !.matchers = g]]
    BY <1>4, <1>7, <2>1 DEF CreateUrlMatcher
  <2> QED  BY <1>6, <2>2, <2>3
<1>8. CASE DeleteUrlMatcher(v, p, d)
  <2>1. PICK g : g = [m EXCEPT ![d] = @ - 1]  OBVIOUS
  <2>2. m[d] > 0 /\ m[d] \in Nat  BY <1>4, <1>5, <1>8 DEF DeleteUrlMatcher
  <2>3. g \in [Defs -> Nat]  BY <1>5, <2>1, <2>2
  <2>4. pages' = [pages EXCEPT ![p] = [pages[p] EXCEPT !.matchers = g]]
    BY <1>4, <1>8, <2>1 DEF DeleteUrlMatcher
  <2> QED  BY <1>6, <2>3, <2>4
<1>9. ASSUME NEW e \in Defs, UpdateUrlMatcher(v, p, d, e)
      PROVE  AuthoringInv' /\ Kept
  <2>1. PICK f : f = [m EXCEPT ![d] = @ - 1]  OBVIOUS
  <2>2. d # e /\ m[d] > 0 /\ m[d] \in Nat /\ m[e] \in Nat  BY <1>4, <1>5, <1>9 DEF UpdateUrlMatcher
  <2>3. f \in [Defs -> Nat]  BY <1>5, <2>1, <2>2
  <2>4. PICK g : g = [f EXCEPT ![e] = @ + 1]  OBVIOUS
  <2>5. g \in [Defs -> Nat]  BY <2>3, <2>4
  <2>6. pages' = [[pages EXCEPT ![p].matchers[d] = @ - 1] EXCEPT ![p].matchers[e] = @ + 1]
    BY <1>9 DEF UpdateUrlMatcher
  <2>7. PICK q : q = [pages EXCEPT ![p] = [pages[p] EXCEPT !.matchers = f]]  OBVIOUS
  <2>8. q = [pages EXCEPT ![p].matchers[d] = @ - 1]  BY <1>4, <2>1, <2>7
  <2>9. pages \in Seq(PageRow \cup {Gone}) /\ p \in 1..Len(pages)
    BY DEF AuthoringInv, Typed, TablesTyped, PageIds
  <2>10. q[p] = [pages[p] EXCEPT !.matchers = f]  BY <2>7, <2>9
  <2>11. q[p].matchers = f  BY <1>3, <2>10 DEF PageRow
  <2>12. pages' = [q EXCEPT ![p] = [q[p] EXCEPT !.matchers = g]]
    BY <2>4, <2>6, <2>8, <2>11
  <2>13. [q[p] EXCEPT !.matchers = g] = [pages[p] EXCEPT !.matchers = g]
    BY <1>3, <2>10 DEF PageRow
  <2>14. [q EXCEPT ![p] = [pages[p] EXCEPT !.matchers = g]]
           = [pages EXCEPT ![p] = [pages[p] EXCEPT !.matchers = g]]
    BY <2>7, <2>9
  <2>15. pages' = [pages EXCEPT ![p] = [pages[p] EXCEPT !.matchers = g]]
    BY <2>12, <2>13, <2>14
  <2> QED  BY <1>6, <2>5, <2>15
<1> QED  BY <1>7, <1>8, <1>9

LEMMA DeletesPageType ==
    ASSUME AuthoringInv, AuthoringConstants, ~Concurrent,
           NEW v \in Versions, NEW p \in PageIds, DeletePageType(v, p)
    PROVE  AuthoringInv' /\ Kept
<1> USE DEF AuthoringInv
<1>0. v \in Nat \ {0}  BY DEF Versions, Typed
<1>1. /\ p \in OwnPages(v) /\ Editable(v) /\ EditRest /\ UNCHANGED transitions
      /\ ~InUse(v, p) /\ pages' = [pages EXCEPT ![p] = Gone]
  BY DEF DeletePageType
<1>2. Typed /\ Gone \in PageRow \cup {Gone} /\ Gone.owner \in {v, 0} /\ Gone.owner # v
  BY <1>0 DEF Gone, None
<1>3. /\ pages' \in Seq(PageRow \cup {Gone}) /\ Len(pages') = Len(pages)
      /\ \A q \in PageIds : q # p => pages'[q] = pages[q]
      /\ OwnPages(v)' = OwnPages(v) \ {p}
      /\ \A u \in Versions : u # v => OwnPages(u)' = OwnPages(u) /\ p \notin OwnPages(u)
      /\ \A q \in PageIds' : pages'[q].owner \in 0..Len(versions)
  BY <1>1, <1>2, PageReplaced
<1>4. PICK row : row = [versions[v] EXCEPT !.pages = @ \ {p}]  OBVIOUS
<1>5. /\ VersionRow(row) /\ row.pages = versions[v].pages \ {p} /\ row.state = versions[v].state
      /\ row.base = versions[v].base /\ row.transitions = versions[v].transitions
      /\ row.seeds = versions[v].seeds /\ row.budget = versions[v].budget
  BY <1>4 DEF AllWhole, Whole, VersionRow
<1>6. versions' = [versions EXCEPT ![v] = row]
  BY <1>4 DEF DeletePageType, Rewrites
<1>7. \A u \in Versions : u # v => ChildrenKept(u)
  <2> SUFFICES ASSUME NEW u \in Versions, u # v PROVE ChildrenKept(u)  OBVIOUS
  <2>1. OwnPages(u)' = OwnPages(u)  BY <1>3
  <2>2. \A q \in OwnPages(u) : pages'[q] = pages[q]  BY <1>3 DEF OwnPages
  <2> QED  BY <1>1, <2>1, <2>2 DEF ChildrenKept, OwnTransitions, TransIds
<1>8. Len(versions') = Len(versions) => TablesTyped'
  BY <1>1, <1>3 DEF Typed, TablesTyped, TransIds
<1>9. Loads(v, row)'
  <2>1. OwnPages(v)' = row.pages  BY <1>3, <1>5 DEF AllWhole, Whole, RecordsLoad, PageRecordsLoad
  <2>2. OwnTransitions(v)' = OwnTransitions(v)  BY <1>1 DEF OwnTransitions, TransIds
  <2>3. OwnTransitions(v)' = row.transitions
        /\ \A t \in OwnTransitions(v)' : {transitions'[t].src, transitions'[t].dst} \subseteq OwnPages(v)'
    BY <1>1, <1>3, <1>5, <2>2 DEF AllWhole, Whole, RecordsLoad, TransitionRecordsLoad, InUse
  <2>4. row.seeds \ {NoHint} \subseteq row.pages /\ row.budget \subseteq row.pages
    BY <1>1, <1>5 DEF AllWhole, Whole, SeedsLoad, ContractHolds, InUse
  <2> QED  BY <2>1, <2>3, <2>4 DEF Loads
<1>10. row.state = "DRAFT"  BY <1>1, <1>5, EditableIsDraft
<1> QED  BY <1>1, <1>5, <1>6, <1>7, <1>8, <1>9, <1>10, EditKeeps

LEMMA CreatesTransition ==
    ASSUME AuthoringInv, AuthoringConstants, ~Concurrent,
           NEW v \in Versions, NEW p \in PageIds, NEW q \in PageIds,
           CreateDiscoveryTransition(v, p, q)
    PROVE  AuthoringInv' /\ Kept
<1> USE DEF AuthoringInv
<1>1. PICK n \in Nat : n = Len(transitions)  BY DEF Typed, TablesTyped
<1>2. PICK r : r = [owner |-> v, src |-> p, dst |-> q, latest |-> FALSE]  OBVIOUS
<1>3. r \in TransitionRow /\ r.owner = v /\ r.src = p /\ r.dst = q
  BY <1>2 DEF TransitionRow, Versions, PageIds
<1>4. /\ transitions' = Append(transitions, r) /\ n + 1 <= MaxTransitions
      /\ Editable(v) /\ {p, q} \subseteq OwnPages(v) /\ EditRest /\ UNCHANGED pages
  BY <1>1, <1>2 DEF CreateDiscoveryTransition
<1>5. /\ transitions' \in Seq(TransitionRow \cup {Gone}) /\ Len(transitions') = Len(transitions) + 1
      /\ \A t \in TransIds : transitions'[t] = transitions[t]
      /\ transitions'[n + 1] = r
      /\ OwnTransitions(v)' = OwnTransitions(v) \cup {n + 1}
      /\ \A u : u # v => OwnTransitions(u)' = OwnTransitions(u)
      /\ \A t \in TransIds' : transitions'[t].owner \in 0..Len(versions)
  BY <1>1, <1>3, <1>4, TransitionAppended
<1>6. PICK row : row = [versions[v] EXCEPT !.transitions = @ \cup {n + 1}]  OBVIOUS
<1>7. /\ VersionRow(row) /\ row.transitions = versions[v].transitions \cup {n + 1}
      /\ row.state = versions[v].state /\ row.base = versions[v].base
      /\ row.pages = versions[v].pages
      /\ row.seeds = versions[v].seeds /\ row.budget = versions[v].budget
  BY <1>6 DEF AllWhole, Whole, VersionRow
<1>8. versions' = [versions EXCEPT ![v] = row]
  BY <1>1, <1>6 DEF CreateDiscoveryTransition, Rewrites
<1>9. \A u \in Versions : u # v => ChildrenKept(u)
  BY <1>4, <1>5 DEF ChildrenKept, OwnTransitions, OwnPages, PageIds
<1>10. Len(versions') = Len(versions) => TablesTyped'
  BY <1>1, <1>4, <1>5 DEF Typed, TablesTyped, PageIds
<1>11. Loads(v, row)'
  <2>1. OwnPages(v)' = OwnPages(v)  BY <1>4 DEF OwnPages, PageIds
  <2>2. OwnPages(v) = row.pages /\ OwnTransitions(v)' = row.transitions
    BY <1>5, <1>7 DEF AllWhole, Whole, RecordsLoad, PageRecordsLoad, TransitionRecordsLoad
  <2>3. \A t \in OwnTransitions(v) : {transitions'[t].src, transitions'[t].dst} \subseteq OwnPages(v)
    <3>1. \A t \in OwnTransitions(v) : transitions'[t] = transitions[t]  BY <1>5 DEF OwnTransitions
    <3>2. RecordsLoad(v)  BY DEF AllWhole, Whole
    <3>3. \A t \in OwnTransitions(v) : transitions[t].src \in OwnPages(v) /\ transitions[t].dst \in OwnPages(v)
      BY <3>2 DEF RecordsLoad, TransitionRecordsLoad
    <3> QED  BY <3>1, <3>3
  <2>4. \A t \in OwnTransitions(v)' : {transitions'[t].src, transitions'[t].dst} \subseteq OwnPages(v)
    <3>1. {transitions'[n + 1].src, transitions'[n + 1].dst} \subseteq OwnPages(v)  BY <1>3, <1>4, <1>5
    <3>2. \A t \in OwnTransitions(v)' : t \in OwnTransitions(v) \/ t = n + 1  BY <1>5
    <3> QED  BY <2>3, <3>1, <3>2
  <2>5. row.seeds \ {NoHint} \subseteq row.pages /\ row.budget \subseteq row.pages
    BY <1>7 DEF AllWhole, Whole, SeedsLoad, ContractHolds
  <2> QED  BY <2>1, <2>2, <2>4, <2>5 DEF Loads
<1>12. row.state = "DRAFT"  BY <1>4, <1>7, EditableIsDraft
<1> QED  BY <1>4, <1>7, <1>8, <1>9, <1>10, <1>11, <1>12, EditKeeps

LEMMA UpdatesTransition ==
    ASSUME AuthoringInv, AuthoringConstants, ~Concurrent,
           NEW v \in Versions, NEW t \in TransIds, NEW p \in PageIds, NEW q \in PageIds,
           UpdateDiscoveryTransition(v, t, p, q)
    PROVE  AuthoringInv' /\ Kept
<1> USE DEF AuthoringInv
<1>1. PICK r : r = [owner |-> v, src |-> p, dst |-> q, latest |-> FALSE]  OBVIOUS
<1>2. r \in TransitionRow /\ r.owner = v /\ r.src = p /\ r.dst = q
  BY <1>1 DEF TransitionRow, Versions, PageIds
<1>3. /\ transitions' = [transitions EXCEPT ![t] = r] /\ t \in OwnTransitions(v)
      /\ Editable(v) /\ {p, q} \subseteq OwnPages(v) /\ EditRest /\ UNCHANGED <<versions, pages>>
  BY <1>1 DEF UpdateDiscoveryTransition
<1>4. Typed /\ r \in TransitionRow \cup {Gone} /\ r.owner \in {v, 0} /\ r.owner = v  BY <1>2
<1>5. transitions' \in Seq(TransitionRow \cup {Gone}) /\ Len(transitions') = Len(transitions)
  BY <1>3, <1>4, TransitionReplaced
<1>6. transitions'[t] = r /\ \A x \in TransIds : x # t => transitions'[x] = transitions[x]
  <2>1. transitions'[t] = r  BY <1>3 DEF Typed, TablesTyped, OwnTransitions, TransIds
  <2>2. \A x \in TransIds : x # t => transitions'[x] = transitions[x]
    BY <1>3, <1>4, TransitionReplaced
  <2> QED  BY <2>1, <2>2
<1>7. OwnTransitions(v)' = OwnTransitions(v)  BY <1>3, <1>4, TransitionReplaced
<1>8. \A u \in Versions : u # v => OwnTransitions(u)' = OwnTransitions(u) /\ t \notin OwnTransitions(u)
  BY <1>3, <1>4, TransitionReplaced
<1>9. \A x \in TransIds' : transitions'[x].owner \in 0..Len(versions)
  BY <1>3, <1>4, TransitionReplaced
<1>10. versions' = [versions EXCEPT ![v] = versions[v]] /\ VersionRow(versions[v])
  BY <1>3, RowKept
<1>11. \A u \in Versions : u # v => ChildrenKept(u)
  <2> SUFFICES ASSUME NEW u \in Versions, u # v PROVE ChildrenKept(u)  OBVIOUS
  <2>1. OwnTransitions(u)' = OwnTransitions(u)  BY <1>8
  <2>2. \A x \in OwnTransitions(u) : transitions'[x] = transitions[x]  BY <1>6, <1>8 DEF OwnTransitions
  <2> QED  BY <1>3, <2>1, <2>2 DEF ChildrenKept, OwnPages, PageIds
<1>12. Len(versions') = Len(versions) => TablesTyped'
  BY <1>3, <1>5, <1>9 DEF Typed, TablesTyped, PageIds
<1>13. Loads(v, versions[v])'
  <2>1. OwnPages(v)' = OwnPages(v)  BY <1>3 DEF OwnPages, PageIds
  <2>2. OwnPages(v) = versions[v].pages /\ OwnTransitions(v)' = versions[v].transitions
    BY <1>7 DEF AllWhole, Whole, RecordsLoad, PageRecordsLoad, TransitionRecordsLoad
  <2>3. \A x \in OwnTransitions(v) : {transitions'[x].src, transitions'[x].dst} \subseteq OwnPages(v)
    BY <1>2, <1>3, <1>6 DEF AllWhole, Whole, RecordsLoad, TransitionRecordsLoad, OwnTransitions
  <2>4. versions[v].seeds \ {NoHint} \subseteq versions[v].pages /\ versions[v].budget \subseteq versions[v].pages
    BY DEF AllWhole, Whole, SeedsLoad, ContractHolds
  <2> QED  BY <1>3, <1>7, <2>1, <2>2, <2>3, <2>4 DEF Loads
<1>14. versions[v].state = "DRAFT"  BY <1>3, EditableIsDraft
<1> QED  BY <1>3, <1>10, <1>11, <1>12, <1>13, <1>14, EditKeeps

LEMMA DeletesTransition ==
    ASSUME AuthoringInv, AuthoringConstants, ~Concurrent,
           NEW v \in Versions, NEW t \in TransIds, DeleteDiscoveryTransition(v, t)
    PROVE  AuthoringInv' /\ Kept
<1> USE DEF AuthoringInv
<1>1. v \in Nat \ {0}  BY DEF Versions, Typed
<1>2. /\ transitions' = [transitions EXCEPT ![t] = Gone] /\ t \in OwnTransitions(v)
      /\ Editable(v) /\ EditRest /\ UNCHANGED pages
  BY DEF DeleteDiscoveryTransition
<1>3. Typed /\ Gone \in TransitionRow \cup {Gone} /\ Gone.owner \in {v, 0} /\ Gone.owner # v
  BY <1>1 DEF Gone, None
<1>4. transitions' \in Seq(TransitionRow \cup {Gone}) /\ Len(transitions') = Len(transitions)
  BY <1>2, <1>3, TransitionReplaced
<1>5. \A x \in TransIds : x # t => transitions'[x] = transitions[x]
  BY <1>2, <1>3, TransitionReplaced
<1>6. OwnTransitions(v)' = OwnTransitions(v) \ {t}  BY <1>2, <1>3, TransitionReplaced
<1>7. \A u \in Versions : u # v => OwnTransitions(u)' = OwnTransitions(u) /\ t \notin OwnTransitions(u)
  BY <1>2, <1>3, TransitionReplaced
<1>8. \A x \in TransIds' : transitions'[x].owner \in 0..Len(versions)
  BY <1>2, <1>3, TransitionReplaced
<1>9. PICK row : row = [versions[v] EXCEPT !.transitions = @ \ {t}]  OBVIOUS
<1>10. /\ VersionRow(row) /\ row.transitions = versions[v].transitions \ {t}
       /\ row.state = versions[v].state /\ row.base = versions[v].base
       /\ row.pages = versions[v].pages
       /\ row.seeds = versions[v].seeds /\ row.budget = versions[v].budget
  BY <1>9 DEF AllWhole, Whole, VersionRow
<1>11. versions' = [versions EXCEPT ![v] = row]
  BY <1>9 DEF DeleteDiscoveryTransition, Rewrites
<1>12. \A u \in Versions : u # v => ChildrenKept(u)
  <2> SUFFICES ASSUME NEW u \in Versions, u # v PROVE ChildrenKept(u)  OBVIOUS
  <2>1. OwnTransitions(u)' = OwnTransitions(u)  BY <1>7
  <2>2. \A x \in OwnTransitions(u) : transitions'[x] = transitions[x]  BY <1>5, <1>7 DEF OwnTransitions
  <2> QED  BY <1>2, <2>1, <2>2 DEF ChildrenKept, OwnPages, PageIds
<1>13. Len(versions') = Len(versions) => TablesTyped'
  BY <1>2, <1>4, <1>8 DEF Typed, TablesTyped, PageIds
<1>14. Loads(v, row)'
  <2>1. OwnPages(v)' = OwnPages(v)  BY <1>2 DEF OwnPages, PageIds
  <2>2. OwnPages(v) = row.pages /\ OwnTransitions(v)' = row.transitions
    BY <1>6, <1>10 DEF AllWhole, Whole, RecordsLoad, PageRecordsLoad, TransitionRecordsLoad
  <2>3. \A x \in OwnTransitions(v)' : {transitions'[x].src, transitions'[x].dst} \subseteq OwnPages(v)
    BY <1>5, <1>6 DEF AllWhole, Whole, RecordsLoad, TransitionRecordsLoad, OwnTransitions
  <2>4. row.seeds \ {NoHint} \subseteq row.pages /\ row.budget \subseteq row.pages
    BY <1>10 DEF AllWhole, Whole, SeedsLoad, ContractHolds
  <2> QED  BY <2>1, <2>2, <2>3, <2>4 DEF Loads
<1>15. row.state = "DRAFT"  BY <1>2, <1>10, EditableIsDraft
<1> QED  BY <1>2, <1>10, <1>11, <1>12, <1>13, <1>14, <1>15, EditKeeps

LEMMA UpdatesGuardrails ==
    ASSUME AuthoringInv, AuthoringConstants, ~Concurrent,
           NEW v \in Versions, NEW b \in SUBSET PageIds, UpdateGuardrails(v, b)
    PROVE  AuthoringInv' /\ Kept
<1> USE DEF AuthoringInv
<1>1. /\ Editable(v) /\ EditRest /\ UNCHANGED <<pages, transitions>> /\ b \subseteq versions[v].pages
      /\ versions' = [versions EXCEPT ![v] = [versions[v] EXCEPT !.budget = b]]
  BY DEF UpdateGuardrails, Rewrites
<1>2. PICK row : row = [versions[v] EXCEPT !.budget = b]  OBVIOUS
<1>3. b \in SUBSET Nat  BY DEF PageIds
<1>4. /\ VersionRow(row) /\ row.budget = b
      /\ row.state = versions[v].state /\ row.base = versions[v].base
      /\ row.pages = versions[v].pages /\ row.transitions = versions[v].transitions
      /\ row.seeds = versions[v].seeds
  BY <1>2, <1>3 DEF AllWhole, Whole, VersionRow
<1>5. \A u \in Versions : u # v => ChildrenKept(u)
  BY <1>1 DEF ChildrenKept, OwnPages, OwnTransitions, PageIds, TransIds
<1>6. Len(versions') = Len(versions) => TablesTyped'
  BY <1>1 DEF Typed, TablesTyped, PageIds, TransIds
<1>7. Loads(v, row)'
  <2>1. OwnPages(v)' = OwnPages(v) /\ OwnTransitions(v)' = OwnTransitions(v)
    BY <1>1 DEF OwnPages, OwnTransitions, PageIds, TransIds
  <2>2. /\ OwnPages(v) = row.pages /\ OwnTransitions(v) = row.transitions
        /\ \A t \in OwnTransitions(v) : {transitions'[t].src, transitions'[t].dst} \subseteq OwnPages(v)
    BY <1>1, <1>4 DEF AllWhole, Whole, RecordsLoad, PageRecordsLoad, TransitionRecordsLoad
  <2>3. row.seeds \ {NoHint} \subseteq row.pages /\ row.budget \subseteq row.pages
    BY <1>1, <1>4 DEF AllWhole, Whole, SeedsLoad
  <2> QED  BY <2>1, <2>2, <2>3 DEF Loads
<1>8. row.state = "DRAFT"  BY <1>1, <1>4, EditableIsDraft
<1>9. versions' = [versions EXCEPT ![v] = row]  BY <1>1, <1>2
<1> QED  BY <1>1, <1>4, <1>5, <1>6, <1>7, <1>8, <1>9, EditKeeps

LEMMA EditsKeep ==
    ASSUME AuthoringInv, AuthoringConstants, ~Concurrent, EditStep
    PROVE  AuthoringInv' /\ Kept
BY CreatesPageType, UpdatesPageType, DeletesPageType, EditsMatchers, CreatesTransition,
   UpdatesTransition, DeletesTransition, UpdatesGuardrails DEF EditStep

-----------------------------------------------------------------------------
(* The other steps.                                                         *)

\* The rows of the versions stay, and so does what their children mean.
LEMMA RowsStay ==
    ASSUME AuthoringInv, UNCHANGED versions, Typed', Pointers', CopyCurrent',
           \A u \in Versions : ChildrenKept(u)
    PROVE  AuthoringInv' /\ Kept
<1>1. \A u \in Versions : Untouched(u)  BY DEF Untouched
<1>2. Versions' = Versions  BY DEF Versions
<1>3. AllWhole'
  <2> SUFFICES ASSUME NEW u \in Versions PROVE Whole(u)'
    BY <1>2 DEF AllWhole
  <2> QED  BY <1>1, UntouchedWhole DEF AuthoringInv, AllWhole
<1> QED  BY <1>1, <1>2, <1>3 DEF AuthoringInv, Kept

LEMMA ReadsDraft ==
    ASSUME AuthoringInv, ReadDraft
    PROVE  AuthoringInv' /\ Kept
<1>1. UNCHANGED <<draft, published, versions, pages, transitions, lab>>  BY DEF ReadDraft
<1>2. Typed' /\ Pointers'
  BY <1>1 DEF AuthoringInv, Typed, TablesTyped, Pointers, PointersAgree, PointersLoad, PageIds, TransIds, Versions
<1>3. \A u \in Versions : ChildrenKept(u)
  BY <1>1 DEF ChildrenKept, OwnPages, OwnTransitions, PageIds, TransIds
<1>4. CopyCurrent'
  <2>1. draft \in Versions /\ versions[draft].state = "DRAFT" /\ VersionRow(versions[draft])
    <3>1. draft # 0 /\ Len(versions) \in Nat /\ draft \in 0..Len(versions)
      BY DEF ReadDraft, None, AuthoringInv, Pointers, Typed
    <3>2. draft \in Versions  BY <3>1 DEF Versions
    <3> QED  BY <3>1, <3>2 DEF AuthoringInv, Pointers, PointersAgree, PointersLoad, AllWhole, Whole, None
  <2>2. copy' = <<[id |-> draft, row |-> versions[draft]]>>  BY DEF ReadDraft
  <2>3. Versions' = Versions /\ versions'[draft] = versions[draft]  BY <1>1 DEF Versions
  <2> QED  BY <2>1, <2>2, <2>3 DEF CopyCurrent, HoldsDraft
<1> QED  BY <1>1, <1>2, <1>3, <1>4, RowsStay

LEMMA ReactivatesVersion ==
    ASSUME AuthoringInv, NEW v \in Versions, Reactivate(v)
    PROVE  AuthoringInv' /\ Kept
<1>1. UNCHANGED <<draft, versions, pages, transitions, lab, copy>> /\ published' = v
      /\ versions[v].state = "PUBLISHED"
  BY DEF Reactivate
<1>2. Typed'
  BY <1>1 DEF AuthoringInv, Typed, TablesTyped, PageIds, TransIds
<1>3. Pointers'
  <2>1. Len(versions) \in Nat  BY DEF AuthoringInv, Typed
  <2>2. v \in 0..Len(versions)  BY <2>1 DEF Versions
  <2> QED  BY <1>1, <2>2 DEF AuthoringInv, Pointers, PointersAgree, PointersLoad, Versions
<1>4. \A u \in Versions : ChildrenKept(u)
  BY <1>1 DEF ChildrenKept, OwnPages, OwnTransitions, PageIds, TransIds
<1>5. CopyCurrent'  BY <1>1 DEF AuthoringInv, CopyCurrent, HoldsDraft, Versions
<1> QED  BY <1>1, <1>2, <1>3, <1>4, <1>5, RowsStay

LEMMA StartsTest ==
    ASSUME AuthoringInv, NEW v \in Versions, NEW x, StartTest(v, x)
    PROVE  AuthoringInv' /\ Kept
<1>1. UNCHANGED <<draft, published, versions, pages, transitions, copy>> /\ \E y : lab' = <<y>>
  BY DEF StartTest
<1>2. Typed'
  BY <1>1 DEF AuthoringInv, Typed, TablesTyped, PageIds, TransIds
<1>3. Pointers' /\ CopyCurrent'
  BY <1>1 DEF AuthoringInv, Pointers, PointersAgree, PointersLoad, CopyCurrent, HoldsDraft, Versions
<1>4. \A u \in Versions : ChildrenKept(u)
  BY <1>1 DEF ChildrenKept, OwnPages, OwnTransitions, PageIds, TransIds
<1> QED  BY <1>1, <1>2, <1>3, <1>4, RowsStay

LEMMA FinishesTest ==
    ASSUME AuthoringInv, FinishTest
    PROVE  AuthoringInv' /\ Kept
<1>1. UNCHANGED <<draft, published, versions, pages, copy>> /\ lab' = <<>>  BY DEF FinishTest
<1>2. Pointers' /\ CopyCurrent'
  BY <1>1 DEF AuthoringInv, Pointers, PointersAgree, PointersLoad, CopyCurrent, HoldsDraft, Versions
<1>3. CASE UNCHANGED transitions
  <2>1. Typed'
    BY <1>1, <1>3 DEF AuthoringInv, Typed, TablesTyped, PageIds, TransIds
  <2>2. \A u \in Versions : ChildrenKept(u)
    BY <1>1, <1>3 DEF ChildrenKept, OwnPages, OwnTransitions, PageIds, TransIds
  <2> QED  BY <1>1, <1>2, <2>1, <2>2, RowsStay
<1>4. ASSUME NEW k, k \in TransIds, transitions[k].owner # None,
             transitions' = [transitions EXCEPT ![k].latest = TRUE]
      PROVE  AuthoringInv' /\ Kept
  <2>1. PICK r : r = [transitions[k] EXCEPT !.latest = TRUE]  OBVIOUS
  <2>2. transitions[k] \in TransitionRow
    BY <1>4 DEF AuthoringInv, Typed, TablesTyped, TransIds, Gone, None
  <2>3. /\ r \in TransitionRow /\ r.owner = transitions[k].owner
        /\ r.src = transitions[k].src /\ r.dst = transitions[k].dst
    BY <2>1, <2>2 DEF TransitionRow
  <2>4. transitions \in Seq(TransitionRow \cup {Gone})  BY DEF AuthoringInv, Typed, TablesTyped
  <2>5. transitions' = [transitions EXCEPT ![k] = r]  BY <1>4, <2>1
  <2>6. /\ transitions' \in Seq(TransitionRow \cup {Gone} \cup {r})
        /\ Len(transitions') = Len(transitions)
        /\ \A j \in 1..Len(transitions) : transitions'[j] = IF j = k THEN r ELSE transitions[j]
    <3>1. k \in 1..Len(transitions)  BY <1>4 DEF TransIds
    <3>2. PICK t : t = [transitions EXCEPT ![k] = r]  OBVIOUS
    <3> QED  BY <2>4, <2>5, <3>1, <3>2, TableReplaced
  <2>7. TransitionRow \cup {Gone} \cup {r} = TransitionRow \cup {Gone}  BY <2>3
  <2>8. TransIds' = TransIds /\ \A j \in TransIds : transitions'[j].owner = transitions[j].owner
    BY <2>3, <2>6 DEF TransIds
  <2>9. \A u : OwnTransitions(u)' = OwnTransitions(u)  BY <2>8 DEF OwnTransitions
  <2>10. \A j \in TransIds : transitions'[j].src = transitions[j].src /\ transitions'[j].dst = transitions[j].dst
    BY <2>3, <2>6 DEF TransIds
  <2>11. \A u \in Versions : ChildrenKept(u)
    BY <1>1, <2>9, <2>10 DEF ChildrenKept, OwnPages, OwnTransitions, PageIds
  <2>12. Typed'
    BY <1>1, <2>6, <2>7, <2>8 DEF AuthoringInv, Typed, TablesTyped, PageIds
  <2> QED  BY <1>1, <1>2, <2>11, <2>12, RowsStay
<1>5. CASE ~UNCHANGED transitions
  <2>1. PICK x : /\ x = lab[1].target /\ ReferenceExists(x) /\ x[1] = "transition"
                 /\ transitions' = [transitions EXCEPT ![x[2]].latest = TRUE]
    BY <1>5 DEF FinishTest
  <2>2. x[2] \in TransIds /\ transitions[x[2]].owner # None
    BY <2>1 DEF ReferenceExists
  <2> QED  BY <1>4, <2>1, <2>2
<1> QED  BY <1>3, <1>5

LEMMA SavesDraft ==
    ASSUME AuthoringInv, SaveDraft
    PROVE  AuthoringInv' /\ Kept
<1>1. /\ UNCHANGED <<draft, published, pages, transitions, lab>> /\ copy' = <<>>  BY DEF SaveDraft
<1>a. PICK i \in Versions : \E r : HoldsDraft(i, r)
  BY DEF SaveDraft, AuthoringInv, CopyCurrent, HoldsDraft
<1>b. PICK r : HoldsDraft(i, r)  BY <1>a
<1>2. /\ copy = <<[id |-> i, row |-> r]>>
      /\ VersionRow(r) /\ r.state = "DRAFT"
      /\ draft = i => versions[i] = r
  BY <1>b DEF HoldsDraft
<1>3. copy[1].id = i /\ copy[1].row = r  BY <1>2
<1>4. \A u \in Versions : ChildrenKept(u)
  BY <1>1 DEF ChildrenKept, OwnPages, OwnTransitions, PageIds, TransIds
<1>5. CASE UNCHANGED versions
  <2>1. Typed' /\ Pointers'
    BY <1>1, <1>5 DEF AuthoringInv, Typed, TablesTyped, Pointers, PointersAgree, PointersLoad,
                      PageIds, TransIds, Versions
  <2>2. CopyCurrent'  BY <1>1 DEF CopyCurrent, HoldsDraft
  <2> QED  BY <1>4, <1>5, <2>1, <2>2, RowsStay
<1>6. CASE ~UNCHANGED versions
  <2>1. PICK seeds \in SeedChoices :
           /\ ContractHolds([r EXCEPT !.seeds = seeds]) /\ SaveAccepted(i)
           /\ versions' = [versions EXCEPT ![i] = [r EXCEPT !.seeds = seeds]]
    BY <1>3, <1>6 DEF SaveDraft
  <2>2. PICK row : row = [r EXCEPT !.seeds = seeds]  OBVIOUS
  <2>3. seeds \in SUBSET Nat /\ seeds \ {NoHint} \subseteq r.pages
    BY <1>2, <1>3 DEF SeedChoices, NoHint, VersionRow
  <2>4. /\ VersionRow(row) /\ row.state = "DRAFT" /\ row.base = r.base /\ row.pages = r.pages
        /\ row.transitions = r.transitions /\ row.seeds = seeds /\ row.budget = r.budget
    BY <1>2, <2>2, <2>3 DEF VersionRow
  <2>5. draft = i /\ versions[i].state = "DRAFT" /\ versions[i] = r  BY <1>2, <2>1 DEF SaveAccepted
  <2>6. versions' = [versions EXCEPT ![i] = row]  BY <2>1, <2>2
  <2>7. Len(versions') = Len(versions) => TablesTyped'
    BY <1>1 DEF AuthoringInv, Typed, TablesTyped, PageIds, TransIds
  <2>8. Loads(i, row)'
    <3>1. /\ OwnPages(i) = row.pages /\ OwnTransitions(i) = row.transitions
          /\ \A t \in OwnTransitions(i) : {transitions[t].src, transitions[t].dst} \subseteq OwnPages(i)
      BY <2>4, <2>5 DEF AuthoringInv, AllWhole, Whole, RecordsLoad, PageRecordsLoad, TransitionRecordsLoad
    <3>2. OwnPages(i)' = OwnPages(i) /\ OwnTransitions(i)' = OwnTransitions(i)
      BY <1>1 DEF OwnPages, OwnTransitions, PageIds, TransIds
    <3>3. row.seeds \ {NoHint} \subseteq row.pages /\ row.budget \subseteq row.pages
      BY <2>3, <2>4, <2>5 DEF AuthoringInv, AllWhole, Whole, ContractHolds
    <3> QED  BY <1>1, <3>1, <3>2, <3>3 DEF Loads
  <2> QED  BY <1>1, <1>4, <2>4, <2>5, <2>6, <2>7, <2>8, RowRewritten
<1> QED  BY <1>5, <1>6

LEMMA Publishes ==
    ASSUME AuthoringInv, AuthoringConstants, NEW v \in Versions, Publish(v)
    PROVE  AuthoringInv' /\ Kept
<1>1. /\ draft = v /\ versions[v].state = "DRAFT" /\ Publishable(v)
      /\ published' = v /\ draft' = None /\ UNCHANGED <<pages, transitions, lab, copy>>
  BY DEF Publish
<1>2. PICK h : h = Hash(Config(v))  OBVIOUS
<1>3. PICK row : row = [versions[v] EXCEPT !.state = "PUBLISHED", !.hash = h]  OBVIOUS
<1>4. VersionRow(versions[v]) /\ versions[v].base < v /\ RecordsLoad(v)
  BY DEF AuthoringInv, AllWhole, Whole
<1>5. /\ VersionRow(row) /\ row.state = "PUBLISHED" /\ row.hash = h /\ row.base = versions[v].base
      /\ row.pages = versions[v].pages /\ row.transitions = versions[v].transitions
      /\ row.seeds = versions[v].seeds /\ row.budget = versions[v].budget
  BY <1>3, <1>4 DEF VersionRow
<1>6. PICK R : versions \in Seq(R)  BY DEF AuthoringInv, Typed
<1>7. PICK n \in Nat : n = Len(versions)  BY <1>6
<1>8. versions' = [versions EXCEPT ![v] = row]
  BY <1>2, <1>3, <1>6 DEF Publish, Versions
<1>9. /\ versions' \in Seq(R \cup {row}) /\ Len(versions') = n
      /\ \A j \in 1..n : versions'[j] = IF j = v THEN row ELSE versions[j]
  BY <1>6, <1>7, <1>8, TableReplaced DEF Versions
<1>10. Versions = 1..n /\ Versions' = 1..n  BY <1>7, <1>9 DEF Versions
<1>11. versions'[v] = row /\ \A u \in Versions : u # v => versions'[u] = versions[u]
  BY <1>9, <1>10
<1>12. /\ OwnPages(v)' = OwnPages(v) /\ OwnTransitions(v)' = OwnTransitions(v)
       /\ \A u : OwnPages(u)' = OwnPages(u) /\ OwnTransitions(u)' = OwnTransitions(u)
  BY <1>1 DEF OwnPages, OwnTransitions, PageIds, TransIds
<1>13. \A u \in Versions : u # v => Untouched(u)
  BY <1>1, <1>11, <1>12 DEF Untouched, ChildrenKept
<1>14. Typed'
  BY <1>1, <1>7, <1>9 DEF AuthoringInv, Typed, TablesTyped, PageIds, TransIds
<1>15. Whole(v)'
  <2>1. RecordsLoad(v)' /\ SeedsLoad(v)' /\ ContractHolds(versions[v])'
    BY <1>1, <1>5, <1>11, <1>12
       DEF AuthoringInv, AllWhole, Whole, RecordsLoad, PageRecordsLoad, TransitionRecordsLoad,
           SeedsLoad, ContractHolds
  <2>2. Config(v)' = Config(v)
    BY <1>1, <1>5, <1>11, <1>12 DEF Config
  <2>3. HashAudited(v)'
    BY <1>2, <1>5, <1>11, <2>2 DEF HashAudited
  <2>4. Ambiguous(v)' = Ambiguous(v)
    BY <1>1, <1>12 DEF Ambiguous
  <2>5. versions'[v].seeds # {} /\ ~Ambiguous(v)'
    BY <1>1, <1>5, <1>11, <2>4 DEF Publishable
  <2>6. VersionRow(versions[v])'  BY <1>5, <1>11
  <2>7. versions'[v].base < v  BY <1>4, <1>5, <1>11
  <2> QED  BY <2>1, <2>3, <2>5, <2>6, <2>7 DEF Whole
<1>16. AllWhole'
  <2>1. ASSUME NEW u \in Versions, u # v PROVE Whole(u)'
    BY <1>13, <2>1, UntouchedWhole DEF AuthoringInv, AllWhole
  <2> QED  BY <1>10, <1>15, <2>1 DEF AllWhole
<1>17. Pointers'
  <2>1. draft' \in 0..Len(versions') /\ published' \in 0..Len(versions')
    BY <1>1, <1>7, <1>9, <1>10 DEF None
  <2>2. PointersLoad'  BY <1>1, <1>5, <1>11 DEF PointersLoad
  <2>3. \A u \in Versions : u # v => versions[u].state # "DRAFT"
    BY <1>1 DEF AuthoringInv, Pointers, PointersAgree
  <2>4. \A u \in Versions' : versions'[u].state # "DRAFT"
    BY <1>5, <1>10, <1>11, <2>3
  <2> QED  BY <2>1, <2>2, <2>4 DEF Pointers, PointersAgree
<1>18. CopyCurrent'
  <2>1. \A i \in Versions : i \in Versions' /\ draft' # i  BY <1>1, <1>10 DEF None
  <2> QED  BY <1>1, <2>1 DEF AuthoringInv, CopyCurrent, HoldsDraft
<1> QED  BY <1>1, <1>10, <1>13, <1>14, <1>16, <1>17, <1>18 DEF AuthoringInv, Kept

-----------------------------------------------------------------------------
(* A new version.                                                           *)

LEMMA VersionAppended ==
    ASSUME AuthoringInv, NEW n \in Nat, n = Len(versions), draft = None, draft' = n + 1,
           UNCHANGED <<published, lab, copy>>,
           NEW row, VersionRow(row), versions' = Append(versions, row),
           row.state = "DRAFT", row.base <= n, n + 1 <= MaxVersions,
           Len(versions') = n + 1 => TablesTyped',
           \A u \in Versions : ChildrenKept(u),
           Loads(n + 1, row)'
    PROVE  AuthoringInv' /\ Kept
<1>1. PICK R : versions \in Seq(R)  BY DEF AuthoringInv, Typed
<1>2. n \in Nat /\ n = Len(versions)  OBVIOUS
<1>3. /\ versions' \in Seq(R \cup {row}) /\ Len(versions') = n + 1
      /\ \A j \in 1..n : versions'[j] = versions[j]
      /\ versions'[n + 1] = row
  BY <1>1, <1>2, TableAppended
<1>4. Versions = 1..n /\ Versions' = 1..(n + 1)  BY <1>2, <1>3 DEF Versions
<1>5. \A u \in Versions : Untouched(u)  BY <1>3, <1>4 DEF Untouched
<1>6. Typed'  BY <1>2, <1>3 DEF AuthoringInv, Typed
<1>7. Whole(n + 1)'
  <2>1. VersionRow(versions[n + 1])'  BY <1>3
  <2>2. versions'[n + 1].base < n + 1
    <3>1. PICK b \in Nat : b = row.base /\ b <= n  BY <1>2 DEF VersionRow
    <3>2. b < n + 1  BY <3>1
    <3>3. versions'[n + 1].base = b  BY <1>3, <3>1
    <3> QED  BY <3>2, <3>3
  <2>3. RecordsLoad(n + 1)' /\ SeedsLoad(n + 1)' /\ ContractHolds(versions[n + 1])'
    BY <1>3
       DEF Loads, RecordsLoad, PageRecordsLoad, TransitionRecordsLoad, SeedsLoad, ContractHolds
  <2>4. versions'[n + 1].state # "PUBLISHED"  BY <1>3
  <2> QED  BY <2>1, <2>2, <2>3, <2>4 DEF Whole
<1>8. AllWhole'
  <2>1. ASSUME NEW u \in Versions PROVE Whole(u)'
    BY <1>5, UntouchedWhole DEF AuthoringInv, AllWhole
  <2>2. \A u \in Versions' : u \in Versions \/ u = n + 1  BY <1>4
  <2> QED  BY <1>7, <2>1, <2>2 DEF AllWhole
<1>9. Pointers'
  <2>1. draft' = n + 1 /\ draft' \in 0..Len(versions') /\ published' \in 0..Len(versions')
    BY <1>2, <1>3 DEF AuthoringInv, Pointers
  <2>2. published' # None => published \in Versions
    BY <1>2, <1>4 DEF AuthoringInv, Pointers, None
  <2>3. PointersLoad'
    BY <1>3, <1>4, <2>1, <2>2 DEF AuthoringInv, Pointers, PointersAgree, PointersLoad
  <2>4. \A v \in Versions : versions[v].state # "DRAFT"
    BY <1>4 DEF AuthoringInv, Pointers, PointersAgree, None
  <2>5. \A v \in Versions' : versions'[v].state = "DRAFT" => draft' = v
    BY <1>3, <1>4, <2>1, <2>4
  <2> QED  BY <2>1, <2>3, <2>5 DEF Pointers, PointersAgree
<1>10. CopyCurrent'
  <2>1. \A i \in Versions : i \in Versions' /\ draft' # i  BY <1>2, <1>4
  <2> QED  BY <2>1 DEF AuthoringInv, CopyCurrent, HoldsDraft
<1>11. Versions \subseteq Versions'  BY <1>4
<1> QED  BY <1>5, <1>6, <1>8, <1>9, <1>10, <1>11 DEF AuthoringInv, Kept

LEMMA CreatesDraft ==
    ASSUME AuthoringInv, AuthoringConstants, CreateDraft
    PROVE  AuthoringInv' /\ Kept
<1>1. PICK n \in Nat : n = Len(versions)  BY DEF AuthoringInv, Typed
<1>2. PICK m \in Nat : m = MaxVersions  BY DEF AuthoringConstants
<1>3. n + 1 <= MaxVersions  BY <1>1, <1>2 DEF CreateDraft
<1>4. /\ draft = None /\ versions' = Append(versions, BlankVersion)
      /\ draft' = n + 1 /\ UNCHANGED <<published, pages, transitions, lab, copy>>
  BY <1>1 DEF CreateDraft
<1>a. PICK row : row = BlankVersion  OBVIOUS
<1>5. /\ VersionRow(row) /\ row.state = "DRAFT" /\ row.base = 0
      /\ row.pages = {} /\ row.transitions = {} /\ row.seeds = {} /\ row.budget = {}
  BY <1>a DEF BlankVersion, VersionRow, None
<1>6. \A u : OwnPages(u)' = OwnPages(u) /\ OwnTransitions(u)' = OwnTransitions(u)
  BY <1>4 DEF OwnPages, OwnTransitions, PageIds, TransIds
<1>7. \A u \in Versions : ChildrenKept(u)
  BY <1>4, <1>6 DEF ChildrenKept
<1>8. ASSUME Len(versions') = n + 1 PROVE TablesTyped'
  <2>1. \A k \in 0..n : k \in 0..(n + 1)  BY <1>1
  <2> QED  BY <1>1, <1>4, <1>8, <2>1 DEF AuthoringInv, Typed, TablesTyped, PageIds, TransIds
<1>9. OwnPages(n + 1) = {} /\ OwnTransitions(n + 1) = {}
  BY <1>1 DEF AuthoringInv, Typed, TablesTyped, OwnPages, OwnTransitions
<1>10. Loads(n + 1, row)'
  <2>1. OwnPages(n + 1)' = {} /\ OwnTransitions(n + 1)' = {}  BY <1>6, <1>9
  <2> QED  BY <1>5, <2>1 DEF Loads
<1> QED  BY <1>1, <1>3, <1>4, <1>a, <1>5, <1>7, <1>8, <1>10, VersionAppended

-----------------------------------------------------------------------------
(* New identities.  They are the next numbers, one for each original.       *)

Follows(f, S, n, k) ==
    /\ f \in [S -> Nat]
    /\ \A x, y \in S : f[x] = f[y] => x = y
    /\ \A x \in S : f[x] \in 1..(n + k) /\ f[x] \notin 1..n
    /\ \A x \in S : \E i \in 1..k : f[x] = n + i
    /\ \A i \in 1..k : \E x \in S : f[x] = n + i

LEMMA NewIdsFollow ==
    ASSUME NEW S \in SUBSET Nat, IsFiniteSet(S), NEW n \in Nat,
           NEW k \in Nat, k = Cardinality(S),
           NEW f, f = NewId(S, n)
    PROVE  Follows(f, S, n, k)
<1> DEFINE below(x) == {y \in S : y <= x}
           T == (n + 1)..(n + k)
<1>1. \A x \in S : below(x) \in SUBSET S /\ x \in below(x)  OBVIOUS
<1>2. f = [x \in S |-> n + Cardinality(below(x))]  BY DEF NewId
<1>a. ASSUME NEW x \in S, NEW y \in S, x < y
      PROVE  below(x) \in SUBSET below(y) /\ y \notin below(x) /\ y \in below(y)
  <2>1. x \in Nat /\ y \in Nat  OBVIOUS
  <2>2. \A z \in S : z \in Nat /\ (z <= x => z <= y)  BY <1>a, <2>1
  <2>3. below(x) \subseteq below(y)  BY <2>2
  <2>4. ~(y <= x) /\ y <= y  BY <1>a, <2>1
  <2> QED  BY <2>3, <2>4
<1> HIDE DEF below
<1>3. ASSUME NEW x \in S PROVE Cardinality(below(x)) \in 1..k
  <2>1. IsFiniteSet(below(x)) /\ Cardinality(below(x)) <= k
    BY <1>1, FS_Subset
  <2>2. Cardinality(below(x)) \in Nat  BY <2>1, FS_CardinalityType
  <2>3. Cardinality(below(x)) # 0  BY <1>1, <2>1, FS_EmptySet
  <2> QED  BY <2>1, <2>2, <2>3
<1>4. ASSUME NEW x \in S, NEW y \in S, x < y
      PROVE  Cardinality(below(x)) # Cardinality(below(y))
  <2>1. IsFiniteSet(below(y))  BY <1>1, FS_Subset
  <2>2. below(x) \in SUBSET below(y) /\ y \notin below(x) /\ y \in below(y)
    BY <1>4, <1>a
  <2>3. below(x) # below(y)  BY <2>2
  <2> QED  BY <2>1, <2>2, <2>3, FS_Subset
<1>5. \A x \in S : f[x] = n + Cardinality(below(x)) /\ f[x] \in T
  BY <1>2, <1>3
<1>6. f \in [S -> T] /\ DOMAIN f = S  BY <1>2, <1>5
<1>7. \A x, y \in S : f[x] = f[y] => x = y
  <2> SUFFICES ASSUME NEW x \in S, NEW y \in S, f[x] = f[y], x # y PROVE FALSE  OBVIOUS
  <2>1. PICK a \in Nat, b \in Nat : a = Cardinality(below(x)) /\ b = Cardinality(below(y))
    BY <1>3
  <2>2. n + a = n + b  BY <1>5, <2>1
  <2>3. a = b  BY <2>2
  <2>4. x < y \/ y < x  OBVIOUS
  <2> QED  BY <1>4, <2>1, <2>3, <2>4
<1>8. f \in Injection(S, T)  BY <1>6, <1>7 DEF Injection, IsInjective
<1>9. IsFiniteSet(T) /\ Cardinality(T) = k
  <2>1. n + 1 \in Int /\ n + k \in Int  OBVIOUS
  <2>2. IsFiniteSet(T) /\ Cardinality(T) = IF n + 1 > n + k THEN 0 ELSE (n + k) - (n + 1) + 1
    BY <2>1, FS_Interval
  <2> QED  BY <2>2
<1>10. f \in Surjection(S, T)  BY <1>8, <1>9, FS_Injection
<1>11. \A i \in T : \E x \in S : f[x] = i  BY <1>10 DEF Surjection
<1>12. \A x \in S : \E i \in 1..k : f[x] = n + i
  BY <1>3, <1>5
<1>13. \A i \in 1..k : \E x \in S : f[x] = n + i
  <2>1. \A i \in 1..k : n + i \in T  OBVIOUS
  <2> QED  BY <1>11, <2>1
<1>14. \A x \in S : f[x] \in 1..(n + k) /\ f[x] \notin 1..n /\ f[x] \in Nat
  BY <1>12
<1> QED  BY <1>6, <1>7, <1>12, <1>13, <1>14 DEF Follows

\* The rows of a joined table: the old ones, then the new ones.
Joined(R, t, s, n, g, k) ==
    /\ t \in Seq(R) /\ Len(t) = n + k /\ 1..n \subseteq 1..(n + k)
    /\ \A i \in 1..n : t[i] = s[i]
    /\ \A i \in 1..k : t[n + i] = g[i]
    /\ \A j \in 1..(n + k) : j \in 1..n \/ \E i \in 1..k : j = n + i

LEMMA RowsJoined ==
    ASSUME NEW R, NEW s \in Seq(R), NEW n \in Nat, n = Len(s),
           NEW k \in Nat, NEW g \in [1..k -> R], NEW t, t = s \o g
    PROVE  Joined(R, t, s, n, g, k)
<1>1. t \in Seq(R) /\ Len(t) = n + k  BY TablesJoined
<1>2. \A i \in 1..n : t[i] = s[i]  BY TablesJoined
<1>3. \A i \in 1..k : t[n + i] = g[i]  BY TablesJoined
<1>4. ASSUME NEW j \in 1..(n + k), j \notin 1..n
      PROVE  \E i \in 1..k : j = n + i
  <2>1. j - n \in 1..k /\ j = n + (j - n)  BY <1>4
  <2> QED  BY <2>1
<1>5. 1..n \subseteq 1..(n + k)  OBVIOUS
<1> QED  BY <1>1, <1>2, <1>3, <1>4, <1>5 DEF Joined

\* The original of a copy.
LEMMA OriginalIs ==
    ASSUME NEW f, NEW x \in DOMAIN f, \A y \in DOMAIN f : f[x] = f[y] => x = y
    PROVE  Original(f, f[x]) = x
BY DEF Original

PagesCloned(s, v, np, m) ==
    /\ pages' \in Seq(PageRow \cup {Gone}) /\ Len(pages') = m
    /\ \A p \in PageIds : pages'[p] = pages[p]
    /\ \A p \in OwnPages(s) : pages'[np[p]] = [pages[p] EXCEPT !.owner = v]
    /\ OwnPages(v)' = {np[p] : p \in OwnPages(s)}
    /\ \A u \in Versions : OwnPages(u)' = OwnPages(u)
    /\ \A p \in PageIds' : pages'[p].owner \in 0..v

LEMMA ClonesPages ==
    ASSUME AuthoringInv, NEW s \in Versions, NEW v \in Nat, v = Len(versions) + 1,
           NEW P, P = OwnPages(s),
           NEW n \in Nat, n = Len(pages), NEW k \in Nat, k = Cardinality(P),
           NEW np, np = NewId(P, n), pages' = pages \o ClonedPages(np, v)
    PROVE  PagesCloned(s, v, np, n + k)
<1>1. P \in SUBSET Nat /\ IsFiniteSet(P)
  <2>1. IsFiniteSet(OwnPages(s))  BY ChildrenFinite DEF AuthoringInv
  <2>2. OwnPages(s) \in SUBSET Nat  BY DEF OwnPages, PageIds
  <2> QED  BY <2>1, <2>2
<1>2. /\ DOMAIN np = P
      /\ \A x, y \in P : np[x] = np[y] => x = y
      /\ \A x \in P : np[x] \in 1..(n + k) /\ np[x] \notin 1..n
      /\ \A x \in P : \E i \in 1..k : np[x] = n + i
      /\ \A i \in 1..k : \E x \in P : np[x] = n + i
  <2>1. Follows(np, P, n, k)  BY <1>1, NewIdsFollow
  <2> QED  BY <2>1 DEF Follows
<1>3. \A x \in P : Original(np, np[x]) = x
  BY <1>2, OriginalIs
<1>4. s \in Nat \ {0} /\ v # 0  BY DEF Versions, AuthoringInv, Typed
<1>5. \A x \in P : x \in PageIds /\ pages[x] \in PageRow
  BY <1>4, ChildRows DEF AuthoringInv
<1>6. PICK g : g = ClonedPages(np, v)  OBVIOUS
<1>7. g = [i \in 1..k |-> [pages[Original(np, n + i)] EXCEPT !.owner = v]]
  BY <1>2, <1>6 DEF ClonedPages
<1>8. ASSUME NEW i \in 1..k, NEW x \in P, np[x] = n + i
      PROVE  g[i] = [pages[x] EXCEPT !.owner = v] /\ g[i] \in PageRow /\ g[i].owner = v
  <2>1. Original(np, n + i) = x  BY <1>3, <1>8
  <2>2. g[i] = [pages[x] EXCEPT !.owner = v]  BY <1>7, <2>1
  <2>3. pages[x] \in PageRow /\ v \in Nat  BY <1>5
  <2>4. g[i] \in PageRow /\ g[i].owner = v  BY <2>2, <2>3 DEF PageRow
  <2> QED  BY <2>2, <2>4
<1>9. g \in [1..k -> PageRow \cup {Gone}]
  <2>1. ASSUME NEW i \in 1..k PROVE g[i] \in PageRow
    <3>1. PICK x \in P : np[x] = n + i  BY <1>2
    <3> QED  BY <1>8, <3>1
  <2> QED  BY <1>7, <2>1
<1>10. /\ pages' \in Seq(PageRow \cup {Gone}) /\ Len(pages') = n + k /\ 1..n \subseteq 1..(n + k)
       /\ \A i \in 1..n : pages'[i] = pages[i]
       /\ \A i \in 1..k : pages'[n + i] = g[i]
       /\ \A j \in 1..(n + k) : j \in 1..n \/ \E i \in 1..k : j = n + i
  <2>1. pages \in Seq(PageRow \cup {Gone})  BY DEF AuthoringInv, Typed, TablesTyped
  <2>2. pages' = pages \o g  BY <1>6
  <2>3. Joined(PageRow \cup {Gone}, pages', pages, n, g, k)
    <3>1. PICK t : t = pages \o g  OBVIOUS
    <3>2. Joined(PageRow \cup {Gone}, t, pages, n, g, k)  BY <1>9, <2>1, <3>1, RowsJoined
    <3> QED  BY <2>2, <3>1, <3>2
  <2> QED  BY <2>3 DEF Joined
<1>11. PageIds = 1..n /\ PageIds' = 1..(n + k)  BY <1>10 DEF PageIds
<1>12. \A p \in P : pages'[np[p]] = [pages[p] EXCEPT !.owner = v] /\ pages'[np[p]].owner = v
  <2> SUFFICES ASSUME NEW p \in P
               PROVE  pages'[np[p]] = [pages[p] EXCEPT !.owner = v] /\ pages'[np[p]].owner = v
    OBVIOUS
  <2>1. PICK i \in 1..k : np[p] = n + i  BY <1>2
  <2>2. g[i] = [pages[p] EXCEPT !.owner = v] /\ g[i].owner = v  BY <1>8, <2>1
  <2>3. pages'[np[p]] = g[i]  BY <1>10, <2>1
  <2> QED  BY <2>2, <2>3
<1>13. \A q \in 1..(n + k) : q \in 1..n \/ \E p \in P : q = np[p]
  BY <1>2, <1>10
<1>14. PICK w \in Nat : w = Len(versions) /\ v = w + 1  BY DEF AuthoringInv, Typed
<1>15. \A q \in 1..n : pages[q].owner \in 0..w
  BY <1>11, <1>14 DEF AuthoringInv, Typed, TablesTyped
<1>16. ASSUME NEW q \in 1..n PROVE pages'[q].owner \in 0..v /\ pages'[q].owner # v
  BY <1>10, <1>14, <1>15
<1>17. OwnPages(v)' = {np[p] : p \in P}
  <2>1. OwnPages(v)' = {q \in 1..(n + k) : pages'[q].owner = v}  BY <1>11 DEF OwnPages
  <2>2. \A q \in OwnPages(v)' : \E p \in P : q = np[p]  BY <1>13, <1>16, <2>1
  <2>3. \A p \in P : np[p] \in OwnPages(v)'  BY <1>2, <1>12, <2>1
  <2> QED  BY <2>2, <2>3
<1>18. ASSUME NEW u \in Versions PROVE OwnPages(u)' = OwnPages(u)
  <2>1. u # v
    <3>1. u \in 1..w  BY <1>14 DEF Versions
    <3> QED  BY <1>14, <3>1
  <2>2. OwnPages(u)' = {q \in 1..(n + k) : pages'[q].owner = u}  BY <1>11 DEF OwnPages
  <2>3. OwnPages(u) = {q \in 1..n : pages[q].owner = u}  BY <1>11 DEF OwnPages
  <2>4. \A q \in OwnPages(u)' : q \in 1..n
    <3> SUFFICES ASSUME NEW q \in 1..(n + k), pages'[q].owner = u, q \notin 1..n PROVE FALSE
      BY <2>2
    <3>1. PICK p \in P : q = np[p]  BY <1>13
    <3> QED  BY <1>12, <2>1, <3>1
  <2> QED  BY <1>10, <2>2, <2>3, <2>4
<1>19. \A p \in PageIds' : pages'[p].owner \in 0..v
  <2> SUFFICES ASSUME NEW q \in 1..(n + k) PROVE pages'[q].owner \in 0..v  BY <1>11
  <2>1. CASE q \in 1..n  BY <1>16, <2>1
  <2>2. ASSUME NEW p \in P, q = np[p] PROVE pages'[q].owner \in 0..v
    <3>1. v \in 0..v  OBVIOUS
    <3> QED  BY <1>12, <2>2, <3>1
  <2> QED  BY <1>13, <2>1, <2>2
<1> QED  BY <1>10, <1>11, <1>12, <1>17, <1>18, <1>19 DEF PagesCloned

\* The copy of a transition.
Copied(t, v, np) == [t EXCEPT !.owner = v, !.src = np[@], !.dst = np[@], !.latest = FALSE]

TransitionsCloned(s, v, np, nt, m) ==
    /\ transitions' \in Seq(TransitionRow \cup {Gone}) /\ Len(transitions') = m
    /\ \A p \in TransIds : transitions'[p] = transitions[p]
    /\ \A p \in OwnTransitions(s) : transitions'[nt[p]] = Copied(transitions[p], v, np)
    /\ OwnTransitions(v)' = {nt[p] : p \in OwnTransitions(s)}
    /\ \A u \in Versions : OwnTransitions(u)' = OwnTransitions(u)
    /\ \A p \in TransIds' : transitions'[p].owner \in 0..v

LEMMA ClonesTransitions ==
    ASSUME AuthoringInv, NEW s \in Versions, NEW v \in Nat, v = Len(versions) + 1,
           NEW np, \A x \in OwnPages(s) : np[x] \in Nat, NEW T, T = OwnTransitions(s),
           NEW n \in Nat, n = Len(transitions), NEW k \in Nat, k = Cardinality(T),
           NEW nt, nt = NewId(T, n), transitions' = transitions \o ClonedTransitions(nt, v, np),
           NEW m, m = n + k
    PROVE  TransitionsCloned(s, v, np, nt, m)
<1>1. T \in SUBSET Nat /\ IsFiniteSet(T)
  <2>1. IsFiniteSet(OwnTransitions(s))  BY ChildrenFinite DEF AuthoringInv
  <2>2. OwnTransitions(s) \in SUBSET Nat  BY DEF OwnTransitions, TransIds
  <2> QED  BY <2>1, <2>2
<1>2. /\ DOMAIN nt = T
      /\ \A x, y \in T : nt[x] = nt[y] => x = y
      /\ \A x \in T : nt[x] \in 1..(n + k) /\ nt[x] \notin 1..n
      /\ \A x \in T : \E i \in 1..k : nt[x] = n + i
      /\ \A i \in 1..k : \E x \in T : nt[x] = n + i
  <2>1. Follows(nt, T, n, k)  BY <1>1, NewIdsFollow
  <2> QED  BY <2>1 DEF Follows
<1>3. \A x \in T : Original(nt, nt[x]) = x
  BY <1>2, OriginalIs
<1>4. s \in Nat \ {0} /\ v # 0  BY DEF Versions, AuthoringInv, Typed
<1>5. \A x \in T : x \in TransIds /\ transitions[x] \in TransitionRow
  BY <1>4, ChildRows DEF AuthoringInv
<1>6. PICK g : g = ClonedTransitions(nt, v, np)  OBVIOUS
<1>7. g = [i \in 1..k |-> Copied(transitions[Original(nt, n + i)], v, np)]
  BY <1>2, <1>6 DEF ClonedTransitions, Copied
<1>8. ASSUME NEW i \in 1..k, NEW x \in T, nt[x] = n + i
      PROVE  g[i] = Copied(transitions[x], v, np) /\ g[i] \in TransitionRow /\ g[i].owner = v
  <2>1. Original(nt, n + i) = x  BY <1>3, <1>8
  <2>2. g[i] = Copied(transitions[x], v, np)  BY <1>7, <2>1
  <2>3. transitions[x] \in TransitionRow /\ v \in Nat  BY <1>5
  <2>4. transitions[x].src \in OwnPages(s) /\ transitions[x].dst \in OwnPages(s)
    BY DEF AuthoringInv, AllWhole, Whole, RecordsLoad, TransitionRecordsLoad
  <2>5. np[transitions[x].src] \in Nat /\ np[transitions[x].dst] \in Nat  BY <2>4
  <2>6. g[i] \in TransitionRow /\ g[i].owner = v
    BY <2>2, <2>3, <2>5 DEF TransitionRow, Copied
  <2> QED  BY <2>2, <2>6
<1>9. g \in [1..k -> TransitionRow \cup {Gone}]
  <2>1. ASSUME NEW i \in 1..k PROVE g[i] \in TransitionRow
    <3>1. PICK x \in T : nt[x] = n + i  BY <1>2
    <3> QED  BY <1>8, <3>1
  <2> QED  BY <1>7, <2>1
<1>10. /\ transitions' \in Seq(TransitionRow \cup {Gone}) /\ Len(transitions') = n + k /\ 1..n \subseteq 1..(n + k)
       /\ \A i \in 1..n : transitions'[i] = transitions[i]
       /\ \A i \in 1..k : transitions'[n + i] = g[i]
       /\ \A j \in 1..(n + k) : j \in 1..n \/ \E i \in 1..k : j = n + i
  <2>1. transitions \in Seq(TransitionRow \cup {Gone})  BY DEF AuthoringInv, Typed, TablesTyped
  <2>2. transitions' = transitions \o g  BY <1>6
  <2>3. Joined(TransitionRow \cup {Gone}, transitions', transitions, n, g, k)
    <3>1. PICK t : t = transitions \o g  OBVIOUS
    <3>2. Joined(TransitionRow \cup {Gone}, t, transitions, n, g, k)  BY <1>9, <2>1, <3>1, RowsJoined
    <3> QED  BY <2>2, <3>1, <3>2
  <2> QED  BY <2>3 DEF Joined
<1>11. TransIds = 1..n /\ TransIds' = 1..(n + k)  BY <1>10 DEF TransIds
<1>12. \A p \in T : transitions'[nt[p]] = Copied(transitions[p], v, np) /\ transitions'[nt[p]].owner = v
  <2> SUFFICES ASSUME NEW p \in T
               PROVE  transitions'[nt[p]] = Copied(transitions[p], v, np) /\ transitions'[nt[p]].owner = v
    OBVIOUS
  <2>1. PICK i \in 1..k : nt[p] = n + i  BY <1>2
  <2>2. g[i] = Copied(transitions[p], v, np) /\ g[i].owner = v  BY <1>8, <2>1
  <2>3. transitions'[nt[p]] = g[i]  BY <1>10, <2>1
  <2> QED  BY <2>2, <2>3
<1>13. \A q \in 1..(n + k) : q \in 1..n \/ \E p \in T : q = nt[p]
  BY <1>2, <1>10
<1>14. PICK w \in Nat : w = Len(versions) /\ v = w + 1  BY DEF AuthoringInv, Typed
<1>15. \A q \in 1..n : transitions[q].owner \in 0..w
  BY <1>11, <1>14 DEF AuthoringInv, Typed, TablesTyped
<1>16. ASSUME NEW q \in 1..n PROVE transitions'[q].owner \in 0..v /\ transitions'[q].owner # v
  BY <1>10, <1>14, <1>15
<1>17. OwnTransitions(v)' = {nt[p] : p \in T}
  <2>1. OwnTransitions(v)' = {q \in 1..(n + k) : transitions'[q].owner = v}  BY <1>11 DEF OwnTransitions
  <2>2. \A q \in OwnTransitions(v)' : \E p \in T : q = nt[p]  BY <1>13, <1>16, <2>1
  <2>3. \A p \in T : nt[p] \in OwnTransitions(v)'  BY <1>2, <1>12, <2>1
  <2> QED  BY <2>2, <2>3
<1>18. ASSUME NEW u \in Versions PROVE OwnTransitions(u)' = OwnTransitions(u)
  <2>1. u # v
    <3>1. u \in 1..w  BY <1>14 DEF Versions
    <3> QED  BY <1>14, <3>1
  <2>2. OwnTransitions(u)' = {q \in 1..(n + k) : transitions'[q].owner = u}  BY <1>11 DEF OwnTransitions
  <2>3. OwnTransitions(u) = {q \in 1..n : transitions[q].owner = u}  BY <1>11 DEF OwnTransitions
  <2>4. \A q \in OwnTransitions(u)' : q \in 1..n
    <3> SUFFICES ASSUME NEW q \in 1..(n + k), transitions'[q].owner = u, q \notin 1..n PROVE FALSE
      BY <2>2
    <3>1. PICK p \in T : q = nt[p]  BY <1>13
    <3>2. transitions'[q].owner = v  BY <1>12, <3>1
    <3> QED  BY <2>1, <3>2
  <2>5. 1..n \subseteq 1..(n + k) /\ \A q \in 1..n : transitions'[q] = transitions[q]  BY <1>10
  <2> QED  BY <2>2, <2>3, <2>4, <2>5
<1>19. \A p \in TransIds' : transitions'[p].owner \in 0..v
  <2> SUFFICES ASSUME NEW q \in 1..(n + k) PROVE transitions'[q].owner \in 0..v  BY <1>11
  <2>1. CASE q \in 1..n  BY <1>16, <2>1
  <2>2. ASSUME NEW p \in T, q = nt[p] PROVE transitions'[q].owner \in 0..v
    <3>1. v \in 0..v  OBVIOUS
    <3> QED  BY <1>12, <2>2, <3>1
  <2> QED  BY <1>13, <2>1, <2>2
<1> QED  BY <1>10, <1>11, <1>12, <1>17, <1>18, <1>19 DEF TransitionsCloned

\* What CloneDraft does to the children: every child of s has one copy.
CopyOf(s, v, np, nt) ==
    /\ np \in [OwnPages(s) -> Nat] /\ nt \in [OwnTransitions(s) -> Nat]
    /\ \A x, y \in OwnPages(s) : np[x] = np[y] => x = y
    /\ \A x, y \in OwnTransitions(s) : nt[x] = nt[y] => x = y
    /\ OwnPages(v)' = {np[p] : p \in OwnPages(s)}
    /\ OwnTransitions(v)' = {nt[t] : t \in OwnTransitions(s)}
    /\ \A p \in OwnPages(s) : pages'[np[p]] = [pages[p] EXCEPT !.owner = v]
    /\ \A t \in OwnTransitions(s) : transitions'[nt[t]] = Copied(transitions[t], v, np)

LEMMA ClonesChildren ==
    ASSUME AuthoringInv, AuthoringConstants, NEW s \in Versions, CloneDraft(s),
           NEW v \in Nat, v = Len(versions) + 1,
           NEW np, np = NewId(OwnPages(s), Len(pages)),
           NEW nt, nt = NewId(OwnTransitions(s), Len(transitions))
    PROVE  /\ CopyOf(s, v, np, nt)
           /\ \A u \in Versions : ChildrenKept(u)
           /\ Len(versions') = v => TablesTyped'
<1>1. IsFiniteSet(OwnPages(s)) /\ IsFiniteSet(OwnTransitions(s))
  BY ChildrenFinite DEF AuthoringInv
<1>2. PICK n \in Nat, m \in Nat : n = Len(pages) /\ m = Len(transitions)
  BY DEF AuthoringInv, Typed, TablesTyped
<1>3. PICK k \in Nat, l \in Nat : k = Cardinality(OwnPages(s)) /\ l = Cardinality(OwnTransitions(s))
  BY <1>1, FS_CardinalityType
<1>4. OwnPages(s) \in SUBSET Nat /\ OwnTransitions(s) \in SUBSET Nat
  BY DEF OwnPages, OwnTransitions, PageIds, TransIds
<1>5. Follows(np, OwnPages(s), n, k)  BY <1>1, <1>2, <1>3, <1>4, NewIdsFollow
<1>6. Follows(nt, OwnTransitions(s), m, l)  BY <1>1, <1>2, <1>3, <1>4, NewIdsFollow
<1>7. /\ np \in [OwnPages(s) -> Nat] /\ nt \in [OwnTransitions(s) -> Nat]
      /\ \A x, y \in OwnPages(s) : np[x] = np[y] => x = y
      /\ \A x, y \in OwnTransitions(s) : nt[x] = nt[y] => x = y
  BY <1>5, <1>6 DEF Follows
<1>8. /\ pages' = pages \o ClonedPages(np, v) /\ n + k <= MaxPages
      /\ transitions' = transitions \o ClonedTransitions(nt, v, np) /\ m + l <= MaxTransitions
  BY <1>2, <1>3 DEF CloneDraft
<1>9. PICK P, T : P = OwnPages(s) /\ T = OwnTransitions(s)  OBVIOUS
<1>10. PagesCloned(s, v, np, n + k)  BY <1>2, <1>3, <1>8, <1>9, ClonesPages
<1>11. TransitionsCloned(s, v, np, nt, m + l)
  <2>1. T = OwnTransitions(s) /\ l = Cardinality(T) /\ nt = NewId(T, m) /\ m = Len(transitions)
    BY <1>2, <1>3, <1>9
  <2>2. \A x \in OwnPages(s) : np[x] \in Nat  BY <1>7
  <2>3. transitions' = transitions \o ClonedTransitions(nt, v, np)  BY <1>8
  <2>4. PICK e : e = m + l  OBVIOUS
  <2>5. TransitionsCloned(s, v, np, nt, e)  BY <2>1, <2>2, <2>3, <2>4, ClonesTransitions
  <2> QED  BY <2>4, <2>5
<1>12. CopyOf(s, v, np, nt)
  <2>1. /\ OwnPages(v)' = {np[p] : p \in OwnPages(s)}
        /\ \A p \in OwnPages(s) : pages'[np[p]] = [pages[p] EXCEPT !.owner = v]
    BY <1>10 DEF PagesCloned
  <2>2. /\ OwnTransitions(v)' = {nt[t] : t \in OwnTransitions(s)}
        /\ \A t \in OwnTransitions(s) : transitions'[nt[t]] = Copied(transitions[t], v, np)
    BY <1>11 DEF TransitionsCloned
  <2> QED  BY <1>7, <2>1, <2>2 DEF CopyOf
<1>13. \A u \in Versions : ChildrenKept(u)
  BY <1>10, <1>11 DEF ChildrenKept, OwnPages, OwnTransitions, PagesCloned, TransitionsCloned
<1>14. Len(versions') = v => TablesTyped'
  BY <1>8, <1>10, <1>11 DEF TablesTyped, PagesCloned, TransitionsCloned
<1> QED  BY <1>12, <1>13, <1>14

LEMMA ClonesDraft ==
    ASSUME AuthoringInv, AuthoringConstants, NEW s \in Versions, CloneDraft(s)
    PROVE  AuthoringInv' /\ Kept
<1>1. PICK n \in Nat : n = Len(versions)  BY DEF AuthoringInv, Typed
<1>2. PICK v \in Nat : v = n + 1  BY <1>1
<1>3. PICK np : np = NewId(OwnPages(s), Len(pages))  OBVIOUS
<1>4. PICK nt : nt = NewId(OwnTransitions(s), Len(transitions))  OBVIOUS
<1>5. /\ CopyOf(s, v, np, nt)
      /\ \A u \in Versions : ChildrenKept(u)
      /\ Len(versions') = v => TablesTyped'
  BY <1>1, <1>2, <1>3, <1>4, ClonesChildren
<1>6. /\ draft = None /\ draft' = v /\ UNCHANGED <<published, lab, copy>>
      /\ versions' = Append(versions, ClonedVersion(s, np, nt)) /\ v <= MaxVersions
  BY <1>1, <1>2, <1>3, <1>4 DEF CloneDraft
<1>7. PICK row : row = ClonedVersion(s, np, nt)  OBVIOUS
<1>8. /\ VersionRow(versions[s]) /\ versions[s].pages = OwnPages(s)
      /\ versions[s].transitions = OwnTransitions(s)
      /\ versions[s].seeds \ {NoHint} \subseteq versions[s].pages
      /\ versions[s].budget \subseteq versions[s].pages
      /\ \A t \in OwnTransitions(s) : transitions[t].src \in OwnPages(s) /\ transitions[t].dst \in OwnPages(s)
  BY DEF AuthoringInv, AllWhole, Whole, RecordsLoad, PageRecordsLoad, TransitionRecordsLoad,
         SeedsLoad, ContractHolds
<1>9. /\ row.state = "DRAFT" /\ row.base = s
      /\ row.pages = {np[p] : p \in OwnPages(s)}
      /\ row.transitions = {nt[t] : t \in OwnTransitions(s)}
      /\ row.seeds = ClonedHints(versions[s].seeds, np)
      /\ row.budget = {np[p] : p \in versions[s].budget}
  BY <1>7, <1>8 DEF ClonedVersion
<1>10. np \in [OwnPages(s) -> Nat] /\ nt \in [OwnTransitions(s) -> Nat]  BY <1>5 DEF CopyOf
<1>11. row.seeds \in SUBSET Nat /\ row.seeds \ {NoHint} \subseteq row.pages
  BY <1>8, <1>9, <1>10 DEF ClonedHints, NoHint
<1>12. row.budget \in SUBSET Nat /\ row.budget \subseteq row.pages
  BY <1>8, <1>9, <1>10
<1>13. VersionRow(row)
  <2>1. row.pages \in SUBSET Nat /\ row.transitions \in SUBSET Nat /\ s \in Nat
    BY <1>9, <1>10 DEF Versions
  <2>2. row = [state |-> row.state, pages |-> row.pages, transitions |-> row.transitions,
               seeds |-> row.seeds, budget |-> row.budget, base |-> row.base, hash |-> row.hash]
    BY <1>7 DEF ClonedVersion
  <2> QED  BY <1>9, <1>11, <1>12, <2>1, <2>2 DEF VersionRow
<1>14. Loads(v, row)'
  <2>1. OwnPages(v)' = row.pages /\ OwnTransitions(v)' = row.transitions
    BY <1>5, <1>9 DEF CopyOf
  <2>2. ASSUME NEW t \in OwnTransitions(s)
        PROVE  {transitions'[nt[t]].src, transitions'[nt[t]].dst} \subseteq OwnPages(v)'
    <3>1. transitions[t] \in TransitionRow
      BY ChildRows DEF AuthoringInv, Typed, Versions
    <3>2. transitions'[nt[t]] = Copied(transitions[t], v, np)  BY <1>5 DEF CopyOf
    <3>3. transitions'[nt[t]].src = np[transitions[t].src] /\ transitions'[nt[t]].dst = np[transitions[t].dst]
      BY <3>1, <3>2 DEF Copied, TransitionRow
    <3> QED  BY <1>8, <1>9, <2>1, <3>3
  <2>3. \A x \in OwnTransitions(v)' : {transitions'[x].src, transitions'[x].dst} \subseteq OwnPages(v)'
    BY <1>9, <2>1, <2>2
  <2> QED  BY <1>11, <1>12, <2>1, <2>3 DEF Loads
<1>15. row.base <= n  BY <1>1, <1>9 DEF Versions
<1>16. Loads(n + 1, row)'  BY <1>2, <1>14
<1> QED  BY <1>1, <1>2, <1>5, <1>6, <1>7, <1>9, <1>13, <1>15, <1>16, VersionAppended

-----------------------------------------------------------------------------
(* What a copy means.                                                       *)

LEMMA CopyMeansTheSame ==
    ASSUME AuthoringInv, NEW s \in Versions, NEW v, NEW np, NEW nt, CopyOf(s, v, np, nt),
           versions'[v].seeds = ClonedHints(versions[s].seeds, np),
           versions'[v].budget = {np[p] : p \in versions[s].budget}
    PROVE  SameMeaning(Config(s), Config(v)')
<1> DEFINE P == OwnPages(s)
           T == OwnTransitions(s)
           a == Config(s)
           b == Config(v)'
<1>1. /\ np \in [P -> Nat] /\ nt \in [T -> Nat]
      /\ \A x, y \in P : np[x] = np[y] => x = y
      /\ \A x, y \in T : nt[x] = nt[y] => x = y
      /\ OwnPages(v)' = {np[p] : p \in P} /\ OwnTransitions(v)' = {nt[t] : t \in T}
      /\ \A p \in P : pages'[np[p]] = [pages[p] EXCEPT !.owner = v]
      /\ \A t \in T : transitions'[nt[t]] = Copied(transitions[t], v, np)
  BY DEF CopyOf
<1>2. /\ IsFiniteSet(P) /\ IsFiniteSet(T)
      /\ \A p \in P : pages[p] \in PageRow
      /\ \A t \in T : transitions[t] \in TransitionRow
  BY ChildrenFinite, ChildRows DEF AuthoringInv, Typed, Versions
<1>3. \A t \in T : transitions[t].src \in P /\ transitions[t].dst \in P
  BY DEF AuthoringInv, AllWhole, Whole, RecordsLoad, TransitionRecordsLoad
<1>4. /\ a.pages = [p \in P |-> pages[p].attr] /\ a.matchers = [p \in P |-> pages[p].matchers]
      /\ a.transitions = [t \in T |-> [src |-> transitions[t].src, dst |-> transitions[t].dst]]
      /\ a.seeds = versions[s].seeds /\ a.budget = versions[s].budget
  BY DEF Config
<1>5. /\ b.pages = [p \in OwnPages(v)' |-> pages'[p].attr]
      /\ b.matchers = [p \in OwnPages(v)' |-> pages'[p].matchers]
      /\ b.transitions = [t \in OwnTransitions(v)' |->
                            [src |-> transitions'[t].src, dst |-> transitions'[t].dst]]
      /\ b.seeds = versions'[v].seeds /\ b.budget = versions'[v].budget
  BY DEF Config
<1> HIDE DEF P, T, a, b
<1>6. DOMAIN a.pages = P /\ DOMAIN b.pages = {np[p] : p \in P}
      /\ DOMAIN a.transitions = T /\ DOMAIN b.transitions = {nt[t] : t \in T}
  BY <1>1, <1>4, <1>5
<1>7. np \in [DOMAIN a.pages -> DOMAIN b.pages] /\ DOMAIN np = P  BY <1>1, <1>6
<1>8. {np[p] : p \in DOMAIN np} = DOMAIN b.pages  BY <1>6, <1>7
<1>9. Cardinality(DOMAIN a.pages) = Cardinality(DOMAIN b.pages)
  <2>1. np \in Bijection(P, {np[p] : p \in P})
    BY <1>1 DEF Bijection, Injection, Surjection, IsInjective
  <2> QED  BY <1>2, <1>6, <2>1, FS_Bijection DEF ExistsBijection
<1>10. \A p \in P : a.pages[p] = b.pages[np[p]] /\ a.matchers[p] = b.matchers[np[p]]
  <2> SUFFICES ASSUME NEW p \in P
               PROVE  a.pages[p] = b.pages[np[p]] /\ a.matchers[p] = b.matchers[np[p]]
    OBVIOUS
  <2>1. pages'[np[p]] = [pages[p] EXCEPT !.owner = v] /\ pages[p] \in PageRow  BY <1>1, <1>2
  <2>2. pages'[np[p]].attr = pages[p].attr /\ pages'[np[p]].matchers = pages[p].matchers
    BY <2>1 DEF PageRow
  <2>3. np[p] \in OwnPages(v)'  BY <1>1
  <2> QED  BY <1>4, <1>5, <2>2, <2>3
<1>11. \A t \in T : b.transitions[nt[t]] =
                      [src |-> np[transitions[t].src], dst |-> np[transitions[t].dst]]
  <2> SUFFICES ASSUME NEW t \in T
               PROVE  b.transitions[nt[t]] =
                        [src |-> np[transitions[t].src], dst |-> np[transitions[t].dst]]
    OBVIOUS
  <2>1. transitions'[nt[t]] = Copied(transitions[t], v, np) /\ transitions[t] \in TransitionRow
    BY <1>1, <1>2
  <2>2. transitions'[nt[t]].src = np[transitions[t].src] /\ transitions'[nt[t]].dst = np[transitions[t].dst]
    BY <2>1 DEF Copied, TransitionRow
  <2>3. nt[t] \in OwnTransitions(v)'  BY <1>1
  <2> QED  BY <1>5, <2>2, <2>3
<1>12. ASSUME NEW p \in P, NEW q \in P
       PROVE  Cardinality(Between(a, p, q)) = Cardinality(Between(b, np[p], np[q]))
  <2> DEFINE A == {t \in DOMAIN a.transitions : a.transitions[t] = [src |-> p, dst |-> q]}
             B == {t \in DOMAIN b.transitions : b.transitions[t] = [src |-> np[p], dst |-> np[q]]}
             g == [t \in A |-> nt[t]]
  <2>1. A = {t \in T : transitions[t].src = p /\ transitions[t].dst = q}  BY <1>4, <1>6
  <2>2. A \in SUBSET T  BY <2>1
  <2>3. \A t \in T : nt[t] \in B <=> np[transitions[t].src] = np[p] /\ np[transitions[t].dst] = np[q]
    <3>1. \A w, x, y, z : [src |-> w, dst |-> x] = [src |-> y, dst |-> z] <=> w = y /\ x = z
      OBVIOUS
    <3>2. \A t \in T : nt[t] \in DOMAIN b.transitions  BY <1>6
    <3>3. \A t \in T : nt[t] \in B <=> b.transitions[nt[t]] = [src |-> np[p], dst |-> np[q]]
      BY <3>2
    <3> HIDE DEF B
    <3>4. ASSUME NEW t \in T
          PROVE  nt[t] \in B <=> /\ np[transitions[t].src] = np[p]
                                /\ np[transitions[t].dst] = np[q]
      <4>1. nt[t] \in B <=> [src |-> np[transitions[t].src], dst |-> np[transitions[t].dst]]
                               = [src |-> np[p], dst |-> np[q]]
        BY <1>11, <3>3
      <4> QED  BY <3>1, <4>1
    <3> QED  BY <3>4
  <2>4. \A t \in T : nt[t] \in B <=> t \in A
    BY <1>1, <1>3, <2>1, <2>3
  <2>5. \A x \in B : \E t \in T : x = nt[t]  BY <1>6
  <2> HIDE DEF A, B
  <2>a. IsFiniteSet(A)  BY <1>2, <2>2, FS_Subset
  <2>6. g \in [A -> B] /\ \A x, y \in A : g[x] = g[y] => x = y
    BY <1>1, <2>2, <2>4
  <2>7. \A x \in B : \E t \in A : g[t] = x  BY <2>4, <2>5
  <2> HIDE DEF g
  <2>8. g \in Bijection(A, B)
    BY <2>6, <2>7 DEF Bijection, Injection, Surjection, IsInjective
  <2>9. Cardinality(A) = Cardinality(B)  BY <2>a, <2>8, FS_Bijection DEF ExistsBijection
  <2> QED  BY <2>9 DEF A, B, Between
<1>13. b.budget = {np[p] : p \in a.budget}  BY <1>4, <1>5
<1>14. b.seeds = {IF h = NoHint THEN NoHint ELSE np[h] : h \in a.seeds}
  BY <1>4, <1>5 DEF ClonedHints
<1>15. SameMeaning(a, b)
  <2> USE <1>7 DEF SameMeaning
  <2> WITNESS np \in [DOMAIN a.pages -> DOMAIN b.pages]
  <2> QED  BY <1>7, <1>8, <1>9, <1>10, <1>12, <1>13, <1>14
<1> QED  BY <1>15 DEF a, b

-----------------------------------------------------------------------------
(* The theorems.                                                            *)

LEMMA AuthoringInitially ==
    ASSUME AuthoringInit, AuthoringConstants PROVE AuthoringInv
<1>1. versions = <<>> /\ pages = <<>> /\ transitions = <<>> /\ draft = 0 /\ published = 0
      /\ lab = <<>> /\ copy = <<>>
  BY DEF AuthoringInit, None
<1>2. Typed  BY <1>1 DEF Typed, TablesTyped, PageIds, TransIds, AuthoringConstants
<1>3. Versions = {}  BY <1>1 DEF Versions
<1>4. AllWhole  BY <1>3 DEF AllWhole
<1>5. Pointers  BY <1>1, <1>3 DEF Pointers, PointersAgree, PointersLoad, None
<1>6. CopyCurrent  BY <1>1 DEF CopyCurrent, HoldsDraft
<1> QED  BY <1>2, <1>4, <1>5, <1>6 DEF AuthoringInv

LEMMA AuthoringStep ==
    ASSUME AuthoringInv, AuthoringConstants, ~Concurrent, [AuthoringNext]_authoringVars
    PROVE  AuthoringInv' /\ Kept
<1>1. CASE UNCHANGED authoringVars
  <2>1. UNCHANGED <<draft, published, versions, pages, transitions, lab, copy>>
    BY <1>1 DEF authoringVars
  <2>2. Typed' /\ Pointers'
    BY <2>1 DEF AuthoringInv, Typed, TablesTyped, Pointers, PointersAgree, PointersLoad,
                PageIds, TransIds, Versions
  <2>4. CopyCurrent'  BY <2>1 DEF AuthoringInv, CopyCurrent, HoldsDraft, Versions
  <2>3. \A u \in Versions : ChildrenKept(u)
    BY <2>1 DEF ChildrenKept, OwnPages, OwnTransitions, PageIds, TransIds
  <2> QED  BY <2>1, <2>2, <2>3, <2>4, RowsStay
<1>2. CASE AuthoringNext
  BY <1>2, CreatesDraft, ReadsDraft, SavesDraft, ClonesDraft, Publishes, ReactivatesVersion,
     EditsKeep, StartsTest, FinishesTest
     DEF AuthoringNext
<1> QED  BY <1>1, <1>2

LEMMA WholeVersions ==
    ASSUME AuthoringInv, AuthoringConstants PROVE VersionsAreWhole
<1>1. PICK n \in Nat : n = Len(versions)  BY DEF AuthoringInv, Typed
<1>2. \A v \in Versions : Whole(v) /\ v \in Nat \ {0}
  BY <1>1 DEF AuthoringInv, AllWhole, Versions
<1>3. AuthoringTypeOK
  <2>1. ASSUME NEW v \in Versions
        PROVE  /\ versions[v].state \in {"DRAFT", "PUBLISHED"}
               /\ versions[v].pages \subseteq PageIds /\ versions[v].transitions \subseteq TransIds
               /\ versions[v].base \in 0..(v - 1)
    <3>1. versions[v].state \in {"DRAFT", "PUBLISHED"} /\ versions[v].base \in Nat
      BY <1>2 DEF Whole, VersionRow
    <3>2. versions[v].pages \subseteq PageIds /\ versions[v].transitions \subseteq TransIds
      BY <1>2 DEF Whole, RecordsLoad, PageRecordsLoad, TransitionRecordsLoad, OwnPages, OwnTransitions
    <3>3. versions[v].base < v  BY <1>2 DEF Whole
    <3> QED  BY <1>2, <3>1, <3>2, <3>3
  <2>2. Len(<<>>) <= 1 /\ \A x : Len(<<x>>) <= 1  OBVIOUS
  <2>3. Len(lab) <= 1 /\ Len(copy) <= 1
    <3>1. lab = <<>> \/ \E x : lab = <<x>>  BY DEF AuthoringInv, Typed
    <3>2. ASSUME NEW i, NEW r, HoldsDraft(i, r) PROVE \E x : copy = <<x>>
      <4>1. PICK x : x = [id |-> i, row |-> r]  OBVIOUS
      <4> QED  BY <3>2, <4>1 DEF HoldsDraft
    <3>3. copy = <<>> \/ \E x : copy = <<x>>  BY <3>2 DEF AuthoringInv, CopyCurrent
    <3> QED  BY <2>2, <3>1, <3>3
  <2> QED  BY <2>1, <2>2, <2>3 DEF AuthoringInv, Typed, TablesTyped, Pointers, AuthoringTypeOK
<1>4. PointersAgree  BY DEF AuthoringInv, Pointers
<1>5. ChildrenDeclared  BY <1>2 DEF ChildrenDeclared, Whole
<1>6. PublishedIsSound
  <2> SUFFICES ASSUME NEW v \in Versions, versions[v].state = "PUBLISHED"
               PROVE  /\ versions[v].seeds # {} /\ RecordsLoad(v) /\ SeedsLoad(v)
                      /\ \A p, q \in OwnPages(v), d \in Defs :
                            p # q /\ pages[p].matchers[d] > 0 /\ pages[q].matchers[d] > 0
                              /\ pages[p].attr = pages[q].attr
                              => \E r \in OwnPages(v) :
                                    pages[r].matchers[d] > 0 /\ pages[r].attr > pages[p].attr
    BY DEF PublishedIsSound
  <2>1. versions[v].seeds # {} /\ RecordsLoad(v) /\ SeedsLoad(v) /\ ~Ambiguous(v)
    BY <1>2 DEF Whole
  <2>2. Typed /\ v \in Nat \ {0}  BY <1>2 DEF AuthoringInv
  <2> QED  BY <2>1, <2>2, UnambiguousIsSound
<1> QED  BY <1>3, <1>4, <1>5, <1>6 DEF VersionsAreWhole

\* A step leaves a published version alone, and a version it publishes has the
\* hash of what it published.
LEMMA FrozenVersions ==
    ASSUME AuthoringInv, AuthoringInv', Kept PROVE FrozenStep
<1> SUFFICES ASSUME NEW v \in Versions
             PROVE  /\ versions[v].state = "PUBLISHED" => versions'[v] = versions[v] /\ Config(v)' = Config(v)
                    /\ versions[v].state = "DRAFT" /\ versions'[v].state = "PUBLISHED"
                          => versions'[v].hash = Hash(Config(v)')
  BY DEF FrozenStep
<1>1. ASSUME versions[v].state = "PUBLISHED"
      PROVE  versions'[v] = versions[v] /\ Config(v)' = Config(v)
  <2>1. v # 0  BY DEF Versions, AuthoringInv, Typed
  <2>2. v # draft  BY <1>1, <2>1 DEF AuthoringInv, Pointers, PointersAgree, PointersLoad, None
  <2>3. Untouched(v)  BY <2>2 DEF Kept
  <2> QED  BY <2>3, UntouchedConfig DEF Untouched
<1>2. ASSUME versions'[v].state = "PUBLISHED" PROVE versions'[v].hash = Hash(Config(v)')
  <2>1. v \in Versions'  BY DEF Kept
  <2>2. Whole(v)'  BY <2>1 DEF AuthoringInv, AllWhole
  <2> QED  BY <1>2, <2>2 DEF Whole, HashAudited
<1> QED  BY <1>1, <1>2

\* Whatever order drafts are created, edited, cloned, published and reactivated
\* in, with Test Lab runs between them, both pointers name versions of their own
\* state, every version declares exactly the children it has, and a published one
\* can be run (load_mutation_version, publish_in_transaction).
THEOREM VersionsStayWhole ==
    ASSUME AuthoringConstants, ~Concurrent
    PROVE  AuthoringSpec => []VersionsAreWhole
<1>1. AuthoringInit => AuthoringInv  BY AuthoringInitially
<1>2. AuthoringInv /\ [AuthoringNext]_authoringVars => AuthoringInv'  BY AuthoringStep
<1>3. AuthoringInv => VersionsAreWhole  BY WholeVersions
<1> QED  BY <1>1, <1>2, <1>3, PTL DEF AuthoringSpec

\* No later edit, clone, test or publication changes a published version, and
\* the hash audited at its publication is its configuration's
\* (ensure_editable_draft, publish_in_transaction).
THEOREM PublishedStaysFrozen ==
    ASSUME AuthoringConstants, ~Concurrent
    PROVE  AuthoringSpec => PublishedFrozen
<1>1. AuthoringInit => AuthoringInv  BY AuthoringInitially
<1>2. AuthoringInv /\ [AuthoringNext]_authoringVars => AuthoringInv'  BY AuthoringStep
<1>3. AuthoringInv /\ AuthoringInv' /\ [AuthoringNext]_authoringVars => [FrozenStep]_authoringVars
  BY AuthoringStep, FrozenVersions
<1> QED  BY <1>1, <1>2, <1>3, PTL DEF AuthoringSpec, PublishedFrozen

\* A draft made from a version means what that version means.
MeaningStep ==
    \A v \in DOMAIN versions', s \in Versions :
       v \notin Versions /\ versions'[v].base = s => SameMeaning(Config(s), Config(v)')

LEMMA ClonesMean ==
    ASSUME AuthoringInv, AuthoringConstants, [AuthoringNext]_authoringVars
    PROVE  MeaningStep
<1>1. PICK R : versions \in Seq(R)  BY DEF AuthoringInv, Typed
<1>2. PICK n \in Nat : n = Len(versions) /\ Versions = 1..n /\ DOMAIN versions = 1..n
  BY <1>1 DEF Versions
<1>3. CASE DOMAIN versions' = DOMAIN versions
  BY <1>2, <1>3 DEF MeaningStep
<1>4. ASSUME NEW row, versions' = Append(versions, row)
      PROVE  \A v \in DOMAIN versions' : v \notin Versions => v = n + 1 /\ versions'[v] = row
  <2>1. Len(versions') = n + 1 /\ versions' \in Seq(R \cup {row}) /\ versions'[n + 1] = row
    BY <1>1, <1>2, <1>4, TableAppended
  <2>2. DOMAIN versions' = 1..(n + 1)  BY <2>1
  <2> QED  BY <1>2, <2>1, <2>2
<1>5. CASE CreateDraft
  <2>1. \A v \in DOMAIN versions' : v \notin Versions => versions'[v].base = 0
    BY <1>4, <1>5 DEF CreateDraft, BlankVersion, None
  <2> QED  BY <1>2, <2>1 DEF MeaningStep
<1>6. ASSUME NEW s \in Versions, CloneDraft(s) PROVE MeaningStep
  <2>1. PICK v \in Nat : v = n + 1  BY <1>2
  <2>2. PICK np : np = NewId(OwnPages(s), Len(pages))  OBVIOUS
  <2>3. PICK nt : nt = NewId(OwnTransitions(s), Len(transitions))  OBVIOUS
  <2>4. CopyOf(s, v, np, nt)  BY <1>2, <1>6, <2>1, <2>2, <2>3, ClonesChildren
  <2>5. PICK row : row = ClonedVersion(s, np, nt)  OBVIOUS
  <2>6. versions' = Append(versions, row)  BY <1>6, <2>2, <2>3, <2>5 DEF CloneDraft
  <2>7. \A x \in DOMAIN versions' : x \notin Versions => x = v /\ versions'[x] = row
    BY <1>4, <2>1, <2>6
  <2>8. /\ row.base = s /\ row.seeds = ClonedHints(versions[s].seeds, np)
        /\ row.budget = {np[p] : p \in versions[s].budget}
    BY <2>5 DEF ClonedVersion
  <2> SUFFICES ASSUME NEW x \in DOMAIN versions', NEW r \in Versions,
                      x \notin Versions, versions'[x].base = r
               PROVE  SameMeaning(Config(r), Config(x)')
    BY DEF MeaningStep
  <2>9. x = v /\ versions'[v] = row /\ r = s  BY <2>7, <2>8
  <2>10. SameMeaning(Config(s), Config(v)')
    BY <2>4, <2>8, <2>9, CopyMeansTheSame
  <2> QED  BY <2>9, <2>10
<1>7. CASE ReadDraft \/ FinishTest \/ UNCHANGED authoringVars
  <2>1. versions' = versions  BY <1>7 DEF ReadDraft, FinishTest, authoringVars
  <2> QED  BY <1>3, <2>1
<1>8. CASE SaveDraft
  <2>1. versions' = versions \/ \E v, row : versions' = [versions EXCEPT ![v] = row]
    BY <1>8 DEF SaveDraft
  <2> QED  BY <1>1, <1>3, <2>1
<1>9. ASSUME NEW v \in Versions, Publish(v) \/ Reactivate(v) \/ (\E x \in Targets(v) : StartTest(v, x))
      PROVE  MeaningStep
  <2>1. DOMAIN versions' = DOMAIN versions  BY <1>1, <1>9 DEF Publish, Reactivate, StartTest
  <2> QED  BY <1>3, <2>1
<1>10. CASE EditStep
  <2>1. ASSUME NEW v \in Versions, NEW row, Rewrites(v, row) PROVE DOMAIN versions' = DOMAIN versions
    BY <1>1, <2>1 DEF Rewrites
  <2>2. ASSUME UNCHANGED versions PROVE DOMAIN versions' = DOMAIN versions  BY <2>2
  <2>3. ASSUME NEW v \in Versions,
               \/ \E a \in Attrs : CreatePageType(v, a) \/ \E p \in PageIds : UpdatePageType(v, p, a)
               \/ \E p \in PageIds : DeletePageType(v, p)
        PROVE  DOMAIN versions' = DOMAIN versions
    BY <2>1, <2>2, <2>3 DEF CreatePageType, UpdatePageType, DeletePageType
  <2>4. ASSUME NEW v \in Versions,
               \/ \E p \in PageIds, d \in Defs : CreateUrlMatcher(v, p, d) \/ DeleteUrlMatcher(v, p, d)
               \/ \E p \in PageIds, d, e \in Defs : UpdateUrlMatcher(v, p, d, e)
        PROVE  DOMAIN versions' = DOMAIN versions
    BY <2>2, <2>4 DEF CreateUrlMatcher, UpdateUrlMatcher, DeleteUrlMatcher
  <2>5. ASSUME NEW v \in Versions,
               \/ \E p, q \in PageIds : CreateDiscoveryTransition(v, p, q)
               \/ \E t \in TransIds, p, q \in PageIds : UpdateDiscoveryTransition(v, t, p, q)
               \/ \E t \in TransIds : DeleteDiscoveryTransition(v, t)
               \/ \E b \in SUBSET PageIds : UpdateGuardrails(v, b)
        PROVE  DOMAIN versions' = DOMAIN versions
    BY <2>1, <2>2, <2>5 DEF CreateDiscoveryTransition, UpdateDiscoveryTransition,
                            DeleteDiscoveryTransition, UpdateGuardrails
  <2>6. DOMAIN versions' = DOMAIN versions  BY <1>10, <2>3, <2>4, <2>5 DEF EditStep
  <2> QED  BY <1>3, <2>6
<1> QED  BY <1>5, <1>6, <1>7, <1>8, <1>9, <1>10 DEF AuthoringNext

-----------------------------------------------------------------------------
(* Counting up to n.                                                        *)

LEMMA Counting ==
    ASSUME NEW n \in Nat, NEW S, 0 \in S, \A k \in 1..n : k - 1 \in S => k \in S
    PROVE  \A k \in 0..n : k \in S
<1> DEFINE T == {k \in 0..n : k \notin S}
<1>0. T \subseteq Nat
  OBVIOUS
<1>1. SUFFICES ASSUME T # {} PROVE FALSE
  OBVIOUS
<1>2. PICK k \in T : \A i \in T : ~(<<i, k>> \in OpToRel(<, Nat))
  BY <1>0, <1>1, NatLessThanWellFounded, WFMin
<1>3. \A i \in T : ~(i < k)
  BY <1>0, <1>2 DEF OpToRel
<1>4. k \in 0..n /\ k \notin S
  BY <1>2
<1> HIDE DEF T
<1>5. k \in 1..n /\ k - 1 \in 0..n /\ k - 1 < k
  BY <1>4
<1>6. k - 1 \notin S
  BY <1>4, <1>5
<1>7. k - 1 \in T
  BY <1>5, <1>6 DEF T
<1> QED
  BY <1>3, <1>5, <1>7

-----------------------------------------------------------------------------
(* The hash does not see names.  Two families of values over different      *)
(* indices are one family, renamed, when a bijection of the indices takes   *)
(* one to the other; what is counted or sorted of them is then the same.    *)

Renames(G, F, H) ==
    /\ G \in Bijection(DOMAIN F, DOMAIN H)
    /\ \A x \in DOMAIN F : F[x] = H[G[x]]

LEMMA BijectionIs ==
    ASSUME NEW X, NEW Y, NEW G \in Bijection(X, Y)
    PROVE  /\ G \in [X -> Y]
           /\ \A x, y \in X : G[x] = G[y] => x = y
           /\ \A y \in Y : \E x \in X : G[x] = y
BY DEF Bijection, Injection, Surjection, IsInjective

LEMMA BijectionMade ==
    ASSUME NEW X, NEW Y, NEW G \in [X -> Y],
           \A x, y \in X : G[x] = G[y] => x = y,
           \A y \in Y : \E x \in X : G[x] = y
    PROVE  G \in Bijection(X, Y)
BY DEF Bijection, Injection, Surjection, IsInjective

LEMMA PartsMatch ==
    ASSUME NEW X, NEW Y, NEW G \in Bijection(X, Y),
           NEW S \in SUBSET X, NEW T \in SUBSET Y, \A x \in X : x \in S <=> G[x] \in T
    PROVE  [x \in S |-> G[x]] \in Bijection(S, T)
<1> DEFINE R == [x \in S |-> G[x]]
<1>1. R \in [S -> T] /\ \A x, y \in S : R[x] = R[y] => x = y
  BY BijectionIs
<1>2. ASSUME NEW y \in T PROVE \E x \in S : R[x] = y
  <2>1. PICK x \in X : G[x] = y
    BY BijectionIs
  <2> QED
    BY <2>1
<1> HIDE DEF R
<1>3. R \in Bijection(S, T)
  BY <1>1, <1>2, BijectionMade
<1> QED
  BY <1>3 DEF R

LEMMA PartsCount ==
    ASSUME NEW X, NEW Y, IsFiniteSet(X), NEW G \in Bijection(X, Y),
           NEW S \in SUBSET X, NEW T \in SUBSET Y, \A x \in X : x \in S <=> G[x] \in T
    PROVE  Cardinality(S) = Cardinality(T)
<1>1. PICK R : R = [x \in S |-> G[x]]
  OBVIOUS
<1>2. R \in Bijection(S, T)
  BY <1>1, PartsMatch
<1>3. IsFiniteSet(S)
  BY FS_Subset
<1> QED
  BY <1>2, <1>3, FS_Bijection DEF ExistsBijection

\* The values of a family, and its indices with values in V.
ValuesOf(F) == {F[x] : x \in DOMAIN F}
Where(F, V) == {x \in DOMAIN F : F[x] \in V}

LEMMA CountsAgree ==
    ASSUME NEW F, NEW H, NEW G, IsFiniteSet(DOMAIN F), Renames(G, F, H), NEW V
    PROVE  Cardinality(Where(F, V)) = Cardinality(Where(H, V))
<1>1. PICK X, Y : X = DOMAIN F /\ Y = DOMAIN H
  OBVIOUS
<1>2. PICK S, T : S = Where(F, V) /\ T = Where(H, V)
  OBVIOUS
<1>3. S \in SUBSET X /\ T \in SUBSET Y
  BY <1>1, <1>2 DEF Where
<1>4. G \in Bijection(X, Y) /\ \A x \in X : F[x] = H[G[x]]
  BY <1>1 DEF Renames
<1>5. \A x \in X : G[x] \in Y
  BY <1>4, BijectionIs
<1>6. \A x \in X : x \in S <=> G[x] \in T
  BY <1>1, <1>2, <1>4, <1>5 DEF Where
<1>7. IsFiniteSet(X)
  BY <1>1
<1>8. Cardinality(S) = Cardinality(T)
  BY <1>3, <1>4, <1>6, <1>7, PartsCount
<1> QED
  BY <1>2, <1>8

LEMMA ValuesAgree ==
    ASSUME NEW F, NEW H, NEW G, Renames(G, F, H)
    PROVE  ValuesOf(F) = ValuesOf(H)
<1>1. G \in Bijection(DOMAIN F, DOMAIN H) /\ \A x \in DOMAIN F : F[x] = H[G[x]]
  BY DEF Renames
<1>2. /\ \A x \in DOMAIN F : G[x] \in DOMAIN H
      /\ \A y \in DOMAIN H : \E x \in DOMAIN F : G[x] = y
  BY <1>1, BijectionIs
<1> QED
  BY <1>1, <1>2 DEF ValuesOf

LEMMA BagAgrees ==
    ASSUME NEW F, NEW H, NEW G, IsFiniteSet(DOMAIN F), Renames(G, F, H)
    PROVE  BagOf(F) = BagOf(H)
<1>1. PICK V : V = ValuesOf(F) /\ V = ValuesOf(H)
  BY ValuesAgree
<1>2. ASSUME NEW K
      PROVE  BagOf(K) = [v \in ValuesOf(K) |-> Cardinality(Where(K, {v}))]
  <2>1. \A v : Where(K, {v}) = {x \in DOMAIN K : K[x] = v}
    BY DEF Where
  <2> QED
    BY <2>1 DEF BagOf, ValuesOf
<1>3. \A v : Cardinality(Where(F, {v})) = Cardinality(Where(H, {v}))
  BY CountsAgree
<1>4. BagOf(F) = [v \in V |-> Cardinality(Where(F, {v}))]
  BY <1>1, <1>2
<1>5. BagOf(H) = [v \in V |-> Cardinality(Where(H, {v}))]
  BY <1>1, <1>2
<1> QED
  BY <1>3, <1>4, <1>5

LEMMA SortedAgrees ==
    ASSUME NEW F, NEW H, NEW G, IsFiniteSet(DOMAIN F), Renames(G, F, H)
    PROVE  Sorted(F) = Sorted(H)
<1>1. PICK V : V = ValuesOf(F) /\ V = ValuesOf(H)
  BY ValuesAgree
<1>2. PICK n : n = Cardinality(DOMAIN F) /\ n = Cardinality(DOMAIN H)
  BY FS_Bijection DEF Renames, ExistsBijection
<1> DEFINE First(v) == {y \in V : Before(y, v)}
           Upto(v) == {y \in V : ~Before(v, y)}
           At(K, i) == CHOOSE v \in V : /\ Cardinality(Where(K, First(v))) < i
                                        /\ Cardinality(Where(K, Upto(v))) >= i
<1>3. ASSUME NEW K, ValuesOf(K) = V, NEW i
      PROVE  Ith(K, i) = At(K, i)
  <2>1. \A v : Where(K, First(v)) = {x \in DOMAIN K : Before(K[x], v)}
    BY <1>3 DEF Where, ValuesOf
  <2>2. \A v : Where(K, Upto(v)) = {x \in DOMAIN K : ~Before(v, K[x])}
    BY <1>3 DEF Where, ValuesOf
  <2> HIDE DEF First, Upto
  <2>3. V = {K[x] : x \in DOMAIN K}
    BY <1>3 DEF ValuesOf
  <2> QED
    BY <2>1, <2>2, <2>3, Zenon DEF Ith
<1> HIDE DEF First, Upto
<1>4. \A v : /\ Cardinality(Where(F, First(v))) = Cardinality(Where(H, First(v)))
            /\ Cardinality(Where(F, Upto(v))) = Cardinality(Where(H, Upto(v)))
  BY CountsAgree
<1>5. \A i : At(F, i) = At(H, i)
  BY <1>4
<1>6. \A i : Ith(F, i) = Ith(H, i)
  BY <1>1, <1>3, <1>5
<1> QED
  BY <1>2, <1>6 DEF Sorted

-----------------------------------------------------------------------------
(* Two configurations correspond when a bijection of their children keeps   *)
(* kinds, references and, for labels that agree, values.  Then every round  *)
(* of labels agrees, and so does the payload.                               *)

Agree(a, G, la, lb) == \A e \in Entities(a) : la[e] = lb[G[e]]

SameReferences(a, b, G) ==
    \A e, x \in Entities(a), k \in 1..4 :
       e[1] = "page_type" =>
         (<<k, e[2]>> \in References(a, x) <=> <<k, G[e][2]>> \in References(b, G[x]))
SameValues(a, b, G) ==
    \A la, lb : Agree(a, G, la, lb) =>
       \A e \in Entities(a) : Value(a, la, e) = Value(b, lb, G[e])
SameBudget(a, b, G) ==
    \E h \in Bijection(a.budget, b.budget) :
       \A p \in a.budget : PageType(p) \in Entities(a) /\ G[PageType(p)] = PageType(h[p])

Corresponds(a, b, G) ==
    /\ IsFiniteSet(Entities(a))
    /\ G \in Bijection(Entities(a), Entities(b))
    /\ \A e \in Entities(a) : G[e][1] = e[1]
    /\ SameReferences(a, b, G) /\ SameValues(a, b, G)
    /\ IsFiniteSet(a.budget) /\ SameBudget(a, b, G)

LEMMA CorrespondsIs ==
    ASSUME NEW a, NEW b, NEW G, Corresponds(a, b, G)
    PROVE  /\ \A e \in Entities(a) : G[e] \in Entities(b) /\ G[e][1] = e[1]
           /\ \A e, x \in Entities(a) : G[e] = G[x] => e = x
           /\ \A y \in Entities(b) : \E e \in Entities(a) : G[e] = y
<1>1. G \in Bijection(Entities(a), Entities(b)) /\ \A e \in Entities(a) : G[e][1] = e[1]
  BY DEF Corresponds
<1> QED
  BY <1>1, BijectionIs

LEMMA ReferrersAgree ==
    ASSUME NEW a, NEW b, NEW G, Corresponds(a, b, G), NEW e \in Entities(a),
           NEW k \in 1..4, NEW x \in Entities(a)
    PROVE  <<k, x>> \in Referrers(a, e) <=> <<k, G[x]>> \in Referrers(b, G[e])
<1>1. G[e] \in Entities(b) /\ G[x] \in Entities(b) /\ G[e][1] = e[1]
  BY CorrespondsIs
<1>2. <<k, x>> \in (1..4) \X Entities(a) /\ <<k, G[x]>> \in (1..4) \X Entities(b)
  BY <1>1
<1>3. e[1] = "page_type" =>
        (<<k, e[2]>> \in References(a, x) <=> <<k, G[e][2]>> \in References(b, G[x]))
  BY DEF Corresponds, SameReferences
<1>4. <<k, x>> \in Referrers(a, e) <=> e[1] = "page_type" /\ <<k, e[2]>> \in References(a, x)
  BY <1>2 DEF Referrers
<1>5. <<k, G[x]>> \in Referrers(b, G[e]) <=>
        G[e][1] = "page_type" /\ <<k, G[e][2]>> \in References(b, G[x])
  BY <1>2 DEF Referrers
<1> QED
  BY <1>1, <1>3, <1>4, <1>5

LEMMA ReferrerIs ==
    ASSUME NEW c, NEW e, NEW x \in Referrers(c, e)
    PROVE  /\ x[1] \in 1..4 /\ x[2] \in Entities(c) /\ x = <<x[1], x[2]>>
           /\ Referrers(c, e) \subseteq (1..4) \X Entities(c)
BY DEF Referrers

LEMMA IncomingAgrees ==
    ASSUME NEW a, NEW b, NEW G, Corresponds(a, b, G), NEW la, NEW lb, Agree(a, G, la, lb),
           NEW e \in Entities(a)
    PROVE  Incoming(a, la, e) = Incoming(b, lb, G[e])
<1> DEFINE F == [x \in Referrers(a, e) |-> <<x[1], la[x[2]]>>]
           H == [x \in Referrers(b, G[e]) |-> <<x[1], lb[x[2]]>>]
           R == [x \in Referrers(a, e) |-> <<x[1], G[x[2]]>>]
<1>1. ASSUME NEW x \in Referrers(a, e) PROVE R[x] \in Referrers(b, G[e])
  <2>1. PICK k \in 1..4, y \in Entities(a) : x = <<k, y>>
    BY ReferrerIs
  <2> QED
    BY <2>1, ReferrersAgree
<1>2. ASSUME NEW x \in Referrers(a, e), NEW y \in Referrers(a, e), R[x] = R[y] PROVE x = y
  <2>1. x[1] = y[1] /\ G[x[2]] = G[y[2]]
    BY <1>2
  <2>2. x[2] = y[2]
    BY <2>1, ReferrerIs, CorrespondsIs
  <2> QED
    BY <2>1, <2>2, ReferrerIs
<1>3. ASSUME NEW y \in Referrers(b, G[e]) PROVE \E x \in Referrers(a, e) : R[x] = y
  <2>1. PICK k \in 1..4, z \in Entities(b) : y = <<k, z>>
    BY ReferrerIs
  <2>2. PICK x \in Entities(a) : G[x] = z
    BY CorrespondsIs
  <2>3. <<k, x>> \in Referrers(a, e)
    BY <2>1, <2>2, ReferrersAgree
  <2>4. R[<<k, x>>] = y
    BY <2>1, <2>2, <2>3
  <2> QED
    BY <2>3, <2>4
<1>4. R \in [Referrers(a, e) -> Referrers(b, G[e])]
  BY <1>1
<1>5. \A x \in Referrers(a, e) : F[x] = H[R[x]]
  <2> TAKE x \in Referrers(a, e)
  <2>1. la[x[2]] = lb[G[x[2]]]
    BY ReferrerIs DEF Agree
  <2>2. R[x] \in Referrers(b, G[e]) /\ R[x][1] = x[1] /\ R[x][2] = G[x[2]]
    BY <1>1
  <2> QED
    BY <2>1, <2>2
<1>6. DOMAIN F = Referrers(a, e) /\ DOMAIN H = Referrers(b, G[e])
  OBVIOUS
<1>7. IsFiniteSet(Referrers(a, e))
  <2>1. IsFiniteSet((1..4) \X Entities(a))
    <3>1. IsFiniteSet(1..4)
      BY 1 \in Int, 4 \in Int, FS_Interval
    <3> QED
      BY <3>1, FS_Product, Zenon DEF Corresponds
  <2>2. Referrers(a, e) \in SUBSET ((1..4) \X Entities(a))
    BY DEF Referrers
  <2> QED
    BY <2>1, <2>2, FS_Subset
<1> HIDE DEF R
<1>8. R \in Bijection(Referrers(a, e), Referrers(b, G[e]))
  BY <1>2, <1>3, <1>4, BijectionMade
<1> HIDE DEF F, H
<1>9. Renames(R, F, H) /\ IsFiniteSet(DOMAIN F)
  BY <1>5, <1>6, <1>7, <1>8 DEF Renames
<1>10. Sorted(F) = Sorted(H)
  BY <1>9, SortedAgrees
<1> QED
  BY <1>10 DEF F, H, Incoming

LEMMA SignatureAgrees ==
    ASSUME NEW a, NEW b, NEW G, Corresponds(a, b, G), NEW la, NEW lb, Agree(a, G, la, lb),
           NEW e \in Entities(a)
    PROVE  Signature(a, la, e) = Signature(b, lb, G[e])
<1>1. Incoming(a, la, e) = Incoming(b, lb, G[e])
  BY IncomingAgrees
<1>2. Value(a, la, e) = Value(b, lb, G[e])
  BY DEF Corresponds, SameValues
<1> QED
  BY <1>1, <1>2 DEF Signature

-----------------------------------------------------------------------------
(* The rounds of labels.                                                    *)

LEMMA TheIs ==
    ASSUME NEW x
    PROVE  The({x}) = x
BY DEF The

Signatures(c, l) == [e \in Entities(c) |-> Signature(c, l, e)]

LEMMA RelabelIs ==
    ASSUME NEW c, NEW l
    PROVE  Relabel(c, l) = Ranks(Signatures(c, l))
<1>1. PICK s : s = Signatures(c, l)
  OBVIOUS
<1>2. {Ranks(sig) : sig \in {The({s})}} = {Ranks(s)}
  BY TheIs
<1>3. Relabel(c, l) = The({Ranks(sig) : sig \in {The({s})}})
  BY <1>1, Zenon DEF Relabel, Signatures
<1> QED
  BY <1>1, <1>2, <1>3, TheIs

\* The signatures of the children of a kind.
OfKind(c, l, k) == {Signature(c, l, x) : x \in {y \in Entities(c) : y[1] = k}}

LEMMA RankIs ==
    ASSUME NEW c, NEW l, NEW e \in Entities(c)
    PROVE  Relabel(c, l)[e] =
             Cardinality({s \in OfKind(c, l, e[1]) : Precedes(s, Signature(c, l, e))})
<1> DEFINE sig == Signatures(c, l)
<1>1. DOMAIN sig = Entities(c) /\ \A x \in Entities(c) : sig[x] = Signature(c, l, x)
  BY DEF Signatures
<1> HIDE DEF sig
<1>2. {sig[x] : x \in {y \in DOMAIN sig : y[1] = e[1]}} = OfKind(c, l, e[1])
  BY <1>1 DEF OfKind
<1>3. Ranks(sig)[e] =
        Cardinality({s \in {sig[x] : x \in {y \in DOMAIN sig : y[1] = e[1]}} : Precedes(s, sig[e])})
  BY <1>1 DEF Ranks
<1>4. Relabel(c, l)[e] = Ranks(sig)[e]
  BY RelabelIs DEF sig
<1> QED
  BY <1>1, <1>2, <1>3, <1>4

LEMMA RelabelAgrees ==
    ASSUME NEW a, NEW b, NEW G, Corresponds(a, b, G), NEW la, NEW lb, Agree(a, G, la, lb)
    PROVE  Agree(a, G, Relabel(a, la), Relabel(b, lb))
<1> SUFFICES ASSUME NEW e \in Entities(a)
             PROVE  Relabel(a, la)[e] = Relabel(b, lb)[G[e]]
  BY DEF Agree
<1>1. G[e] \in Entities(b) /\ G[e][1] = e[1]
  BY CorrespondsIs
<1>2. \A x \in Entities(a) : Signature(a, la, x) = Signature(b, lb, G[x])
  BY SignatureAgrees
<1>3. OfKind(a, la, e[1]) = OfKind(b, lb, e[1])
  BY <1>2, CorrespondsIs DEF OfKind
<1>4. Relabel(a, la)[e] =
        Cardinality({s \in OfKind(a, la, e[1]) : Precedes(s, Signature(a, la, e))})
  BY RankIs
<1>5. Relabel(b, lb)[G[e]] =
        Cardinality({s \in OfKind(b, lb, e[1]) : Precedes(s, Signature(b, lb, G[e]))})
  BY <1>1, RankIs
<1> QED
  BY <1>2, <1>3, <1>4, <1>5

LEMMA PartitionAgrees ==
    ASSUME NEW a, NEW b, NEW G, Corresponds(a, b, G),
           NEW la, NEW lb, Agree(a, G, la, lb), NEW ma, NEW mb, Agree(a, G, ma, mb)
    PROVE  SamePartition(a, la, ma) <=> SamePartition(b, lb, mb)
<1>1. /\ \A e \in Entities(a) : G[e] \in Entities(b) /\ G[e][1] = e[1]
      /\ \A y \in Entities(b) : \E e \in Entities(a) : G[e] = y
  BY CorrespondsIs
<1>2. \A e \in Entities(a) : la[e] = lb[G[e]] /\ ma[e] = mb[G[e]]
  BY DEF Agree
<1> QED
  BY <1>1, <1>2 DEF SamePartition

LEMMA NextRoundIs ==
    ASSUME NEW c, NEW last
    PROVE  NextRound(c, last) =
             IF last.done THEN last
             ELSE [lab |-> Relabel(c, last.lab),
                   done |-> SamePartition(c, last.lab, Relabel(c, last.lab))]
BY DEF NextRound, The

LEMMA RoundsAre ==
    ASSUME NEW c, NEW n \in Nat, n = Cardinality(Entities(c))
    PROVE  /\ Rounds(c)[0] = FirstRound(c)
           /\ \A k \in 1..n : Rounds(c)[k] = NextRound(c, Rounds(c)[k - 1])
<1> DEFINE Next(x) == The({NextRound(c, last) : last \in {x}})
           Upto(k, g) ==
        g = [m \in 0..k |-> IF m = 0 THEN FirstRound(c)
                            ELSE The({NextRound(c, last) : last \in {g[m - 1]}})]
           S == {k \in 0..n : \E g : Upto(k, g)}
<1>0. \A x : {NextRound(c, last) : last \in {x}} = {NextRound(c, x)}
  OBVIOUS
<1>1. \A x : Next(x) = NextRound(c, x)
  BY <1>0, TheIs, Zenon
<1>2. \A k, g : Upto(k, g) <=> g = [m \in 0..k |-> IF m = 0 THEN FirstRound(c) ELSE Next(g[m - 1])]
  OBVIOUS
<1>3. Upto(n, CHOOSE g : Upto(n, g)) => Upto(n, Rounds(c))
  BY Zenon DEF Rounds
<1> HIDE DEF Upto, Next
<1>4. 0 \in S
  <2>1. PICK g : g = [m \in 0..0 |-> IF m = 0 THEN FirstRound(c) ELSE c]
    OBVIOUS
  <2>2. g = [m \in 0..0 |-> IF m = 0 THEN FirstRound(c) ELSE Next(g[m - 1])]
    BY <2>1
  <2>3. Upto(0, g)
    BY <1>2, <2>2
  <2> QED
    BY <2>3
<1>5. ASSUME NEW k \in 1..n, k - 1 \in S PROVE k \in S
  <2>1. PICK g : g = [m \in 0..(k - 1) |-> IF m = 0 THEN FirstRound(c) ELSE Next(g[m - 1])]
    BY <1>2, <1>5
  <2>2. PICK f : f = [m \in 0..k |-> IF m = k THEN Next(g[k - 1]) ELSE g[m]]
    OBVIOUS
  <2>3. ASSUME NEW m \in 0..k
        PROVE  f[m] = IF m = 0 THEN FirstRound(c) ELSE Next(f[m - 1])
    <3>1. CASE m = k
      <4>1. f[m] = Next(g[k - 1]) /\ f[m - 1] = g[k - 1] /\ m # 0
        BY <2>2, <3>1
      <4> QED
        BY <3>1, <4>1
    <3>2. CASE m # k
      <4>1. m \in 0..(k - 1) /\ f[m] = g[m] /\ (m # 0 => f[m - 1] = g[m - 1])
        BY <2>2, <3>2
      <4> QED
        BY <2>1, <4>1
    <3> QED
      BY <3>1, <3>2
  <2>4. f = [m \in 0..k |-> IF m = 0 THEN FirstRound(c) ELSE Next(f[m - 1])]
    BY <2>2, <2>3
  <2> QED
    BY <1>2, <1>5, <2>4
<1>6. \A k \in 0..n : k \in S
  <2> HIDE DEF S
  <2> QED
    BY <1>4, <1>5, Counting
<1>7. n \in S
  BY <1>6
<1>8. Upto(n, Rounds(c))
  BY <1>3, <1>7, Zenon
<1>9. PICK R : R = Rounds(c)
  OBVIOUS
<1>10. R = [m \in 0..n |-> IF m = 0 THEN FirstRound(c) ELSE Next(R[m - 1])]
  BY <1>2, <1>8, <1>9
<1>11. R[0] = FirstRound(c) /\ \A k \in 1..n : R[k] = Next(R[k - 1])
  BY <1>10
<1> QED
  BY <1>1, <1>9, <1>11

LEMMA SameSize ==
    ASSUME NEW a, NEW b, NEW G, Corresponds(a, b, G)
    PROVE  /\ Cardinality(Entities(a)) \in Nat
           /\ Cardinality(Entities(b)) = Cardinality(Entities(a))
<1>1. IsFiniteSet(Entities(a)) /\ G \in Bijection(Entities(a), Entities(b))
  BY DEF Corresponds
<1> QED
  BY <1>1, FS_CardinalityType, FS_Bijection DEF ExistsBijection

LEMMA FirstAgrees ==
    ASSUME NEW a, NEW b, NEW G, Corresponds(a, b, G)
    PROVE  Agree(a, G, FirstRound(a).lab, FirstRound(b).lab) /\ ~FirstRound(a).done /\ ~FirstRound(b).done
<1>1. PICK la, lb : la = [e \in Entities(a) |-> 0] /\ lb = [e \in Entities(b) |-> 0]
  OBVIOUS
<1>2. Agree(a, G, la, lb)
  BY <1>1, CorrespondsIs DEF Agree
<1>3. Agree(a, G, Relabel(a, la), Relabel(b, lb))
  BY <1>2, RelabelAgrees
<1>4. FirstRound(a).lab = Relabel(a, la) /\ FirstRound(b).lab = Relabel(b, lb)
  BY <1>1 DEF FirstRound
<1> QED
  BY <1>3, <1>4 DEF FirstRound

\* One round keeps the agreement.
RoundsAgree(a, G, x, y) == (x.done <=> y.done) /\ Agree(a, G, x.lab, y.lab)

LEMMA NextAgrees ==
    ASSUME NEW a, NEW b, NEW G, Corresponds(a, b, G), NEW x, NEW y, RoundsAgree(a, G, x, y)
    PROVE  RoundsAgree(a, G, NextRound(a, x), NextRound(b, y))
<1>1. CASE x.done
  BY <1>1, NextRoundIs DEF RoundsAgree
<1>2. CASE ~x.done
  <2>1. PICK la, lb : la = Relabel(a, x.lab) /\ lb = Relabel(b, y.lab)
    OBVIOUS
  <2>2. Agree(a, G, la, lb)
    BY <2>1, RelabelAgrees DEF RoundsAgree
  <2>3. SamePartition(a, x.lab, la) <=> SamePartition(b, y.lab, lb)
    BY <2>2, PartitionAgrees DEF RoundsAgree
  <2>4. NextRound(a, x) = [lab |-> la, done |-> SamePartition(a, x.lab, la)]
    BY <1>2, <2>1, NextRoundIs
  <2>5. NextRound(b, y) = [lab |-> lb, done |-> SamePartition(b, y.lab, lb)]
    BY <1>2, <2>1, NextRoundIs DEF RoundsAgree
  <2> QED
    BY <2>2, <2>3, <2>4, <2>5 DEF RoundsAgree
<1> QED
  BY <1>1, <1>2

LEMMA LabelsAgree ==
    ASSUME NEW a, NEW b, NEW G, Corresponds(a, b, G)
    PROVE  Agree(a, G, Labels(a), Labels(b))
<1>1. PICK n \in Nat : n = Cardinality(Entities(a)) /\ n = Cardinality(Entities(b))
  BY SameSize
<1>2. PICK R, Q : R = Rounds(a) /\ Q = Rounds(b)
  OBVIOUS
<1>3. /\ R[0] = FirstRound(a) /\ \A k \in 1..n : R[k] = NextRound(a, R[k - 1])
      /\ Q[0] = FirstRound(b) /\ \A k \in 1..n : Q[k] = NextRound(b, Q[k - 1])
  BY <1>1, <1>2, RoundsAre
<1> DEFINE S == {k \in 0..n : RoundsAgree(a, G, R[k], Q[k])}
<1>4. 0 \in S
  BY <1>3, FirstAgrees DEF RoundsAgree
<1>5. \A k \in 1..n : k - 1 \in S => k \in S
  BY <1>3, NextAgrees
<1>6. \A k \in 0..n : k \in S
  <2> HIDE DEF S
  <2> QED
    BY <1>4, <1>5, Counting
<1>7. RoundsAgree(a, G, R[n], Q[n])
  BY <1>6
<1> QED
  BY <1>1, <1>2, <1>7 DEF RoundsAgree, Labels

-----------------------------------------------------------------------------
(* The payload.                                                             *)

Kinds == {"seed", "page_type", "url_matcher", "transition"}
ValuesOfKind(c, l, k) == [e \in {x \in Entities(c) : x[1] = k} |-> Value(c, l, e)]
Profiles(c, l) == [e \in Entities(c) |-> <<e[1], l[e], Incoming(c, l, e)>>]
Budgeted(c, l) == [p \in c.budget |-> l[PageType(p)]]

LEMMA PayloadIs ==
    ASSUME NEW c, NEW l
    PROVE  Payload(c, l) = [values |-> [k \in Kinds |-> BagOf(ValuesOfKind(c, l, k))],
                            profiles |-> BagOf(Profiles(c, l)), budget |-> BagOf(Budgeted(c, l))]
BY DEF Payload, Kinds, ValuesOfKind, Profiles, Budgeted

LEMMA HashIs ==
    ASSUME NEW c
    PROVE  Hash(c) = Payload(c, Labels(c))
<1>1. UNION {{Payload(x, l) : l \in {Labels(x)}} : x \in {c}} = {Payload(c, Labels(c))}
  OBVIOUS
<1> QED
  BY <1>1, TheIs, Zenon DEF Hash

LEMMA PayloadAgrees ==
    ASSUME NEW a, NEW b, NEW G, Corresponds(a, b, G), NEW la, NEW lb, Agree(a, G, la, lb)
    PROVE  Payload(a, la) = Payload(b, lb)
<1>1. IsFiniteSet(Entities(a)) /\ G \in Bijection(Entities(a), Entities(b))
  BY DEF Corresponds
<1>2. ASSUME NEW k
      PROVE  BagOf(ValuesOfKind(a, la, k)) = BagOf(ValuesOfKind(b, lb, k))
  <2>1. PICK S, T : S = {x \in Entities(a) : x[1] = k} /\ T = {x \in Entities(b) : x[1] = k}
    OBVIOUS
  <2>2. S \in SUBSET Entities(a) /\ T \in SUBSET Entities(b)
    BY <2>1
  <2>3. \A x \in Entities(a) : x \in S <=> G[x] \in T
    BY <2>1, CorrespondsIs
  <2>4. PICK R : R = [x \in S |-> G[x]]
    OBVIOUS
  <2>5. R \in Bijection(S, T) /\ IsFiniteSet(S)
    BY <1>1, <2>2, <2>3, <2>4, PartsMatch, FS_Subset
  <2>6. \A e \in S : Value(a, la, e) = Value(b, lb, G[e])
    BY <2>2 DEF Corresponds, SameValues
  <2>7. R \in [S -> T]
    BY <2>5, BijectionIs
  <2>8. PICK F, H : F = ValuesOfKind(a, la, k) /\ H = ValuesOfKind(b, lb, k)
    OBVIOUS
  <2>9. /\ DOMAIN F = S /\ \A e \in S : F[e] = Value(a, la, e)
        /\ DOMAIN H = T /\ \A e \in T : H[e] = Value(b, lb, e)
    BY <2>1, <2>8 DEF ValuesOfKind
  <2>10. Renames(R, F, H)
    BY <2>4, <2>5, <2>6, <2>7, <2>9 DEF Renames
  <2> QED
    BY <2>5, <2>8, <2>9, <2>10, BagAgrees
<1>3. BagOf(Profiles(a, la)) = BagOf(Profiles(b, lb))
  <2>1. \A e \in Entities(a) : /\ Incoming(a, la, e) = Incoming(b, lb, G[e])
                              /\ la[e] = lb[G[e]] /\ G[e] \in Entities(b) /\ G[e][1] = e[1]
    BY IncomingAgrees, CorrespondsIs DEF Agree
  <2>2. PICK F, H : F = Profiles(a, la) /\ H = Profiles(b, lb)
    OBVIOUS
  <2>3. /\ DOMAIN F = Entities(a) /\ \A e \in Entities(a) : F[e] = <<e[1], la[e], Incoming(a, la, e)>>
        /\ DOMAIN H = Entities(b) /\ \A e \in Entities(b) : H[e] = <<e[1], lb[e], Incoming(b, lb, e)>>
    BY <2>2 DEF Profiles
  <2>4. Renames(G, F, H)
    BY <1>1, <2>1, <2>3 DEF Renames
  <2> QED
    BY <1>1, <2>2, <2>3, <2>4, BagAgrees
<1>4. BagOf(Budgeted(a, la)) = BagOf(Budgeted(b, lb))
  <2>1. PICK h \in Bijection(a.budget, b.budget) :
          \A p \in a.budget : PageType(p) \in Entities(a) /\ G[PageType(p)] = PageType(h[p])
    BY DEF Corresponds, SameBudget
  <2>2. h \in [a.budget -> b.budget]
    BY <2>1, BijectionIs
  <2>3. PICK F, H : F = Budgeted(a, la) /\ H = Budgeted(b, lb)
    OBVIOUS
  <2>4. /\ DOMAIN F = a.budget /\ \A p \in a.budget : F[p] = la[PageType(p)]
        /\ DOMAIN H = b.budget /\ \A p \in b.budget : H[p] = lb[PageType(p)]
    BY <2>3 DEF Budgeted
  <2>5. \A p \in a.budget : F[p] = H[h[p]]
    BY <2>1, <2>2, <2>4 DEF Agree
  <2>6. Renames(h, F, H) /\ IsFiniteSet(DOMAIN F)
    BY <2>4, <2>5 DEF Renames, Corresponds
  <2> QED
    BY <2>3, <2>6, BagAgrees
<1> QED
  BY <1>2, <1>3, <1>4, PayloadIs

LEMMA HashAgrees ==
    ASSUME NEW a, NEW b, NEW G, Corresponds(a, b, G)
    PROVE  Hash(a) = Hash(b)
BY LabelsAgree, PayloadAgrees, HashIs

-----------------------------------------------------------------------------
(* The children of a configuration that the tables can hold.                *)

Configured(c) ==
    /\ IsFiniteSet(DOMAIN c.pages) /\ DOMAIN c.pages \subseteq Nat \ {0}
    /\ DOMAIN c.matchers = DOMAIN c.pages
    /\ \A p \in DOMAIN c.pages : c.matchers[p] \in [Defs -> Nat]
    /\ IsFiniteSet(DOMAIN c.transitions)
    /\ \A t \in DOMAIN c.transitions :
          \E p, q \in DOMAIN c.pages : c.transitions[t] = [src |-> p, dst |-> q]
    /\ c.seeds \subseteq DOMAIN c.pages \cup {NoHint}
    /\ c.budget \subseteq DOMAIN c.pages

MatcherOf(c, p, d, k) == p \in DOMAIN c.pages /\ d \in Defs /\ k \in 1..3 /\ k <= c.matchers[p][d]

LEMMA EntityIs ==
    ASSUME NEW c, Configured(c), NEW e \in Entities(c)
    PROVE  \/ \E h \in c.seeds : e = Seed(h)
           \/ \E p \in DOMAIN c.pages : e = PageType(p)
           \/ \E t \in DOMAIN c.transitions : e = Transition(t)
           \/ \E p, d, k : MatcherOf(c, p, d, k) /\ e = Matcher(p, d, k)
<1>1. CASE e \in {Seed(h) : h \in c.seeds}
  BY <1>1
<1>2. CASE e \in {PageType(p) : p \in DOMAIN c.pages}
  BY <1>2
<1>3. CASE e \in {Transition(t) : t \in DOMAIN c.transitions}
  BY <1>3
<1>4. CASE e \in Matchers(c)
  <2>1. PICK p \in DOMAIN c.pages, k \in 1..3, d \in UNION {DOMAIN c.matchers[q] : q \in DOMAIN c.pages} :
          e = Matcher(p, d, k)
    BY <1>4 DEF Matchers
  <2>2. e[4] <= c.matchers[e[2]][e[3]]
    BY <1>4 DEF Matchers
  <2>3. e[2] = p /\ e[3] = d /\ e[4] = k
    BY <2>1 DEF Matcher
  <2>4. PICK q \in DOMAIN c.pages : d \in DOMAIN c.matchers[q]
    BY <2>1
  <2>5. d \in Defs
    BY <2>4 DEF Configured
  <2> QED
    BY <2>1, <2>2, <2>3, <2>5 DEF MatcherOf
<1> QED
  BY <1>1, <1>2, <1>3, <1>4, Zenon DEF Entities

LEMMA AreEntities ==
    ASSUME NEW c, Configured(c)
    PROVE  /\ \A h \in c.seeds : Seed(h) \in Entities(c)
           /\ \A p \in DOMAIN c.pages : PageType(p) \in Entities(c)
           /\ \A t \in DOMAIN c.transitions : Transition(t) \in Entities(c)
           /\ \A p, d, k : MatcherOf(c, p, d, k) => Matcher(p, d, k) \in Entities(c)
<1>1. \A h \in c.seeds : Seed(h) \in Entities(c)
  BY DEF Entities
<1>2. \A p \in DOMAIN c.pages : PageType(p) \in Entities(c)
  BY DEF Entities
<1>3. \A t \in DOMAIN c.transitions : Transition(t) \in Entities(c)
  BY DEF Entities
<1>4. ASSUME NEW p, NEW d, NEW k, MatcherOf(c, p, d, k)
      PROVE  Matcher(p, d, k) \in Entities(c)
  <2>1. p \in DOMAIN c.pages /\ d \in Defs /\ k \in 1..3 /\ k <= c.matchers[p][d]
    BY <1>4 DEF MatcherOf
  <2>2. d \in UNION {DOMAIN c.matchers[q] : q \in DOMAIN c.pages}
    BY <2>1 DEF Configured
  <2>3. PICK m : m = Matcher(p, d, k)
    OBVIOUS
  <2>4. m[2] = p /\ m[3] = d /\ m[4] = k
    BY <2>3 DEF Matcher
  <2>5. m \in {Matcher(x, y, z) : x \in DOMAIN c.pages, z \in 1..3,
                             y \in UNION {DOMAIN c.matchers[q] : q \in DOMAIN c.pages}}
    BY <2>1, <2>2, <2>3
  <2>6. m \in Matchers(c)
    BY <2>1, <2>4, <2>5 DEF Matchers
  <2> QED
    BY <2>3, <2>6 DEF Entities
<1> QED
  BY <1>1, <1>2, <1>3, <1>4

\* The image of a finite set is finite.
LEMMA ImageFinite ==
    ASSUME NEW S, IsFiniteSet(S), NEW F, NEW T, T = {F[x] : x \in S}
    PROVE  IsFiniteSet(T)
<1>1. PICK R : R = [x \in S |-> F[x]]
  OBVIOUS
<1>2. R \in [S -> T] /\ \A y \in T : \E x \in S : R[x] = y
  BY <1>1
<1>3. R \in Surjection(S, T)
  BY <1>2 DEF Surjection
<1> QED
  BY <1>3, FS_Surjection

LEMMA EntitiesFinite ==
    ASSUME NEW c, Configured(c), IsFiniteSet(Defs)
    PROVE  IsFiniteSet(Entities(c))
<1>1. IsFiniteSet(c.seeds)
  <2>1. IsFiniteSet(DOMAIN c.pages \cup {NoHint})
    BY FS_AddElement DEF Configured
  <2> QED
    BY <2>1, FS_Subset DEF Configured
<1>2. IsFiniteSet({Seed(h) : h \in c.seeds})
  <2>1. PICK F : F = [h \in c.seeds |-> Seed(h)]
    OBVIOUS
  <2>2. PICK T : T = {Seed(h) : h \in c.seeds}
    OBVIOUS
  <2>3. T = {F[h] : h \in c.seeds}
    BY <2>1, <2>2
  <2> QED
    BY <1>1, <2>2, <2>3, ImageFinite
<1>3. IsFiniteSet({PageType(p) : p \in DOMAIN c.pages})
  <2>1. PICK F : F = [p \in DOMAIN c.pages |-> PageType(p)]
    OBVIOUS
  <2>2. PICK T : T = {PageType(p) : p \in DOMAIN c.pages}
    OBVIOUS
  <2>3. T = {F[p] : p \in DOMAIN c.pages}
    BY <2>1, <2>2
  <2>4. IsFiniteSet(DOMAIN c.pages)
    BY DEF Configured
  <2>5. IsFiniteSet(T)
    BY <2>3, <2>4, ImageFinite
  <2> QED
    BY <2>2, <2>5
<1>4. IsFiniteSet({Transition(t) : t \in DOMAIN c.transitions})
  <2>1. PICK F : F = [t \in DOMAIN c.transitions |-> Transition(t)]
    OBVIOUS
  <2>2. PICK T : T = {Transition(t) : t \in DOMAIN c.transitions}
    OBVIOUS
  <2>3. T = {F[t] : t \in DOMAIN c.transitions}
    BY <2>1, <2>2
  <2>4. IsFiniteSet(DOMAIN c.transitions)
    BY DEF Configured
  <2>5. IsFiniteSet(T)
    BY <2>3, <2>4, ImageFinite
  <2> QED
    BY <2>2, <2>5
<1>5. PICK M : M = {e \in Entities(c) : \E p, d, k : MatcherOf(c, p, d, k) /\ e = Matcher(p, d, k)}
  OBVIOUS
<1>6. IsFiniteSet(M)
  <2>1. PICK S : S = ((DOMAIN c.pages) \X Defs) \X (1..3)
    OBVIOUS
  <2>2. IsFiniteSet(1..3)
    BY 1 \in Int, 3 \in Int, FS_Interval
  <2>3. IsFiniteSet((DOMAIN c.pages) \X Defs)
    BY FS_Product DEF Configured
  <2>4. IsFiniteSet(S)
    BY <2>1, <2>2, <2>3, FS_Product
  <2>5. PICK F : F = [x \in S |-> Matcher(x[1][1], x[1][2], x[2])]
    OBVIOUS
  <2>6. PICK T : T = {F[x] : x \in S}
    OBVIOUS
  <2>7. IsFiniteSet(T)
    BY <2>4, <2>6, ImageFinite
  <2>8. ASSUME NEW e \in M PROVE e \in T
    <3>1. PICK p, d, k : MatcherOf(c, p, d, k) /\ e = Matcher(p, d, k)
      BY <1>5
    <3>2. PICK x : x = <<<<p, d>>, k>>
      OBVIOUS
    <3>3. x \in S /\ F[x] = e
      BY <2>1, <2>5, <3>1, <3>2 DEF MatcherOf
    <3> QED
      BY <2>6, <3>3
  <2>9. M \in SUBSET T
    BY <2>8
  <2> QED
    BY <2>7, <2>9, FS_Subset
<1>7. PICK A, B, C : /\ A = {Seed(h) : h \in c.seeds}
                     /\ B = {PageType(p) : p \in DOMAIN c.pages}
                     /\ C = {Transition(t) : t \in DOMAIN c.transitions}
  OBVIOUS
<1>8. Entities(c) \in SUBSET (((A \cup B) \cup C) \cup M)
  <2>1. ASSUME NEW e \in Entities(c) PROVE e \in A \/ e \in B \/ e \in C \/ e \in M
    BY <1>5, <1>7, EntityIs
  <2> QED
    BY <2>1
<1>9. IsFiniteSet(A \cup B)
  BY <1>2, <1>3, <1>7, FS_Union
<1>10. IsFiniteSet((A \cup B) \cup C)
  BY <1>4, <1>7, <1>9, FS_Union
<1>11. IsFiniteSet(((A \cup B) \cup C) \cup M)
  BY <1>6, <1>10, FS_Union
<1> QED
  BY <1>8, <1>11, FS_Subset

-----------------------------------------------------------------------------
(* One configuration is another, renamed: f takes its page types and g its  *)
(* transitions to the other's.                                              *)

HintOf(f, h) == IF h = NoHint THEN NoHint ELSE f[h]

Renamed(a, b, f, g) ==
    /\ f \in Bijection(DOMAIN a.pages, DOMAIN b.pages)
    /\ g \in Bijection(DOMAIN a.transitions, DOMAIN b.transitions)
    /\ \A p \in DOMAIN a.pages : a.pages[p] = b.pages[f[p]] /\ a.matchers[p] = b.matchers[f[p]]
    /\ \A t \in DOMAIN a.transitions :
          /\ b.transitions[g[t]].src = f[a.transitions[t].src]
          /\ b.transitions[g[t]].dst = f[a.transitions[t].dst]
    /\ b.budget = {f[p] : p \in a.budget}
    /\ b.seeds = {HintOf(f, h) : h \in a.seeds}

Twin(f, g, e) ==
    CASE e[1] = "page_type"  -> PageType(f[e[2]])
      [] e[1] = "seed"       -> Seed(HintOf(f, e[2]))
      [] e[1] = "transition" -> Transition(g[e[2]])
      [] OTHER -> Matcher(f[e[2]], e[3], e[4])

LEMMA TwinIs ==
    ASSUME NEW f, NEW g
    PROVE  /\ \A p : Twin(f, g, PageType(p)) = PageType(f[p])
           /\ \A h : Twin(f, g, Seed(h)) = Seed(HintOf(f, h))
           /\ \A t : Twin(f, g, Transition(t)) = Transition(g[t])
BY DEF Twin, PageType, Seed, Transition

LEMMA MatcherTwinIs ==
    ASSUME NEW f, NEW g, NEW p, NEW d, NEW k
    PROVE  Twin(f, g, Matcher(p, d, k)) = Matcher(f[p], d, k)
BY DEF Twin, Matcher

LEMMA RenamedIs ==
    ASSUME NEW a, NEW b, NEW f, NEW g, Renamed(a, b, f, g), Configured(a), Configured(b)
    PROVE  /\ \A p \in DOMAIN a.pages : f[p] \in DOMAIN b.pages /\ f[p] # NoHint /\ p # NoHint
           /\ \A p, q \in DOMAIN a.pages : f[p] = f[q] => p = q
           /\ \A q \in DOMAIN b.pages : \E p \in DOMAIN a.pages : f[p] = q
           /\ \A t \in DOMAIN a.transitions : g[t] \in DOMAIN b.transitions
           /\ \A t, u \in DOMAIN a.transitions : g[t] = g[u] => t = u
           /\ \A u \in DOMAIN b.transitions : \E t \in DOMAIN a.transitions : g[t] = u
           /\ \A h \in a.seeds : HintOf(f, h) \in b.seeds
           /\ \A h, i \in a.seeds : HintOf(f, h) = HintOf(f, i) => h = i
           /\ \A i \in b.seeds : \E h \in a.seeds : HintOf(f, h) = i
<1>1. /\ f \in Bijection(DOMAIN a.pages, DOMAIN b.pages)
      /\ g \in Bijection(DOMAIN a.transitions, DOMAIN b.transitions)
  BY DEF Renamed
<1>2. /\ \A p \in DOMAIN a.pages : f[p] \in DOMAIN b.pages
      /\ \A p, q \in DOMAIN a.pages : f[p] = f[q] => p = q
      /\ \A q \in DOMAIN b.pages : \E p \in DOMAIN a.pages : f[p] = q
  BY <1>1, BijectionIs
<1>3. /\ \A t \in DOMAIN a.transitions : g[t] \in DOMAIN b.transitions
      /\ \A t, u \in DOMAIN a.transitions : g[t] = g[u] => t = u
      /\ \A u \in DOMAIN b.transitions : \E t \in DOMAIN a.transitions : g[t] = u
  BY <1>1, BijectionIs
<1>4. 0 \notin DOMAIN a.pages /\ 0 \notin DOMAIN b.pages
  BY DEF Configured
<1>5. \A p \in DOMAIN a.pages : f[p] # NoHint /\ p # NoHint
  BY <1>2, <1>4 DEF NoHint
<1>6. \A h \in a.seeds : h = NoHint \/ h \in DOMAIN a.pages
  BY DEF Configured
<1>7. \A h, i \in a.seeds : HintOf(f, h) = HintOf(f, i) => h = i
  BY <1>2, <1>5, <1>6 DEF HintOf
<1>8. /\ \A h \in a.seeds : HintOf(f, h) \in b.seeds
      /\ \A i \in b.seeds : \E h \in a.seeds : HintOf(f, h) = i
  BY DEF Renamed
<1> QED
  BY <1>2, <1>3, <1>5, <1>7, <1>8

LEMMA TwinsAreEntities ==
    ASSUME NEW a, NEW b, NEW f, NEW g, Renamed(a, b, f, g), Configured(a), Configured(b)
    PROVE  /\ \A e \in Entities(a) : Twin(f, g, e) \in Entities(b) /\ Twin(f, g, e)[1] = e[1]
           /\ \A e, x \in Entities(a) : Twin(f, g, e) = Twin(f, g, x) => e = x
           /\ \A y \in Entities(b) : \E e \in Entities(a) : Twin(f, g, e) = y
<1>1. ASSUME NEW p, NEW d, NEW k, MatcherOf(a, p, d, k)
      PROVE  MatcherOf(b, f[p], d, k)
  <2>1. p \in DOMAIN a.pages /\ d \in Defs /\ k \in 1..3 /\ k <= a.matchers[p][d]
    BY <1>1 DEF MatcherOf
  <2>2. f[p] \in DOMAIN b.pages
    BY <2>1, RenamedIs
  <2>3. a.matchers[p] = b.matchers[f[p]]
    BY <2>1 DEF Renamed
  <2> QED
    BY <2>1, <2>2, <2>3 DEF MatcherOf
<1>2. ASSUME NEW e \in Entities(a)
      PROVE  Twin(f, g, e) \in Entities(b) /\ Twin(f, g, e)[1] = e[1]
  <2>1. CASE \E h \in a.seeds : e = Seed(h)
    <3>1. PICK h \in a.seeds : e = Seed(h)
      BY <2>1
    <3>2. Twin(f, g, e) = Seed(HintOf(f, h))
      BY <3>1, TwinIs
    <3> QED
      BY <3>1, <3>2, RenamedIs, AreEntities DEF Seed
  <2>2. CASE \E p \in DOMAIN a.pages : e = PageType(p)
    <3>1. PICK p \in DOMAIN a.pages : e = PageType(p)
      BY <2>2
    <3>2. Twin(f, g, e) = PageType(f[p])
      BY <3>1, TwinIs
    <3> QED
      BY <3>1, <3>2, RenamedIs, AreEntities DEF PageType
  <2>3. CASE \E t \in DOMAIN a.transitions : e = Transition(t)
    <3>1. PICK t \in DOMAIN a.transitions : e = Transition(t)
      BY <2>3
    <3>2. Twin(f, g, e) = Transition(g[t])
      BY <3>1, TwinIs
    <3> QED
      BY <3>1, <3>2, RenamedIs, AreEntities DEF Transition
  <2>4. CASE \E p, d, k : MatcherOf(a, p, d, k) /\ e = Matcher(p, d, k)
    <3>1. PICK p, d, k : MatcherOf(a, p, d, k) /\ e = Matcher(p, d, k)
      BY <2>4
    <3>2. Twin(f, g, e) = Matcher(f[p], d, k)
      BY <3>1, MatcherTwinIs
    <3>3. Matcher(f[p], d, k) \in Entities(b)
      BY <1>1, <3>1, AreEntities
    <3> QED
      BY <3>1, <3>2, <3>3 DEF Matcher
  <2> QED
    BY <2>1, <2>2, <2>3, <2>4, EntityIs
<1>3. ASSUME NEW e \in Entities(a), NEW x \in Entities(a), Twin(f, g, e) = Twin(f, g, x)
      PROVE  e = x
  <2>0. e[1] = x[1]
    BY <1>2, <1>3
  <2>1. CASE \E h \in a.seeds : e = Seed(h)
    <3>1. PICK h \in a.seeds : e = Seed(h)
      BY <2>1
    <3>2. PICK i \in a.seeds : x = Seed(i)
      BY <2>0, <3>1, EntityIs DEF Seed, PageType, Transition, Matcher
    <3>3. Seed(HintOf(f, h)) = Seed(HintOf(f, i))
      BY <1>3, <3>1, <3>2, TwinIs
    <3>4. HintOf(f, h) = HintOf(f, i)
      BY <3>3 DEF Seed
    <3> QED
      BY <3>1, <3>2, <3>4, RenamedIs
  <2>2. CASE \E p \in DOMAIN a.pages : e = PageType(p)
    <3>1. PICK p \in DOMAIN a.pages : e = PageType(p)
      BY <2>2
    <3>2. PICK q \in DOMAIN a.pages : x = PageType(q)
      BY <2>0, <3>1, EntityIs DEF Seed, PageType, Transition, Matcher
    <3>3. PageType(f[p]) = PageType(f[q])
      BY <1>3, <3>1, <3>2, TwinIs
    <3>4. f[p] = f[q]
      BY <3>3 DEF PageType
    <3> QED
      BY <3>1, <3>2, <3>4, RenamedIs
  <2>3. CASE \E t \in DOMAIN a.transitions : e = Transition(t)
    <3>1. PICK t \in DOMAIN a.transitions : e = Transition(t)
      BY <2>3
    <3>2. PICK u \in DOMAIN a.transitions : x = Transition(u)
      BY <2>0, <3>1, EntityIs DEF Seed, PageType, Transition, Matcher
    <3>3. Transition(g[t]) = Transition(g[u])
      <4>1. Twin(f, g, e) = Transition(g[t])
        BY <3>1, TwinIs
      <4>2. Twin(f, g, x) = Transition(g[u])
        BY <3>2, TwinIs
      <4> QED
        BY <1>3, <4>1, <4>2
    <3>4. g[t] = g[u]
      BY <3>3 DEF Transition
    <3> QED
      BY <3>1, <3>2, <3>4, RenamedIs
  <2>4. CASE \E p, d, k : MatcherOf(a, p, d, k) /\ e = Matcher(p, d, k)
    <3>1. PICK p, d, k : MatcherOf(a, p, d, k) /\ e = Matcher(p, d, k)
      BY <2>4
    <3>2. PICK q, c, i : MatcherOf(a, q, c, i) /\ x = Matcher(q, c, i)
      BY <2>0, <3>1, EntityIs DEF Seed, PageType, Transition, Matcher
    <3>3. Matcher(f[p], d, k) = Matcher(f[q], c, i)
      BY <1>3, <3>1, <3>2, MatcherTwinIs
    <3>4. f[p] = f[q] /\ d = c /\ k = i
      BY <3>3 DEF Matcher
    <3>5. p \in DOMAIN a.pages /\ q \in DOMAIN a.pages
      BY <3>1, <3>2 DEF MatcherOf
    <3> QED
      BY <3>1, <3>2, <3>4, <3>5, RenamedIs
  <2> QED
    BY <2>1, <2>2, <2>3, <2>4, EntityIs
<1>4. ASSUME NEW y \in Entities(b)
      PROVE  \E e \in Entities(a) : Twin(f, g, e) = y
  <2>1. CASE \E i \in b.seeds : y = Seed(i)
    <3>1. PICK i \in b.seeds : y = Seed(i)
      BY <2>1
    <3>2. PICK h \in a.seeds : HintOf(f, h) = i
      BY RenamedIs
    <3>3. Twin(f, g, Seed(h)) = y /\ Seed(h) \in Entities(a)
      BY <3>1, <3>2, TwinIs, AreEntities
    <3> QED
      BY <3>3
  <2>2. CASE \E q \in DOMAIN b.pages : y = PageType(q)
    <3>1. PICK q \in DOMAIN b.pages : y = PageType(q)
      BY <2>2
    <3>2. PICK p \in DOMAIN a.pages : f[p] = q
      BY RenamedIs
    <3>3. Twin(f, g, PageType(p)) = y /\ PageType(p) \in Entities(a)
      BY <3>1, <3>2, TwinIs, AreEntities
    <3> QED
      BY <3>3
  <2>3. CASE \E u \in DOMAIN b.transitions : y = Transition(u)
    <3>1. PICK u \in DOMAIN b.transitions : y = Transition(u)
      BY <2>3
    <3>2. PICK t \in DOMAIN a.transitions : g[t] = u
      BY RenamedIs
    <3>3. Twin(f, g, Transition(t)) = y /\ Transition(t) \in Entities(a)
      BY <3>1, <3>2, TwinIs, AreEntities
    <3> QED
      BY <3>3
  <2>4. CASE \E p, d, k : MatcherOf(b, p, d, k) /\ y = Matcher(p, d, k)
    <3>1. PICK q, d, k : MatcherOf(b, q, d, k) /\ y = Matcher(q, d, k)
      BY <2>4
    <3>2. PICK p \in DOMAIN a.pages : f[p] = q
      BY <3>1, RenamedIs DEF MatcherOf
    <3>3. MatcherOf(a, p, d, k)
      BY <3>1, <3>2 DEF Renamed, MatcherOf
    <3>4. Twin(f, g, Matcher(p, d, k)) = y /\ Matcher(p, d, k) \in Entities(a)
      BY <3>1, <3>2, <3>3, MatcherTwinIs, AreEntities
    <3> QED
      BY <3>4
  <2> QED
    BY <2>1, <2>2, <2>3, <2>4, EntityIs
<1> QED
  BY <1>2, <1>3, <1>4

\* What each kind of child refers to, and its value.
LEMMA ReferencesAre ==
    ASSUME NEW c
    PROVE  /\ \A p : References(c, PageType(p)) = {}
           /\ \A h : References(c, Seed(h)) = IF h # NoHint THEN {<<3, h>>} ELSE {}
           /\ \A t : References(c, Transition(t)) =
                       {<<1, c.transitions[t].src>>, <<2, c.transitions[t].dst>>}
<1>1. \A p : References(c, PageType(p)) = {}
  BY DEF References, PageType
<1>2. \A h : References(c, Seed(h)) = IF h # NoHint THEN {<<3, h>>} ELSE {}
  BY DEF References, Seed
<1>3. \A t : References(c, Transition(t)) =
               {<<1, c.transitions[t].src>>, <<2, c.transitions[t].dst>>}
  BY DEF References, Transition
<1> QED
  BY <1>1, <1>2, <1>3

LEMMA MatcherReferences ==
    ASSUME NEW c, NEW p, NEW d, NEW k
    PROVE  References(c, Matcher(p, d, k)) = {<<4, p>>}
BY DEF References, Matcher

LEMMA ReferencesRenamed ==
    ASSUME NEW a, NEW b, NEW f, NEW g, Renamed(a, b, f, g), Configured(a), Configured(b),
           NEW p \in DOMAIN a.pages, NEW x \in Entities(a), NEW k \in 1..4
    PROVE  <<k, p>> \in References(a, x) <=> <<k, f[p]>> \in References(b, Twin(f, g, x))
<1>1. CASE \E h \in a.seeds : x = Seed(h)
  <2>1. PICK h \in a.seeds : x = Seed(h)
    BY <1>1
  <2>2. References(a, x) = IF h # NoHint THEN {<<3, h>>} ELSE {}
    BY <2>1, ReferencesAre
  <2>3. PICK i : i = HintOf(f, h)
    OBVIOUS
  <2>4. Twin(f, g, x) = Seed(i)
    BY <2>1, <2>3, TwinIs
  <2>5. References(b, Twin(f, g, x)) = IF i # NoHint THEN {<<3, i>>} ELSE {}
    BY <2>4, ReferencesAre
  <2>6. h = NoHint \/ h \in DOMAIN a.pages
    BY DEF Configured
  <2>7. h # NoHint => i = f[h] /\ i # NoHint /\ (f[p] = f[h] => p = h)
    BY <2>3, <2>6, RenamedIs DEF HintOf
  <2>8. h = NoHint => i = NoHint
    BY <2>3 DEF HintOf
  <2> QED
    BY <2>2, <2>5, <2>7, <2>8
<1>2. CASE \E q \in DOMAIN a.pages : x = PageType(q)
  <2>1. PICK q \in DOMAIN a.pages : x = PageType(q)
    BY <1>2
  <2>2. References(a, x) = {}
    BY <2>1, ReferencesAre
  <2>3. Twin(f, g, x) = PageType(f[q])
    BY <2>1, TwinIs
  <2>4. References(b, Twin(f, g, x)) = {}
    BY <2>3, ReferencesAre
  <2> QED
    BY <2>2, <2>4
<1>3. CASE \E t \in DOMAIN a.transitions : x = Transition(t)
  <2>1. PICK t \in DOMAIN a.transitions : x = Transition(t)
    BY <1>3
  <2>2. PICK u, v \in DOMAIN a.pages : a.transitions[t] = [src |-> u, dst |-> v]
    BY DEF Configured
  <2>3. b.transitions[g[t]].src = f[u] /\ b.transitions[g[t]].dst = f[v]
    BY <2>2 DEF Renamed
  <2>4. References(a, x) = {<<1, a.transitions[t].src>>, <<2, a.transitions[t].dst>>}
    BY <2>1, ReferencesAre
  <2>5. References(a, x) = {<<1, u>>, <<2, v>>}
    BY <2>2, <2>4
  <2>6. Twin(f, g, x) = Transition(g[t])
    BY <2>1, TwinIs
  <2>7. References(b, Twin(f, g, x)) =
          {<<1, b.transitions[g[t]].src>>, <<2, b.transitions[g[t]].dst>>}
    BY <2>6, ReferencesAre
  <2>8. References(b, Twin(f, g, x)) = {<<1, f[u]>>, <<2, f[v]>>}
    BY <2>3, <2>7
  <2>9. (f[p] = f[u] => p = u) /\ (f[p] = f[v] => p = v)
    BY RenamedIs
  <2> QED
    BY <2>5, <2>8, <2>9
<1>4. CASE \E q, d, j : MatcherOf(a, q, d, j) /\ x = Matcher(q, d, j)
  <2>1. PICK q, d, j : MatcherOf(a, q, d, j) /\ x = Matcher(q, d, j)
    BY <1>4
  <2>2. References(a, x) = {<<4, q>>}
    BY <2>1, MatcherReferences
  <2>3. Twin(f, g, x) = Matcher(f[q], d, j)
    BY <2>1, MatcherTwinIs
  <2>4. References(b, Twin(f, g, x)) = {<<4, f[q]>>}
    BY <2>3, MatcherReferences
  <2>5. q \in DOMAIN a.pages
    BY <2>1 DEF MatcherOf
  <2>6. f[p] = f[q] => p = q
    BY <2>5, RenamedIs
  <2> QED
    BY <2>2, <2>4, <2>6
<1> QED
  BY <1>1, <1>2, <1>3, <1>4, EntityIs

LEMMA ValuesAre ==
    ASSUME NEW c, NEW l
    PROVE  /\ \A p : Value(c, l, PageType(p)) = <<c.pages[p]>>
           /\ \A h : Value(c, l, Seed(h)) = IF h = NoHint THEN <<1>> ELSE <<0>> \o Ref(l, h)
           /\ \A t : Value(c, l, Transition(t)) =
                       Ref(l, c.transitions[t].src)
                         \o SecondRef(l, c.transitions[t].src, c.transitions[t].dst)
<1>1. \A p : Value(c, l, PageType(p)) = <<c.pages[p]>>
  BY DEF Value, PageType
<1>2. \A h : Value(c, l, Seed(h)) = IF h = NoHint THEN <<1>> ELSE <<0>> \o Ref(l, h)
  BY DEF Value, Seed
<1>3. \A t : Value(c, l, Transition(t)) =
               Ref(l, c.transitions[t].src)
                 \o SecondRef(l, c.transitions[t].src, c.transitions[t].dst)
  BY DEF Value, Transition
<1> QED
  BY <1>1, <1>2, <1>3

LEMMA MatcherValue ==
    ASSUME NEW c, NEW l, NEW p, NEW d, NEW k
    PROVE  Value(c, l, Matcher(p, d, k)) = <<d>> \o Ref(l, p)
BY DEF Value, Matcher

LEMMA ValuesRenamed ==
    ASSUME NEW a, NEW b, NEW f, NEW g, Renamed(a, b, f, g), Configured(a), Configured(b),
           NEW la, NEW lb, \A p \in DOMAIN a.pages : la[PageType(p)] = lb[PageType(f[p])],
           NEW x \in Entities(a)
    PROVE  Value(a, la, x) = Value(b, lb, Twin(f, g, x))
<1>1. \A p \in DOMAIN a.pages : Ref(la, p) = Ref(lb, f[p])
  BY DEF Ref
<1>2. ASSUME NEW p \in DOMAIN a.pages, NEW q \in DOMAIN a.pages
      PROVE  SecondRef(la, p, q) = SecondRef(lb, f[p], f[q])
  <2>1. q = p <=> f[q] = f[p]
    BY RenamedIs
  <2> QED
    BY <2>1 DEF SecondRef
<1>3. CASE \E h \in a.seeds : x = Seed(h)
  <2>1. PICK h \in a.seeds : x = Seed(h)
    BY <1>3
  <2>2. Value(a, la, x) = IF h = NoHint THEN <<1>> ELSE <<0>> \o Ref(la, h)
    BY <2>1, ValuesAre
  <2>3. PICK i : i = HintOf(f, h)
    OBVIOUS
  <2>4. Twin(f, g, x) = Seed(i)
    BY <2>1, <2>3, TwinIs
  <2>5. Value(b, lb, Twin(f, g, x)) = IF i = NoHint THEN <<1>> ELSE <<0>> \o Ref(lb, i)
    BY <2>4, ValuesAre
  <2>6. h = NoHint \/ h \in DOMAIN a.pages
    BY DEF Configured
  <2>7. h # NoHint => i = f[h] /\ i # NoHint /\ Ref(la, h) = Ref(lb, i)
    BY <1>1, <2>3, <2>6, RenamedIs DEF HintOf
  <2>8. h = NoHint => i = NoHint
    BY <2>3 DEF HintOf
  <2> QED
    BY <2>2, <2>5, <2>7, <2>8
<1>4. CASE \E q \in DOMAIN a.pages : x = PageType(q)
  <2>1. PICK q \in DOMAIN a.pages : x = PageType(q)
    BY <1>4
  <2>2. Value(a, la, x) = <<a.pages[q]>>
    BY <2>1, ValuesAre
  <2>3. Twin(f, g, x) = PageType(f[q])
    BY <2>1, TwinIs
  <2>4. Value(b, lb, PageType(f[q])) = <<b.pages[f[q]]>>
    BY ValuesAre
  <2>5. a.pages[q] = b.pages[f[q]]
    BY DEF Renamed
  <2> QED
    BY <2>2, <2>3, <2>4, <2>5
<1>5. CASE \E t \in DOMAIN a.transitions : x = Transition(t)
  <2>1. PICK t \in DOMAIN a.transitions : x = Transition(t)
    BY <1>5
  <2>2. PICK u, v \in DOMAIN a.pages : a.transitions[t] = [src |-> u, dst |-> v]
    BY DEF Configured
  <2>3. b.transitions[g[t]].src = f[u] /\ b.transitions[g[t]].dst = f[v]
    BY <2>2 DEF Renamed
  <2>4. Value(a, la, x) = Ref(la, a.transitions[t].src)
                            \o SecondRef(la, a.transitions[t].src, a.transitions[t].dst)
    BY <2>1, ValuesAre
  <2>5. Value(a, la, x) = Ref(la, u) \o SecondRef(la, u, v)
    BY <2>2, <2>4
  <2>6. Twin(f, g, x) = Transition(g[t])
    BY <2>1, TwinIs
  <2>7. Value(b, lb, Transition(g[t])) =
          Ref(lb, b.transitions[g[t]].src)
            \o SecondRef(lb, b.transitions[g[t]].src, b.transitions[g[t]].dst)
    BY ValuesAre
  <2>8. Value(b, lb, Transition(g[t])) = Ref(lb, f[u]) \o SecondRef(lb, f[u], f[v])
    BY <2>3, <2>7
  <2>9. Ref(la, u) = Ref(lb, f[u]) /\ SecondRef(la, u, v) = SecondRef(lb, f[u], f[v])
    BY <1>1, <1>2
  <2> QED
    BY <2>5, <2>6, <2>8, <2>9
<1>6. CASE \E q, d, j : MatcherOf(a, q, d, j) /\ x = Matcher(q, d, j)
  <2>1. PICK q, d, j : MatcherOf(a, q, d, j) /\ x = Matcher(q, d, j)
    BY <1>6
  <2>2. Value(a, la, x) = <<d>> \o Ref(la, q)
    BY <2>1, MatcherValue
  <2>3. Twin(f, g, x) = Matcher(f[q], d, j)
    BY <2>1, MatcherTwinIs
  <2>4. Value(b, lb, Matcher(f[q], d, j)) = <<d>> \o Ref(lb, f[q])
    BY MatcherValue
  <2>5. q \in DOMAIN a.pages
    BY <2>1 DEF MatcherOf
  <2> QED
    BY <1>1, <2>2, <2>3, <2>4, <2>5
<1> QED
  BY <1>3, <1>4, <1>5, <1>6, EntityIs

\* The hash of a configuration does not depend on the names in it.
LEMMA RenamedHash ==
    ASSUME NEW a, NEW b, NEW f, NEW g, Renamed(a, b, f, g), Configured(a), Configured(b),
           IsFiniteSet(Defs)
    PROVE  Hash(a) = Hash(b)
<1>1. PICK G : G = [e \in Entities(a) |-> Twin(f, g, e)]
  OBVIOUS
<1>2. \A e \in Entities(a) : G[e] = Twin(f, g, e)
  BY <1>1
<1>3. G \in Bijection(Entities(a), Entities(b))
  <2>1. G \in [Entities(a) -> Entities(b)]
    BY <1>1, TwinsAreEntities
  <2> QED
    BY <1>2, <2>1, TwinsAreEntities, BijectionMade
<1>4. \A e \in Entities(a) : G[e][1] = e[1]
  BY <1>2, TwinsAreEntities
<1>5. \A p \in DOMAIN a.pages : PageType(p) \in Entities(a) /\ G[PageType(p)] = PageType(f[p])
  BY <1>2, AreEntities, TwinIs
<1>6. SameReferences(a, b, G)
  <2> SUFFICES ASSUME NEW e \in Entities(a), NEW x \in Entities(a), NEW k \in 1..4,
                      e[1] = "page_type"
               PROVE  <<k, e[2]>> \in References(a, x) <=> <<k, G[e][2]>> \in References(b, G[x])
    BY DEF SameReferences
  <2>1. PICK p \in DOMAIN a.pages : e = PageType(p)
    BY EntityIs DEF Seed, PageType, Transition, Matcher
  <2>2. e[2] = p /\ G[e][2] = f[p]
    BY <1>5, <2>1 DEF PageType
  <2>3. <<k, p>> \in References(a, x) <=> <<k, f[p]>> \in References(b, Twin(f, g, x))
    BY ReferencesRenamed
  <2> QED
    BY <1>2, <2>2, <2>3
<1>7. SameValues(a, b, G)
  <2> SUFFICES ASSUME NEW la, NEW lb, Agree(a, G, la, lb), NEW e \in Entities(a)
               PROVE  Value(a, la, e) = Value(b, lb, G[e])
    BY DEF SameValues
  <2>1. \A p \in DOMAIN a.pages : la[PageType(p)] = lb[PageType(f[p])]
    BY <1>5 DEF Agree
  <2> QED
    BY <1>2, <2>1, ValuesRenamed
<1>8. SameBudget(a, b, G)
  <2>1. f \in Bijection(DOMAIN a.pages, DOMAIN b.pages) /\ b.budget = {f[p] : p \in a.budget}
    BY DEF Renamed
  <2>2. a.budget \in SUBSET DOMAIN a.pages /\ b.budget \in SUBSET DOMAIN b.pages
    BY DEF Configured
  <2>3. \A p \in DOMAIN a.pages : p \in a.budget <=> f[p] \in b.budget
    BY <2>1, <2>2, RenamedIs
  <2>4. PICK h : h = [p \in a.budget |-> f[p]]
    OBVIOUS
  <2>5. h \in Bijection(a.budget, b.budget)
    BY <2>1, <2>2, <2>3, <2>4, PartsMatch
  <2>6. \A p \in a.budget : PageType(p) \in Entities(a) /\ G[PageType(p)] = PageType(h[p])
    BY <1>5, <2>2, <2>4
  <2> QED
    BY <2>5, <2>6 DEF SameBudget
<1>9. IsFiniteSet(Entities(a)) /\ IsFiniteSet(a.budget)
  <2>1. IsFiniteSet(DOMAIN a.pages) /\ a.budget \in SUBSET DOMAIN a.pages
    BY DEF Configured
  <2> QED
    BY <2>1, EntitiesFinite, FS_Subset
<1> QED
  BY <1>3, <1>4, <1>6, <1>7, <1>8, <1>9, HashAgrees DEF Corresponds

-----------------------------------------------------------------------------
(* A renaming of the page types that keeps the number of transitions        *)
(* between any two of them comes with one of the transitions.               *)

LEMMA TransitionsMatch ==
    ASSUME NEW a, NEW b, NEW f, Configured(a), Configured(b),
           f \in Bijection(DOMAIN a.pages, DOMAIN b.pages),
           \A p, q \in DOMAIN a.pages :
              Cardinality(Between(a, p, q)) = Cardinality(Between(b, f[p], f[q]))
    PROVE  \E g \in Bijection(DOMAIN a.transitions, DOMAIN b.transitions) :
              \A t \in DOMAIN a.transitions :
                 /\ b.transitions[g[t]].src = f[a.transitions[t].src]
                 /\ b.transitions[g[t]].dst = f[a.transitions[t].dst]
<1> DEFINE M(p, q) == CHOOSE h : h \in Bijection(Between(a, p, q), Between(b, f[p], f[q]))
           g == [t \in DOMAIN a.transitions |-> M(a.transitions[t].src, a.transitions[t].dst)[t]]
<1>1. ASSUME NEW p \in DOMAIN a.pages, NEW q \in DOMAIN a.pages
      PROVE  M(p, q) \in Bijection(Between(a, p, q), Between(b, f[p], f[q]))
  <2>1. IsFiniteSet(DOMAIN a.transitions) /\ IsFiniteSet(DOMAIN b.transitions)
    BY DEF Configured
  <2>2. /\ Between(a, p, q) \in SUBSET DOMAIN a.transitions
        /\ Between(b, f[p], f[q]) \in SUBSET DOMAIN b.transitions
    BY DEF Between
  <2>3. IsFiniteSet(Between(a, p, q)) /\ IsFiniteSet(Between(b, f[p], f[q]))
    BY <2>1, <2>2, FS_Subset
  <2>4. \E h : h \in Bijection(Between(a, p, q), Between(b, f[p], f[q]))
    BY <2>3, FS_SameCardinalityBij DEF ExistsBijection
  <2> QED
    BY <2>4, Zenon
<1>2. ASSUME NEW t \in DOMAIN a.transitions
      PROVE  \E p, q \in DOMAIN a.pages :
                /\ a.transitions[t].src = p /\ a.transitions[t].dst = q
                /\ t \in Between(a, p, q) /\ g[t] = M(p, q)[t]
  <2>1. PICK p, q \in DOMAIN a.pages : a.transitions[t] = [src |-> p, dst |-> q]
    BY DEF Configured
  <2>2. a.transitions[t].src = p /\ a.transitions[t].dst = q
    BY <2>1
  <2>3. t \in Between(a, p, q)
    BY <2>1 DEF Between
  <2>4. g[t] = M(p, q)[t]
    BY <2>2
  <2> QED
    BY <2>2, <2>3, <2>4
<1>3. ASSUME NEW p \in DOMAIN a.pages, NEW q \in DOMAIN a.pages, NEW t \in Between(a, p, q)
      PROVE  t \in DOMAIN a.transitions /\ g[t] = M(p, q)[t]
  <2>1. t \in DOMAIN a.transitions /\ a.transitions[t] = [src |-> p, dst |-> q]
    BY DEF Between
  <2>2. a.transitions[t].src = p /\ a.transitions[t].dst = q
    BY <2>1
  <2> QED
    BY <2>1, <2>2
<1>4. DOMAIN g = DOMAIN a.transitions
  OBVIOUS
<1>5. g = [t \in DOMAIN a.transitions |-> g[t]]
  OBVIOUS
<1> HIDE DEF M, g
<1>6. ASSUME NEW t \in DOMAIN a.transitions
      PROVE  /\ g[t] \in DOMAIN b.transitions
             /\ b.transitions[g[t]] = [src |-> f[a.transitions[t].src], dst |-> f[a.transitions[t].dst]]
  <2>1. PICK p, q \in DOMAIN a.pages : /\ a.transitions[t].src = p /\ a.transitions[t].dst = q
                                       /\ t \in Between(a, p, q) /\ g[t] = M(p, q)[t]
    BY <1>2
  <2>2. M(p, q) \in [Between(a, p, q) -> Between(b, f[p], f[q])]
    BY <1>1, BijectionIs
  <2>3. g[t] \in Between(b, f[p], f[q])
    BY <2>1, <2>2
  <2> QED
    BY <2>1, <2>3 DEF Between
<1>7. ASSUME NEW t \in DOMAIN a.transitions, NEW u \in DOMAIN a.transitions, g[t] = g[u]
      PROVE  t = u
  <2>1. PICK p, q \in DOMAIN a.pages : /\ a.transitions[t].src = p /\ a.transitions[t].dst = q
                                       /\ t \in Between(a, p, q) /\ g[t] = M(p, q)[t]
    BY <1>2
  <2>2. PICK r, s \in DOMAIN a.pages : /\ a.transitions[u].src = r /\ a.transitions[u].dst = s
                                       /\ u \in Between(a, r, s) /\ g[u] = M(r, s)[u]
    BY <1>2
  <2>3. b.transitions[g[t]] = [src |-> f[p], dst |-> f[q]]
    BY <1>6, <2>1
  <2>4. b.transitions[g[u]] = [src |-> f[r], dst |-> f[s]]
    BY <1>6, <2>2
  <2>5. f[p] = f[r] /\ f[q] = f[s]
    BY <1>7, <2>3, <2>4
  <2>6. p = r /\ q = s
    BY <2>5, BijectionIs
  <2>7. M(p, q)[t] = M(p, q)[u] /\ u \in Between(a, p, q)
    BY <1>7, <2>1, <2>2, <2>6
  <2>8. M(p, q) \in Bijection(Between(a, p, q), Between(b, f[p], f[q]))
    BY <1>1
  <2> QED
    BY <2>1, <2>7, <2>8, BijectionIs
<1>8. ASSUME NEW u \in DOMAIN b.transitions
      PROVE  \E t \in DOMAIN a.transitions : g[t] = u
  <2>1. PICK x, y \in DOMAIN b.pages : b.transitions[u] = [src |-> x, dst |-> y]
    BY DEF Configured
  <2>2. PICK p \in DOMAIN a.pages : f[p] = x
    BY BijectionIs
  <2>3. PICK q \in DOMAIN a.pages : f[q] = y
    BY BijectionIs
  <2>4. u \in Between(b, f[p], f[q])
    BY <2>1, <2>2, <2>3 DEF Between
  <2>5. PICK t \in Between(a, p, q) : M(p, q)[t] = u
    BY <1>1, <2>4, BijectionIs
  <2> QED
    BY <1>3, <2>5
<1>9. g \in [DOMAIN a.transitions -> DOMAIN b.transitions]
  BY <1>5, <1>6
<1>10. g \in Bijection(DOMAIN a.transitions, DOMAIN b.transitions)
  BY <1>7, <1>8, <1>9, BijectionMade
<1>11. ASSUME NEW t \in DOMAIN a.transitions
       PROVE  /\ b.transitions[g[t]].src = f[a.transitions[t].src]
              /\ b.transitions[g[t]].dst = f[a.transitions[t].dst]
  <2>1. PICK x, y : x = f[a.transitions[t].src] /\ y = f[a.transitions[t].dst]
    OBVIOUS
  <2>2. b.transitions[g[t]] = [src |-> x, dst |-> y]
    BY <1>6, <2>1
  <2>3. b.transitions[g[t]].src = x /\ b.transitions[g[t]].dst = y
    BY <2>2
  <2> QED
    BY <2>1, <2>3
<1> QED
  BY <1>10, <1>11, Zenon

LEMMA MeaningRenames ==
    ASSUME NEW a, NEW b, Configured(a), Configured(b), SameMeaning(a, b)
    PROVE  \E f, g : Renamed(a, b, f, g)
<1>1. PICK f \in [DOMAIN a.pages -> DOMAIN b.pages] :
         /\ {f[p] : p \in DOMAIN f} = DOMAIN b.pages
         /\ Cardinality(DOMAIN a.pages) = Cardinality(DOMAIN b.pages)
         /\ \A p \in DOMAIN f : a.pages[p] = b.pages[f[p]] /\ a.matchers[p] = b.matchers[f[p]]
         /\ b.budget = {f[p] : p \in a.budget}
         /\ b.seeds = {IF h = NoHint THEN NoHint ELSE f[h] : h \in a.seeds}
         /\ \A p, q \in DOMAIN f : Cardinality(Between(a, p, q)) = Cardinality(Between(b, f[p], f[q]))
  BY Zenon DEF SameMeaning
<1>2. f \in Bijection(DOMAIN a.pages, DOMAIN b.pages)
  <2>1. \A y \in DOMAIN b.pages : \E x \in DOMAIN a.pages : f[x] = y
    BY <1>1
  <2>2. f \in Surjection(DOMAIN a.pages, DOMAIN b.pages)
    BY <1>1, <2>1 DEF Surjection
  <2>3. IsFiniteSet(DOMAIN a.pages)
    BY DEF Configured
  <2>4. f \in Injection(DOMAIN a.pages, DOMAIN b.pages)
    BY <1>1, <2>2, <2>3, FS_SurjSameCardinalityImpliesInj
  <2> QED
    BY <2>2, <2>4 DEF Bijection
<1>3. DOMAIN f = DOMAIN a.pages
  BY <1>1
<1>4. \A p, q \in DOMAIN a.pages :
         Cardinality(Between(a, p, q)) = Cardinality(Between(b, f[p], f[q]))
  BY <1>1, <1>3
<1>5. PICK g \in Bijection(DOMAIN a.transitions, DOMAIN b.transitions) :
         \A t \in DOMAIN a.transitions :
            /\ b.transitions[g[t]].src = f[a.transitions[t].src]
            /\ b.transitions[g[t]].dst = f[a.transitions[t].dst]
  BY <1>2, <1>4, TransitionsMatch
<1>6. b.seeds = {HintOf(f, h) : h \in a.seeds}
  BY <1>1, Zenon DEF HintOf
<1>7. /\ \A p \in DOMAIN a.pages : a.pages[p] = b.pages[f[p]] /\ a.matchers[p] = b.matchers[f[p]]
      /\ b.budget = {f[p] : p \in a.budget}
  BY <1>1, <1>3
<1>8. Renamed(a, b, f, g)
  BY <1>2, <1>5, <1>6, <1>7 DEF Renamed
<1> QED
  BY <1>8

\* Configurations that mean the same have one hash.
LEMMA MeaningIsHashed ==
    ASSUME NEW a, NEW b, Configured(a), Configured(b), SameMeaning(a, b), IsFiniteSet(Defs)
    PROVE  Hash(a) = Hash(b)
BY MeaningRenames, RenamedHash

-----------------------------------------------------------------------------
(* The hash of what the tables hold.                                        *)

LEMMA ConfigIsConfigured ==
    ASSUME AuthoringInv, AuthoringConstants, NEW v \in Versions
    PROVE  Configured(Config(v))
<1>1. PICK n \in Nat : n = Len(versions)  BY DEF AuthoringInv, Typed
<1>2. Typed /\ v \in Nat \ {0} /\ Whole(v)
  BY <1>1 DEF AuthoringInv, AllWhole, Versions
<1>3. PICK c : c = Config(v)  OBVIOUS
<1>4. PICK P, T : P = OwnPages(v) /\ T = OwnTransitions(v)  OBVIOUS
<1>5. /\ c.pages = [p \in P |-> pages[p].attr]
      /\ c.matchers = [p \in P |-> pages[p].matchers]
      /\ c.transitions = [t \in T |-> [src |-> transitions[t].src, dst |-> transitions[t].dst]]
      /\ c.seeds = versions[v].seeds /\ c.budget = versions[v].budget
  BY <1>3, <1>4 DEF Config
<1>6. /\ DOMAIN c.pages = P /\ DOMAIN c.matchers = P /\ DOMAIN c.transitions = T
      /\ \A p \in P : c.matchers[p] = pages[p].matchers
      /\ \A t \in T : c.transitions[t] = [src |-> transitions[t].src, dst |-> transitions[t].dst]
  BY <1>5
<1>7. IsFiniteSet(P) /\ IsFiniteSet(T)  BY <1>2, <1>4, ChildrenFinite
<1>8. \A p \in P : p \in PageIds /\ pages[p] \in PageRow  BY <1>2, <1>4, ChildRows
<1>9. P \subseteq Nat \ {0}
  <2>1. PICK k \in Nat : k = Len(pages)  BY <1>2 DEF Typed, TablesTyped
  <2> QED  BY <1>8, <2>1 DEF PageIds
<1>10. \A p \in P : c.matchers[p] \in [Defs -> Nat]  BY <1>6, <1>8 DEF PageRow
<1>11. \A t \in T : transitions[t].src \in P /\ transitions[t].dst \in P
  BY <1>2, <1>4 DEF Whole, RecordsLoad, TransitionRecordsLoad
<1>12. \A t \in T : \E p, q \in P : c.transitions[t] = [src |-> p, dst |-> q]
  BY <1>6, <1>11
<1>13. versions[v].pages = P
  BY <1>2, <1>4 DEF Whole, RecordsLoad, PageRecordsLoad
<1>14. c.seeds \subseteq P \cup {NoHint} /\ c.budget \subseteq P
  BY <1>2, <1>5, <1>13 DEF Whole, SeedsLoad, ContractHolds
<1>15. IsFiniteSet(DOMAIN c.pages) /\ IsFiniteSet(DOMAIN c.transitions)  BY <1>6, <1>7
<1>16. DOMAIN c.pages \subseteq Nat \ {0} /\ DOMAIN c.matchers = DOMAIN c.pages
  BY <1>6, <1>9
<1>17. \A p \in DOMAIN c.pages : c.matchers[p] \in [Defs -> Nat]  BY <1>6, <1>10
<1>18. \A t \in DOMAIN c.transitions : \E p, q \in DOMAIN c.pages :
          c.transitions[t] = [src |-> p, dst |-> q]
  BY <1>6, <1>12
<1>19. c.seeds \subseteq DOMAIN c.pages \cup {NoHint} /\ c.budget \subseteq DOMAIN c.pages
  BY <1>6, <1>14
<1>20. Configured(c)
  BY <1>15, <1>16, <1>17, <1>18, <1>19 DEF Configured
<1> QED  BY <1>3, <1>20

\* What a test, running or kept, has seen of a draft.
Tested(e) == e.version # None /\ e.hash = Hash(e.config) /\ Configured(e.config)
TestsTyped == (\A e \in evidence : Tested(e)) /\ (lab # <<>> => Tested(lab[1]))

LEMMA TestsStep ==
    ASSUME AuthoringInv, AuthoringConstants, TestsTyped, [AuthoringNext]_authoringVars
    PROVE  TestsTyped'
<1>1. CASE UNCHANGED <<evidence, lab>>
  BY <1>1 DEF TestsTyped, Tested
<1>2. CASE UNCHANGED authoringVars
  BY <1>1, <1>2 DEF authoringVars
<1>3. CASE CreateDraft \/ ReadDraft \/ SaveDraft
  BY <1>1, <1>3 DEF CreateDraft, ReadDraft, SaveDraft
<1>4. ASSUME NEW v \in Versions, CloneDraft(v) \/ Publish(v) \/ Reactivate(v) PROVE TestsTyped'
  BY <1>1, <1>4 DEF CloneDraft, Publish, Reactivate
<1>5. CASE EditStep
  <2>1. CASE EditRest
    BY <1>1, <2>1 DEF EditRest
  <2>2. ASSUME NEW v, NEW p, NEW a, CreatePageType(v, a) \/ UpdatePageType(v, p, a)
        PROVE  EditRest
    BY <2>2 DEF CreatePageType, UpdatePageType
  <2>3. ASSUME NEW v, NEW p, NEW d, NEW e,
               \/ DeletePageType(v, p) \/ CreateUrlMatcher(v, p, d)
               \/ DeleteUrlMatcher(v, p, d) \/ UpdateUrlMatcher(v, p, d, e)
        PROVE  EditRest
    BY <2>3 DEF DeletePageType, CreateUrlMatcher, DeleteUrlMatcher, UpdateUrlMatcher
  <2>4. ASSUME NEW v, NEW t, NEW p, NEW q,
               \/ CreateDiscoveryTransition(v, p, q) \/ UpdateDiscoveryTransition(v, t, p, q)
               \/ DeleteDiscoveryTransition(v, t)
        PROVE  EditRest
    BY <2>4 DEF CreateDiscoveryTransition, UpdateDiscoveryTransition, DeleteDiscoveryTransition
  <2>5. ASSUME NEW v, NEW b, UpdateGuardrails(v, b) PROVE EditRest
    BY <2>5 DEF UpdateGuardrails
  <2> QED  BY <1>5, <2>1, <2>2, <2>3, <2>4, <2>5 DEF EditStep
<1>6. ASSUME NEW v \in Versions, NEW x, StartTest(v, x) PROVE TestsTyped'
  <2>1. PICK c, h : c = Config(v) /\ h = Hash(c)  OBVIOUS
  <2>2. PICK r : r = [version |-> v, hash |-> h, target |-> x, config |-> c]  OBVIOUS
  <2>3. lab' = <<r>> /\ evidence' = evidence  BY <1>6, <2>1, <2>2 DEF StartTest
  <2>4. v # None  BY DEF Versions, None, AuthoringInv, Typed
  <2>5. Configured(c)  BY <2>1, ConfigIsConfigured
  <2>6. Tested(r)  BY <2>1, <2>2, <2>4, <2>5 DEF Tested
  <2>7. lab'[1] = r  BY <2>3
  <2> QED  BY <2>3, <2>6, <2>7 DEF TestsTyped
<1>7. CASE FinishTest
  <2>1. lab # <<>> /\ lab' = <<>>  BY <1>7 DEF FinishTest
  <2>2. evidence' = evidence \/ evidence' = evidence \cup {lab[1]}  BY <1>7 DEF FinishTest
  <2> QED  BY <2>1, <2>2 DEF TestsTyped
<1> QED  BY <1>2, <1>3, <1>4, <1>5, <1>6, <1>7 DEF AuthoringNext

LEMMA TestedIsKept ==
    ASSUME AuthoringInv, AuthoringConstants, IsFiniteSet(Defs), TestsTyped
    PROVE  EvidenceKept
<1> SUFFICES ASSUME NEW e \in evidence, draft = e.version, SameMeaning(e.config, Config(draft))
             PROVE  e.hash = Hash(Config(draft))
  BY DEF EvidenceKept
<1>1. Tested(e)  BY DEF TestsTyped
<1>2. draft \in Versions
  <2>1. draft \in 0..Len(versions) /\ draft # 0
    BY <1>1 DEF AuthoringInv, Pointers, Tested, None
  <2>2. PICK n \in Nat : n = Len(versions)  BY DEF AuthoringInv, Typed
  <2> QED  BY <2>1, <2>2 DEF Versions
<1>3. Configured(Config(draft))  BY <1>2, ConfigIsConfigured
<1>4. Hash(e.config) = Hash(Config(draft))  BY <1>1, <1>3, MeaningIsHashed DEF Tested
<1> QED  BY <1>1, <1>4 DEF Tested

\* The stored evidence of a draft has the draft's hash for as long as the draft
\* means what was tested, under whatever names
\* (persist_if_configuration_matches, the semantic hash).
THEOREM EvidenceStaysCurrent ==
    ASSUME AuthoringConstants, ~Concurrent, IsFiniteSet(Defs)
    PROVE  AuthoringSpec => []EvidenceKept
<1>1. AuthoringInit => AuthoringInv /\ TestsTyped
  BY AuthoringInitially DEF AuthoringInit, TestsTyped
<1>2. AuthoringInv /\ TestsTyped /\ [AuthoringNext]_authoringVars => (AuthoringInv /\ TestsTyped)'
  BY AuthoringStep, TestsStep
<1>3. AuthoringInv /\ TestsTyped => EvidenceKept  BY TestedIsKept
<1> QED  BY <1>1, <1>2, <1>3, PTL DEF AuthoringSpec

AllConfigured == \A v \in Versions : Configured(Config(v))

LEMMA ClonesHash ==
    ASSUME AllConfigured, AllConfigured', AuthoringInv', IsFiniteSet(Defs), MeaningStep
    PROVE  CloneStep
<1> SUFFICES ASSUME NEW v \in DOMAIN versions', NEW s \in Versions,
                    v \notin Versions, versions'[v].base = s
             PROVE  Hash(Config(v)') = Hash(Config(s)) /\ SameMeaning(Config(s), Config(v)')
  BY DEF CloneStep
<1>1. SameMeaning(Config(s), Config(v)')  BY DEF MeaningStep
<1>2. v \in Versions'
  <2>1. \E R : versions' \in Seq(R)  BY DEF AuthoringInv, Typed
  <2> QED  BY <2>1 DEF Versions
<1>3. Configured(Config(s)) /\ Configured(Config(v)')  BY <1>2 DEF AllConfigured
<1>4. Hash(Config(s)) = Hash(Config(v)')  BY <1>1, <1>3, MeaningIsHashed
<1> QED  BY <1>1, <1>4

\* A draft made from a published version means what that version means and has
\* its hash, under identities of its own (create_draft_from_published).
THEOREM ClonesKeepMeaning ==
    ASSUME AuthoringConstants, ~Concurrent, IsFiniteSet(Defs)
    PROVE  AuthoringSpec => CloneKeepsMeaning
<1>1. AuthoringInit => AuthoringInv  BY AuthoringInitially
<1>2. AuthoringInv /\ [AuthoringNext]_authoringVars => AuthoringInv'  BY AuthoringStep
<1>3. AuthoringInv => AllConfigured  BY ConfigIsConfigured DEF AllConfigured
<1>4. /\ AuthoringInv /\ AuthoringInv' /\ AllConfigured /\ AllConfigured'
      /\ [AuthoringNext]_authoringVars
      => [CloneStep]_authoringVars
  BY ClonesMean, ClonesHash
<1> QED  BY <1>1, <1>2, <1>3, <1>4, PTL DEF AuthoringSpec, CloneKeepsMeaning

=============================================================================

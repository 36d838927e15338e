------------------------------ MODULE MCIntake ------------------------------
(***************************************************************************)
(* What is decided about URLs before and while they are crawled, side by   *)
(* side for TLC.  The parts share no state here: focus is the one that     *)
(* moves.                                                                  *)
(*   "concurrent", "batch"        submission of Quick Scrapes (Submission);*)
(*   "groups", "patterns"         robots.txt documents (RobotsRules);      *)
(*   "identity", "scope", "types" the rules for discovered links           *)
(*                                (UrlPolicy);                             *)
(*   "links", "kinds"             tests of a Draft (TestLab).              *)
(***************************************************************************)
EXTENDS Submission, Integers, SequencesExt, FiniteSetsExt, TLC

CONSTANTS c1, c2, None

VARIABLES focus,
          body, groups, current, hasPolicy, error,
          scope, types, offered, seen, scheduled, failed,
          draft, lab, saved, edits

robotsVars     == <<body, groups, current, hasPolicy, error>>
urlVars        == <<scope, types, offered, seen, scheduled, failed>>
labVars        == <<draft, lab, saved, edits>>
intakeVars     == <<focus, submissionVars, robotsVars, urlVars, labVars>>
-----------------------------------------------------------------------------
(* Submission: two clients that spell one URL in two ways at both           *)
(* endpoints, and one client's batches with another URL and a refused one.  *)
Submissions == {"concurrent", "batch"}
CanonicalUrl == [u \in {"a1", "a2", "b", "x"} |-> IF u = "a2" THEN "a1" ELSE u]
Heads == [status : {"ok"}, media : {"PDF", "html", "none"}]
            \cup [status : {"unsupported", "error"}, media : {"none"}]
Gets == [media : {"none", "PDF", "OOXML"}, prefix : {"none", "html", "pdf", "zip"}]
            \cup [media : {"octet", "other"}, prefix : {"none", "pdf"}]

\* The states of a scenario.
Within(s) ==
    IF s = "concurrent"
    THEN \A c \in Client : r[c].items \in {<<>>, <<"a1">>, <<"a2">>}
    ELSE \A c \in Client : /\ r[c].pc = "idle" \/ \A b \in Client \ {c} : r[b].pc = "idle"
                           /\ r[c].endpoint = "batch" /\ r[c].pc # "get"
-----------------------------------------------------------------------------
(* Robots: many short documents for the groups and their rules, and single  *)
(* rules of every shape for the patterns.                                   *)
Documents == {"groups", "patterns"}
Agent == <<"e", "/", "1">>
RuleShapes == BoundedSeq({"/", "a", "*"}, 5) \cup {Append(v, "$") : v \in BoundedSeq({"/", "a", "*"}, 4)}
AnyPaths == {<<"/">> \o p : p \in BoundedSeq({"/", "a"}, 4)}
Erabi(s) == INSTANCE RobotsRules WITH
    UserAgent  <- Agent,
    \* nothing, the wildcard, product, product and version, and a prefix that ends in neither
    Selectors  <- IF s = "groups" THEN {<<>>, <<"*">>, <<"e">>, Agent, <<"e", "/">>} ELSE {<<"*">>},
    RuleValues <- IF s = "groups" THEN {<<>>, <<"/">>, <<"/", "a">>}
                  ELSE RuleShapes,
    Delays     <- IF s = "groups" THEN {-1, 1, 3} ELSE {},
    MaxDelay   <- 2,
    Paths      <- IF s = "groups" THEN {<<"/">>, <<"/", "a">>}
                  ELSE AnyPaths,
    MaxLines   <- IF s = "groups" THEN 5 ELSE 2
-----------------------------------------------------------------------------
(* Links: spellings of few targets, hosts that end alike, and page types    *)
(* that claim the same URLs.  "c" is a public suffix; "ne.c" ends like      *)
(* "e.c".                                                                   *)
LinkRules == {"identity", "scope", "types"}
Site == <<"e", ".", "c">>
Sub == <<"s", ".", "e", ".", "c">>
Other == <<"n", "e", ".", "c">>
Local == <<"l">>
SeedScope == [kind |-> "SeedDomainsOnly"]
RuleOn(kind, host) == [kind |-> kind, host |-> host]
ManyScopes ==
    {SeedScope}
    \cup [kind : {"SameRegistrableDomain"}, explicit : {{}, {Sub, Other}}]
    \cup [kind : {"ExplicitAllowlist"}, hosts : SUBSET {Site, Other}]
    \cup [kind : {"Custom"}, allow : SUBSET {RuleOn("Subdomains", Site), RuleOn("Exact", Other)},
          block : SUBSET {RuleOn("Exact", Sub), RuleOn("Subdomains", Other), RuleOn("Subdomains", Site)}]

Link(host, path, pairs) ==
    [scheme |-> "https", host |-> host, credentials |-> FALSE, port |-> 0,
     path |-> path, pairs |-> pairs, fragment |-> FALSE]
Slash == <<"/">>
A == <<"/", "a">>
AB == <<"/", "a", "/", "b">>
Queries == {Link(Sub, Slash, q) : q \in BoundedSeq({"", "%61=1", "a=1", "b=1", "utm_a=1", "utm_b=1"}, 2)
                                          \cup BoundedSeq({"", "%61=1", "a=1", "b=1"}, 3)}
Spellings ==
    {[u EXCEPT !.scheme = s, !.port = p, !.path = path, !.fragment = f] :
        u \in {Link(Sub, Slash, <<>>), Link(Sub, Slash, <<"utm_a=1">>)}, s \in {"http", "https"},
        p \in {0, 80, 443}, path \in {<<>>, Slash}, f \in BOOLEAN}
    \cup {[Link(Sub, Slash, <<>>) EXCEPT !.scheme = "ftp"], [Link(Sub, Slash, <<>>) EXCEPT !.credentials = TRUE]}

Exact(url) == [kind |-> "ExactUrl", url |-> url]
Template(path, query) == [kind |-> "ExactHostPathTemplate", host |-> Sub, path |-> path, query |-> query]
UnderPath(path) == [kind |-> "PathPrefix", host |-> <<>>, path |-> path]
GlobOn(host, path) == [kind |-> "PathGlob", host |-> host, path |-> path]
Regex(path, accepts) == [kind |-> "Regex", path |-> path, accepts |-> accepts]
Type(name, priority, matchers) == [name |-> name, priority |-> priority, matchers |-> matchers]
Pool ==
    {Type("exact", 0, <<Exact(Link(Sub, A, <<>>))>>),
     Type("template", 0, <<Template(<<"/", "{", "x", "}">>, {})>>),
     Type("query", 0, <<Template(A, {"a=1"}), UnderPath(Slash)>>),
     Type("glob", 0, <<GlobOn(<<>>, <<"/", "a", "*">>)>>),
     Type("prefix", 0, <<UnderPath(A), GlobOn(Sub, <<"/", "*", "b">>)>>),
     Type("star", 0, <<GlobOn(Sub, <<"/", "a", "*">>)>>),
     Type("regex", 1, <<Regex(<<"(", "a", ")">>, {A})>>)}

TypeLists == {l \in BoundedSeq(Pool, 3) : IsInjective(l)}
HostLinks == {Link(h, Slash, <<>>) : h \in {Site, Sub, Other, Local}}
PathLinks == {Link(Sub, Slash, <<>>), Link(Sub, A, <<>>), Link(Sub, AB, <<>>), Link(Sub, A, <<"a=1">>)}

Rules(s) == INSTANCE UrlPolicy WITH
    Raws          <- CASE s = "identity" -> Queries \cup Spellings
                       [] s = "scope" -> HostLinks [] OTHER -> PathLinks,
    Parameter     <- ("" :> "") @@ ("a=1" :> "a") @@ ("%61=1" :> "a") @@ ("b=1" :> "b")
                        @@ ("utm_a=1" :> "utm_a") @@ ("utm_b=1" :> "utm_b"),
    PairOrder     <- <<"", "%61=1", "a=1", "b=1", "utm_a=1", "utm_b=1">>,
    Tracking      <- {"utm_a", "utm_b"},
    Keep          <- IF s = "identity" THEN {"utm_b"} ELSE {},
    Drop          <- IF s = "identity" THEN {"b"} ELSE {},
    Scopes        <- IF s = "scope" THEN ManyScopes ELSE {SeedScope},
    Seeds         <- {[host |-> Sub, enabled |-> TRUE], [host |-> Other, enabled |-> FALSE]},
    Registrable   <- (Site :> Site) @@ (Sub :> Site) @@ (Other :> Other),
    PageTypeLists <- IF s = "types" THEN TypeLists ELSE {<<>>},
    MaxOffered    <- CASE s = "identity" -> 2 [] s = "scope" -> 4 [] OTHER -> 1
-----------------------------------------------------------------------------
(* Tests: 1 and 2 are a listing and its tracked variant, 3 and 4 items, 5   *)
(* external; the Domain Scope of 6 cannot be decided.                       *)
Tests == {"links", "kinds"}
Opens(id, source, target) ==
    [id |-> id, name |-> "open", source |-> source, target |-> target, sel |-> 1,
     enabled |-> TRUE, constrained |-> FALSE, depth |-> 1, perPage |-> 1, total |-> 2]
More(id, source) == [Opens(id, source, source) EXCEPT !.name = "more", !.sel = 2]
Listing(id) == [id |-> id, name |-> "Listing", pri |-> 0, ms |-> <<10>>]
Items(id, ms) == [id |-> id, name |-> "Item", pri |-> 0, ms |-> ms]
PublishedVersion == [strip |-> FALSE, pts |-> <<Listing("p1"), Items("p2", <<11, 12, 13>>)>>,
                     trs |-> <<Opens("pt1", "p1", "p2"), More("pt2", "p1")>>]
Clone == [strip |-> FALSE, pts |-> <<Items("d2", <<13, 12, 11>>), Listing("d1")>>,
          trs |-> <<More("dt2", "d1"), Opens("dt1", "d1", "d2")>>]
\* The clone and one that strips; then one whose budget grew, one that matches
\* fewer items, one with a page type that ties for item 3, one with URL constraints.
FewDrafts == {Clone, [Clone EXCEPT !.strip = TRUE]}
ManyDrafts ==
    FewDrafts \cup
    {[Clone EXCEPT !.trs[2].perPage = @ + 1], [Clone EXCEPT !.pts[1].ms = <<12>>],
     [Clone EXCEPT !.pts = Append(@, [Items("d3", <<12>>) EXCEPT !.name = "Other"])],
     [Clone EXCEPT !.trs[2].constrained = TRUE]}
Observed == [href : {0, 1, 3, 4, 5, 6}, sel : 0..2]
ManyLinks == UNION {kSubset(n, Observed) : n \in 0..2} \cup kSubset(3, [href : 3..5, sel : 0..2])

Lab(s) == INSTANCE TestLab WITH
    Url <- 1..6, Invalid <- 0, Tracked <- 2, Plain <- 1,
    Scope     <- [u \in 1..6 |-> CASE u = 5 -> "EXTERNAL" [] u = 6 -> "UNDECIDED" [] OTHER -> "IN_SCOPE"],
    Covers    <- (10 :> {1, 2}) @@ (11 :> {3, 4}) @@ (12 :> {3}) @@ (13 :> {4}),
    Rank      <- (10 :> 1) @@ (11 :> 1) @@ (12 :> 2) @@ (13 :> 1),
    Published <- PublishedVersion,
    Drafts    <- IF s = "links" THEN ManyDrafts ELSE FewDrafts,
    Inputs    <- IF s = "links" THEN {<<1>>} ELSE {<<>>, <<1>>, <<0>>, <<4, 2>>},
    LinkSets  <- IF s = "links" THEN ManyLinks ELSE {{}, {[href |-> 3, sel |-> 1]}},
    Kinds     <- IF s = "links" THEN {"DISCOVERY_TRANSITION"}
                 ELSE {"URL_CANONICALIZATION", "PAGE_TYPE_MATCHING", "COMBINED", "EXTRACTION",
                       "SELECTOR_COVERAGE", "PAGINATION", "DISCOVERED_URL_PREVIEW",
                       "DISCOVERY_TRANSITION"},
    Fields    <- [name \in {"Listing", "Item", "Other"} |-> <<1, 2, 2>>],
    PageCap <- 2, MaxPages <- 3, MaxDepth <- 1, MaxObservedLinks <- 3, MaxPatterns <- 3,
    MaxEdits  <- IF s = "links" THEN 0 ELSE 1
-----------------------------------------------------------------------------
ASSUME /\ SubmissionAssumption
       /\ \A s \in Documents : Erabi(s)!RobotsBounds
       /\ \A s \in LinkRules : Rules(s)!UrlPolicyValid
       /\ \A s \in Tests : Lab(s)!LabAssumption

\* The state of a part that is not looked at.
IdleRobots == body = <<>> /\ groups = <<>> /\ current = <<>> /\ hasPolicy = FALSE /\ error = FALSE
IdleUrls == scope = None /\ types = <<>> /\ offered = {} /\ seen = {} /\ scheduled = {} /\ failed = FALSE
IdleLab == draft = None /\ lab = None /\ saved = {} /\ edits = 0

Init ==
    /\ SubmissionInit
    /\ \/ focus \in Submissions /\ IdleRobots /\ IdleUrls /\ IdleLab
       \/ \E s \in Documents : focus = s /\ Erabi(s)!RobotsInit /\ IdleUrls /\ IdleLab
       \/ \E s \in LinkRules : focus = s /\ Rules(s)!UrlInit /\ IdleRobots /\ IdleLab
       \/ \E s \in Tests : focus = s /\ Lab(s)!Init /\ IdleRobots /\ IdleUrls

Next ==
    /\ UNCHANGED focus
    /\ \/ /\ focus \in Submissions /\ SubmissionNext /\ Within(focus)'
          /\ UNCHANGED <<robotsVars, urlVars, labVars>>
       \/ \E s \in Documents : /\ focus = s /\ Erabi(s)!RobotsNext
                               /\ UNCHANGED <<submissionVars, urlVars, labVars>>
       \/ \E s \in LinkRules : /\ focus = s /\ Rules(s)!UrlNext
                               /\ UNCHANGED <<submissionVars, robotsVars, labVars>>
       \/ \E s \in Tests : /\ focus = s /\ Lab(s)!Next
                           /\ UNCHANGED <<submissionVars, robotsVars, urlVars>>

Spec == Init /\ [][Next]_intakeVars
\* Clients have the same role: "batch" has one that is not idle, whichever it is.
ClientSymmetry == Permutations({c1, c2})
-----------------------------------------------------------------------------
\* What the parsed groups decide for a request is what the document's lines say,
\* and the search of rule_matches, which never backtracks, accepts exactly what
\* a pattern describes as a glob.
RobotsAsWritten ==
    /\ focus = "groups" => Erabi("groups")!DecidesAsWritten
    /\ focus = "patterns" => Erabi("patterns")!PatternsAreGlobs

\* Two spellings are one canonical URL exactly when they go to the same place with
\* the same pairs, empty ones included and removed ones aside, in whatever order;
\* a link is scheduled exactly when its host is permitted label by label, and a
\* page's type is the one whose claim no other outranks, in whatever order the
\* types are stored (canonicalize, classify, resolve_page_type).
UrlRulesAsDefined ==
    /\ focus = "identity" => Rules("identity")!CanonicalIsFixed /\ Rules("identity")!OneIdentityPerTarget
    /\ focus = "scope" => Rules("scope")!ScopeIsByLabel
    /\ focus = "types" => Rules("types")!ResolvedAsRanked

\* What a run would follow from a page the test of the transition showed as
\* eligible, a comparison that reports no discovery difference means runs of
\* Draft and Published would follow the same links (discovery_evidence against
\* expand_page), and a Draft that means what Published means, under other ids and
\* in another order, shows no difference in a test of any kind.
LabAgreesWithCrawl ==
    /\ focus = "links" => Lab("links")!AdmittedIsEligible /\ Lab("links")!SameVerdictSameAdmissions
    /\ focus = "kinds" => Lab("kinds")!CloneShowsNoDifference
=============================================================================

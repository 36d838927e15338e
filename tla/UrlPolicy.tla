----------------------------- MODULE UrlPolicy -----------------------------
(***************************************************************************)
(* What the URL rules of a crawler version decide about a discovered link: *)
(* canonicalization.rs, domain_scope.rs, url_matcher.rs and matching.rs of *)
(* erabi-domain, in the order expand_page applies them.                    *)
(*                                                                         *)
(* A spelled URL is a record: hosts and paths are sequences of characters, *)
(* a query is its raw pairs in the order written (with "?" and nothing     *)
(* behind it the one empty pair).  The url crate's parser and the public   *)
(* suffix list are external: the case of a scheme or host, default ports   *)
(* and the empty path are as the parser leaves them, and a host's          *)
(* registrable domain is a constant.                                       *)
(***************************************************************************)
EXTENDS Integers, Sequences, SequencesExt, FiniteSets, FiniteSetsExt

CONSTANTS
    Raws,           \* spelled URLs, resolved against the page they were found on
    Parameter,      \* raw pair -> the parameter it decodes to
    PairOrder,      \* the raw pairs, in the order of their sort keys
    Tracking,       \* parameters is_default_tracking_parameter names
    Keep, Drop,     \* explicit_keep_parameters, explicit_drop_parameters
    Scopes,         \* Domain Scope policies
    Seeds,          \* seeds of the version: [host, enabled]
    Registrable,    \* host with a dot -> its registrable domain, or <<>> when it has none
    PageTypeLists,  \* lists of page types, in stored order
    MaxOffered      \* bound on the links offered

\* What the constants may be.
UrlPolicyValid == Keep \cap Drop = {} /\ MaxOffered \in Nat

VARIABLES
    scope,          \* the version's Domain Scope
    types,          \* its page types, as the database returns them
    offered,        \* spelled URLs found so far
    seen,           \* canonical URLs found so far
    scheduled,      \* those in scope
    failed          \* the traversal ended in an error
urls == <<scope, types, offered, seen, scheduled, failed>>

-----------------------------------------------------------------------------
(* Canonicalization                                                         *)

DefaultPort(scheme) == CASE scheme = "http" -> 80 [] scheme = "https" -> 443 [] OTHER -> 0

\* Http(s), a host, no credentials: anything else is an error.
CrawlTarget(raw) == raw.scheme \in {"http", "https"} /\ raw.host # <<>> /\ ~raw.credentials

Rank(pair) == CHOOSE i \in DOMAIN PairOrder : PairOrder[i] = pair
SortedPairs(pairs) == SortSeq(pairs, LAMBDA a, b : Rank(a) < Rank(b))

\* An explicit rule wins over the built-in tracking names.
Retained(pair) ==
    \/ Parameter[pair] \in Keep
    \/ Parameter[pair] \notin Drop \cup Tracking

\* Mutant of CanonicalPairs: an empty pair is dropped like a removed one.
DropsEmptyPairs(pairs) == SelectSeq(SortedPairs(pairs), LAMBDA p : p # "" /\ Retained(p))

CanonicalPairs(pairs) == SelectSeq(SortedPairs(pairs), Retained)

Canonicalize(raw) ==
    [scheme |-> raw.scheme, host |-> raw.host, credentials |-> FALSE,
     port |-> IF raw.port = DefaultPort(raw.scheme) THEN 0 ELSE raw.port,
     path |-> IF raw.path = <<>> THEN <<"/">> ELSE raw.path,
     pairs |-> CanonicalPairs(raw.pairs), fragment |-> FALSE]
-----------------------------------------------------------------------------
(* Domain Scope                                                             *)

SeedHosts == {s.host : s \in {s \in Seeds : s.enabled}}

\* Mutant of WithinRoot: a suffix that does not end at a label.
AnySuffix(host, root) == IsSuffix(root, host)

WithinRoot(host, root) ==
    host = root \/ (IsStrictSuffix(root, host) /\ host[Len(host) - Len(root)] = ".")

RuleMatches(rule, host) ==
    IF rule.kind = "Exact" THEN host = rule.host ELSE WithinRoot(host, rule.host)

NoDomain == <<>>
RegistrableDomain(host) ==
    IF \E i \in DOMAIN host : host[i] = "." THEN Registrable[host] ELSE host

ValidScope(policy) ==
    CASE policy.kind = "ExplicitAllowlist" -> policy.hosts # {}
      [] policy.kind = "Custom" -> policy.allow # {}
      [] OTHER -> TRUE

InSeedDomains(host) ==
    IF SeedHosts = {} THEN "ERROR"
    ELSE IF host \in SeedHosts THEN "IN_SCOPE" ELSE "EXTERNAL"

InSameDomain(policy, host) ==
    LET roots == {RegistrableDomain(h) : h \in SeedHosts}
        own == RegistrableDomain(host)
    IN  IF SeedHosts = {} \/ NoDomain \in roots \cup {own} THEN "ERROR"
        ELSE IF \/ host \in policy.explicit /\ \E r \in roots : WithinRoot(host, r)
                \/ own \in roots /\ host = own
                \/ host \in SeedHosts
             THEN "IN_SCOPE" ELSE "EXTERNAL"

InCustom(policy, host) ==
    IF \E r \in policy.block : RuleMatches(r, host) THEN "BLOCKED"
    ELSE IF \E r \in policy.allow : RuleMatches(r, host) THEN "IN_SCOPE" ELSE "EXTERNAL"

Classify(policy, host) ==
    IF ~ValidScope(policy) THEN "ERROR"
    ELSE CASE policy.kind = "SeedDomainsOnly" -> InSeedDomains(host)
           [] policy.kind = "SameRegistrableDomain" -> InSameDomain(policy, host)
           [] policy.kind = "ExplicitAllowlist" -> IF host \in policy.hosts THEN "IN_SCOPE" ELSE "EXTERNAL"
           [] policy.kind = "Custom" -> InCustom(policy, host)
-----------------------------------------------------------------------------
(* Page types                                                               *)

\* s.split(separator)
Split(s, separator) ==
    LET cuts == <<0>> \o SetToSortSeq({i \in DOMAIN s : s[i] = separator}, <) \o <<Len(s) + 1>>
    IN  [k \in 1 .. Len(cuts) - 1 |-> SubSeq(s, cuts[k] + 1, cuts[k + 1] - 1)]
Segments(path) == SelectSeq(Split(path, "/"), LAMBDA part : part # <<>>)

Has(s, marks) == \E i \in DOMAIN s : s[i] \in marks
Count(s, marks) == Cardinality({i \in DOMAIN s : s[i] \in marks})
Wild == {"*", "{", "("}
Punctuation == Wild \cup {"}", ")", "/", "."}

Capture(segment) == segment[1] = "{" /\ Last(segment) = "}"
TemplateMatches(template, path) ==
    LET expected == Segments(template)
        actual == Segments(path)
    IN  /\ Len(expected) = Len(actual)
        /\ \A i \in DOMAIN expected : Capture(expected[i]) \/ expected[i] = actual[i]

\* "^...$" with ".*" for every star
GlobMatches(pattern, path) ==
    LET rest[i \in 1 .. Len(pattern) + 1, j \in 1 .. Len(path) + 1] ==
            IF i > Len(pattern) THEN j > Len(path)
            ELSE IF pattern[i] = "*" THEN \E k \in j .. Len(path) + 1 : rest[i + 1, k]
            ELSE j <= Len(path) /\ pattern[i] = path[j] /\ rest[i + 1, j + 1]
    IN  rest[1, 1]

OnHost(m, url) == m.host \in {<<>>, url.host}

\* A regular expression, which the code searches for in the whole URL, is the
\* set of paths it accepts; pairs of a template's query are compared as written,
\* where the code decodes both sides.
Matches(m, url) ==
    CASE m.kind = "ExactUrl" -> m.url = url
      [] m.kind = "ExactHostPathTemplate" ->
            m.host = url.host /\ TemplateMatches(m.path, url.path) /\ m.query \subseteq ToSet(url.pairs)
      [] m.kind = "PathPrefix" -> OnHost(m, url) /\ IsPrefix(m.path, url.path)
      [] m.kind = "PathGlob" -> OnHost(m, url) /\ GlobMatches(m.path, url.path)
      [] m.kind = "Regex" -> url.path \in m.accepts

KindRank(kind) ==
    CASE kind = "ExactUrl" -> 4 [] kind = "ExactHostPathTemplate" -> 3
      [] kind \in {"PathPrefix", "PathGlob"} -> 2 [] kind = "Regex" -> 1

\* SpecificityKey, compared field by field: higher is more specific.
SpecificityKey(m) ==
    LET path == IF m.kind = "ExactUrl" THEN m.url.path ELSE m.path
    IN  <<KindRank(m.kind),
          Len(SelectSeq(Segments(path), LAMBDA part : ~Has(part, Wild))),
          CASE m.kind = "ExactUrl" -> Len(m.url.pairs)
            [] m.kind = "ExactHostPathTemplate" -> Cardinality(m.query)
            [] OTHER -> 0,
          Len(path) - Count(path, Punctuation),
          0 - Count(path, Wild)>>

Higher(a, b) ==
    \E i \in DOMAIN a : a[i] > b[i] /\ \A j \in 1 .. i - 1 : a[j] = b[j]
Highest(keys) == CHOOSE k \in keys : \A o \in keys : ~Higher(o, k)

\* The pair (priority, specificity) as one key.
Standing(t, key) == <<t.priority>> \o key

\* The most specific matching matcher of a page type, as its standing; <<>> for none.
StandingOn(t, url) ==
    LET keys == {SpecificityKey(m) : m \in {m \in ToSet(t.matchers) : Matches(m, url)}}
    IN  IF keys = {} THEN <<>> ELSE Standing(t, Highest(keys))

\* resolve_page_type: the names left, in the order of the candidates.
ResolvePageType(url) ==
    LET candidates == SelectSeq(types, LAMBDA t : StandingOn(t, url) # <<>>)
        best == Highest({StandingOn(t, url) : t \in ToSet(candidates)})
        left == SelectSeq(candidates, LAMBDA t : StandingOn(t, url) = best)
    IN  IF candidates = <<>> THEN [decision |-> "UNMATCHED", names |-> {}]
        ELSE [decision |-> IF Len(left) = 1 THEN "MATCHED" ELSE "AMBIGUOUS",
              names |-> {t.name : t \in ToSet(left)}]
-----------------------------------------------------------------------------
UrlInit ==
    /\ scope \in Scopes /\ types \in PageTypeLists
    /\ offered = {} /\ seen = {} /\ scheduled = {} /\ failed = FALSE

Offer(raw) ==
    /\ ~failed /\ raw \notin offered /\ Cardinality(offered) < MaxOffered
    /\ offered' = offered \cup {raw} /\ UNCHANGED <<scope, types>>

\* An href that canonicalization refuses is kept as an invalid path.
InvalidLink(raw) == Offer(raw) /\ ~CrawlTarget(raw) /\ UNCHANGED <<seen, scheduled, failed>>

Link(raw) ==
    /\ Offer(raw) /\ CrawlTarget(raw)
    /\ LET url == Canonicalize(raw)
           class == Classify(scope, url.host)
       IN  /\ failed' = (class = "ERROR")
           /\ seen' = IF class = "ERROR" THEN seen ELSE seen \cup {url}
           /\ scheduled' = IF class = "IN_SCOPE" THEN scheduled \cup {url} ELSE scheduled

UrlNext == \E raw \in Raws : InvalidLink(raw) \/ Link(raw)
UrlSpec == UrlInit /\ [][UrlNext]_urls
-----------------------------------------------------------------------------
(* Reference definitions                                                    *)

Targets == {raw \in offered : CrawlTarget(raw)}
Times(pairs) == [p \in ToSet(pairs) |-> Cardinality({i \in DOMAIN pairs : pairs[i] = p})]
\* What a URL asks for: where it goes and which pairs it carries and how often,
\* in whatever order, removed ones aside.  An empty pair counts as any other: no
\* query and an empty one, or one "&" more, are different requests.
Meaning(raw) ==
    [scheme |-> raw.scheme, host |-> raw.host,
     port |-> IF raw.port = 0 THEN DefaultPort(raw.scheme) ELSE raw.port,
     path |-> IF raw.path = <<>> THEN <<"/">> ELSE raw.path,
     carries |-> Times(SelectSeq(raw.pairs, Retained))]

Below(host, root) == IsSuffix(Split(root, "."), Split(host, "."))
Covers(rule, host) == IF rule.kind = "Exact" THEN host = rule.host ELSE Below(host, rule.host)
Permitted(host) ==
    CASE scope.kind = "SeedDomainsOnly" -> host \in SeedHosts
      [] scope.kind = "ExplicitAllowlist" -> host \in scope.hosts
      [] scope.kind = "SameRegistrableDomain" ->
            \/ host \in SeedHosts \cup {RegistrableDomain(h) : h \in SeedHosts}
            \/ host \in scope.explicit /\ \E h \in SeedHosts : Below(host, RegistrableDomain(h))
      [] scope.kind = "Custom" ->
            /\ \E r \in scope.allow : Covers(r, host)
            /\ \A r \in scope.block : ~Covers(r, host)

\* Matchers that accept a URL, each with its page type.
Claims(url) == {c \in UNION {{<<t, m>> : m \in ToSet(t.matchers)} : t \in ToSet(types)} : Matches(c[2], url)}
Outranks(c, d) ==
    \/ c[1].priority > d[1].priority
    \/ c[1].priority = d[1].priority /\ Higher(SpecificityKey(c[2]), SpecificityKey(d[2]))
Unbeaten(url) == {c[1].name : c \in {c \in Claims(url) : \A d \in Claims(url) : ~Outranks(d, c)}}
-----------------------------------------------------------------------------
\* Two spellings are one canonical URL exactly when they go to the same place
\* with the same pairs, the removed ones aside, in whatever order: no target is
\* lost to another, and reordered or tracked links to it are not crawled again.
\* (The pair need not mean anything: a trailing "?" or "&" makes another URL.)
OneIdentityPerTarget ==
    \A a, b \in Targets : Canonicalize(a) = Canonicalize(b) <=> Meaning(a) = Meaning(b)

\* Canonicalizing a canonical URL changes nothing: the repositories compare a
\* stored canonical URL with the one they compute again when they read it.
CanonicalIsFixed == \A url \in seen : Canonicalize(url) = url

\* A link is scheduled exactly when its host, label by label, is one the Domain
\* Scope permits: a host that only ends in the same characters never is.
ScopeIsByLabel ==
    ~failed => \A raw \in Targets : Canonicalize(raw) \in scheduled <=> Permitted(raw.host)

\* The page type of a URL is the one whose claim on it no other claim outranks,
\* and ambiguous when several are left, whatever order they are stored in.
ResolvedAsRanked ==
    \A url \in scheduled :
        LET left == Unbeaten(url)
        IN  ResolvePageType(url) =
                [names |-> left,
                 decision |-> CASE left = {} -> "UNMATCHED" [] Cardinality(left) = 1 -> "MATCHED" [] OTHER -> "AMBIGUOUS"]

=============================================================================

---------------------------- MODULE RobotsRules ----------------------------
(***************************************************************************)
(* How a robots.txt document is read and what it decides for a request:    *)
(* parse_robots_document, select_groups, rule_matches and                  *)
(* RobotsDocument::evaluate of erabi-crawler/src/robots.rs.                *)
(*                                                                         *)
(* The parser's loop is the state machine: one action per kind of line,    *)
(* each line any of the instance's.  The document may end after every      *)
(* line, so the invariants compare in every state what the code decides    *)
(* for the lines read with what those lines say.  Names and patterns are   *)
(* sequences of characters.  A line holding only a comment is blank to the *)
(* parser.                                                                 *)
(***************************************************************************)
EXTENDS Integers, Sequences, SequencesExt, FiniteSets, FiniteSetsExt

CONSTANTS
    UserAgent,      \* the frozen User-Agent of the run, in lower case
    Selectors,      \* values of the user-agent lines, in lower case
    RuleValues,     \* values of the allow and disallow lines
    Delays,         \* values of the crawl-delay lines; a negative one is no duration
    MaxDelay,       \* MAX_PACING_DELAY
    Paths,          \* path and query of the requests decided on
    MaxLines        \* bound on the document

\* What the constants may be.
RobotsBounds ==
    Delays \subseteq Int /\ MaxDelay \in Nat /\ MaxLines \in Nat

VARIABLES
    body,           \* the lines read so far
    groups,         \* the finished groups
    current,        \* the open group: a sequence of at most one
    hasPolicy,      \* group_has_policy_directive
    error           \* RobotsInvalidPolicy: the document is refused
robots == <<body, groups, current, hasPolicy, error>>

RobotsInit ==
    body = <<>> /\ groups = <<>> /\ current = <<>> /\ hasPolicy = FALSE /\ error = FALSE

Read(line) == ~error /\ Len(body) < MaxLines /\ body' = Append(body, line)
Refuse == error' = TRUE /\ UNCHANGED <<groups, current, hasPolicy>>
Flush == groups' = groups \o current

NewGroup(agent) == [agents |-> {agent}, rules |-> <<>>, delays |-> {}]

\* A blank or comment-only line ends the open group.
Blank ==
    /\ Read([name |-> "blank"])
    /\ Flush /\ current' = <<>> /\ hasPolicy' = FALSE /\ UNCHANGED error

\* Consecutive user-agent lines head one group; the first after a directive
\* opens another.
UserAgentLine(agent) ==
    /\ Read([name |-> "user-agent", value |-> agent])
    /\ \/ agent = <<>> /\ Refuse
       \/ /\ agent # <<>> /\ hasPolicy' = FALSE /\ UNCHANGED error
          /\ IF current = <<>> \/ hasPolicy
             THEN Flush /\ current' = <<NewGroup(agent)>>
             ELSE current' = <<[current[1] EXCEPT !.agents = @ \cup {agent}]>> /\ UNCHANGED groups

EndAnchored(value) == value # <<>> /\ Last(value) = "$"
Pattern(value) == IF EndAnchored(value) THEN Front(value) ELSE value
Specificity(pattern) == Cardinality({i \in DOMAIN pattern : pattern[i] # "*"})
Rule(allow, value) ==
    [pattern |-> Pattern(value), allow |-> allow, anchored |-> EndAnchored(value),
     specificity |-> Specificity(Pattern(value))]

\* An empty value restricts nothing; a rule outside a group is malformed.
RuleLine(allow, value) ==
    /\ Read([name |-> "rule", allow |-> allow, value |-> value])
    /\ \/ /\ current = <<>> /\ Refuse
       \/ /\ current # <<>> /\ hasPolicy' = TRUE /\ UNCHANGED <<groups, error>>
          /\ current' = IF Pattern(value) = <<>> THEN current
                        ELSE <<[current[1] EXCEPT !.rules = Append(@, Rule(allow, value))]>>

Capped(delay) == Min({delay, MaxDelay})

DelayLine(delay) ==
    /\ Read([name |-> "delay", value |-> delay])
    /\ \/ /\ current = <<>> \/ delay < 0
          /\ Refuse
       \/ /\ current # <<>> /\ delay >= 0
          /\ hasPolicy' = TRUE /\ UNCHANGED <<groups, error>>
          /\ current' = <<[current[1] EXCEPT !.delays = @ \cup {Capped(delay)}]>>

\* Any other directive (a sitemap, an unknown name) is passed over.
OtherLine == Read([name |-> "other"]) /\ UNCHANGED <<groups, current, hasPolicy, error>>

RobotsNext ==
    \/ Blank \/ OtherLine
    \/ \E s \in Selectors : UserAgentLine(s)
    \/ \E v \in RuleValues, allow \in BOOLEAN : RuleLine(allow, v)
    \/ \E d \in Delays : DelayLine(d)
RobotsSpec == RobotsInit /\ [][RobotsNext]_robots
-----------------------------------------------------------------------------
(* What the code decides for the document read.                             *)

AgentMatches(selector) ==
    \/ UserAgent = selector
    \/ /\ IsStrictPrefix(selector, UserAgent)
       /\ UserAgent[Len(selector) + 1] \in {"/", " "}

\* Mutant of SelectGroups: every group that names the agent applies.
EveryMatchingGroup(document) ==
    LET named == SelectSeq(document, LAMBDA g : \E s \in g.agents \ {<<"*">>} : AgentMatches(s))
    IN  IF named # <<>> THEN named ELSE SelectSeq(document, LAMBDA g : <<"*">> \in g.agents)

SelectGroups(document) ==
    LET lengths(g) == {Len(s) : s \in {s \in g.agents \ {<<"*">>} : AgentMatches(s)}}
        highest == Max({0} \cup UNION {lengths(document[i]) : i \in DOMAIN document})
    IN  IF highest > 0 THEN SelectSeq(document, LAMBDA g : highest \in lengths(g))
        ELSE SelectSeq(document, LAMBDA g : <<"*">> \in g.agents)

\* pattern.split('*')
Parts(pattern) ==
    LET stars == SetToSortSeq({i \in DOMAIN pattern : pattern[i] = "*"}, <)
        cuts == <<0>> \o stars \o <<Len(pattern) + 1>>
    IN  [k \in 1 .. Len(stars) + 1 |-> SubSeq(pattern, cuts[k] + 1, cuts[k + 1] - 1)]

\* Where part ends in path when it starts at or after offset: the ends to choose from.
Ends(path, offset, part) ==
    {e \in offset + Len(part) .. Len(path) : SubSeq(path, e - Len(part) + 1, e) = part}

\* The parts in order, each at its first place; the last at the end if anchored.
RuleMatches(rule, path) ==
    LET parts == Parts(rule.pattern)
        n == Len(parts)
        offset[k \in 1 .. n] ==
            IF k = 1 THEN IF IsPrefix(parts[1], path) THEN Len(parts[1]) ELSE -1
            ELSE IF offset[k - 1] = -1 \/ Ends(path, offset[k - 1], parts[k]) = {} THEN -1
            ELSE Min(Ends(path, offset[k - 1], parts[k]))
    IN  CASE n = 1 -> offset[1] # -1 /\ (rule.anchored => offset[1] = Len(path))
          [] n > 1 /\ rule.anchored ->
                offset[n - 1] # -1 /\ Len(path) \in Ends(path, offset[n - 1], parts[n])
          [] OTHER -> offset[n] # -1

NoRule == [specificity |-> -1, allow |-> TRUE]

Better(best, rule) ==
    IF \/ best.specificity > rule.specificity
       \/ best.specificity = rule.specificity /\ best.allow
    THEN best ELSE rule

NoDelay == -1

Evaluate(document, path) ==
    LET selected == SelectGroups(document)
        rules == FlattenSeq([i \in DOMAIN selected |-> selected[i].rules])
        matching == SelectSeq(rules, LAMBDA r : RuleMatches(r, path))
    IN  [allowed |-> FoldLeft(Better, NoRule, matching).allow,
         delay |-> Max({NoDelay} \cup UNION {selected[i].delays : i \in DOMAIN selected})]

Document == groups \o current
-----------------------------------------------------------------------------
(* What the lines say, without groups or an order of evaluation.            *)

Named(name) == {i \in DOMAIN body : body[i].name = name}
Policy == Named("rule") \cup Named("delay")

\* The user-agent lines above line i that it belongs to.
Headers(i) ==
    {j \in Named("user-agent") :
        /\ j < i
        /\ \A k \in j .. i : k \notin Named("blank")
        /\ \A p \in Policy, q \in Named("user-agent") : ~(j < p /\ p < q /\ q < i)}

Longest == Max({0} \cup {Len(body[j].value) :
                j \in {j \in Named("user-agent") : body[j].value # <<"*">> /\ AgentMatches(body[j].value)}})
Addressed(i) ==
    \E j \in Headers(i) :
        IF Longest > 0 THEN AgentMatches(body[j].value) /\ Len(body[j].value) = Longest
        ELSE body[j].value = <<"*">>

\* A pattern as a glob: a star stands for any characters.
Glob(pattern, anchored, path) ==
    LET rest[i \in 1 .. Len(pattern) + 1, j \in 1 .. Len(path) + 1] ==
            IF i > Len(pattern) THEN anchored => j > Len(path)
            ELSE IF pattern[i] = "*" THEN \E k \in j .. Len(path) + 1 : rest[i + 1, k]
            ELSE j <= Len(path) /\ pattern[i] = path[j] /\ rest[i + 1, j + 1]
    IN  rest[1, 1]

Applying(path) ==
    {i \in Named("rule") :
        /\ Addressed(i) /\ Pattern(body[i].value) # <<>>
        /\ Glob(Pattern(body[i].value), EndAnchored(body[i].value), path)}
MostSpecific(path) ==
    {i \in Applying(path) : \A k \in Applying(path) :
        Specificity(Pattern(body[k].value)) <= Specificity(Pattern(body[i].value))}
-----------------------------------------------------------------------------
\* What the parser's groups and the fold over their rules decide is what the
\* lines say: the rules under the agent's longest selector, the most specific
\* of those that match, and an allow before a disallow of the same length; the
\* crawl delay is the longest of those addressed to the agent.
DecidesAsWritten ==
    ~error => \A path \in Paths :
        Evaluate(Document, path) =
            [allowed |-> Applying(path) = {} \/ \E i \in MostSpecific(path) : body[i].allow,
             delay |-> Max({NoDelay} \cup {Capped(body[i].value) : i \in {i \in Named("delay") : Addressed(i)}})]

\* The left-to-right search of rule_matches, which never backtracks, accepts
\* exactly the paths the pattern describes as a glob.
PatternsAreGlobs ==
    \A i \in DOMAIN Document : \A k \in DOMAIN Document[i].rules : \A path \in Paths :
        LET rule == Document[i].rules[k]
        IN  RuleMatches(rule, path) = Glob(rule.pattern, rule.anchored, path)
=============================================================================

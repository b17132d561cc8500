------------------------------ MODULE RobotsTxt ------------------------------
(***************************************************************************)
(* robots_permits (serv01/execution.py): may the crawler open a path,      *)
(* given the text of robots.txt?  The loop over the lines is a state       *)
(* machine, one line a step, and every state is the end of some file: what *)
(* the function would answer for the lines read so far is Permits.         *)
(*                                                                         *)
(* A line is what is left of it after comments, blanks and letter case are *)
(* gone: a known field with its value, or "other", which is skipped.       *)
(***************************************************************************)
EXTENDS Naturals, Sequences, FiniteSets

CONSTANTS
    Agent,    \* agents that robots.txt names, "*" among them
    Product,  \* the product of the configured bot_user_agent
    Char,     \* the characters of patterns and paths
    Pattern,  \* patterns of rules: their characters, and do they end in "$"?
    Path,     \* the paths to decide about
    MaxLines  \* BOUND: lines of the file

ASSUME RobotsAssumption ==
    /\ MaxLines \in Nat
    /\ Product \in Agent \ {"*"} /\ "*" \in Agent
    /\ Pattern \subseteq [chars : Seq(Char), anchored : BOOLEAN]
    /\ Path \subseteq Seq(Char)

Line ==
    [field : {"user-agent"}, value : Agent]
        \cup [field : {"allow", "disallow"}, value : Pattern]
        \cup {[field |-> "other"]}

NoPattern == [chars |-> <<>>, anchored |-> FALSE]

VARIABLES
    lines,  \* the lines read
    groups, \* the complete groups, [agents : SUBSET Agent, rules]
    agents, \* the agents of the group being read
    rules   \* and its rules, each [allow : BOOLEAN, pattern : Pattern]

vars == <<lines, groups, agents, rules>>

Init ==
    /\ lines = <<>>
    /\ groups = {}
    /\ agents = {}
    /\ rules = {}

\* Seeded fault: every agent begins a new group.
ReadAgentAlone(line) ==
    /\ line.field = "user-agent"
    /\ groups' = groups \cup {[agents |-> agents, rules |-> rules]}
    /\ agents' = {line.value}
    /\ rules' = {}

\* Seeded fault: the rules are not reset with the agents.
ReadAgentKeepingRules(line) ==
    /\ line.field = "user-agent"
    /\ IF rules = {}
       THEN /\ agents' = agents \cup {line.value}
            /\ UNCHANGED <<groups, rules>>
       ELSE /\ groups' = groups \cup {[agents |-> agents, rules |-> rules]}
            /\ agents' = {line.value}
            /\ UNCHANGED rules

\* An agent after a rule begins a new group.
ReadAgent(line) ==
    /\ line.field = "user-agent"
    /\ IF rules = {}
       THEN /\ agents' = agents \cup {line.value}
            /\ UNCHANGED <<groups, rules>>
       ELSE /\ groups' = groups \cup {[agents |-> agents, rules |-> rules]}
            /\ agents' = {line.value}
            /\ rules' = {}

\* An empty Disallow is dropped, and so is a rule before the first agent.
Kept(line) ==
    /\ line.field \in {"allow", "disallow"}
    /\ agents # {}
    /\ line.value # NoPattern \/ line.field = "allow"

ReadRule(line) ==
    /\ Kept(line)
    /\ rules' = rules \cup {[allow |-> line.field = "allow", pattern |-> line.value]}
    /\ UNCHANGED <<groups, agents>>

Skip(line) ==
    /\ line.field # "user-agent" /\ ~Kept(line)
    /\ UNCHANGED <<groups, agents, rules>>

ReadLine ==
    /\ Len(lines) < MaxLines
    /\ \E line \in Line :
          /\ lines' = Append(lines, line)
          /\ ReadAgent(line) \/ ReadRule(line) \/ Skip(line)

Next == ReadLine

Spec == Init /\ [][Next]_vars

-----------------------------------------------------------------------------
(* The decision.                                                           *)

\* The regular expression made of the pattern matches a prefix of the path,
\* or all of it when the pattern ends in "$"; at[i] is where the match of its
\* i-th character begins.
Matches(pattern, path) ==
    LET n == Len(pattern.chars)
    IN  \E at \in [1..(n + 1) -> 1..(Len(path) + 1)] :
            /\ at[1] = 1
            /\ \A i \in 1..n :
                  IF pattern.chars[i] = "*"
                  THEN at[i] <= at[i + 1]
                  ELSE /\ at[i] <= Len(path)
                       /\ path[at[i]] = pattern.chars[i]
                       /\ at[i + 1] = at[i] + 1
            /\ pattern.anchored => at[n + 1] = Len(path) + 1

\* len(raw_pattern.replace("*", "")).
Specificity(pattern) ==
    Cardinality({n \in DOMAIN pattern.chars : pattern.chars[n] # "*"})

\* Seeded fault: the last group is added only if it has rules.
GroupsWithRules ==
    groups \cup (IF rules = {} THEN {} ELSE {[agents |-> agents, rules |-> rules]})

\* Every group of the file, the last one included.
AllGroups ==
    groups \cup (IF agents = {} THEN {} ELSE {[agents |-> agents, rules |-> rules]})

\* The groups that name the product, or else those for every agent.
Selected ==
    LET specific == {g \in AllGroups : Product \in g.agents}
    IN  IF specific # {} THEN specific ELSE {g \in AllGroups : "*" \in g.agents}

\* The rules of the selected groups that match the path.
Matching(path) ==
    {r \in UNION {g.rules : g \in Selected} :
        r.pattern # NoPattern /\ Matches(r.pattern, path)}

\* Of the longest rules one allows.
LongestOf(matching) ==
    \/ matching = {}
    \/ \E r \in matching :
          r.allow /\ \A q \in matching : Specificity(q.pattern) <= Specificity(r.pattern)

Permits(path) == LongestOf(Matching(path))

-----------------------------------------------------------------------------
(* What robots.txt means (RFC 9309), stated on the lines themselves: a     *)
(* rule belongs to the agents above it, up to the agent line that follows  *)
(* an earlier rule.  What one pattern matches, and that wildcards and the  *)
(* anchor do not add to its length, is taken over from the code (the RFC   *)
(* counts octets).                                                         *)

IsAgent(i) == lines[i].field = "user-agent"

IsRule(i) == lines[i].field \in {"allow", "disallow"}

IsEmptyDisallow(i) == lines[i].field = "disallow" /\ lines[i].value = NoPattern

\* The rule in line i governs the agent in line j, when only the lines in K
\* count.
Governs(i, j, K) ==
    /\ j < i /\ IsRule(i) /\ IsAgent(j)
    /\ ~\E r, u \in K : j < r /\ r < u /\ u < i /\ IsRule(r) /\ IsAgent(u)

\* The name under which the product finds its rules.
OwnName ==
    IF \E j \in DOMAIN lines : IsAgent(j) /\ lines[j].value = Product
    THEN Product ELSE "*"

OwnRules(path, K) ==
    {i \in K :
        /\ \E j \in K : Governs(i, j, K) /\ lines[j].value = OwnName
        /\ lines[i].value # NoPattern
        /\ Matches(lines[i].value, path)}

\* How much of a path the rule in line i spells out.
Literals(i) == {n \in DOMAIN lines[i].value.chars : lines[i].value.chars[n] # "*"}

\* Every Disallow that matches is outdone by an Allow at least as long.
MeansPermitted(path, K) ==
    \A i \in OwnRules(path, K) : lines[i].field = "disallow" =>
        \E k \in OwnRules(path, K) :
            /\ lines[k].field = "allow"
            /\ Cardinality(Literals(k)) >= Cardinality(Literals(i))

-----------------------------------------------------------------------------
(* Properties                                                              *)

\* The answer is what the file means if its empty Disallow lines are deleted
\* (execution.py:51-91): no grouping, selection or precedence differs, given
\* what the code takes one pattern to match and to spell out.
PermitsAsRead ==
    \A path \in Path :
        Permits(path) <=>
            MeansPermitted(path, {i \in DOMAIN lines : ~IsEmptyDisallow(i)})

\* One more Allow never closes a path that was open, and one more Disallow
\* never opens one that was closed (execution.py:77-91).
RulesPushOneWay ==
    [][\A path \in Path :
          /\ lines'[Len(lines')].field = "allow" /\ Permits(path) => Permits(path)'
          /\ lines'[Len(lines')].field = "disallow" /\ Permits(path)' => Permits(path)]_vars

\* README.md:6: the crawler "соблюдает robots.txt" (respects it).  A group with
\* an empty Disallow allows its agents everything.
RespectsRobots ==
    \A path \in Path : Permits(path) <=> MeansPermitted(path, DOMAIN lines)
=============================================================================

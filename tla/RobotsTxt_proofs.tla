-------------------------- MODULE RobotsTxt_proofs --------------------------
(***************************************************************************)
(* robots_permits decides what the file means without its empty Disallow   *)
(* lines, for files of every length and for all agents, patterns and paths.*)
(*                                                                         *)
(* The parser keeps groups and forgets the lines; the meaning speaks of    *)
(* the lines and knows no groups.  The invariant relates the two: whom the *)
(* group being read addresses, whether it has a rule, and which rules every *)
(* agent has got.                                                          *)
(***************************************************************************)
EXTENDS RobotsTxt, FiniteSetTheorems, SequenceTheorems, WellFoundedInduction, TLAPS

-----------------------------------------------------------------------------
(* The invariant                                                           *)

Rule == [allow : BOOLEAN, pattern : Pattern]

TypeOK ==
    /\ lines \in Seq(Line)
    /\ groups \subseteq [agents : SUBSET Agent, rules : SUBSET Rule]
    /\ agents \subseteq Agent
    /\ rules \subseteq Rule

\* The lines that count: all but the empty Disallow lines.
Counted == {i \in DOMAIN lines : ~IsEmptyDisallow(i)}

RuleOf(i) == [allow |-> lines[i].field = "allow", pattern |-> lines[i].value]

\* After line j and before line i no agent follows a rule.
SameGroup(j, i) ==
    \A r, u \in Counted : j < r /\ r < u /\ u < i /\ IsRule(r) => ~IsAgent(u)

\* The agent lines that a rule in the next line would govern.
OpenAgents ==
    {j \in DOMAIN lines :
        /\ IsAgent(j)
        /\ \A r, u \in Counted : j < r /\ r < u /\ IsRule(r) => ~IsAgent(u)}

\* The parser has given this agent this rule.
Given(a, rule) ==
    \/ \E g \in groups : a \in g.agents /\ rule \in g.rules
    \/ a \in agents /\ rule \in rules

\* The parser knows this agent.
Known(a) == a \in agents \/ \E g \in groups : a \in g.agents

\* The file gives this agent this rule.
Stated(a, rule) ==
    \E i, j \in Counted :
        /\ j < i /\ IsRule(i) /\ IsAgent(j)
        /\ lines[j].value = a /\ rule = RuleOf(i)
        /\ SameGroup(j, i)

\* The file names this agent.
Mentioned(a) == \E j \in DOMAIN lines : IsAgent(j) /\ lines[j].value = a

AgentsAreOpen == \A a \in Agent : a \in agents <=> \E j \in OpenAgents : lines[j].value = a

RulesHaveBegun ==
    rules # {} <=> \E j \in OpenAgents, r \in Counted : j < r /\ IsRule(r)

RulesGivenAsStated == \A a \in Agent, rule \in Rule : Given(a, rule) <=> Stated(a, rule)

AgentsKnownAsMentioned == \A a \in Agent : Known(a) <=> Mentioned(a)

\* A file has a longest rule.
RulesBounded ==
    \E b \in Nat : \A i \in DOMAIN lines : IsRule(i) => Specificity(lines[i].value) <= b

\* After every line, what the parser keeps says of each agent what the lines
\* say: whom the next rule is for, who has been named, and who has got which
\* rules (execution.py:51-66).
GroupsTellTheLines ==
    /\ AgentsAreOpen
    /\ RulesHaveBegun
    /\ RulesGivenAsStated
    /\ AgentsKnownAsMentioned

Inv == TypeOK /\ GroupsTellTheLines /\ RulesBounded

-----------------------------------------------------------------------------
(* Lines                                                                   *)

\* What the fields of a line hold.
LEMMA LineFields ==
    ASSUME TypeOK, NEW i \in DOMAIN lines
    PROVE  /\ IsAgent(i) => lines[i].value \in Agent /\ ~IsRule(i) /\ i \in Counted
           /\ IsRule(i) => lines[i].value \in Pattern /\ ~IsAgent(i)
           /\ IsRule(i) => RuleOf(i) \in Rule
<1>1. lines[i] \in Line
  BY DEF TypeOK
<1> QED
  BY <1>1 DEF Line, IsAgent, IsRule, IsEmptyDisallow, Counted, RuleOf, Rule

LEMMA SpecificityType ==
    ASSUME RobotsAssumption, NEW pattern \in Pattern
    PROVE  Specificity(pattern) \in Nat
<1> DEFINE n == Len(pattern.chars)
           literals == {m \in DOMAIN pattern.chars : pattern.chars[m] # "*"}
<1>1. pattern.chars \in Seq(Char)
  BY DEF RobotsAssumption
<1>2. n \in Nat /\ DOMAIN pattern.chars = 1..n
  BY <1>1, LenProperties
<1>3. IsFiniteSet(1..n)
  BY <1>2, FS_Interval
<1>4. IsFiniteSet(literals)
  BY <1>2, <1>3, FS_Subset
<1> QED
  BY <1>4, FS_CardinalityType DEF Specificity

\* A line read changes no earlier line.
LEMMA OneMore ==
    ASSUME TypeOK, NEW line \in Line, lines' = Append(lines, line)
    PROVE  /\ Len(lines) \in Nat /\ Len(lines') = Len(lines) + 1
           /\ DOMAIN lines = 1..Len(lines) /\ DOMAIN lines' = 1..(Len(lines) + 1)
           /\ \A i \in DOMAIN lines : lines'[i] = lines[i]
           /\ lines'[Len(lines) + 1] = line
           /\ lines' \in Seq(Line)
BY AppendProperties, LenProperties DEF TypeOK

LEMMA EarlierLines ==
    ASSUME TypeOK, NEW line \in Line, lines' = Append(lines, line)
    PROVE  /\ \A i \in DOMAIN lines :
                 /\ IsAgent(i)' <=> IsAgent(i)
                 /\ IsRule(i)' <=> IsRule(i)
                 /\ i \in Counted' <=> i \in Counted
                 /\ RuleOf(i)' = RuleOf(i)
           /\ Counted' \subseteq 1..(Len(lines) + 1)
           /\ Counted \subseteq 1..Len(lines)
BY OneMore DEF IsAgent, IsRule, IsEmptyDisallow, Counted, RuleOf

\* What one more line says of the earlier ones.
LEMMA EarlierGroups ==
    ASSUME TypeOK, NEW line \in Line, lines' = Append(lines, line),
           NEW j \in DOMAIN lines, NEW i \in 1..(Len(lines) + 1)
    PROVE  SameGroup(j, i)' <=> SameGroup(j, i)
<1>1. \A u \in Counted' : u < i => u \in Counted
  BY OneMore, EarlierLines
<1>2. \A u \in Counted : u \in Counted' /\ u \in DOMAIN lines /\ u \in DOMAIN lines'
  BY OneMore, EarlierLines
<1>3. /\ \A u \in Counted' : u \in Nat
      /\ i \in Nat /\ j \in Nat
  BY OneMore, EarlierLines
<1>4. SameGroup(j, i)' =>  SameGroup(j, i)
  BY <1>2, <1>3, EarlierLines DEF SameGroup
<1>5. ASSUME SameGroup(j, i) PROVE SameGroup(j, i)'
  <2>1. ASSUME NEW r \in Counted', NEW u \in Counted', j < r, r < u, u < i, IsRule(r)'
        PROVE  ~IsAgent(u)'
    <3>1. r < i
      BY <1>3, <2>1
    <3>2. r \in Counted /\ u \in Counted
      BY <1>1, <2>1, <3>1
    <3> QED
      BY <1>2, <1>5, <2>1, <3>2, EarlierLines DEF SameGroup
  <2> QED
    BY <2>1 DEF SameGroup
<1> QED
  BY <1>4, <1>5

\* The agents open after the next line are those open before it, unless it
\* names an agent itself.
LEMMA OpenAfter ==
    ASSUME TypeOK, NEW line \in Line, lines' = Append(lines, line)
    PROVE  \A j \in DOMAIN lines' :
              j \in OpenAgents' <=>
                 \/ j = Len(lines) + 1 /\ line.field = "user-agent"
                 \/ /\ j \in OpenAgents
                    /\ line.field = "user-agent" =>
                          ~\E r \in Counted : j < r /\ IsRule(r)
<1>1. PICK n \in Nat : n = Len(lines) + 1
  BY OneMore
<1>2. /\ DOMAIN lines = 1..(n - 1) /\ DOMAIN lines' = 1..n /\ lines'[n] = line
      /\ n \in DOMAIN lines' /\ n \notin DOMAIN lines
  BY <1>1, OneMore
<1>3. /\ \A u \in Counted' : u \in 1..n /\ (u # n => u \in Counted)
      /\ \A u \in Counted : u \in DOMAIN lines /\ u \in Counted' /\ u < n
  BY <1>1, <1>2, EarlierLines
<1>4. IsAgent(n)' <=> line.field = "user-agent"
  BY <1>2 DEF IsAgent
<1>5. line.field = "user-agent" => n \in Counted'
  BY <1>2 DEF Counted, IsEmptyDisallow
<1>6. n \in OpenAgents' <=> line.field = "user-agent"
  BY <1>2, <1>3, <1>4 DEF OpenAgents
<1>7. ASSUME NEW j \in DOMAIN lines
      PROVE  j \in OpenAgents' <=>
                /\ j \in OpenAgents
                /\ line.field = "user-agent" => ~\E r \in Counted : j < r /\ IsRule(r)
  <2>1. ASSUME j \in OpenAgents'
        PROVE  /\ j \in OpenAgents
               /\ line.field = "user-agent" => ~\E r \in Counted : j < r /\ IsRule(r)
    <3>1. j \in OpenAgents
      BY <1>3, <2>1, EarlierLines DEF OpenAgents
    <3>2. ASSUME line.field = "user-agent", NEW r \in Counted, j < r, IsRule(r)
          PROVE  FALSE
      <4>1. IsRule(r)' /\ r \in Counted' /\ r < n
        BY <1>3, <3>2, EarlierLines
      <4> QED
        BY <1>4, <1>5, <2>1, <3>2, <4>1 DEF OpenAgents
    <3> QED
      BY <3>1, <3>2
  <2>2. ASSUME j \in OpenAgents,
               line.field = "user-agent" => ~\E r \in Counted : j < r /\ IsRule(r)
        PROVE  j \in OpenAgents'
    <3>1. IsAgent(j)' /\ j \in DOMAIN lines'
      BY <1>2, <2>2, EarlierLines DEF OpenAgents
    <3>2. ASSUME NEW r \in Counted', NEW u \in Counted', j < r, r < u, IsRule(r)', IsAgent(u)'
          PROVE  FALSE
      <4>1. r \in Counted /\ IsRule(r)
        BY <1>3, <3>2, EarlierLines
      <4>2. CASE u = n
        BY <1>4, <2>2, <3>2, <4>1, <4>2
      <4>3. CASE u # n
        <5>1. u \in Counted /\ IsAgent(u)
          BY <1>3, <3>2, <4>3, EarlierLines
        <5> QED
          BY <2>2, <3>2, <4>1, <5>1 DEF OpenAgents
      <4> QED
        BY <4>2, <4>3
    <3> QED
      BY <3>1, <3>2 DEF OpenAgents
  <2> QED
    BY <2>1, <2>2
<1>8. OpenAgents \subseteq DOMAIN lines
  BY DEF OpenAgents
<1> QED
  BY <1>1, <1>2, <1>6, <1>7, <1>8

\* What the file has given its agents, after one more line: what it had given
\* them, and the rule in this line to the agents that are open.
LEMMA StatedAfter ==
    ASSUME TypeOK, NEW line \in Line, lines' = Append(lines, line), NEW a, NEW rule
    PROVE  Stated(a, rule)' <=>
              \/ Stated(a, rule)
              \/ /\ line.field \in {"allow", "disallow"}
                 /\ ~(line.field = "disallow" /\ line.value = NoPattern)
                 /\ rule = [allow |-> line.field = "allow", pattern |-> line.value]
                 /\ \E j \in OpenAgents : lines[j].value = a
<1>1. PICK n \in Nat : n = Len(lines) + 1
  BY OneMore
<1>2. /\ DOMAIN lines = 1..(n - 1) /\ DOMAIN lines' = 1..n /\ lines'[n] = line
      /\ n \in DOMAIN lines' /\ n \notin DOMAIN lines
  BY <1>1, OneMore
<1>3. /\ \A u \in Counted' : u \in 1..n /\ (u # n => u \in Counted)
      /\ \A u \in Counted : u \in DOMAIN lines /\ u \in Counted' /\ u < n
  BY <1>1, <1>2, EarlierLines
<1>4. /\ IsRule(n)' <=> line.field \in {"allow", "disallow"}
      /\ n \in Counted' <=> ~(line.field = "disallow" /\ line.value = NoPattern)
      /\ RuleOf(n)' = [allow |-> line.field = "allow", pattern |-> line.value]
  BY <1>2 DEF IsRule, Counted, IsEmptyDisallow, RuleOf
<1>5. \A j \in DOMAIN lines : lines'[j] = lines[j]
  BY OneMore
<1>6. ASSUME NEW j \in DOMAIN lines
      PROVE  IsAgent(j) /\ SameGroup(j, n)' <=> j \in OpenAgents
  <2>1. SameGroup(j, n)' <=> SameGroup(j, n)
    BY <1>1, <1>2, EarlierGroups
  <2>2. SameGroup(j, n) <=> \A r, u \in Counted : j < r /\ r < u /\ IsRule(r) => ~IsAgent(u)
    BY <1>3 DEF SameGroup
  <2> QED
    BY <2>1, <2>2 DEF OpenAgents
<1>7. ASSUME Stated(a, rule) PROVE Stated(a, rule)'
  <2>1. PICK i \in Counted, j \in Counted :
           /\ j < i /\ IsRule(i) /\ IsAgent(j) /\ SameGroup(j, i)
           /\ lines[j].value = a /\ rule = RuleOf(i)
    BY <1>7 DEF Stated
  <2>2. i \in DOMAIN lines /\ j \in DOMAIN lines /\ i \in Counted' /\ j \in Counted'
    BY <1>3
  <2>3. SameGroup(j, i)'
    BY <1>1, <1>2, <2>1, <2>2, EarlierGroups
  <2>4. IsRule(i)' /\ IsAgent(j)' /\ lines'[j].value = a /\ rule = RuleOf(i)'
    BY <1>5, <2>1, <2>2, EarlierLines
  <2> QED
    BY <2>1, <2>2, <2>3, <2>4 DEF Stated
<1>8. ASSUME line.field \in {"allow", "disallow"},
             ~(line.field = "disallow" /\ line.value = NoPattern),
             rule = [allow |-> line.field = "allow", pattern |-> line.value],
             NEW j \in OpenAgents, lines[j].value = a
      PROVE  Stated(a, rule)'
  <2>1. j \in DOMAIN lines /\ IsAgent(j)
    BY DEF OpenAgents
  <2>2. j \in Counted
    BY <2>1, LineFields
  <2>3. SameGroup(j, n)'
    BY <1>6, <2>1
  <2>4. n \in Counted' /\ j \in Counted' /\ j < n /\ IsAgent(j)' /\ lines'[j].value = a
    BY <1>3, <1>4, <1>5, <1>8, <2>1, <2>2, EarlierLines
  <2> QED
    BY <1>4, <1>8, <2>3, <2>4 DEF Stated
<1>9. ASSUME Stated(a, rule)', ~Stated(a, rule)
      PROVE  /\ line.field \in {"allow", "disallow"}
             /\ ~(line.field = "disallow" /\ line.value = NoPattern)
             /\ rule = [allow |-> line.field = "allow", pattern |-> line.value]
             /\ \E j \in OpenAgents : lines[j].value = a
  <2>1. PICK i \in Counted', j \in Counted' :
           /\ j < i /\ IsRule(i)' /\ IsAgent(j)' /\ SameGroup(j, i)'
           /\ lines'[j].value = a /\ rule = RuleOf(i)'
    BY <1>9 DEF Stated
  <2>2. j # n
    BY <1>3, <2>1
  <2>3. j \in Counted /\ j \in DOMAIN lines /\ IsAgent(j) /\ lines[j].value = a
    BY <1>3, <1>5, <2>1, <2>2, EarlierLines
  <2>4. i = n
    <3>1. SUFFICES ASSUME i # n PROVE FALSE
      OBVIOUS
    <3>2. i \in Counted /\ i \in DOMAIN lines /\ IsRule(i) /\ rule = RuleOf(i)
      BY <1>3, <2>1, <3>1, EarlierLines
    <3>3. SameGroup(j, i)
      BY <1>1, <1>2, <2>1, <2>3, <3>2, EarlierGroups
    <3> QED
      BY <1>9, <2>1, <2>3, <3>2, <3>3 DEF Stated
  <2>5. j \in OpenAgents
    BY <1>6, <2>1, <2>3, <2>4
  <2> QED
    BY <1>4, <2>1, <2>3, <2>4, <2>5
<1> QED
  BY <1>7, <1>8, <1>9

LEMMA MentionedAfter ==
    ASSUME TypeOK, NEW line \in Line, lines' = Append(lines, line), NEW a
    PROVE  Mentioned(a)' <=> Mentioned(a) \/ (line.field = "user-agent" /\ line.value = a)
<1>1. PICK n \in Nat : n = Len(lines) + 1
  BY OneMore
<1>2. DOMAIN lines' = DOMAIN lines \cup {n} /\ lines'[n] = line /\ n \notin DOMAIN lines
  BY <1>1, OneMore
<1> QED
  BY <1>2, OneMore, EarlierLines DEF Mentioned, IsAgent

LEMMA BoundAfter ==
    ASSUME RobotsAssumption, TypeOK, RulesBounded, NEW line \in Line,
           lines' = Append(lines, line)
    PROVE  RulesBounded'
<1>1. PICK n \in Nat : n = Len(lines) + 1
  BY OneMore
<1>2. DOMAIN lines' = DOMAIN lines \cup {n} /\ lines'[n] = line
  BY <1>1, OneMore
<1>3. PICK b \in Nat : \A i \in DOMAIN lines : IsRule(i) => Specificity(lines[i].value) <= b
  BY DEF RulesBounded
<1>4. PICK c \in Nat : line.field \in {"allow", "disallow"} => Specificity(line.value) = c
  <2>1. CASE line.field \in {"allow", "disallow"}
    <3>1. line.value \in Pattern
      BY <2>1 DEF Line
    <3> QED
      BY <3>1, SpecificityType
  <2>2. CASE line.field \notin {"allow", "disallow"}
    BY <2>2
  <2> QED
    BY <2>1, <2>2
<1>5. b + c \in Nat
  OBVIOUS
<1>6. ASSUME NEW i \in DOMAIN lines', IsRule(i)'
      PROVE  Specificity(lines'[i].value) <= b + c
  <2>1. CASE i \in DOMAIN lines
    <3>1. IsRule(i) /\ lines'[i] = lines[i] /\ lines[i].value \in Pattern
      BY <1>6, <2>1, OneMore, EarlierLines, LineFields
    <3>2. Specificity(lines[i].value) \in Nat
      BY <3>1, SpecificityType
    <3> QED
      BY <1>3, <2>1, <3>1, <3>2
  <2>2. CASE i = n
    BY <1>2, <1>4, <1>6, <2>2 DEF IsRule
  <2> QED
    BY <1>2, <2>1, <2>2
<1> QED
  BY <1>5, <1>6 DEF RulesBounded, IsRule

-----------------------------------------------------------------------------
(* The steps                                                               *)

LEMMA InvInit == RobotsAssumption /\ Init => Inv
<1> SUFFICES ASSUME RobotsAssumption, Init PROVE Inv
  OBVIOUS
<1>1. lines \in Seq(Line) /\ DOMAIN lines = {}
  BY EmptySeq DEF Init
<1>2. TypeOK
  BY <1>1 DEF Init, TypeOK
<1>3. Counted = {} /\ OpenAgents = {}
  BY <1>1 DEF Counted, OpenAgents
<1>4. RulesBounded
  BY <1>1 DEF RulesBounded
<1> QED
  BY <1>1, <1>2, <1>3, <1>4
     DEF Inv, GroupsTellTheLines, Init, AgentsAreOpen, RulesHaveBegun, RulesGivenAsStated,
         AgentsKnownAsMentioned, Given, Stated, Known, Mentioned

LEMMA AgentTypes ==
    ASSUME RobotsAssumption, Inv
    PROVE  /\ \A j \in OpenAgents : j \in Counted /\ lines[j].value \in agents
           /\ agents # {} <=> OpenAgents # {}
<1>1. \A j \in OpenAgents : j \in DOMAIN lines /\ IsAgent(j)
  BY DEF OpenAgents
<1>2. \A j \in OpenAgents : j \in Counted /\ lines[j].value \in Agent
  BY <1>1, LineFields DEF Inv
<1> QED
  BY <1>2 DEF Inv, GroupsTellTheLines, AgentsAreOpen, TypeOK

\* A rule after one open agent is after all of them.
LEMMA RuleClosesAll ==
    ASSUME RobotsAssumption, Inv, rules # {}, NEW j \in OpenAgents
    PROVE  \E r \in Counted : j < r /\ IsRule(r)
<1>1. PICK k \in OpenAgents, r \in Counted : k < r /\ IsRule(r)
  BY DEF Inv, GroupsTellTheLines, RulesHaveBegun
<1>2. Counted \subseteq Nat
  BY LenProperties DEF Inv, TypeOK, Counted
<1>3. j \in Counted /\ IsAgent(j) /\ k \in Counted /\ r \in DOMAIN lines
  BY AgentTypes DEF OpenAgents, Counted
<1>4. ~(r < j)
  BY <1>1, <1>3 DEF OpenAgents
<1>5. r # j
  BY <1>1, <1>3, LineFields DEF Inv
<1> QED
  BY <1>1, <1>2, <1>3, <1>4, <1>5

LEMMA ReadAgentStep ==
    ASSUME RobotsAssumption, Inv, NEW line \in Line, lines' = Append(lines, line),
           ReadAgent(line)
    PROVE  Inv'
<1>1. TypeOK /\ line.field = "user-agent" /\ line.value \in Agent
  BY DEF Inv, Line, ReadAgent
<1>2. PICK n \in Nat : n = Len(lines) + 1
  BY <1>1, OneMore
<1>3. /\ DOMAIN lines = 1..(n - 1) /\ DOMAIN lines' = 1..n /\ lines'[n] = line
      /\ n \in DOMAIN lines' /\ n \notin DOMAIN lines
  BY <1>1, <1>2, OneMore
<1>4. OpenAgents' = {n} \cup {j \in OpenAgents : ~\E r \in Counted : j < r /\ IsRule(r)}
  <2>1. OpenAgents' \subseteq DOMAIN lines' /\ OpenAgents \subseteq DOMAIN lines
    BY DEF OpenAgents
  <2> QED
    BY <1>1, <1>2, <1>3, <2>1, OpenAfter
<1>5. OpenAgents' = IF rules = {} THEN OpenAgents \cup {n} ELSE {n}
  <2>1. CASE rules = {}
    BY <1>4, <2>1 DEF Inv, GroupsTellTheLines, RulesHaveBegun
  <2>2. CASE rules # {}
    BY <1>4, <2>2, RuleClosesAll
  <2> QED
    BY <2>1, <2>2
<1>6. \A j \in OpenAgents : lines'[j] = lines[j] /\ j # n
  BY <1>1, <1>3, OneMore DEF OpenAgents
<1>7. TypeOK'
  BY <1>1, OneMore DEF ReadAgent, TypeOK
<1> DEFINE complete == [agents |-> agents, rules |-> rules]
<1>8. ASSUME rules # {}
       PROVE  /\ \A g : g \in groups' <=> g \in groups \/ g = complete
              /\ complete.agents = agents /\ complete.rules = rules
              /\ agents' = {line.value} /\ rules' = {}
  BY <1>8 DEF ReadAgent
<1> HIDE DEF complete
<1>9. AgentsAreOpen'
  <2>1. CASE rules = {}
    <3>1. agents' = agents \cup {line.value} /\ OpenAgents' = OpenAgents \cup {n}
      BY <1>5, <2>1 DEF ReadAgent
    <3>2. \A a \in Agent : a \in agents <=> \E j \in OpenAgents : lines[j].value = a
      BY DEF Inv, GroupsTellTheLines, AgentsAreOpen
    <3>3. ASSUME NEW a \in Agent
          PROVE  a \in agents' <=> \E j \in OpenAgents' : lines'[j].value = a
      <4>1. (\E j \in OpenAgents' : lines'[j].value = a) <=>
               (\E j \in OpenAgents : lines[j].value = a) \/ line.value = a
        BY <1>3, <1>6, <3>1
      <4> QED
        BY <3>1, <3>2, <4>1
    <3> QED
      BY <3>3 DEF AgentsAreOpen
  <2>2. CASE rules # {}
    BY <1>1, <1>3, <1>5, <2>2 DEF ReadAgent, AgentsAreOpen
  <2> QED
    BY <2>1, <2>2
<1>10. RulesHaveBegun'
  <2>1. rules' = {}
    BY DEF ReadAgent
  <2>2. \A r \in Counted' : r \in 1..n /\ (r # n => r \in Counted /\ (IsRule(r)' <=> IsRule(r)))
    BY <1>1, <1>2, <1>3, EarlierLines DEF Counted
  <2>3. ~IsRule(n)'
    BY <1>1, <1>3 DEF IsRule
  <2>4. ASSUME NEW j \in OpenAgents', NEW r \in Counted', j < r, IsRule(r)'
        PROVE  FALSE
    <3>1. r \in Counted /\ IsRule(r) /\ r # n
      BY <2>2, <2>3, <2>4
    <3>2. j # n
      BY <2>2, <2>4
    <3> QED
      BY <1>4, <2>4, <3>1, <3>2
  <2> QED
    BY <2>1, <2>4 DEF RulesHaveBegun
<1>11. RulesGivenAsStated'
  <2>1. \A a \in Agent, rule \in Rule : Stated(a, rule)' <=> Stated(a, rule)
    BY <1>1, StatedAfter
  <2>2. ASSUME NEW a \in Agent, NEW rule \in Rule
        PROVE  Given(a, rule)' <=> Given(a, rule)
    <3>1. CASE rules = {}
      BY <3>1 DEF ReadAgent, Given
    <3>2. CASE rules # {}
      BY <1>8, <3>2 DEF Given
    <3> QED
      BY <3>1, <3>2
  <2> QED
    BY <2>1, <2>2 DEF Inv, GroupsTellTheLines, RulesGivenAsStated
<1>12. AgentsKnownAsMentioned'
  <2>1. \A a \in Agent : Mentioned(a)' <=> Mentioned(a) \/ line.value = a
    BY <1>1, MentionedAfter
  <2>2. ASSUME NEW a \in Agent
        PROVE  Known(a)' <=> Known(a) \/ line.value = a
    <3>1. CASE rules = {}
      BY <3>1 DEF ReadAgent, Known
    <3>2. CASE rules # {}
      BY <1>8, <3>2 DEF Known
    <3> QED
      BY <3>1, <3>2
  <2> QED
    BY <2>1, <2>2 DEF Inv, GroupsTellTheLines, AgentsKnownAsMentioned
<1>13. RulesBounded'
  BY <1>1, BoundAfter DEF Inv
<1> QED
  BY <1>7, <1>9, <1>10, <1>11, <1>12, <1>13
     DEF Inv, GroupsTellTheLines

\* A line that names no agent leaves the open agents as they were.
LEMMA OpenKept ==
    ASSUME TypeOK, NEW line \in Line, lines' = Append(lines, line), line.field # "user-agent"
    PROVE  /\ OpenAgents' = OpenAgents
           /\ \A j \in OpenAgents : lines'[j] = lines[j]
           /\ \A a : Mentioned(a)' <=> Mentioned(a)
<1>1. OpenAgents' \subseteq DOMAIN lines' /\ OpenAgents \subseteq DOMAIN lines
  BY DEF OpenAgents
<1>2. DOMAIN lines \subseteq DOMAIN lines'
  BY OneMore
<1>3. OpenAgents' = OpenAgents
  BY <1>1, <1>2, OpenAfter
<1> QED
  BY <1>1, <1>3, OneMore, MentionedAfter

LEMMA ReadRuleStep ==
    ASSUME RobotsAssumption, Inv, NEW line \in Line, lines' = Append(lines, line),
           ReadRule(line)
    PROVE  /\ Inv'
           /\ \A a \in Agent, rule \in Rule :
                 Given(a, rule)' <=>
                    \/ Given(a, rule)
                    \/ /\ a \in agents
                       /\ rule = [allow |-> line.field = "allow", pattern |-> line.value]
           /\ \A a \in Agent : Known(a)' <=> Known(a)
<1> DEFINE new == [allow |-> line.field = "allow", pattern |-> line.value]
<1>1. /\ TypeOK /\ line.field \in {"allow", "disallow"} /\ line.field # "user-agent"
      /\ ~(line.field = "disallow" /\ line.value = NoPattern)
      /\ line.value \in Pattern
  BY DEF Inv, Line, ReadRule, Kept
<1>2. new \in Rule
  BY <1>1 DEF Rule
<1>3. PICK n \in Nat : n = Len(lines) + 1
  BY <1>1, OneMore
<1>4. DOMAIN lines = 1..(n - 1) /\ DOMAIN lines' = 1..n /\ lines'[n] = line
  BY <1>1, <1>3, OneMore
<1>5. TypeOK'
  BY <1>1, <1>2, OneMore DEF ReadRule, TypeOK
<1>6. AgentsAreOpen'
  BY <1>1, OpenKept DEF ReadRule, Inv, GroupsTellTheLines, AgentsAreOpen
<1>7. RulesHaveBegun'
  <2>1. rules' # {}
    BY DEF ReadRule
  <2>2. PICK j \in OpenAgents' : TRUE
    BY <1>1, OpenKept, AgentTypes DEF ReadRule, Kept
  <2>3. j \in DOMAIN lines
    BY <1>1, OpenKept DEF OpenAgents
  <2>4. n \in Counted' /\ IsRule(n)' /\ j < n
    BY <1>1, <1>4, <2>3 DEF Counted, IsRule, IsEmptyDisallow
  <2> QED
    BY <2>1, <2>4 DEF RulesHaveBegun
<1>8. \A a \in Agent, rule \in Rule :
         Given(a, rule)' <=> Given(a, rule) \/ (a \in agents /\ rule = new)
  BY DEF ReadRule, Given
<1>9. RulesGivenAsStated'
  BY <1>1, <1>8, StatedAfter DEF Inv, GroupsTellTheLines, RulesGivenAsStated, AgentsAreOpen
<1>10. \A a \in Agent : Known(a)' <=> Known(a)
  BY DEF ReadRule, Known
<1>11. AgentsKnownAsMentioned'
  BY <1>1, <1>10, OpenKept DEF Inv, GroupsTellTheLines, AgentsKnownAsMentioned
<1>12. RulesBounded'
  BY <1>1, BoundAfter DEF Inv
<1> QED
  BY <1>5, <1>6, <1>7, <1>8, <1>9, <1>10, <1>11, <1>12
     DEF Inv, GroupsTellTheLines

LEMMA SkipStep ==
    ASSUME RobotsAssumption, Inv, NEW line \in Line, lines' = Append(lines, line), Skip(line)
    PROVE  /\ Inv'
           /\ \A a \in Agent, rule \in Rule : Given(a, rule)' <=> Given(a, rule)
           /\ \A a \in Agent : Known(a)' <=> Known(a)
<1>1. TypeOK /\ line.field # "user-agent"
  BY DEF Inv, Skip
<1>2. /\ line.field \in {"allow", "disallow"}
      /\ ~(line.field = "disallow" /\ line.value = NoPattern)
      => OpenAgents = {}
  BY AgentTypes DEF Skip, Kept
<1>3. PICK n \in Nat : n = Len(lines) + 1
  BY <1>1, OneMore
<1>4. DOMAIN lines = 1..(n - 1) /\ DOMAIN lines' = 1..n /\ lines'[n] = line
  BY <1>1, <1>3, OneMore
<1>5. TypeOK'
  BY <1>1, OneMore DEF Skip, TypeOK
<1>6. AgentsAreOpen'
  BY <1>1, OpenKept DEF Skip, Inv, GroupsTellTheLines, AgentsAreOpen
<1>7. RulesHaveBegun'
  <2>1. rules' = rules
    BY DEF Skip
  <2>2. \A r \in Counted : r \in Counted' /\ (IsRule(r)' <=> IsRule(r))
    BY <1>1, EarlierLines DEF Counted
  <2>3. \A r \in Counted' : r \in 1..n /\ (r # n => r \in Counted)
    BY <1>1, <1>3, <1>4, EarlierLines
  <2>4. n \in Counted' /\ IsRule(n)' => OpenAgents = {}
    BY <1>2, <1>4 DEF Counted, IsRule, IsEmptyDisallow
  <2> QED
    BY <1>1, <2>1, <2>2, <2>3, <2>4, OpenKept DEF Inv, GroupsTellTheLines, RulesHaveBegun
<1>8. \A a \in Agent, rule \in Rule : Given(a, rule)' <=> Given(a, rule)
  BY DEF Skip, Given
<1>9. RulesGivenAsStated'
  BY <1>1, <1>2, <1>8, StatedAfter DEF Inv, GroupsTellTheLines, RulesGivenAsStated
<1>10. \A a \in Agent : Known(a)' <=> Known(a)
  BY DEF Skip, Known
<1>11. AgentsKnownAsMentioned'
  BY <1>1, <1>10, OpenKept DEF Inv, GroupsTellTheLines, AgentsKnownAsMentioned
<1>12. RulesBounded'
  BY <1>1, BoundAfter DEF Inv
<1> QED
  BY <1>5, <1>6, <1>7, <1>8, <1>9, <1>10, <1>11, <1>12
     DEF Inv, GroupsTellTheLines

LEMMA InvStays == RobotsAssumption /\ Inv /\ UNCHANGED vars => Inv'
BY DEF vars, Inv, GroupsTellTheLines, TypeOK, AgentsAreOpen, RulesHaveBegun, RulesGivenAsStated,
       AgentsKnownAsMentioned, RulesBounded, Given, Known, Stated, Mentioned, SameGroup,
       OpenAgents, Counted, IsAgent, IsRule, IsEmptyDisallow, RuleOf

LEMMA InvStep == RobotsAssumption /\ Inv /\ [Next]_vars => Inv'
<1> SUFFICES ASSUME RobotsAssumption, Inv, [Next]_vars PROVE Inv'
  OBVIOUS
<1>1. CASE Next
  BY <1>1, ReadAgentStep, ReadRuleStep, SkipStep DEF Next, ReadLine
<1>2. CASE UNCHANGED vars
  BY <1>2, InvStays
<1> QED
  BY <1>1, <1>2

-----------------------------------------------------------------------------
(* The decision                                                            *)

\* The name whose groups the parser selects.
SearchName == IF Known(Product) THEN Product ELSE "*"

AppliesTo(rule, path) == rule.pattern # NoPattern /\ Matches(rule.pattern, path)

MatchingIsGiven ==
    \A path \in Path :
        Matching(path) = {rule \in Rule : Given(SearchName, rule) /\ AppliesTo(rule, path)}

\* The rules of the groups that the parser selects.
SelectedNow == UNION {g.rules : g \in Selected}

SelectionIsGiven == SelectedNow = {rule \in Rule : Given(SearchName, rule)}

LEMMA SelectedGroups == TypeOK => SelectionIsGiven
<1> SUFFICES ASSUME TypeOK PROVE SelectionIsGiven
  OBVIOUS
<1> DEFINE last == [agents |-> agents, rules |-> rules]
<1>1. /\ last.agents = agents /\ last.rules = rules
      /\ \A g : g \in AllGroups <=> g \in groups \/ (agents # {} /\ g = last)
  BY DEF AllGroups
<1> HIDE DEF last
<1>2. \A a : Known(a) <=> \E g \in AllGroups : a \in g.agents
  BY <1>1 DEF Known
<1>3. Selected = {g \in AllGroups : SearchName \in g.agents}
  BY <1>2 DEF Selected, SearchName
<1>4. \A rule : (\E g \in Selected : rule \in g.rules) <=> Given(SearchName, rule)
  BY <1>1, <1>3 DEF Given
<1>5. \A rule : Given(SearchName, rule) => rule \in Rule
  BY DEF TypeOK, Given
<1>6. \A rule : rule \in SelectedNow <=> Given(SearchName, rule)
  BY <1>4 DEF SelectedNow
<1> QED
  BY <1>5, <1>6 DEF SelectionIsGiven

LEMMA SelectedRules == TypeOK => MatchingIsGiven
<1> SUFFICES ASSUME TypeOK, NEW path \in Path
             PROVE  Matching(path) = {rule \in Rule : Given(SearchName, rule) /\ AppliesTo(rule, path)}
  BY DEF MatchingIsGiven
<1>1. Matching(path) = {r \in SelectedNow : AppliesTo(r, path)}
  BY DEF Matching, SelectedNow, AppliesTo
<1> QED
  BY <1>1, SelectedGroups DEF SelectionIsGiven

\* The name for which the parser looks is the one that the lines ask for.
LEMMA SearchesOwnName ==
    ASSUME RobotsAssumption, Inv
    PROVE  SearchName = OwnName /\ OwnName \in Agent
<1>1. Known(Product) <=> Mentioned(Product)
  BY DEF Inv, GroupsTellTheLines, AgentsKnownAsMentioned, RobotsAssumption
<1> QED
  BY <1>1 DEF SearchName, OwnName, Mentioned, RobotsAssumption

\* The parser looks for the rules where they are.
LEMMA MatchingIsOwn ==
    ASSUME RobotsAssumption, Inv, NEW path \in Path
    PROVE  Matching(path) = {RuleOf(i) : i \in OwnRules(path, Counted)}
<1>1. SearchName = OwnName /\ OwnName \in Agent
  BY SearchesOwnName
<1>2. Matching(path) = {rule \in Rule : Given(OwnName, rule) /\ AppliesTo(rule, path)}
  BY <1>1, SelectedRules DEF Inv, MatchingIsGiven
<1>3. \A rule \in Rule : Given(OwnName, rule) <=> Stated(OwnName, rule)
  BY <1>1 DEF Inv, GroupsTellTheLines, RulesGivenAsStated
<1>4. \A i, j \in Counted :
         Governs(i, j, Counted) <=> j < i /\ IsRule(i) /\ IsAgent(j) /\ SameGroup(j, i)
  BY DEF Governs, SameGroup
<1>5. \A i \in Counted : i \in DOMAIN lines /\ RuleOf(i).pattern = lines[i].value
  BY DEF Counted, RuleOf
<1>6. ASSUME NEW i \in Counted
      PROVE  i \in OwnRules(path, Counted) <=>
                /\ \E j \in Counted :
                      /\ j < i /\ IsRule(i) /\ IsAgent(j) /\ SameGroup(j, i)
                      /\ lines[j].value = OwnName
                /\ AppliesTo(RuleOf(i), path)
  BY <1>4, <1>5 DEF OwnRules, AppliesTo
<1>7. OwnRules(path, Counted) \subseteq Counted
  BY DEF OwnRules
<1>8. ASSUME NEW i \in OwnRules(path, Counted)
      PROVE  RuleOf(i) \in Matching(path)
  <2>1. i \in Counted /\ Stated(OwnName, RuleOf(i)) /\ AppliesTo(RuleOf(i), path) /\ IsRule(i)
    BY <1>6, <1>7 DEF Stated
  <2>2. RuleOf(i) \in Rule
    BY <1>5, <2>1, LineFields DEF Inv
  <2> QED
    BY <1>2, <1>3, <2>1, <2>2
<1>9. ASSUME NEW rule \in Matching(path)
      PROVE  \E i \in OwnRules(path, Counted) : rule = RuleOf(i)
  <2>1. Stated(OwnName, rule) /\ AppliesTo(rule, path)
    BY <1>2, <1>3
  <2>2. PICK i \in Counted, j \in Counted :
           /\ j < i /\ IsRule(i) /\ IsAgent(j) /\ SameGroup(j, i)
           /\ lines[j].value = OwnName /\ rule = RuleOf(i)
    BY <2>1 DEF Stated
  <2> QED
    BY <1>6, <2>1, <2>2
<1> QED
  BY <1>8, <1>9

\* A set of numbers below a bound has a greatest one.
LEMMA Greatest ==
    ASSUME NEW S \in SUBSET Nat, S # {}, NEW b \in Nat, \A n \in S : n <= b
    PROVE  \E n \in S : \A m \in S : m <= n
<1> DEFINE T == {b - n : n \in S}
<1>1. T \subseteq Nat /\ T # {}
  <2>1. \A n \in S : b - n \in Nat
    OBVIOUS
  <2> QED
    BY <2>1
<1> DEFINE R == OpToRel(<, Nat)
<1>2. IsWellFoundedOn(R, Nat)
  BY NatLessThanWellFounded
<1> HIDE DEF R
<1>3. PICK x \in T : \A y \in T : <<y, x>> \notin R
  <2> HIDE DEF T
  <2> QED
    BY <1>1, <1>2, WFMin
<1>4. \A y \in T : ~(y < x)
  <2>1. ASSUME NEW y \in T, y < x PROVE FALSE
    <3>1. <<y, x>> \in R
      BY <1>1, <2>1 DEF R, OpToRel
    <3> QED
      BY <1>3, <3>1
  <2> QED
    BY <2>1
<1>5. PICK n \in S : x = b - n
  OBVIOUS
<1>6. ASSUME NEW m \in S PROVE m <= n
  <2>1. b - m \in T
    OBVIOUS
  <2>2. ~(b - m < b - n)
    BY <1>4, <1>5, <2>1
  <2>3. m \in Nat /\ n \in Nat
    OBVIOUS
  <2> QED
    BY <2>2, <2>3
<1> QED
  BY <1>6

\* The longest of the rules that match is among them.
LEMMA LongestExists ==
    ASSUME RobotsAssumption, Inv, NEW path \in Path, OwnRules(path, Counted) # {}
    PROVE  \E k \in OwnRules(path, Counted) : \A i \in OwnRules(path, Counted) :
              Specificity(lines[i].value) <= Specificity(lines[k].value)
<1> DEFINE Own == OwnRules(path, Counted)
           S == {Specificity(lines[i].value) : i \in Own}
<1>1. \A i \in Own : i \in DOMAIN lines /\ IsRule(i)
  BY DEF OwnRules, Counted, Governs
<1>2. \A i \in Own : Specificity(lines[i].value) \in Nat
  BY <1>1, LineFields, SpecificityType DEF Inv
<1>3. PICK b \in Nat : \A i \in Own : Specificity(lines[i].value) <= b
  BY <1>1 DEF Inv, RulesBounded
<1> HIDE DEF Own
<1>4. S \in SUBSET Nat /\ S # {} /\ \A n \in S : n <= b
  BY <1>2, <1>3 DEF Own
<1> HIDE DEF S
<1>5. PICK n \in S : \A m \in S : m <= n
  BY <1>3, <1>4, Greatest
<1> QED
  BY <1>5 DEF S, Own

\* The decision of the parser is the meaning of the lines that count.
LEMMA PermitsIsMeant == RobotsAssumption /\ Inv => PermitsAsRead
<1> SUFFICES ASSUME RobotsAssumption, Inv, NEW path \in Path
             PROVE  Permits(path) <=> MeansPermitted(path, Counted)
  BY DEF PermitsAsRead, Counted
<1> DEFINE Own == OwnRules(path, Counted)
           Longer(i, k) == Specificity(lines[i].value) <= Specificity(lines[k].value)
<1>1. \A i \in Own : i \in DOMAIN lines /\ IsRule(i)
  BY DEF OwnRules, Counted, Governs
<1>2. \A i \in Own :
         /\ Specificity(lines[i].value) \in Nat
         /\ Specificity(lines[i].value) = Cardinality(Literals(i))
         /\ RuleOf(i).pattern = lines[i].value
         /\ RuleOf(i).allow <=> lines[i].field = "allow"
         /\ lines[i].field = "allow" \/ lines[i].field = "disallow"
  BY <1>1, LineFields, SpecificityType DEF Inv, Specificity, Literals, RuleOf, IsRule
<1>3. Matching(path) = {RuleOf(i) : i \in Own}
  BY MatchingIsOwn
<1>4. MeansPermitted(path, Counted) <=>
         \A i \in Own : lines[i].field = "disallow" =>
            \E k \in Own : lines[k].field = "allow" /\ Longer(i, k)
  BY <1>2 DEF MeansPermitted
<1>5. Permits(path) <=>
         \/ Own = {}
         \/ \E k \in Own : lines[k].field = "allow" /\ \A i \in Own : Longer(i, k)
  BY <1>2, <1>3 DEF Permits, LongestOf
<1>6. Own # {} => \E k \in Own : \A i \in Own : Longer(i, k)
  BY LongestExists
<1>7. \A i, j, k \in Own : Longer(i, j) /\ Longer(j, k) => Longer(i, k)
  BY <1>2
<1> HIDE DEF Own, Longer
<1>8. ASSUME Permits(path) PROVE MeansPermitted(path, Counted)
  BY <1>4, <1>5, <1>8
<1>9. ASSUME MeansPermitted(path, Counted) PROVE Permits(path)
  <2>1. CASE Own = {}
    BY <1>5, <2>1
  <2>2. CASE Own # {}
    <3>1. PICK k \in Own : \A i \in Own : Longer(i, k)
      BY <1>6, <2>2
    <3>2. CASE lines[k].field = "allow"
      BY <1>5, <3>1, <3>2
    <3>3. CASE lines[k].field = "disallow"
      <4>1. PICK l \in Own : lines[l].field = "allow" /\ Longer(k, l)
        BY <1>4, <1>9, <3>3
      <4> QED
        BY <1>5, <1>7, <3>1, <4>1
    <3> QED
      BY <1>2, <3>2, <3>3
  <2> QED
    BY <2>1, <2>2
<1> QED
  BY <1>8, <1>9

-----------------------------------------------------------------------------
(* Theorems                                                                *)

LEMMA Invariance == Spec => []Inv
<1>1. RobotsAssumption
  BY RobotsAssumption
<1>2. Init => Inv
  BY <1>1, InvInit
<1>3. Inv /\ [Next]_vars => Inv'
  BY <1>1, InvStep
<1> QED
  BY <1>2, <1>3, PTL DEF Spec

\* The groups of the parser say of every agent what the lines say, after every
\* line of every file (execution.py:51-66).
THEOREM GroupsAreTheLines == Spec => []GroupsTellTheLines
BY Invariance, PTL DEF Inv

\* robots_permits answers what the file means once its empty Disallow lines
\* are deleted, for every file, product, pattern and path
\* (execution.py:51-91).  The meaning takes over from the code what one pattern
\* matches and how much of a path it spells out; grouping, selection and
\* precedence are its own.
THEOREM AnswersAsRead == Spec => []PermitsAsRead
<1>1. Inv => PermitsAsRead
  BY RobotsAssumption, PermitsIsMeant
<1> QED
  BY <1>1, Invariance, PTL

\* The lines whose rules are the product's own: those that govern an agent line
\* with its name, or with "*" if no line has its name.
OwnLines ==
    {i \in DOMAIN lines :
        \E j \in DOMAIN lines : Governs(i, j, DOMAIN lines) /\ lines[j].value = OwnName}

\* In a file without an empty Disallow the rules that robots_permits goes
\* through are exactly the product's own, whatever patterns and lengths mean:
\* the parser neither loses a rule nor takes another agent's
\* (execution.py:51-72).
THEOREM OwnRulesAreSelected ==
    Spec => []((\A i \in DOMAIN lines : ~IsEmptyDisallow(i)) =>
                  SelectedNow = {RuleOf(i) : i \in OwnLines})
<1>1. Inv => ((\A i \in DOMAIN lines : ~IsEmptyDisallow(i)) =>
                  SelectedNow = {RuleOf(i) : i \in OwnLines})
  <2> SUFFICES ASSUME Inv, \A i \in DOMAIN lines : ~IsEmptyDisallow(i)
               PROVE  SelectedNow = {RuleOf(i) : i \in OwnLines}
    OBVIOUS
  <2>1. Counted = DOMAIN lines
    BY DEF Counted
  <2>2. SearchName = OwnName /\ OwnName \in Agent
    BY RobotsAssumption, SearchesOwnName
  <2>3. SelectedNow = {rule \in Rule : Given(OwnName, rule)}
    BY <2>2, SelectedGroups DEF Inv, SelectionIsGiven
  <2>4. \A rule \in Rule : Given(OwnName, rule) <=> Stated(OwnName, rule)
    BY <2>2 DEF Inv, GroupsTellTheLines, RulesGivenAsStated
  <2>5. \A i, j \in DOMAIN lines :
           Governs(i, j, DOMAIN lines) <=> j < i /\ IsRule(i) /\ IsAgent(j) /\ SameGroup(j, i)
    BY <2>1 DEF Governs, SameGroup
  <2>6. ASSUME NEW i \in OwnLines
        PROVE  RuleOf(i) \in SelectedNow
    <3>1. i \in DOMAIN lines /\ IsRule(i) /\ Stated(OwnName, RuleOf(i))
      BY <2>1, <2>5 DEF OwnLines, Stated
    <3>2. RuleOf(i) \in Rule
      BY <3>1, LineFields DEF Inv
    <3> QED
      BY <2>3, <2>4, <3>1, <3>2
  <2>7. ASSUME NEW rule \in SelectedNow
        PROVE  \E i \in OwnLines : rule = RuleOf(i)
    <3>1. Stated(OwnName, rule)
      BY <2>3, <2>4
    <3>2. PICK i \in DOMAIN lines, j \in DOMAIN lines :
             /\ j < i /\ IsRule(i) /\ IsAgent(j) /\ SameGroup(j, i)
             /\ lines[j].value = OwnName /\ rule = RuleOf(i)
      BY <2>1, <3>1 DEF Stated
    <3> QED
      BY <2>5, <3>2 DEF OwnLines
  <2> QED
    BY <2>6, <2>7
<1> QED
  BY <1>1, Invariance, PTL

\* What one more rule does to a decision between the longest rules.
LEMMA OneMoreRule ==
    ASSUME RobotsAssumption, NEW M \in SUBSET Rule, NEW rule \in Rule
    PROVE  /\ rule.allow /\ LongestOf(M) => LongestOf(M \cup {rule})
           /\ ~rule.allow /\ LongestOf(M \cup {rule}) => LongestOf(M)
<1>1. \A r \in M \cup {rule} : Specificity(r.pattern) \in Nat
  BY SpecificityType DEF Rule
<1>2. ASSUME rule.allow, LongestOf(M)
      PROVE  LongestOf(M \cup {rule})
  <2>1. CASE M = {}
    BY <1>1, <1>2, <2>1 DEF LongestOf
  <2>2. CASE M # {}
    <3>1. PICK r \in M : r.allow /\ \A q \in M : Specificity(q.pattern) <= Specificity(r.pattern)
      BY <1>2, <2>2 DEF LongestOf
    <3>2. CASE Specificity(rule.pattern) <= Specificity(r.pattern)
      BY <3>1, <3>2 DEF LongestOf
    <3>3. CASE Specificity(r.pattern) <= Specificity(rule.pattern)
      BY <1>1, <1>2, <3>1, <3>3 DEF LongestOf
    <3> QED
      BY <1>1, <3>2, <3>3
  <2> QED
    BY <2>1, <2>2
<1>3. ASSUME ~rule.allow, LongestOf(M \cup {rule})
      PROVE  LongestOf(M)
  BY <1>3 DEF LongestOf
<1> QED
  BY <1>2, <1>3

\* One more Allow never closes a path that was open, and one more Disallow
\* never opens one that was closed (execution.py:77-91).
THEOREM RulesPush == Spec => RulesPushOneWay
<1> DEFINE Push ==
        \A path \in Path :
           /\ lines'[Len(lines')].field = "allow" /\ Permits(path) => Permits(path)'
           /\ lines'[Len(lines')].field = "disallow" /\ Permits(path)' => Permits(path)
<1>1. ASSUME Inv, Next, MatchingIsGiven, MatchingIsGiven' PROVE Push
  <2>1. PICK line \in Line :
           lines' = Append(lines, line) /\ (ReadAgent(line) \/ ReadRule(line) \/ Skip(line))
    BY <1>1 DEF Next, ReadLine
  <2>2. lines'[Len(lines')] = line
    BY <1>1, <2>1, OneMore DEF Inv
  <2>3. CASE ReadAgent(line)
    BY <2>2, <2>3 DEF ReadAgent
  <2>4. ASSUME \A a \in Agent : Known(a)' <=> Known(a)
        PROVE  SearchName' = SearchName /\ SearchName \in Agent
    BY <2>4, RobotsAssumption DEF SearchName, RobotsAssumption
  <2>5. CASE Skip(line)
    <3>1. /\ \A a \in Agent, rule \in Rule : Given(a, rule)' <=> Given(a, rule)
          /\ SearchName' = SearchName /\ SearchName \in Agent
      BY <1>1, <2>1, <2>4, <2>5, RobotsAssumption, SkipStep
    <3>2. ASSUME NEW path \in Path PROVE Matching(path)' = Matching(path)
      BY <1>1, <3>1 DEF MatchingIsGiven
    <3> QED
      BY <3>2 DEF Permits, LongestOf
  <2>6. CASE ReadRule(line)
    <3> DEFINE new == [allow |-> line.field = "allow", pattern |-> line.value]
    <3>1. /\ \A a \in Agent, rule \in Rule :
                Given(a, rule)' <=> Given(a, rule) \/ (a \in agents /\ rule = new)
          /\ SearchName' = SearchName /\ SearchName \in Agent
      BY <1>1, <2>1, <2>4, <2>6, RobotsAssumption, ReadRuleStep
    <3>2. new \in Rule /\ (new.allow <=> line.field = "allow")
      <4>1. line.value \in Pattern
        BY <2>6 DEF ReadRule, Kept, Line
      <4>2. new.allow = (line.field = "allow")
        OBVIOUS
      <4> QED
        BY <4>1, <4>2 DEF Rule
    <3> HIDE DEF new
    <3>3. ASSUME NEW path \in Path
          PROVE  Matching(path)' = Matching(path) \/ Matching(path)' = Matching(path) \cup {new}
      BY <1>1, <3>1, <3>2 DEF MatchingIsGiven
    <3>4. ASSUME NEW path \in Path PROVE Matching(path) \subseteq Rule
      BY <1>1 DEF MatchingIsGiven
    <3>5. ASSUME NEW path \in Path
          PROVE  /\ line.field = "allow" /\ Permits(path) => Permits(path)'
                 /\ line.field = "disallow" /\ Permits(path)' => Permits(path)
      <4>1. PICK M \in SUBSET Rule : M = Matching(path)
        BY <3>4
      <4>2. PICK N : N = Matching(path)'
        OBVIOUS
      <4>3. N = M \/ N = M \cup {new}
        BY <3>3, <4>1, <4>2
      <4>4. (Permits(path) <=> LongestOf(M)) /\ (Permits(path)' <=> LongestOf(N))
        BY <4>1, <4>2 DEF Permits, LongestOf
      <4> QED
        BY <3>2, <4>3, <4>4, OneMoreRule, RobotsAssumption
    <3> QED
      BY <2>2, <3>5
  <2> QED
    BY <2>1, <2>3, <2>5, <2>6
<1>2. Inv => MatchingIsGiven
  BY SelectedRules DEF Inv
<1>3. Inv /\ Inv' /\ [Next]_vars => [Push]_vars
  <2>1. Inv' => MatchingIsGiven'
    BY <1>2, PTL
  <2> QED
    BY <1>1, <1>2, <2>1
<1> QED
  BY <1>3, Invariance, PTL DEF Spec, RulesPushOneWay
=============================================================================

----------------------------- MODULE MCRobotsTxt -----------------------------
EXTENDS RobotsTxt_proofs

Open(chars) == [chars |-> chars, anchored |-> FALSE]

Anchored(chars) == [chars |-> chars, anchored |-> TRUE]

\* A prefix, a longer one, the longer one anchored, a wildcard, and no pattern.
Patterns ==
    {NoPattern, Open(<<"/">>), Open(<<"/", "a">>), Anchored(<<"/", "a">>),
     Open(<<"*", "b">>)}

Paths == {<<"/">>, <<"/", "a">>, <<"/", "a", "b">>}
=============================================================================

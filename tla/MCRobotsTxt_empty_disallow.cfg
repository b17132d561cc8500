SPECIFICATION Spec
CONSTANTS
    Agent = {"*", "serv01bot"}
    Product = "serv01bot"
    Char = {"/", "a", "b", "*"}
    Pattern <- Patterns
    Path <- Paths
    MaxLines = 4
INVARIANTS
    RespectsRobots
\* The file ends.
CHECK_DEADLOCK FALSE

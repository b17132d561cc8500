SPECIFICATION Spec
CONSTANTS
    Agent = {"*", "serv01bot"}
    Product = "serv01bot"
    Char = {"/", "a", "b", "*"}
    Pattern <- Patterns
    Path <- Paths
    MaxLines = 5
INVARIANTS
    PermitsAsRead
    GroupsTellTheLines
PROPERTIES
    RulesPushOneWay
\* The file ends.
CHECK_DEADLOCK FALSE

SPECIFICATION Spec
CONSTANTS
    User = {u1, u2}
    Template = {p1, p2}
    Task = {k1, k2}
    Thread = {c1, c2}
    Schedules = {"once"}
    NULL = NULL
SYMMETRY Symmetry
INVARIANTS
    TypeOK
    TemplateOfOwner
    IInv
PROPERTIES
    StaysInAccount
\* Primary keys are limited, and deleted ones are not used again.
CHECK_DEADLOCK FALSE

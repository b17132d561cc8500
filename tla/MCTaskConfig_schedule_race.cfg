SPECIFICATION Spec
CONSTANTS
    User = {u1}
    Template = {p1}
    Task = {k1}
    Thread = {c1, c2}
    Schedules = {"once", "cron"}
    NULL = NULL
INVARIANTS
    ScheduleIsConsistent
\* Primary keys are limited, and deleted ones are not used again.
CHECK_DEADLOCK FALSE

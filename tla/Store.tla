------------------------------- MODULE Store -------------------------------
(***************************************************************************)
(* The relational store that the API threads and the workers share         *)
(* (serv01/models.py, serv01/domain.py).                                   *)
(*                                                                         *)
(* A session reads rows in one transaction and writes back, at its commit, *)
(* only the columns it changed; nothing versions a row, so the last        *)
(* committer wins and an action of TaskApi or Worker that commits assigns  *)
(* exactly those columns.  Foreign keys cascade: deleting a task deletes   *)
(* its runs, their pages and its found sites in the same transaction.      *)
(*                                                                         *)
(* Run identifiers are handed out in the order of created_at.  A deleted   *)
(* row is never reused: primary keys are UUIDs.                            *)
(***************************************************************************)
EXTENDS Naturals, FiniteSets

CONSTANTS
    Task,      \* primary keys that tasks may get
    Url,       \* final addresses a crawl may report
    MaxRuns,   \* BOUND: task runs ever created
    MaxPages,  \* BOUND: addresses configured for one task
    UrlCounts, \* how many addresses users configure, some of 0..MaxPages
    NULL,      \* SQL NULL and Python None
    Faults     \* the faults that may occur, a subset of FaultKind

\* Redis calls raise, Redis restarts empty, a commit raises, the API or a
\* worker process dies.
FaultKind == {"redis", "redis_restart", "database", "api", "worker"}

ASSUME StoreAssumption ==
    /\ MaxRuns \in Nat
    /\ MaxPages \in Nat
    /\ UrlCounts \subseteq 0..MaxPages
    /\ Faults \subseteq FaultKind
    /\ NULL \notin Task /\ NULL \notin Url /\ NULL \notin Nat

VARIABLES
    task,  \* tasks: status and number of addresses of every row
    run,   \* task_runs with their site_pages
    site   \* found_sites: the addresses listed for every task

storeVars == <<task, run, site>>

Run == 1..MaxRuns
PageNo == 1..MaxPages

TaskStatus == {"draft", "running", "paused", "stopped", "completed", "failed"}
TaskRunStatus == {"queued", "running", "success", "failed"}

\* A row that has not been inserted yet, or that has been deleted.
NoRow == {"absent", "deleted"}

ActiveStatus == {"queued", "running"}
TerminalStatus == {"success", "failed"}

\* result_json; the column "pages" always equals "successful_pages".
Result == [successful_pages : 0..MaxPages, failed_pages : {0, 1}]

ASSUME NullIsNoResult == NULL \notin Result

TaskRow == [status : TaskStatus \cup NoRow, urls : 0..MaxPages]

RunRow ==
    [task : Task \cup {NULL},
     status : TaskRunStatus \cup NoRow,
     queue_job_id : BOOLEAN,       \* has the job's identifier been stored?
     cancel_requested : BOOLEAN,
     finished_at : BOOLEAN,        \* has the time been stored?
     result_json : Result \cup {NULL},
     pages : [PageNo -> Url \cup {NULL}]]

BlankTask == [status |-> "absent", urls |-> 0]

BlankRun ==
    [task |-> NULL, status |-> "absent", queue_job_id |-> FALSE,
     cancel_requested |-> FALSE, finished_at |-> FALSE, result_json |-> NULL,
     pages |-> [n \in PageNo |-> NULL]]

StoreInit ==
    /\ task = [t \in Task |-> BlankTask]
    /\ run = [r \in Run |-> BlankRun]
    /\ site = [t \in Task |-> {}]

-----------------------------------------------------------------------------
TaskExists(t) == task[t].status \in TaskStatus

RunExists(r) == run[r].status \in TaskRunStatus

IsActive(r) == run[r].status \in ActiveStatus

\* The page numbers of a run that have a row in site_pages.
Captured(r) == {n \in PageNo : run[r].pages[n] # NULL}

\* The row a new TaskRun(task_id=t) is inserted with.
QueuedRun(t) == [BlankRun EXCEPT !.task = t, !.status = "queued"]

\* r is the next identifier in the order of created_at.
IsNextRun(r) ==
    /\ run[r].status = "absent"
    /\ \A q \in Run : q < r => run[q].status # "absent"

\* INSERT of a task with its default status.
InsertTask(t, urls) ==
    /\ task[t].status = "absent"
    /\ task' = [task EXCEPT ![t] = [status |-> "draft", urls |-> urls]]
    /\ UNCHANGED <<run, site>>

GoneRun == [BlankRun EXCEPT !.status = "deleted"]

\* DELETE of a task: the relationships and the foreign keys cascade.
DeleteTask(t) ==
    /\ task' = [task EXCEPT ![t] = [BlankTask EXCEPT !.status = "deleted"]]
    /\ run' = [r \in Run |-> IF run[r].task = t THEN GoneRun ELSE run[r]]
    /\ site' = [site EXCEPT ![t] = {}]

StoreTypeOK ==
    /\ task \in [Task -> TaskRow]
    /\ run \in [Run -> RunRow]
    /\ site \in [Task -> SUBSET Url]
=============================================================================

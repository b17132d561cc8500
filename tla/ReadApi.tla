------------------------------ MODULE ReadApi ------------------------------
(***************************************************************************)
(* A client that reads while the service works: the list of tasks page by  *)
(* page (list_tasks of serv01/routers/tasks.py), a run with its pages      *)
(* (serv01/routers/runs.py) and the found sites of its task                *)
(* (serv01/routers/reports.py).                                            *)
(*                                                                         *)
(* PostgreSQL runs the service at READ COMMITTED, so every SELECT sees the *)
(* commits before it, also those after an earlier SELECT of the same       *)
(* request: each SELECT is a step.  All tasks belong to the client's       *)
(* account.                                                                *)
(***************************************************************************)
EXTENDS Serv01, SequencesExt

CONSTANTS
    PageSize,   \* page_size of the client's requests
    Filters,    \* the statuses that the client filters by; NULL for none
    SiteLimits  \* the limits with which it asks for found sites

ASSUME ReadAssumption ==
    /\ PageSize \in Nat \ {0}
    /\ Filters \subseteq TaskStatus \cup {NULL}
    /\ SiteLimits \subseteq Nat \ {0}

VARIABLES
    created, \* every task ever inserted, newest created_at first
    view     \* what the client has got, and the SELECT that comes next

readVars == <<created, view>>

ReadStep == {"idle", "items", "next", "listed", "pages", "shown", "sites"}

NoPages == [n \in PageNo |-> NULL]

View ==
    [pc : ReadStep,
     filter : Filters \cup {NULL},
     page : Nat,
     total : Nat,
     seen : SUBSET Task,     \* items of the pages so far
     began : SUBSET Task,    \* the list as it was when the client began
     disturbed : BOOLEAN,    \* see Disturbs
     run : Run \cup {NULL},
     task : Task \cup {NULL},
     status : TaskRunStatus \cup {NULL},
     result : Result \cup {NULL},
     pages : [PageNo -> Url \cup {NULL}],
     limit : SiteLimits \cup {0},
     sites : SUBSET Url]

Blank ==
    [pc |-> "idle", filter |-> NULL, page |-> 0, total |-> 0, seen |-> {},
     began |-> {}, disturbed |-> FALSE, run |-> NULL, task |-> NULL,
     status |-> NULL, result |-> NULL, pages |-> NoPages, limit |-> 0,
     sites |-> {}]

\* The order of created_at ranks exactly the tasks that were inserted, and the
\* client's view holds what its requests may return.
ReadTypeOK ==
    /\ created \in Seq(Task) /\ IsInjective(created)
    /\ ToSet(created) = {t \in Task : task[t].status # "absent"}
    /\ view \in View

ReadInit == Init /\ created = <<>> /\ view = Blank

Reading(step) == view.pc = step

-----------------------------------------------------------------------------
(* GET /api/tasks?status=...&page=...&page_size=...                        *)

\* The filters of list_tasks.
Lists(filter, row) ==
    row.status \in TaskStatus /\ (filter = NULL \/ row.status = filter)

Matches(t, filter) == Lists(filter, task[t])

Matching(filter) == {t \in Task : Matches(t, filter)}

\* SELECT count(*): of the first page, or of the next one.
CountTasks ==
    \/ /\ Reading("idle")
       /\ \E filter \in Filters :
             view' = [Blank EXCEPT !.pc = "items", !.filter = filter, !.page = 1,
                                  !.total = Cardinality(Matching(filter)),
                                  !.began = Matching(filter)]
    \/ /\ Reading("next")
       /\ view' = [view EXCEPT !.pc = "items", !.page = @ + 1,
                               !.total = Cardinality(Matching(view.filter))]

\* ORDER BY created_at DESC puts u before t.
Precedes(u, t) ==
    \E i, j \in DOMAIN created : i < j /\ created[i] = u /\ created[j] = t

\* How many of these rows come before t.
Rank(t, rows) == Cardinality({u \in rows : Precedes(u, t)})

\* OFFSET and LIMIT on rows in their order.
Slice(rows, page) ==
    {t \in rows : /\ (page - 1) * PageSize <= Rank(t, rows)
                  /\ Rank(t, rows) < page * PageSize}

\* Seeded fault: the status is looked at after OFFSET and LIMIT.
FilteredAfterLimit(filter, page) ==
    {t \in Slice({u \in Task : TaskExists(u)}, page) : Matches(t, filter)}

PageItems(filter, page) == Slice(Matching(filter), page)

\* The second SELECT.  The client goes on while total promises another page.
ListTasks ==
    /\ Reading("items")
    /\ LET seen == view.seen \cup PageItems(view.filter, view.page) IN
          \/ /\ view.page * PageSize < view.total
             /\ view' = [view EXCEPT !.pc = "next", !.seen = seen]
          \/ /\ view.page * PageSize >= view.total
             /\ view' = [Blank EXCEPT !.pc = "listed", !.seen = seen,
                                     !.began = view.began,
                                     !.disturbed = view.disturbed]

-----------------------------------------------------------------------------
(* GET /api/tasks/{id}/runs/{rid}, the same on the task's web page, and    *)
(* GET /api/sites?task_id={id}.                                            *)

\* Seeded fault: no 404 for a run that does not exist.
ReadAnyRun ==
    /\ Reading("idle")
    /\ \E r \in Run :
          view' = [Blank EXCEPT !.pc = "pages", !.run = r, !.task = run[r].task,
                               !.status = run[r].status,
                               !.result = run[r].result_json]

\* owned_run; 404 unless the run exists.
ReadRun ==
    /\ Reading("idle")
    /\ \E r \in Run :
          /\ RunExists(r)
          /\ view' = [Blank EXCEPT !.pc = "pages", !.run = r, !.task = run[r].task,
                                  !.status = run[r].status,
                                  !.result = run[r].result_json]

\* Seeded fault: the run is refreshed after its pages have been read.
ReadPagesFirst ==
    /\ Reading("pages")
    /\ \/ /\ view.pages = NoPages
          /\ view' = [view EXCEPT !.pages = run[view.run].pages]
       \/ view' = [view EXCEPT !.pc = "shown", !.status = run[view.run].status,
                               !.result = run[view.run].result_json]

\* The answer shows the run as it was read before.
ReadPages ==
    /\ Reading("pages")
    /\ view' = [view EXCEPT !.pc = "shown", !.pages = run[view.run].pages]

\* ORDER BY discovered_at DESC and LIMIT: which sites are the newest, the clocks
\* of the worker processes decide.
Newest(t, limit) ==
    IF Cardinality(site[t]) <= limit
    THEN {site[t]}
    ELSE {sites \in SUBSET site[t] : Cardinality(sites) = limit}

\* The client asks for the sites, too: 404 if the task is gone.
ReadSites ==
    /\ Reading("shown")
    /\ TaskExists(view.task)
    /\ \E limit \in SiteLimits : \E sites \in Newest(view.task, limit) :
          view' = [view EXCEPT !.pc = "sites", !.limit = limit, !.sites = sites]

Read ==
    \/ CountTasks
    \/ ListTasks
    \/ ReadRun
    \/ ReadPages
    \/ ReadSites

-----------------------------------------------------------------------------
(* The service goes on meanwhile.                                          *)

Inserted == {t \in Task : task[t].status = "absent" /\ task'[t].status # "absent"}

\* created_at is taken before the commit, by the clock of the API process: a
\* row may appear behind rows that were committed earlier.
NoteCreation ==
    IF Inserted = {}
    THEN UNCHANGED created
    ELSE \E t \in Inserted, i \in 1..(Len(created) + 1) :
            created' = InsertAt(created, i, t)

\* A task leaves the list that the client walks through, or joins it between
\* the two SELECTs of one request.
Disturbs(filter) ==
    \E t \in Task :
        \/ Lists(filter, task[t]) /\ ~Lists(filter, task'[t])
        \/ Reading("items") /\ ~Lists(filter, task[t]) /\ Lists(filter, task'[t])

NoteDisturbance ==
    view' = IF view.pc \in {"items", "next"} /\ Disturbs(view.filter)
            THEN [view EXCEPT !.disturbed = TRUE] ELSE view

Service == Next /\ NoteCreation /\ NoteDisturbance

ReadNext ==
    \/ Service
    \/ Read /\ UNCHANGED <<vars, created>>

ReadSpec == ReadInit /\ [][ReadNext]_<<vars, readVars>>

-----------------------------------------------------------------------------
(* What a client may rely on.                                              *)

\* A walk through the pages shows every task that was listed when it began,
\* although tasks are created meanwhile (and then shown twice or not at all)
\* and every page is cut from another state of the table; unless a task left
\* the list, which moves the others up, or joined it between the count and the
\* items of one page, of which total knows nothing (routers/tasks.py:51-60).
WalkMissesNothing ==
    Reading("listed") /\ ~view.disturbed => view.began \subseteq view.seen

\* A run and its pages are read one after the other while the worker commits.
\* A run shown with a result comes with exactly the pages that the result
\* counts, and a successful one with a first page, which
\* examples/verify_compose.py:58-60 takes for granted; unless the run is
\* deleted in between (routers/runs.py:51-62, worker.py:158-176).
DetailIsComplete ==
    Reading("shown") /\ RunExists(view.run) =>
        LET shown == {n \in PageNo : view.pages[n] # NULL} IN
            /\ view.result # NULL => Cardinality(shown) = view.result.successful_pages
            /\ view.status = "success" => 1 \in shown

\* A client that has seen the pages of a run and then asks for the sites of its
\* task, and gets fewer than its limit, finds the address of each of these pages
\* among them, also when another run listed it first; the limit, which is 100
\* unless the client names one, may cut them off (routers/reports.py:28-44,
\* worker.py:138-156).
SitesCoverDetail ==
    Reading("sites") /\ Cardinality(view.sites) < view.limit =>
        {view.pages[n] : n \in PageNo} \ {NULL} \subseteq view.sites
=============================================================================

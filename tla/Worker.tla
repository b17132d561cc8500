------------------------------- MODULE Worker -------------------------------
(***************************************************************************)
(* The RQ workers (serv01/worker.py).  A worker takes a job, loads the run *)
(* and its task once, and then commits after every page; only the run is   *)
(* refreshed in between, and only at the top of the loop.  What it         *)
(* remembers of the task is what it loaded first.                          *)
(*                                                                         *)
(* An exception leads to _mark_failed, after session.rollback() and        *)
(* session.get().  While a page is validated and crawled no transaction is *)
(* open: rollback() then expires nothing, session.get() answers from the   *)
(* identity map, and _mark_failed judges the task by the remembered        *)
(* status ("failing").  Elsewhere the objects are expired and read again   *)
(* ("rollback").                                                           *)
(***************************************************************************)
EXTENDS JobQueue

CONSTANT Process  \* worker processes

VARIABLE job  \* the job every worker is executing

workVars == <<task, run, site, queue, job>>

WorkStep ==
    {"idle", "load", "begin", "refresh", "visit", "store", "finish",
     "rollback", "failing"}

Job ==
    [pc : WorkStep,
     run : Run \cup {NULL},
     seenTask : TaskStatus \cup {NULL},  \* task.status in the identity map
     urls : 0..MaxPages,                 \* len(task.urls) in the identity map
     page : 0..MaxPages,                 \* the page being crawled
     url : Url \cup {NULL},              \* its final address
     fresh : BOOLEAN]                    \* existing_site is None

NoJob ==
    [pc |-> "idle", run |-> NULL, seenTask |-> NULL, urls |-> 0, page |-> 0,
     url |-> NULL, fresh |-> FALSE]

WorkerInit == job = [w \in Process |-> NoJob]

WorkerTypeOK == job \in [Process -> Job]

Doing(w, step) == job[w].pc = step

TaskOf(w) == run[job[w].run].task

\* The worker goes on with what it remembers now.
Proceed(w, work) == job' = [job EXCEPT ![w] = work]

Advance(w, step) == Proceed(w, [job[w] EXCEPT !.pc = step])

Drop(w) == Proceed(w, NoJob)

-----------------------------------------------------------------------------
Dequeue(w) ==
    /\ Doing(w, "idle")
    /\ \E r \in Run :
          /\ Take(r)
          /\ Proceed(w, [job[w] EXCEPT !.pc = "load", !.run = r])
    /\ UNCHANGED <<task, run, site>>

\* Seeded fault: only a run that is executing already is refused.
NotRunning(r) == run[r].status \in TaskRunStatus \ {"running"}

\* A run that is gone raises LookupError, one that is not queued returns.
MayRun(r) == run[r].status = "queued"

\* What the worker remembers once it has loaded the run r and its task.
Loaded(w, r) ==
    [job[w] EXCEPT !.pc = IF run[r].cancel_requested THEN "failing" ELSE "begin",
                   !.seenTask = task[run[r].task].status,
                   !.urls = task[run[r].task].urls]

Load(w) ==
    /\ Doing(w, "load")
    /\ \/ MayRun(job[w].run) /\ Proceed(w, Loaded(w, job[w].run))
       \/ ~MayRun(job[w].run) /\ Drop(w)
    /\ UNCHANGED <<task, run, site, queue>>

\* The run's status was checked when it was loaded; the UPDATE does not check
\* it again.  A task without addresses raises before any transaction starts.
Begin(w) ==
    /\ Doing(w, "begin")
    /\ RunExists(job[w].run)
    /\ run' = [run EXCEPT ![job[w].run].status = "running"]
    /\ IF job[w].urls = 0
       THEN Advance(w, "failing")
       ELSE Proceed(w, [job[w] EXCEPT !.pc = "refresh", !.page = 1])
    /\ UNCHANGED <<task, site, queue>>

\* Seeded fault: the refresh is hoisted out of the loop.
CancelSeenOnce(w) == job[w].page = 1 /\ run[job[w].run].cancel_requested

CancelSeen(w) == run[job[w].run].cancel_requested

\* session.refresh(run); RunCancelled, or the commit of the page.started log.
Refresh(w) ==
    /\ Doing(w, "refresh")
    /\ RunExists(job[w].run)
    /\ Advance(w, IF CancelSeen(w) THEN "rollback" ELSE "visit")
    /\ UNCHANGED <<task, run, site, queue>>

\* Seeded fault: the test of the look-up is inverted.
IsListed(w, u) == RunExists(job[w].run) /\ u \in site[TaskOf(w)]

\* existing_site is None.
IsNewSite(w, u) == ~RunExists(job[w].run) \/ u \notin site[TaskOf(w)]

\* Allowlist, robots.txt and browser let the page through; its final address is
\* looked up among the task's found sites.
Visit(w) ==
    /\ Doing(w, "visit")
    /\ \E u \in Url :
          Proceed(w, [job[w] EXCEPT !.pc = "store", !.url = u, !.fresh = IsNewSite(w, u)])
    /\ UNCHANGED <<task, run, site, queue>>

\* The unique indexes of found_sites and site_pages.
Conflict(w) ==
    \/ job[w].fresh /\ job[w].url \in site[TaskOf(w)]
    \/ job[w].page \in Captured(job[w].run)

\* Seeded fault: the list of addresses is read again after every page.
AfterPageReread(w) ==
    IF job[w].page < task[TaskOf(w)].urls
    THEN [job[w] EXCEPT !.pc = "refresh", !.page = @ + 1, !.url = NULL, !.fresh = FALSE]
    ELSE [job[w] EXCEPT !.pc = "finish", !.url = NULL, !.fresh = FALSE]

\* Where the loop goes once the page is stored.
AfterPage(w) ==
    IF job[w].page < job[w].urls
    THEN [job[w] EXCEPT !.pc = "refresh", !.page = @ + 1, !.url = NULL, !.fresh = FALSE]
    ELSE [job[w] EXCEPT !.pc = "finish", !.url = NULL, !.fresh = FALSE]

\* Where an exception leaves the worker: see the head of this module.
Raise(w) ==
    Proceed(w, [job[w] EXCEPT !.pc = IF @ = "visit" THEN "failing" ELSE "rollback",
                              !.url = NULL, !.fresh = FALSE])

\* The commit raises although the database has applied it.
AnswerLost(w) == "database" \in Faults /\ Raise(w)

\* One commit: the page and, if its address is new to the task, the site.
StorePage(w) ==
    /\ Doing(w, "store")
    /\ RunExists(job[w].run)
    /\ ~Conflict(w)
    /\ run' = [run EXCEPT ![job[w].run].pages[job[w].page] = job[w].url]
    /\ site' = [site EXCEPT ![TaskOf(w)] =
                   IF job[w].fresh THEN @ \cup {job[w].url} ELSE @]
    /\ Proceed(w, AfterPage(w)) \/ AnswerLost(w)
    /\ UNCHANGED <<task, queue>>

\* IntegrityError: another worker listed the same address first.
StoreConflict(w) ==
    /\ Doing(w, "store")
    /\ RunExists(job[w].run)
    /\ Conflict(w)
    /\ Raise(w)
    /\ UNCHANGED <<task, run, site, queue>>

\* What a run's row becomes when it ends with `status` and these page counts.
Ended(row, status, good, bad) ==
    [row EXCEPT !.status = status, !.finished_at = TRUE,
                !.result_json = [successful_pages |-> good, failed_pages |-> bad]]

\* The commit after the loop.  The task's status is dirty unless the worker
\* remembers it as completed already; nothing is read again.  If the answer is
\* lost, _mark_failed will make a failure of the stored success.
Finish(w) ==
    /\ Doing(w, "finish")
    /\ RunExists(job[w].run)
    /\ run' = [run EXCEPT ![job[w].run] = Ended(@, "success", job[w].urls, 0)]
    /\ task' = [task EXCEPT ![TaskOf(w)].status =
                   IF job[w].seenTask = "completed" THEN @ ELSE "completed"]
    /\ Drop(w) \/ AnswerLost(w)
    /\ UNCHANGED <<site, queue>>

-----------------------------------------------------------------------------
\* Allowlist, robots.txt, browser and database errors, RQ's job timeout: what
\* was not committed is lost.
PageError(w) ==
    /\ job[w].pc \in {"refresh", "visit", "store", "finish"}
    /\ Raise(w)
    /\ UNCHANGED <<task, run, site, queue>>

\* rollback() and _get_run_and_task.
Reload(w) ==
    /\ Doing(w, "rollback")
    /\ RunExists(job[w].run)
    /\ Proceed(w, [job[w] EXCEPT !.pc = "failing", !.seenTask = task[TaskOf(w)].status])
    /\ UNCHANGED <<task, run, site, queue>>

\* The guard of _mark_failed.
KeepsStatus == {"stopped", "paused"}

\* Seeded fault: the page in progress is counted as stored.
PagesStarted(w) == job[w].page

\* len(run.pages) is a query.
PagesStored(w) == Cardinality(Captured(job[w].run))

\* _mark_failed judges the task by its remembered status.
MarkFailed(w) ==
    /\ Doing(w, "failing")
    /\ RunExists(job[w].run)
    /\ run' = [run EXCEPT ![job[w].run] = Ended(@, "failed", PagesStored(w), 1)]
    /\ task' = [task EXCEPT ![TaskOf(w)].status =
                   IF job[w].seenTask \in KeepsStatus \cup {"failed"} THEN @ ELSE "failed"]
    /\ Drop(w)
    /\ UNCHANGED <<site, queue>>

\* Seeded fault: the error path waits for the run it cannot reload.
TouchesRunBeforeError == {"begin", "refresh", "store", "finish"}

\* Steps at which the worker notices that the run's row is gone.
TouchesRun == {"begin", "refresh", "store", "finish", "rollback", "failing"}

\* The run was deleted with its task: the next statement that touches it fails,
\* the reload finds nothing, and LookupError or StaleDataError ends the job.
RunGone(w) ==
    /\ job[w].pc \in TouchesRun
    /\ ~RunExists(job[w].run)
    /\ Drop(w)
    /\ UNCHANGED <<task, run, site, queue>>

\* Seeded fault: a job that was interrupted is put back into the queue.
CrashRequeues(w) ==
    /\ "worker" \in Faults
    /\ ~Doing(w, "idle")
    /\ Push(job[w].run)
    /\ Drop(w)
    /\ UNCHANGED <<task, run, site>>

\* The worker dies, or an exception strikes where process_task_run does not
\* catch it (before its inner try, or in _mark_failed).  RQ does not retry.
WorkerCrash(w) ==
    /\ "worker" \in Faults
    /\ ~Doing(w, "idle")
    /\ Drop(w)
    /\ UNCHANGED <<task, run, site, queue>>

Work(w) ==
    \/ Dequeue(w)
    \/ Load(w)
    \/ Begin(w)
    \/ Refresh(w)
    \/ Visit(w)
    \/ StorePage(w)
    \/ StoreConflict(w)
    \/ Finish(w)
    \/ PageError(w)
    \/ Reload(w)
    \/ MarkFailed(w)
    \/ RunGone(w)

Perform(w) == Work(w) \/ WorkerCrash(w)
=============================================================================

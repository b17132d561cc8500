------------------------------ MODULE TaskApi ------------------------------
(***************************************************************************)
(* The task endpoints (serv01/routers/tasks.py, serv01/services.py).       *)
(* FastAPI runs these synchronous handlers in a pool of threads, each with *)
(* a database session of its own, so a request is a sequence of steps that *)
(* interleave with the requests of other threads and with the workers: it  *)
(* reads rows, talks to Redis, and commits.  pc names the next step.       *)
(*                                                                         *)
(* The page handlers of routers/web.py call the same functions.            *)
(***************************************************************************)
EXTENDS JobQueue

CONSTANT Thread  \* request threads

VARIABLE req  \* the request every thread is serving

apiVars == <<task, run, site, queue, req>>

RequestStep ==
    {"idle", "start", "enqueue", "record", "recover", "recovering",
     "find", "unqueue", "suspend", "update", "delete"}

\* What a thread remembers between two steps: the rows it loaded (seenRun and
\* seenTask are their status) and the values it is about to write.
Request ==
    [pc : RequestStep,
     task : Task \cup {NULL},
     run : Run \cup {NULL},
     to : {"paused", "stopped", NULL},
     seenRun : TaskRunStatus \cup {NULL},
     seenTask : TaskStatus \cup {NULL},
     urls : 0..MaxPages]

Idle ==
    [pc |-> "idle", task |-> NULL, run |-> NULL, to |-> NULL,
     seenRun |-> NULL, seenTask |-> NULL, urls |-> 0]

ApiInit == req = [c \in Thread |-> Idle]

ApiTypeOK == req \in [Thread -> Request]

At(c, step) == req[c].pc = step

\* The thread goes on with what it remembers now.
Continue(c, request) == req' = [req EXCEPT ![c] = request]

Goto(c, step) == Continue(c, [req[c] EXCEPT !.pc = step])

Done(c) == Continue(c, Idle)

-----------------------------------------------------------------------------
(* POST /api/tasks, PATCH and DELETE /api/tasks/{id}, POST .../clone.      *)

CreateTask(c) ==
    /\ At(c, "idle")
    /\ \E t \in Task, n \in UrlCounts : InsertTask(t, n)
    /\ UNCHANGED <<queue, req>>

CloneTask(c) ==
    /\ At(c, "idle")
    /\ \E source, t \in Task :
          TaskExists(source) /\ InsertTask(t, task[source].urls)
    /\ UNCHANGED <<queue, req>>

\* 409 "A running task must be paused or stopped before it can be edited".
\* Of the fields a PATCH may carry only urls matters to a run.
UpdateRead(c) ==
    /\ At(c, "idle")
    /\ \E t \in Task, n \in UrlCounts :
          /\ TaskExists(t) /\ task[t].status # "running"
          /\ n # task[t].urls
          /\ Continue(c, [req[c] EXCEPT !.pc = "update", !.task = t, !.urls = n])
    /\ UNCHANGED <<task, run, site, queue>>

UpdateCommit(c) ==
    /\ At(c, "update")
    /\ TaskExists(req[c].task)
    /\ task' = [task EXCEPT ![req[c].task].urls = req[c].urls]
    /\ Done(c)
    /\ UNCHANGED <<run, site, queue>>

\* 409 "Stop the task before deleting it".
DeleteRead(c) ==
    /\ At(c, "idle")
    /\ \E t \in Task :
          /\ TaskExists(t) /\ task[t].status # "running"
          /\ Continue(c, [req[c] EXCEPT !.pc = "delete", !.task = t])
    /\ UNCHANGED <<task, run, site, queue>>

DeleteCommit(c) ==
    /\ At(c, "delete")
    /\ TaskExists(req[c].task)
    /\ DeleteTask(req[c].task)
    /\ Done(c)
    /\ UNCHANGED queue

-----------------------------------------------------------------------------
(* POST .../start: start_task and enqueue_task_run.                        *)

\* Seeded fault: a failed task may be started again.
StartableAgain == {"draft", "paused", "failed"}

Startable == {"draft", "paused"}

\* BOUND: a start is requested only while an identifier is left for its run.
StartBudget ==
    Cardinality({d \in Thread : At(d, "start")})
        < Cardinality({r \in Run : run[r].status = "absent"})

StartRead(c) ==
    /\ At(c, "idle")
    /\ StartBudget
    /\ \E t \in Task :
          /\ task[t].status \in Startable
          /\ Continue(c, [req[c] EXCEPT !.pc = "start", !.task = t])
    /\ UNCHANGED <<task, run, site, queue>>

\* The first commit of enqueue_task_run.
StartCommit(c) ==
    /\ At(c, "start")
    /\ TaskExists(req[c].task)
    /\ \E r \in Run :
          /\ IsNextRun(r)
          /\ run' = [run EXCEPT ![r] = QueuedRun(req[c].task)]
          /\ Continue(c, [req[c] EXCEPT !.pc = "enqueue", !.run = r])
    /\ task' = [task EXCEPT ![req[c].task].status = "running"]
    /\ UNCHANGED <<site, queue>>

Enqueue(c) ==
    /\ At(c, "enqueue")
    /\ Push(req[c].run)
    /\ Goto(c, "record")
    /\ UNCHANGED <<task, run, site>>

\* Seeded fault: the enqueue is tried again, although only the answer of the
\* first attempt may have been lost.
RetryEnqueue(c) ==
    /\ "redis" \in Faults
    /\ At(c, "enqueue")
    /\ Push(req[c].run) \/ UNCHANGED queue
    /\ UNCHANGED <<task, run, site, req>>

\* queue.enqueue raises; if only Redis's answer was lost, the job is in the
\* queue all the same.  The session has no transaction open, so rollback()
\* expires nothing and session.get() returns the two objects as they were
\* committed above, without a SELECT.
EnqueueFails(c) ==
    /\ "redis" \in Faults
    /\ At(c, "enqueue")
    /\ Push(req[c].run) \/ UNCHANGED queue
    /\ Continue(c, [req[c] EXCEPT !.pc = "recovering",
                                 !.seenRun = "queued", !.seenTask = "running"])
    /\ UNCHANGED <<task, run, site>>

\* The second commit: only queue_job_id is dirty.
RecordJob(c) ==
    /\ At(c, "record")
    /\ TaskExists(req[c].task)
    /\ run' = [run EXCEPT ![req[c].run].queue_job_id = TRUE]
    /\ Done(c)
    /\ UNCHANGED <<task, site, queue>>

\* The second commit raises, before or after the database applied it.
RecordFails(c) ==
    /\ "database" \in Faults
    /\ At(c, "record")
    /\ TaskExists(req[c].task)
    /\ \/ run' = [run EXCEPT ![req[c].run].queue_job_id = TRUE]
       \/ UNCHANGED run
    /\ Goto(c, "recover")
    /\ UNCHANGED <<task, site, queue>>

\* This time rollback() ends a transaction and expires both objects: they are
\* read again.
RecoverRead(c) ==
    /\ At(c, "recover")
    /\ TaskExists(req[c].task)
    /\ Continue(c, [req[c] EXCEPT !.pc = "recovering",
                                 !.seenRun = run[req[c].run].status,
                                 !.seenTask = task[req[c].task].status])
    /\ UNCHANGED <<task, run, site, queue>>

\* Seeded faults: the recovery forgets the run, or the task.
ForgottenRun(row, seen) == row

ForgottenTask(row, seen) == row

\* A column is written only when its value differs from the one
\* loaded.
RecoveredRun(row, seen) ==
    [row EXCEPT !.status = IF seen = "failed" THEN @ ELSE "failed", !.finished_at = TRUE]

RecoveredTask(row, seen) ==
    [row EXCEPT !.status = IF seen = "failed" THEN @ ELSE "failed"]

RecoverCommit(c) ==
    /\ At(c, "recovering")
    /\ TaskExists(req[c].task)
    /\ run' = [run EXCEPT ![req[c].run] = RecoveredRun(@, req[c].seenRun)]
    /\ task' = [task EXCEPT ![req[c].task] = RecoveredTask(@, req[c].seenTask)]
    /\ Done(c)
    /\ UNCHANGED <<site, queue>>

-----------------------------------------------------------------------------
(* POST .../pause and .../stop: the handlers and cancel_active_run.        *)

\* The statuses from which pause_task and stop_task accept a request.
SuspendableFrom(to) ==
    IF to = "paused" THEN {"running"} ELSE {"running", "paused"}

SuspendRead(c) ==
    /\ At(c, "idle")
    /\ \E t \in Task, to \in {"paused", "stopped"} :
          /\ task[t].status \in SuspendableFrom(to)
          /\ Continue(c, [req[c] EXCEPT !.pc = "find", !.task = t, !.to = to])
    /\ UNCHANGED <<task, run, site, queue>>

\* latest_active_run returns r.
IsLatestActive(t, r) ==
    /\ run[r].task = t /\ IsActive(r)
    /\ \A q \in Run : run[q].task = t /\ IsActive(q) => q <= r

\* A queued run is withdrawn from Redis only when its job identifier is known.
AfterFind(r) ==
    IF run[r].status = "queued" /\ run[r].queue_job_id THEN "unqueue" ELSE "suspend"

FindActiveRun(c) ==
    /\ At(c, "find")
    /\ \/ \E r \in Run :
             /\ IsLatestActive(req[c].task, r)
             /\ Continue(c, [req[c] EXCEPT !.pc = AfterFind(r), !.run = r,
                                        !.seenRun = run[r].status])
       \/ /\ \A r \in Run : ~IsLatestActive(req[c].task, r)
          /\ Goto(c, "suspend")
    /\ UNCHANGED <<task, run, site, queue>>

Unqueue(c) ==
    /\ At(c, "unqueue")
    /\ Withdraw(req[c].run)
    /\ Goto(c, "suspend")
    /\ UNCHANGED <<task, run, site>>

\* queue.cancel raises and is logged; if only the answer was lost, the job is
\* gone all the same.
UnqueueFails(c) ==
    /\ "redis" \in Faults
    /\ At(c, "unqueue")
    /\ Withdraw(req[c].run) \/ UNCHANGED queue
    /\ Goto(c, "suspend")
    /\ UNCHANGED <<task, run, site>>

\* Seeded fault: a queued run is flagged and left queued.
FlagOnly(row, seen) == [row EXCEPT !.cancel_requested = TRUE]

\* Seeded fault: the run gets a status of the task's enumeration.
StoppedRun(row, seen) ==
    [row EXCEPT !.cancel_requested = TRUE, !.status = "stopped", !.finished_at = TRUE]

\* What cancel_active_run leaves in the row of a run that it saw as `seen`.
Cancelled(row, seen) ==
    IF seen = "queued"
    THEN [row EXCEPT !.cancel_requested = TRUE, !.status = "failed",
                     !.finished_at = TRUE]
    ELSE [row EXCEPT !.cancel_requested = TRUE]

\* The only commit of the request.
SuspendCommit(c) ==
    /\ At(c, "suspend")
    /\ TaskExists(req[c].task)
    /\ task' = [task EXCEPT ![req[c].task].status = req[c].to]
    /\ run' = [r \in Run |->
          IF r = req[c].run THEN Cancelled(run[r], req[c].seenRun) ELSE run[r]]
    /\ Done(c)
    /\ UNCHANGED <<site, queue>>

-----------------------------------------------------------------------------
\* Steps at which SQLAlchemy notices that the task's row is gone: an UPDATE
\* that matches no row raises StaleDataError, an expired object cannot be
\* loaded, a DELETE that matches no row only warns.
TouchesRow == {"start", "record", "recover", "recovering", "suspend", "update", "delete"}

\* Another request deleted the task: this one ends without writing anything.
RowGone(c) ==
    /\ req[c].pc \in TouchesRow
    /\ ~TaskExists(req[c].task)
    /\ Done(c)
    /\ UNCHANGED <<task, run, site, queue>>

\* The API process dies, or a commit raises where nothing handles it.
ApiCrash(c) ==
    /\ "api" \in Faults
    /\ ~At(c, "idle")
    /\ Done(c)
    /\ UNCHANGED <<task, run, site, queue>>

\* A user's request reaches an idle thread.
NewRequest(c) ==
    \/ CreateTask(c)
    \/ CloneTask(c)
    \/ UpdateRead(c)
    \/ DeleteRead(c)
    \/ StartRead(c)
    \/ SuspendRead(c)

\* A step of a request in progress, when nothing fails.
Serve(c) ==
    \/ UpdateCommit(c)
    \/ DeleteCommit(c)
    \/ StartCommit(c)
    \/ Enqueue(c)
    \/ RecordJob(c)
    \/ RecoverRead(c)
    \/ RecoverCommit(c)
    \/ FindActiveRun(c)
    \/ Unqueue(c)
    \/ SuspendCommit(c)
    \/ RowGone(c)

ApiFault(c) == EnqueueFails(c) \/ RecordFails(c) \/ UnqueueFails(c) \/ ApiCrash(c)

Api(c) == NewRequest(c) \/ Serve(c) \/ ApiFault(c)
=============================================================================

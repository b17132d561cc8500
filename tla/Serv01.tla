------------------------------- MODULE Serv01 -------------------------------
(***************************************************************************)
(* The running service: request threads and worker processes interleave on *)
(* one database and one Redis queue.                                       *)
(***************************************************************************)
EXTENDS TaskApi, Worker

vars == <<task, run, site, queue, req, job>>

Init ==
    /\ StoreInit
    /\ QueueInit
    /\ ApiInit
    /\ WorkerInit

RedisRestart ==
    /\ "redis_restart" \in Faults
    /\ Forget
    /\ UNCHANGED <<task, run, site, req, job>>

Next ==
    \/ \E c \in Thread : Api(c) /\ UNCHANGED job
    \/ \E w \in Process : Perform(w) /\ UNCHANGED req
    \/ RedisRestart

Spec == Init /\ [][Next]_vars

\* A thread finishes the request it serves (Redis and database calls return or
\* raise), and a worker goes on with its job and takes the next one (page loads
\* and robots.txt have page_timeout_seconds, jobs a job_timeout).  Nothing makes
\* users send requests or faults occur.
Fairness ==
    /\ \A c \in Thread : WF_vars(Serve(c) /\ UNCHANGED job)
    /\ \A w \in Process : WF_vars(Work(w) /\ UNCHANGED req)

FairSpec == Spec /\ Fairness

-----------------------------------------------------------------------------
(* Types                                                                   *)

\* Every row, request and job holds values of the columns and fields declared
\* in serv01/models.py, with the two enumerations of serv01/domain.py.
TypeOK == StoreTypeOK /\ QueueTypeOK /\ ApiTypeOK /\ WorkerTypeOK

-----------------------------------------------------------------------------
(* Safety under every fault                                                *)

\* A worker whose job is r.
Holds(w, r) == job[w].run = r

\* A thread that has created r and will now put its job into the queue.
Launching(c, r) == At(c, "enqueue") /\ req[c].run = r

\* The job of a run is in one place only: once in the queue, or with one
\* worker, or with the thread about to enqueue it; a run that was never created
\* has none (queueing.py, services.py:46-61, worker.py:50-57).  It is what
\* keeps two workers from crawling the same run.
SingleCustody ==
    /\ \A i, j \in DOMAIN queue : queue[i] = queue[j] => i = j
    /\ \A v, w \in Process : job[w].run # NULL /\ Holds(v, job[w].run) => v = w
    /\ \A c, d \in Thread : At(c, "enqueue") /\ Launching(d, req[c].run) => c = d
    /\ \A i \in DOMAIN queue, w \in Process : ~Holds(w, queue[i])
    /\ \A i \in DOMAIN queue, c \in Thread : ~Launching(c, queue[i])
    /\ \A c \in Thread, w \in Process : At(c, "enqueue") => ~Holds(w, req[c].run)
    /\ \A r \in Run : run[r].status = "absent" =>
          /\ ~Waiting(r)
          /\ \A w \in Process : ~Holds(w, r)
          /\ \A c \in Thread : ~Launching(c, r)

\* A cancelled run is never queued: every commit that sets cancel_requested on
\* a queued run fails it too, whatever else commits in between
\* (services.py:106-122), so the branch of worker.py:80-82 is never taken.
CancelledNotQueued ==
    \A r \in Run : run[r].cancel_requested => run[r].status # "queued"

\* The pages a worker has stored before page `page` of its run.
PagesBefore(w) ==
    IF Doing(w, "finish") THEN job[w].urls ELSE job[w].page - 1

\* A run's pages are stored in order and without gaps, and a worker in the loop
\* of worker.py:98-156 has stored exactly the pages before the one it is at,
\* even when the task is edited, paused or resumed meanwhile.
PagesInOrder ==
    /\ \A r \in Run : \A n \in Captured(r) : 1..n \subseteq Captured(r)
    /\ \A w \in Process :
          /\ job[w].pc \in {"refresh", "visit", "store", "finish"}
          /\ RunExists(job[w].run)
          => Captured(job[w].run) = 1..PagesBefore(w)

\* result_json tells how many pages the run really stored, and a successful run
\* has one that counts no failure (worker.py:36-41, 158-166), although the two
\* numbers come from different places: a COUNT in the database and the list of
\* addresses loaded before the first page.
ResultMatchesPages ==
    \A r \in Run :
        /\ run[r].result_json # NULL =>
              run[r].result_json.successful_pages = Cardinality(Captured(r))
        /\ run[r].status = "success" =>
              run[r].result_json # NULL /\ run[r].result_json.failed_pages = 0

\* The address of every stored page is listed among the found sites of the
\* run's task, also when two runs of the task race to list it
\* (worker.py:138-156, the unique index of models.py:133).
PagesAreListed ==
    \A r \in Run : \A n \in Captured(r) : run[r].pages[n] \in site[run[r].task]

\* A task shown as running has a run that is queued or running: whichever
\* commit ends the last such run also takes the task out of "running", or
\* another has done so (services.py:66-71, 106-122; worker.py:33-44, 164-167).
\* Its page would otherwise wait, and refuse edits and deletion, for ever.
RunningTaskHasActiveRun ==
    \A t \in Task : task[t].status = "running" =>
        \E r \in Run : run[r].task = t /\ IsActive(r)

\* The phase of a run's job, as RunExecution names it.
PhaseOf(r) ==
    IF run[r].status = "absent" THEN "unused"
    ELSE IF \E w \in Process : Holds(w, r) THEN "executing"
    ELSE IF Waiting(r) \/ \E c \in Thread : Launching(c, r) THEN "pending"
    ELSE "over"

Execution ==
    INSTANCE RunExecution WITH
        Runs <- Run,
        PageLimit <- MaxPages,
        phase <- [r \in Run |-> PhaseOf(r)],
        pages <- [r \in Run |-> Cardinality(Captured(r))]

\* The queue, the workers and the request threads together implement
\* RunExecution: at most one execution of every run, pages captured during it
\* and never afterwards.
ExecutesAtMostOnce == Execution!Spec

\* Cancellation takes effect within one page: once cancel_requested is
\* committed, at most the page in progress is still stored (worker.py:99-101).
CancelStopsAfterOnePage ==
    \A r \in Run, n \in 0..MaxPages :
        [](run[r].cancel_requested /\ Cardinality(Captured(r)) = n
              => [](Cardinality(Captured(r)) <= n + 1))

\* A run that failed while its job was still waiting in the queue is never
\* executed, even when Redis could not remove the job (services.py:109-122,
\* worker.py:78-79).
FailedInQueueNeverRuns ==
    \A r \in Run :
        [](Waiting(r) /\ run[r].status = "failed"
              => [](run[r].status \notin {"running", "success"}))

-----------------------------------------------------------------------------
(* Safety while no process dies and Redis does not restart                 *)

\* Every queued or running run is somebody's business: its job waits or is
\* being executed, or a request in progress will enqueue it or fail it.
NoOrphanRun ==
    \A r \in Run : IsActive(r) =>
        \/ Waiting(r)
        \/ \E w \in Process : Holds(w, r)
        \/ \E c \in Thread :
              /\ req[c].run = r
              /\ \/ req[c].pc \in {"enqueue", "recovering"}
                 \/ At(c, "suspend") /\ req[c].seenRun = "queued"

(* Safety while no two requests decide about one task at the same time     *)

\* A request that has looked at its task, and whose commit will change the
\* task's status on the strength of what it saw.
Deciding(c) == req[c].pc \in {"start", "find", "unqueue", "suspend", "recovering"}

\* What the code does not enforce: the status is read at the beginning of a
\* request, and nothing checks it again at the commit (tasks.py:186-193, 213-221,
\* services.py:63-71).
TakesTurns ==
    \A c, d \in Thread : Deciding(c) /\ Deciding(d) /\ req[c].task = req[d].task => c = d

\* At most one run of a task is active and not cancelled: starting asks for a
\* draft or paused task, and pausing cancels the run (tasks.py:186-191,
\* 213-219).  It needs TakesTurns: of two concurrent starts each finds the task
\* startable.
OneLiveRun ==
    \A q, r \in Run :
        /\ IsActive(q) /\ ~run[q].cancel_requested
        /\ IsActive(r) /\ ~run[r].cancel_requested
        /\ run[q].task = run[r].task
        => q = r

-----------------------------------------------------------------------------
(* Liveness                                                                *)

\* Every queued or running run comes to an end (or is deleted), although calls
\* to Redis and commits may fail.
RunsEnd == \A r \in Run : IsActive(r) ~> ~IsActive(r)

\* A task leaves "running": its page, which reloads while the task is running
\* (templates/task_detail.html:3), comes to rest.
RunningEnds ==
    \A t \in Task : task[t].status = "running" ~> task[t].status # "running"

\* A worker is done with every job it takes, also when the run is deleted
\* under it, so the jobs behind it are taken too.
JobsEnd == \A w \in Process, r \in Run : Holds(w, r) ~> ~Holds(w, r)

-----------------------------------------------------------------------------
(* What the repository says and the code does not keep                     *)

\* examples/verify_compose.py:14-16 takes "success" and "failed" for the end
\* of a run.
TerminalRunIsFinal ==
    [][\A r \in Run :
          run[r].status \in TerminalStatus
             => run'[r].status \in {run[r].status, "deleted"}]_vars

\* worker.py:43 keeps a stopped or paused task as it is when its run fails.
FailureKeepsSuspendedTask ==
    [][\A t \in Task, w \in Process :
          /\ task[t].status \in KeepsStatus
          /\ Doing(w, "failing") /\ job'[w].pc = "idle"
          => task'[t].status = task[t].status]_vars
=============================================================================

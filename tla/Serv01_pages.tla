---------------------------- MODULE Serv01_pages ----------------------------
(***************************************************************************)
(* The pages of a run.  They are stored by the one worker that holds the   *)
(* run's job, so what that worker remembers of its progress and what the   *)
(* database holds agree, although the worker never reads the pages back.   *)
(***************************************************************************)
EXTENDS Serv01_custody

-----------------------------------------------------------------------------
(* The worker's progress                                                   *)

LoopStep == {"refresh", "visit", "store", "finish"}

\* The job of r is somewhere.
HasJob(r) ==
    \/ Waiting(r)
    \/ \E c \in Thread : Launching(c, r)
    \/ \E w \in Process : Holds(w, r)

\* The job of r is where no page has been stored yet.
Unbegun(r) ==
    \/ Waiting(r)
    \/ \E c \in Thread : Launching(c, r)
    \/ \E w \in Process : Holds(w, r) /\ job[w].pc \in {"load", "begin"}

\* The job of r is over, or where no page can be stored any more.
PastPages(r) ==
    /\ ~Waiting(r)
    /\ \A c \in Thread : ~Launching(c, r)
    /\ \A w \in Process : Holds(w, r) => job[w].pc \in {"rollback", "failing"}

\* The steps of a worker, seen from its progress through the pages.
LEMMA Progress ==
    ASSUME TypeOK, NEW w \in Process, Perform(w)
    PROVE  \/ job'[w].run = NULL
           \/ job[w].pc = "idle" /\ job'[w].pc = "load"
           \/ /\ job'[w].run = job[w].run /\ job'[w].urls = job[w].urls
              /\ \/ job'[w].pc \in {"rollback", "failing"}
                 \/ job[w].pc = "begin" /\ job'[w].pc = "refresh" /\ job'[w].page = 1
                 \/ /\ job[w].pc = "refresh" /\ job'[w].pc = "visit"
                    /\ job'[w].page = job[w].page
                    /\ ~run[job[w].run].cancel_requested
                 \/ /\ Visit(w) /\ job[w].pc = "visit" /\ job'[w].pc = "store"
                    /\ job'[w].page = job[w].page
                 \/ StorePage(w) /\ job'[w] = AfterPage(w)
           \/ job'[w].run = job[w].run /\ job[w].pc = "load" /\ job'[w].pc \in {"begin", "failing"}
<1>1. job \in [Process -> Job] /\ job[w] \in Job
  BY DEF TypeOK, WorkerTypeOK
<1>2. ASSUME NEW work, Proceed(w, work) PROVE job'[w] = work
  BY <1>1, <1>2 DEF Proceed
<1>3. ASSUME NEW step, Advance(w, step) PROVE job'[w] = [job[w] EXCEPT !.pc = step]
  BY <1>2, <1>3 DEF Advance
<1>4. ASSUME Drop(w) PROVE job'[w].run = NULL
  BY <1>2, <1>4 DEF Drop, NoJob
<1>5. ASSUME Raise(w)
      PROVE  /\ job'[w].run = job[w].run /\ job'[w].urls = job[w].urls
             /\ job'[w].pc \in {"rollback", "failing"}
  <2>1. \E step \in {"rollback", "failing"} :
           job'[w] = [job[w] EXCEPT !.pc = step, !.url = NULL, !.fresh = FALSE]
    BY <1>2, <1>5 DEF Raise
  <2> QED
    BY <1>1, <2>1 DEF Job
<1>6. CASE Dequeue(w)
  BY <1>1, <1>2, <1>6 DEF Dequeue, Doing, Job
<1>7. CASE Load(w)
  <2>1. /\ Loaded(w, job[w].run).run = job[w].run
        /\ Loaded(w, job[w].run).pc \in {"begin", "failing"}
    BY <1>1 DEF Loaded, Job
  <2> QED
    BY <1>2, <1>4, <1>7, <2>1 DEF Load, Doing
<1>8. CASE Begin(w)
  <2>1. \/ job'[w] = [job[w] EXCEPT !.pc = "failing"]
        \/ job'[w] = [job[w] EXCEPT !.pc = "refresh", !.page = 1]
    BY <1>2, <1>3, <1>8 DEF Begin
  <2> QED
    BY <1>1, <1>8, <2>1 DEF Begin, Doing, Job
<1>9. CASE Refresh(w)
  <2>1. \/ job'[w] = [job[w] EXCEPT !.pc = "rollback"]
        \/ /\ job'[w] = [job[w] EXCEPT !.pc = "visit"]
           /\ ~run[job[w].run].cancel_requested
    BY <1>3, <1>9 DEF Refresh, CancelSeen
  <2> QED
    BY <1>1, <1>9, <2>1 DEF Refresh, Doing, Job
<1>10. CASE Visit(w)
  BY <1>1, <1>2, <1>10 DEF Visit, Doing, Job
<1>11. CASE StorePage(w)
  <2>1. /\ AfterPage(w).run = job[w].run /\ AfterPage(w).urls = job[w].urls
    BY <1>1 DEF AfterPage, Job
  <2> QED
    BY <1>2, <1>5, <1>11, <2>1 DEF StorePage, AnswerLost
<1>12. CASE Reload(w)
  BY <1>1, <1>2, <1>12 DEF Reload, Job
<1>13. CASE Finish(w) \/ MarkFailed(w) \/ RunGone(w) \/ WorkerCrash(w)
  BY <1>4, <1>5, <1>13 DEF Finish, AnswerLost, MarkFailed, RunGone, WorkerCrash
<1>14. CASE StoreConflict(w) \/ PageError(w)
  BY <1>5, <1>14 DEF StoreConflict, PageError
<1> QED
  BY <1>6, <1>7, <1>8, <1>9, <1>10, <1>11, <1>12, <1>13, <1>14 DEF Perform, Work

\* Jobs move as OnePlace says: to a worker only from the queue, and to the
\* queue only from the thread that creates the run.
LEMMA JobsMove ==
    ASSUME Custody, [Next]_vars, NEW r \in Run, run[r].status # "absent"
    PROVE  /\ \A w \in Process : Holds(w, r)' => Holds(w, r) \/ Waiting(r)
           /\ Waiting(r)' => Waiting(r) \/ \E c \in Thread : Launching(c, r)
           /\ \A c \in Thread : Launching(c, r)' => Launching(c, r)
<1>1. /\ TypeOK /\ queue \in Seq(Run) /\ Distinct /\ OnePlace
      /\ req \in [Thread -> Request] /\ ReqLinked
  BY DEF Custody, IInv, TypeOK, QueueTypeOK, ApiTypeOK, OnePlace, Linked
<1>2. r # NULL
  BY StoreAssumption DEF Run
<1>3. ASSUME UNCHANGED job, NEW w \in Process, Holds(w, r)' PROVE Holds(w, r)
  BY <1>3 DEF Holds
<1>4. ASSUME UNCHANGED req, NEW c \in Thread, Launching(c, r)' PROVE Launching(c, r)
  BY <1>4 DEF Launching, At
<1>5. ASSUME UNCHANGED queue, Waiting(r)' PROVE Waiting(r)
  BY <1>5 DEF Waiting
<1>6. ASSUME NEW c \in Thread, Api(c)
      PROVE  /\ Waiting(r)' => Waiting(r) \/ Launching(c, r)
             /\ \A d \in Thread : Launching(d, r)' => Launching(d, r)
  <2>1. \A d \in Thread : d # c => req'[d] = req[d]
    BY <1>1, <1>6, OtherThread
  <2>2. CASE UNCHANGED queue /\ StartCommit(c)
    <3>1. PICK q \in Run : /\ run[q].status = "absent"
                           /\ Continue(c, [req[c] EXCEPT !.pc = "enqueue", !.run = q])
      BY <2>2 DEF StartCommit, IsNextRun
    <3>2. req'[c].run # r
      BY <1>1, <3>1 DEF Continue, Request
    <3> QED
      BY <1>5, <2>1, <2>2, <3>2 DEF Launching, At
  <2>3. CASE /\ At(c, "enqueue") /\ req'[c].pc # "enqueue"
             /\ Push(req[c].run) \/ UNCHANGED queue
    <3>1. req[c].run \in Run /\ Launching(c, req[c].run)
      BY <1>1, <2>3 DEF ReqLinked, Request, At, Launching
    <3>2. ~Waiting(req[c].run)
      BY <1>1, <3>1 DEF OnePlace
    <3>3. Waiting(r)' => Waiting(r) \/ r = req[c].run
      BY <1>1, <1>5, <2>3, <3>1, <3>2, PushMoves
    <3> QED
      BY <2>1, <2>3, <3>1, <3>3 DEF Launching, At
  <2>4. CASE /\ req'[c].pc # "enqueue" \/ req'[c] = req[c]
             /\ Withdraw(req[c].run) \/ UNCHANGED queue
    <3>1. Waiting(r)' => Waiting(r)
      BY <1>1, <1>5, <2>4, WithdrawMoves
    <3> QED
      BY <2>1, <2>4, <3>1 DEF Launching, At
  <2> QED
    BY <1>1, <1>6, <2>2, <2>3, <2>4, ApiMoves
<1>7. ASSUME NEW w \in Process, Perform(w)
      PROVE  /\ Waiting(r)' => Waiting(r)
             /\ \A v \in Process : Holds(v, r)' => Holds(v, r) \/ Waiting(r)
  <2>1. \A v \in Process : v # w => job'[v] = job[v]
    BY <1>1, <1>7, OtherWorker
  <2>2. ASSUME NEW q \in Run, Take(q), job'[w].run = q
        PROVE  /\ Waiting(r)' => Waiting(r)
               /\ \A v \in Process : Holds(v, r)' => Holds(v, r) \/ Waiting(r)
    BY <1>1, <2>1, <2>2, TakeMoves DEF Holds
  <2>3. CASE UNCHANGED queue /\ job'[w].run \in {job[w].run, NULL}
    BY <1>2, <1>5, <2>1, <2>3 DEF Holds
  <2> QED
    BY <1>1, <1>7, <2>2, <2>3, WorkMoves
<1>8. CASE RedisRestart
  <2>1. queue' = <<>> /\ UNCHANGED <<req, job>>
    BY <1>8 DEF RedisRestart, Forget
  <2>2. ~Waiting(r)'
    BY <2>1 DEF Waiting
  <2> QED
    BY <1>3, <1>4, <2>1, <2>2
<1>9. CASE UNCHANGED vars
  BY <1>3, <1>4, <1>5, <1>9 DEF vars
<1> QED
  BY <1>3, <1>4, <1>6, <1>7, <1>8, <1>9 DEF Next

LEMMA UnbegunStays ==
    ASSUME Custody, [Next]_vars, NEW r \in Run, run[r].status # "absent"
    PROVE  /\ Unbegun(r)' => Unbegun(r)
           /\ HasJob(r)' => HasJob(r)
<1>1. HasJob(r)' => HasJob(r)
  BY JobsMove DEF HasJob
<1>2. ASSUME NEW w \in Process, Holds(w, r)', job'[w].pc \in {"load", "begin"}
      PROVE  Unbegun(r)
  <2>1. Waiting(r) \/ Holds(w, r)
    BY <1>2, JobsMove
  <2>2. CASE job'[w] = job[w]
    BY <1>2, <2>2 DEF Unbegun, Holds
  <2>3. CASE Perform(w) /\ Holds(w, r)
    <3>1. TypeOK /\ r # NULL /\ job[w].pc # "idle"
      BY <2>3, StoreAssumption DEF Custody, IInv, Linked, JobLinked, Holds, Run
    <3>2. ASSUME StorePage(w), job'[w] = AfterPage(w) PROVE FALSE
      BY <1>2, <3>1, <3>2 DEF AfterPage, TypeOK, WorkerTypeOK, Job
    <3> QED
      BY <1>2, <2>3, <3>1, <3>2, Progress DEF Unbegun, Holds
  <2> QED
    <3>1. job'[w] = job[w] \/ Perform(w)
      BY OtherWorker DEF Next, RedisRestart, vars, Custody, IInv
    <3> QED
      BY <2>1, <2>2, <2>3, <3>1 DEF Unbegun
<1> QED
  BY <1>1, <1>2, JobsMove DEF Unbegun

LEMMA PastPagesStays ==
    ASSUME Custody, [Next]_vars, NEW r \in Run, run[r].status # "absent", PastPages(r)
    PROVE  PastPages(r)'
<1>1. TypeOK /\ r # NULL
  BY StoreAssumption DEF Custody, IInv, Run
<1>2. ASSUME NEW w \in Process, Holds(w, r)'
      PROVE  job'[w].pc \in {"rollback", "failing"}
  <2>1. Holds(w, r) /\ job[w].pc \in {"rollback", "failing"}
    BY <1>2, JobsMove DEF PastPages
  <2>2. CASE Perform(w)
    <3>1. ~StorePage(w)
      BY <2>1 DEF StorePage, Doing
    <3> QED
      BY <1>1, <1>2, <2>1, <2>2, <3>1, Progress DEF Holds
  <2> QED
    BY <1>1, <2>1, <2>2, OtherWorker DEF Next, RedisRestart, vars
<1>3. ~Waiting(r)' /\ \A c \in Thread : ~Launching(c, r)'
  BY JobsMove DEF PastPages
<1> QED
  BY <1>2, <1>3 DEF PastPages

\* A page is stored in the run of the worker's job, behind no other.
LEMMA PageStored ==
    ASSUME TypeOK, JobLinked, NEW w \in Process, NEW r \in Run, Holds(w, r), StorePage(w)
    PROVE  /\ job[w].page \in PageNo \ Captured(r)
           /\ Captured(r)' = Captured(r) \cup {job[w].page}
           /\ run'[r] = [run[r] EXCEPT !.pages[job[w].page] = job[w].url]
           /\ RunExists(r)
<1>1. /\ run \in [Run -> RunRow] /\ run[r] \in RunRow /\ job[w] \in Job /\ job[w].run = r
      /\ job[w].page \in 1..job[w].urls /\ job[w].url # NULL
  BY DEF TypeOK, StoreTypeOK, WorkerTypeOK, JobLinked, StorePage, Doing, Holds
<1>2. job[w].page \in PageNo
  BY <1>1, StoreAssumption DEF Job, PageNo
<1>3. run'[r] = [run[r] EXCEPT !.pages[job[w].page] = job[w].url] /\ RunExists(r)
  BY <1>1 DEF StorePage
<1>4. \A n \in PageNo :
         run'[r].pages[n] = IF n = job[w].page THEN job[w].url ELSE run[r].pages[n]
  BY <1>1, <1>2, <1>3 DEF RunRow
<1>5. job[w].page \notin Captured(r)
  BY <1>1 DEF StorePage, Conflict
<1>6. Captured(r)' = Captured(r) \cup {job[w].page}
  BY <1>1, <1>2, <1>4 DEF Captured
<1> QED
  BY <1>2, <1>3, <1>5, <1>6

\* The pages of rows that are not written, created or deleted.
LEMMA CapturedSame ==
    ASSUME NEW r \in Run, run'[r].pages = run[r].pages
    PROVE  Captured(r)' = Captured(r)
BY DEF Captured

LEMMA BlankCaptured ==
    ASSUME NEW r \in Run, run'[r].pages = [n \in PageNo |-> NULL]
    PROVE  Captured(r)' = {}
BY DEF Captured

-----------------------------------------------------------------------------
(* Pages and results                                                       *)

\* What the row and the job of a run say about its pages and its result.
PagesTold(r) ==
    /\ ~RunExists(r) => Captured(r) = {} /\ run[r].result_json = NULL
    /\ run[r].status = "absent" => ~run[r].cancel_requested
    /\ Unbegun(r) => Captured(r) = {}
    /\ \E n \in 0..MaxPages : Captured(r) = 1..n
    /\ \A w \in Process :
          Holds(w, r) /\ job[w].pc \in LoopStep /\ RunExists(r)
             => Captured(r) = 1..PagesBefore(w)
    /\ run[r].result_json # NULL =>
          /\ PastPages(r)
          /\ run[r].result_json.successful_pages = Cardinality(Captured(r))
    /\ run[r].status = "success" =>
          run[r].result_json # NULL /\ run[r].result_json.failed_pages = 0

Told == Custody /\ \A r \in Run : PagesTold(r)

\* A run is created or deleted.
LEMMA ToldBlank ==
    ASSUME Custody, [Next]_vars, NEW r \in Run, PagesTold(r),
           \/ run'[r] = GoneRun
           \/ run[r].status = "absent" /\ \E t : run'[r] = QueuedRun(t)
    PROVE  PagesTold(r)'
<1>1. /\ run'[r].pages = [n \in PageNo |-> NULL] /\ run'[r].result_json = NULL
      /\ run'[r].status \in {"queued", "deleted"}
  BY DEF GoneRun, QueuedRun, BlankRun
<1>2. Captured(r)' = {}
  BY <1>1, BlankCaptured
<1>3. \E n \in 0..MaxPages : {} = 1..n
  <2>1. 0 \in 0..MaxPages /\ {} = 1..0
    BY StoreAssumption
  <2> QED
    BY <2>1
<1>4. ASSUME NEW w \in Process, Holds(w, r)', RunExists(r)', job'[w].pc \in LoopStep
      PROVE  FALSE
  <2>1. run[r].status = "absent"
    BY <1>4 DEF GoneRun, BlankRun, RunExists, TaskRunStatus
  <2>2. ~Waiting(r) /\ ~Holds(w, r)
    BY <2>1, NoJobBefore DEF Custody
  <2>3. TypeOK
    BY DEF Custody, IInv
  <2>4. Perform(w)
    BY <1>4, <2>2, <2>3, OtherWorker DEF Next, RedisRestart, vars, Holds
  <2>5. CASE \E q \in Run : Take(q) /\ job'[w].run = q /\ job'[w].pc = "load"
    BY <1>4, <2>5 DEF LoopStep
  <2>6. CASE job'[w].run \in {job[w].run, NULL}
    BY <1>4, <2>2, <2>6, StoreAssumption DEF Holds, Run
  <2> QED
    BY <2>3, <2>4, <2>5, <2>6, WorkMoves
<1> QED
  BY <1>1, <1>2, <1>3, <1>4 DEF PagesTold

\* A step that keeps a run's task does not bring the run back.
LEMMA StaysGone ==
    ASSUME Custody, [Next]_vars, NEW r \in Run, run'[r].task = run[r].task, RunExists(r)'
    PROVE  RunExists(r)
<1>1. RowsLinked /\ RowsLinked'
  BY NextIInv DEF Custody, IInv, Linked
<1>2. NULL \notin Task
  BY StoreAssumption
<1>3. run'[r].task \in Task
  BY <1>1 DEF RowsLinked
<1> QED
  BY <1>1, <1>2, <1>3 DEF RowsLinked

LEMMA ToldKept ==
    ASSUME Custody, [Next]_vars, NEW r \in Run, PagesTold(r), RowKept(r),
           \A w \in Process : ~(Holds(w, r) /\ StorePage(w))
    PROVE  PagesTold(r)'
<1>1. /\ TypeOK /\ JobLinked /\ run[r] \in RunRow /\ r # NULL
      /\ job \in [Process -> Job]
  BY StoreAssumption DEF Custody, IInv, Linked, TypeOK, StoreTypeOK, WorkerTypeOK, Run
<1>2. /\ Captured(r)' = Captured(r)
      /\ run'[r].result_json = run[r].result_json
      /\ run'[r].task = run[r].task
  BY CapturedSame DEF RowKept
<1>3. ~RunExists(r)' => ~RunExists(r)
  BY DEF RowKept, RunExists, TaskRunStatus
<1>4. run[r].status = "absent" => ~RunExists(r)
  BY DEF RunExists, TaskRunStatus
<1>5. Unbegun(r)' => Captured(r)' = {}
  BY <1>2, <1>4, UnbegunStays DEF PagesTold
<1>6. ASSUME NEW w \in Process, Holds(w, r)', job'[w].pc \in LoopStep, RunExists(r)'
      PROVE  Captured(r)' = 1..PagesBefore(w)'
  <2>1. RunExists(r)
    BY <1>2, <1>6, StaysGone
  <2>2. CASE job'[w] = job[w]
    <3>1. PagesBefore(w)' = PagesBefore(w)
      BY <2>2 DEF PagesBefore, Doing
    <3> QED
      BY <1>2, <1>6, <2>1, <2>2, <3>1 DEF PagesTold, Holds
  <2>3. CASE Perform(w) /\ job'[w] # job[w]
    <3>1. CASE job[w].pc = "begin" /\ job'[w].pc = "refresh" /\ job'[w].page = 1
               /\ job'[w].run = job[w].run
      <4>1. Unbegun(r)
        BY <1>6, <3>1 DEF Unbegun, Holds
      <4>2. PagesBefore(w)' = 0
        BY <3>1 DEF PagesBefore, Doing
      <4> QED
        BY <1>2, <4>1, <4>2 DEF PagesTold
    <3>2. CASE /\ job'[w].run = job[w].run /\ job'[w].page = job[w].page
               /\ \/ job[w].pc = "refresh" /\ job'[w].pc = "visit"
                  \/ job[w].pc = "visit" /\ job'[w].pc = "store"
      <4>1. PagesBefore(w)' = PagesBefore(w)
        BY <3>2 DEF PagesBefore, Doing
      <4>2. Holds(w, r) /\ job[w].pc \in LoopStep
        BY <1>6, <3>2 DEF Holds, LoopStep
      <4> QED
        BY <1>2, <2>1, <4>1, <4>2 DEF PagesTold
    <3> QED
      BY <1>1, <1>6, <2>3, <3>1, <3>2, Progress DEF Holds, LoopStep
  <2> QED
    BY <1>1, <2>2, <2>3, OtherWorker DEF Next, RedisRestart, vars
<1>7. ASSUME run'[r].result_json # NULL
      PROVE  /\ PastPages(r)'
             /\ run'[r].result_json.successful_pages = Cardinality(Captured(r)')
  <2>1. run[r].status # "absent" /\ PastPages(r)
    BY <1>2, <1>4, <1>7 DEF PagesTold
  <2> QED
    BY <1>2, <1>7, <2>1, PastPagesStays DEF PagesTold
<1>8. run'[r].status = "success" => run[r].status = "success"
  BY DEF RowKept
<1>9. run'[r].status = "absent" => ~run'[r].cancel_requested
  BY DEF RowKept, PagesTold
<1> QED
  BY <1>2, <1>3, <1>5, <1>6, <1>7, <1>8, <1>9 DEF PagesTold

LEMMA ToldStored ==
    ASSUME Custody, [Next]_vars, NEW r \in Run, PagesTold(r),
           NEW w \in Process, Holds(w, r), StorePage(w)
    PROVE  PagesTold(r)'
<1> DEFINE n == job[w].page
<1>1. /\ TypeOK /\ JobLinked /\ run[r] \in RunRow /\ OnePlace'
      /\ job \in [Process -> Job] /\ job[w] \in Job
      /\ job[w].pc = "store" /\ job[w].run = r /\ n \in 1..job[w].urls
  BY PlaceStep
     DEF Custody, IInv, Linked, TypeOK, StoreTypeOK, WorkerTypeOK, StorePage, Doing, Holds,
         JobLinked
<1>2. /\ n \in PageNo /\ Captured(r)' = Captured(r) \cup {n} /\ RunExists(r)
      /\ run'[r] = [run[r] EXCEPT !.pages[n] = job[w].url]
  BY <1>1, PageStored
<1>3. run'[r].status = run[r].status /\ run'[r].result_json = run[r].result_json
  BY <1>1, <1>2 DEF RunRow
<1>4. Captured(r) = 1..(n - 1)
  BY <1>1, <1>2 DEF PagesTold, LoopStep, PagesBefore, Doing
<1>5. Captured(r)' = 1..n /\ n \in 0..MaxPages
  BY <1>2, <1>4, StoreAssumption DEF PageNo
<1>6. /\ job'[w].run = r
      /\ \/ job'[w].pc \in {"refresh", "finish"} /\ PagesBefore(w)' = n
         \/ job'[w].pc \in {"rollback", "failing"}
  <2>1. job'[w] = AfterPage(w) \/ Raise(w)
    BY <1>1 DEF StorePage, Proceed, AnswerLost
  <2>2. CASE job'[w] = AfterPage(w) /\ n < job[w].urls
    <3>1. job'[w].pc = "refresh" /\ job'[w].page = n + 1 /\ job'[w].run = r
      BY <1>1, <2>2 DEF AfterPage, Job
    <3> QED
      BY <1>1, <3>1 DEF PagesBefore, Doing, Job
  <2>3. CASE job'[w] = AfterPage(w) /\ n = job[w].urls
    <3>1. job'[w].pc = "finish" /\ job'[w].urls = n /\ job'[w].run = r
      BY <1>1, <2>3 DEF AfterPage, Job
    <3> QED
      BY <3>1 DEF PagesBefore, Doing
  <2>4. CASE Raise(w)
    BY <1>1, <2>4 DEF Raise, Proceed, Job
  <2> QED
    BY <1>1, <2>1, <2>2, <2>3, <2>4 DEF Job
<1>7. Holds(w, r)'
  BY <1>6 DEF Holds
<1>8. /\ ~Waiting(r)' /\ \A c \in Thread : ~Launching(c, r)'
      /\ \A v \in Process : Holds(v, r)' => v = w
  BY <1>1, <1>7 DEF OnePlace
<1>9. ~Unbegun(r)'
  BY <1>6, <1>8 DEF Unbegun
<1>10. run[r].result_json = NULL
  BY <1>1 DEF PagesTold, PastPages
<1>11. RunExists(r)'
  BY <1>2, <1>3 DEF RunExists
<1>12. run'[r].status # "absent"
  BY <1>11 DEF RunExists, TaskRunStatus
<1> HIDE DEF n
<1> QED
  BY <1>3, <1>5, <1>6, <1>8, <1>9, <1>10, <1>11, <1>12 DEF PagesTold, LoopStep

\* A worker that ends a run stores no page of it any more.
LEMMA EndedPast ==
    ASSUME Custody, [Next]_vars, NEW r \in Run,
           NEW w \in Process, Holds(w, r), Finish(w) \/ MarkFailed(w)
    PROVE  PastPages(r)'
<1>1. TypeOK /\ OnePlace /\ job[w].run = r /\ r # NULL
  BY StoreAssumption DEF Custody, IInv, Holds, Run
<1>2. /\ ~Waiting(r) /\ \A c \in Thread : ~Launching(c, r)
      /\ \A v \in Process : Holds(v, r) => v = w
  BY <1>1 DEF OnePlace
<1>3. run[r].status # "absent"
  BY DEF Finish, MarkFailed, Holds, RunExists, TaskRunStatus
<1>4. Holds(w, r)' => job'[w].pc \in {"rollback", "failing"}
  <2>1. Perform(w) /\ job[w].pc \in {"finish", "failing"}
    BY DEF Perform, Work, Finish, MarkFailed, Doing
  <2>2. ~StorePage(w)
    BY <2>1 DEF StorePage, Doing
  <2> QED
    BY <1>1, <2>1, <2>2, Progress DEF Holds
<1> QED
  BY <1>2, <1>3, <1>4, JobsMove DEF PastPages

LEMMA ToldEnded ==
    ASSUME Custody, [Next]_vars, NEW r \in Run, PagesTold(r),
           NEW w \in Process, Holds(w, r), Finish(w) \/ MarkFailed(w)
    PROVE  PagesTold(r)'
<1>1. /\ TypeOK /\ run \in [Run -> RunRow] /\ run[r] \in RunRow /\ OnePlace
      /\ job \in [Process -> Job] /\ job[w] \in Job /\ job[w].run = r /\ r # NULL
  BY StoreAssumption DEF Custody, IInv, TypeOK, StoreTypeOK, WorkerTypeOK, Holds, Run
<1>2. PICK status \in {"success", "failed"}, good \in 0..MaxPages, bad \in {0, 1} :
         /\ run' = [run EXCEPT ![r] = Ended(run[r], status, good, bad)]
         /\ good = Cardinality(Captured(r))
         /\ status = "success" => bad = 0
  <2>1. CASE Finish(w)
    <3>1. Captured(r) = 1..job[w].urls /\ job[w].urls \in Nat
      BY <1>1, <2>1, StoreAssumption
         DEF Finish, PagesTold, LoopStep, PagesBefore, Doing, Job
    <3>2. Cardinality(Captured(r)) = job[w].urls
      BY <3>1, FS_Interval, SMT
    <3> QED
      BY <1>1, <2>1, <3>2 DEF Finish, Job
  <2>2. CASE MarkFailed(w)
    BY <1>1, <2>2, CapturedSize DEF MarkFailed, PagesStored
  <2> QED
    BY <2>1, <2>2
<1>3. run'[r] = Ended(run[r], status, good, bad)
  BY <1>1, <1>2
<1>4. /\ run'[r].status = status /\ run'[r].pages = run[r].pages
      /\ run'[r].result_json = [successful_pages |-> good, failed_pages |-> bad]
  BY <1>1, <1>3 DEF Ended, RunRow
<1>5. Captured(r)' = Captured(r)
  BY <1>4, CapturedSame
<1>7. PastPages(r)'
  BY EndedPast
<1>8. ~Unbegun(r)' /\ \A v \in Process : Holds(v, r)' => job'[v].pc \notin LoopStep
  BY <1>7 DEF Unbegun, PastPages, LoopStep
<1>9. RunExists(r)'
  BY <1>4 DEF RunExists, TaskRunStatus
<1>10. run'[r].status = "success" => run'[r].result_json # NULL /\ run'[r].result_json.failed_pages = 0
  <2>1. run'[r].status = "success" => bad = 0
    BY <1>2, <1>4
  <2>2. run'[r].result_json.failed_pages = bad
    BY <1>4
  <2>3. run'[r].status = "success" => run'[r].result_json # NULL
    BY <1>4, NullIsNoResult DEF Result
  <2> QED
    BY <2>1, <2>2, <2>3
<1> QED
  BY <1>2, <1>4, <1>5, <1>7, <1>8, <1>9, <1>10 DEF PagesTold

LEMMA ToldStep == Told /\ [Next]_vars => Told'
<1> SUFFICES ASSUME Told, [Next]_vars PROVE Told'
  OBVIOUS
<1>1. Custody /\ TypeOK /\ Custody'
  BY NextIInv, PlaceStep DEF Told, Custody, IInv
<1>2. ReqLinked
  BY <1>1 DEF Custody, IInv, Linked
<1>3. ASSUME NEW r \in Run PROVE PagesTold(r)'
  <2>1. PagesTold(r)
    BY DEF Told
  <2>2. CASE \E w \in Process : Holds(w, r) /\ StorePage(w)
    BY <1>1, <2>1, <2>2, ToldStored
  <2>3. CASE \E w \in Process : Holds(w, r) /\ (Finish(w) \/ MarkFailed(w))
    BY <1>1, <2>1, <2>3, ToldEnded
  <2>4. CASE run'[r] = GoneRun \/ (run[r].status = "absent" /\ \E t : run'[r] = QueuedRun(t))
    BY <1>1, <2>1, <2>4, ToldBlank
  <2>5. CASE RowKept(r) /\ ~\E w \in Process : Holds(w, r) /\ StorePage(w)
    BY <1>1, <2>1, <2>5, ToldKept
  <2> QED
    BY <1>1, <1>2, <2>2, <2>3, <2>4, <2>5, RunSteps
<1> QED
  BY <1>1, <1>3 DEF Told

LEMMA InitTold == Init => Told
<1> SUFFICES ASSUME Init PROVE Told
  OBVIOUS
<1>1. /\ Custody
      /\ queue = <<>>
      /\ \A c \in Thread : req[c].pc = "idle"
      /\ \A w \in Process : job[w].run = NULL
  BY InitIInv, InitPlace DEF Custody, Init, QueueInit, ApiInit, WorkerInit, Idle, NoJob
<1>2. ASSUME NEW r \in Run PROVE PagesTold(r)
  <2>1. r # NULL
    BY StoreAssumption DEF Run
  <2>2. /\ run[r].status = "absent" /\ Captured(r) = {} /\ run[r].result_json = NULL
        /\ ~run[r].cancel_requested
    BY DEF Init, StoreInit, BlankRun, Captured
  <2>3. \E n \in 0..MaxPages : {} = 1..n
    <3>1. 0 \in 0..MaxPages /\ {} = 1..0
      BY StoreAssumption
    <3> QED
      BY <3>1
  <2> QED
    <3>1. ~Unbegun(r) /\ \A w \in Process : ~Holds(w, r)
      BY <1>1, <2>1 DEF Unbegun, Waiting, Launching, At, Holds
    <3> QED
      BY <2>2, <2>3, <3>1 DEF PagesTold
<1> QED
  BY <1>1, <1>2 DEF Told

LEMMA ToldHolds == Spec => []Told
BY InitTold, ToldStep, PTL DEF Spec

\* The pages of every run are stored in order and without gaps, and a worker in
\* the loop has stored exactly those before the one it is at, also when the
\* task's addresses are edited meanwhile (worker.py:98-156).
THEOREM StoredInOrder == Spec => []PagesInOrder
<1>1. ASSUME Told PROVE PagesInOrder
  <2>1. ASSUME NEW r \in Run, NEW n \in Captured(r) PROVE 1..n \subseteq Captured(r)
    <3>1. PICK m \in 0..MaxPages : Captured(r) = 1..m
      BY <1>1 DEF Told, PagesTold
    <3> QED
      BY <2>1, <3>1, StoreAssumption
  <2>2. ASSUME NEW w \in Process, job[w].pc \in LoopStep, RunExists(job[w].run)
        PROVE  Captured(job[w].run) = 1..PagesBefore(w)
    <3>1. job[w].run \in Run
      BY <1>1, <2>2 DEF Told, Custody, IInv, Linked, JobLinked, TypeOK, WorkerTypeOK, Job,
                        LoopStep
    <3> QED
      BY <1>1, <2>2, <3>1 DEF Told, PagesTold, Holds
  <2> QED
    BY <2>1, <2>2 DEF PagesInOrder, LoopStep
<1> QED
  BY <1>1, ToldHolds, PTL

\* result_json counts the stored pages, and a successful run has one without
\* failures, although one count comes from the database and the other from the
\* list loaded before the first page (worker.py:36-41, 158-166).
THEOREM ResultsAreTrue == Spec => []ResultMatchesPages
<1>1. Told => ResultMatchesPages
  BY DEF Told, PagesTold, ResultMatchesPages
<1> QED
  BY <1>1, ToldHolds, PTL

-----------------------------------------------------------------------------
(* Cancellation                                                            *)

\* Cancellation of r was seen when it had n pages: a page that was in progress
\* then may have been stored since, and no other is in progress now.
Stopping(r, n) ==
    /\ Cardinality(Captured(r)) <= n + 1
    /\ \/ run[r].status = "deleted"
       \/ /\ run[r].status # "absent"
          /\ run[r].cancel_requested
          /\ Cardinality(Captured(r)) = n + 1 =>
                \A w \in Process : Holds(w, r) => job[w].pc \notin {"visit", "store"}

LEMMA StoppingStep ==
    ASSUME Told, NEW r \in Run, NEW n \in 0..MaxPages, Stopping(r, n), [Next]_vars
    PROVE  Stopping(r, n)'
<1> DEFINE size == Cardinality(Captured(r))
<1>1. /\ Custody /\ TypeOK /\ JobLinked /\ ReqLinked /\ run[r] \in RunRow /\ r # NULL /\ RowsAge
      /\ run[r].status # "absent" /\ job \in [Process -> Job] /\ n \in Nat
  BY StoreAssumption, RowsStep
     DEF Told, Custody, IInv, Linked, TypeOK, StoreTypeOK, WorkerTypeOK, Run, Stopping
<1>2. size \in Nat /\ IsFiniteSet(Captured(r))
  BY CapturedSize, StoreAssumption
<1>3. CASE \E w \in Process : Holds(w, r) /\ StorePage(w)
  <2>1. PICK w \in Process : Holds(w, r) /\ StorePage(w)
    BY <1>3
  <2>2. /\ job[w].page \notin Captured(r) /\ Captured(r)' = Captured(r) \cup {job[w].page}
        /\ run'[r] = [run[r] EXCEPT !.pages[job[w].page] = job[w].url]
        /\ RunExists(r)
    BY <1>1, <2>1, PageStored
  <2>3. size' = size + 1
    BY <1>2, <2>2, FS_AddElement
  <2>4. job[w].pc = "store" /\ run[r].status # "deleted"
    BY <2>1, <2>2 DEF StorePage, Doing, RunExists, TaskRunStatus
  <2>5. size <= n
    BY <1>1, <1>2, <2>1, <2>4 DEF Stopping
  <2>6. run'[r].status = run[r].status /\ run'[r].cancel_requested = run[r].cancel_requested
    BY <1>1, <2>2 DEF RunRow
  <2>7. job'[w].pc \notin {"visit", "store"} /\ job'[w].run = r
    <3>1. /\ AfterPage(w).pc \in {"refresh", "finish"} /\ AfterPage(w).run = r
      BY <1>1, <2>1 DEF AfterPage, Holds, Job
    <3>2. CASE job'[w] = AfterPage(w)
      BY <3>1, <3>2
    <3>3. CASE Raise(w)
      BY <1>1, <2>1, <2>4, <3>3 DEF Raise, Proceed, Holds, Job
    <3> QED
      BY <1>1, <2>1, <3>2, <3>3 DEF StorePage, Proceed, AnswerLost
  <2>8. OnePlace'
    BY <1>1, PlaceStep DEF Custody
  <2>9. \A v \in Process : Holds(v, r)' => v = w
    BY <2>7, <2>8 DEF OnePlace, Holds
  <2> QED
    BY <1>1, <1>2, <2>3, <2>4, <2>5, <2>6, <2>7, <2>9 DEF Stopping
<1>4. CASE run'[r] = GoneRun
  <2>1. Captured(r)' = {} /\ run'[r].status = "deleted"
    BY <1>4, BlankCaptured DEF GoneRun, BlankRun
  <2>2. size' = 0
    BY <2>1, FS_EmptySet
  <2> QED
    BY <1>1, <2>1, <2>2 DEF Stopping
<1>5. CASE /\ Captured(r)' = Captured(r)
           /\ run[r].cancel_requested => run'[r].cancel_requested
           /\ run[r].status = "deleted" => run'[r].status = "deleted"
           /\ ~\E w \in Process : Holds(w, r) /\ StorePage(w)
  <2>1. size' = size
    BY <1>5
  <2>2. ASSUME NEW w \in Process, Holds(w, r)', job'[w].pc \in {"visit", "store"},
               run[r].cancel_requested
        PROVE  Holds(w, r) /\ job[w].pc \in {"visit", "store"}
    <3>1. CASE job'[w] = job[w]
      BY <2>2, <3>1 DEF Holds
    <3>2. CASE Perform(w)
      BY <1>1, <1>5, <2>2, <3>2, Progress DEF Holds
    <3> QED
      BY <1>1, <3>1, <3>2, OtherWorker DEF Next, RedisRestart, vars
  <2>3. run'[r].status # "absent"
    BY <1>1 DEF RowsAge
  <2> QED
    BY <1>1, <1>2, <1>5, <2>1, <2>2, <2>3 DEF Stopping
<1>6. ASSUME NEW w \in Process, Holds(w, r), Finish(w) \/ MarkFailed(w)
      PROVE  /\ Captured(r)' = Captured(r)
             /\ run[r].cancel_requested => run'[r].cancel_requested
             /\ run[r].status # "deleted"
  <2>1. \E status, good, bad : run'[r] = Ended(run[r], status, good, bad)
    BY <1>1, <1>6 DEF Finish, MarkFailed, Holds, TypeOK, StoreTypeOK
  <2>2. /\ run'[r].pages = run[r].pages
        /\ run'[r].cancel_requested = run[r].cancel_requested
    BY <1>1, <2>1 DEF Ended, RunRow
  <2> QED
    BY <1>6, <2>2, CapturedSame DEF Finish, MarkFailed, Holds, RunExists, TaskRunStatus
<1>7. ASSUME RowKept(r), run[r].status = "deleted"
      PROVE  run'[r].status = "deleted"
  <2>1. ~RunExists(r)'
    BY <1>1, <1>7, StaysGone DEF RowKept, RunExists, TaskRunStatus
  <2> QED
    BY <1>7, <2>1 DEF RowKept, RunExists, TaskRunStatus
<1>8. RowKept(r) => Captured(r)' = Captured(r)
  BY CapturedSame DEF RowKept
<1>9. ASSUME NEW w \in Process, Holds(w, r), Finish(w) \/ MarkFailed(w),
             ~\E v \in Process : Holds(v, r) /\ StorePage(v)
      PROVE  Stopping(r, n)'
  BY <1>5, <1>6, <1>9
<1>10. ASSUME RowKept(r), ~\E v \in Process : Holds(v, r) /\ StorePage(v)
       PROVE  Stopping(r, n)'
  BY <1>5, <1>7, <1>8, <1>10 DEF RowKept
<1> QED
  BY <1>1, <1>3, <1>4, <1>9, <1>10, RunSteps

\* Once the cancellation of a run is stored, at most the page in progress is
\* still stored, whatever else happens (worker.py:99-101).
THEOREM CancelStops == Spec => CancelStopsAfterOnePage
<1>1. ASSUME NEW r \in Run, NEW n \in 0..MaxPages
      PROVE  Spec => [](run[r].cancel_requested /\ Cardinality(Captured(r)) = n
                           => [](Cardinality(Captured(r)) <= n + 1))
  <2>1. ASSUME Told, run[r].cancel_requested, Cardinality(Captured(r)) = n
        PROVE  Stopping(r, n)
    <3>1. n \in Nat
      BY StoreAssumption
    <3>2. run[r].status # "absent"
      BY <2>1 DEF Told, PagesTold, RunExists, TaskRunStatus
    <3> QED
      BY <2>1, <3>1, <3>2 DEF Stopping
  <2>2. Told /\ Stopping(r, n) /\ [Next]_vars => Stopping(r, n)'
    BY StoppingStep
  <2>3. Stopping(r, n) => Cardinality(Captured(r)) <= n + 1
    BY DEF Stopping
  <2> QED
    BY <2>1, <2>2, <2>3, ToldHolds, PTL DEF Spec
<1> QED
  BY <1>1 DEF CancelStopsAfterOnePage

-----------------------------------------------------------------------------
(* Found sites                                                             *)

\* A worker that found its page's address listed will still find it so when it
\* stores the page.
StillListed ==
    \A w \in Process :
        job[w].pc = "store" /\ ~job[w].fresh /\ RunExists(job[w].run)
            => job[w].url \in site[TaskOf(w)]

Listed == Told /\ PagesAreListed /\ StillListed

\* Sites are only added, and go with their task.
LEMMA SitesGrow ==
    ASSUME TypeOK, ReqLinked, JobLinked, RowsLinked, [Next]_vars, NEW t \in Task
    PROVE  site[t] \subseteq site'[t] \/ ~TaskExists(t)'
<1>1. /\ task \in [Task -> TaskRow] /\ site \in [Task -> SUBSET Url]
      /\ run \in [Run -> RunRow] /\ job \in [Process -> Job]
  BY DEF TypeOK, StoreTypeOK, WorkerTypeOK
<1>2. ASSUME NEW c \in Thread, DeleteCommit(c)
      PROVE  site[t] \subseteq site'[t] \/ ~TaskExists(t)'
  BY <1>1, <1>2 DEF DeleteCommit, DeleteTask, BlankTask, TaskExists, TaskStatus
<1>3. ASSUME NEW w \in Process, StorePage(w) PROVE site[t] \subseteq site'[t]
  BY <1>1, <1>3 DEF StorePage
<1>4. CASE UNCHANGED site
  BY <1>4
<1>5. ASSUME NEW c \in Thread, Api(c), ~DeleteCommit(c) PROVE UNCHANGED site
  <2>1. ASSUME NewRequest(c) PROVE UNCHANGED site
    BY <2>1 DEF NewRequest, CreateTask, CloneTask, InsertTask, UpdateRead, DeleteRead,
                StartRead, SuspendRead
  <2>2. ASSUME Serve(c) PROVE UNCHANGED site
    BY <1>5, <2>2 DEF Serve, UpdateCommit, StartCommit, Enqueue, RecordJob, RecoverRead,
                RecoverCommit, FindActiveRun, Unqueue, SuspendCommit, RowGone
  <2>3. ASSUME ApiFault(c) PROVE UNCHANGED site
    BY <2>3 DEF ApiFault, EnqueueFails, RecordFails, UnqueueFails, ApiCrash
  <2> QED
    BY <1>5, <2>1, <2>2, <2>3 DEF Api
<1>6. ASSUME NEW w \in Process, Perform(w), ~StorePage(w) PROVE UNCHANGED site
  BY <1>6 DEF Perform, Work, Dequeue, Load, Begin, Refresh, Visit, StoreConflict, Finish,
              PageError, Reload, MarkFailed, RunGone, WorkerCrash
<1> QED
  BY <1>2, <1>3, <1>4, <1>5, <1>6 DEF Next, RedisRestart, vars

\* A run that exists after a step and is not created by it belongs to the task
\* it belonged to, and the task's sites are still there.
LEMMA SitesKept ==
    ASSUME Told, [Next]_vars, NEW r \in Run, run'[r].task = run[r].task, RunExists(r)'
    PROVE  /\ RunExists(r) /\ run[r].task \in Task
           /\ site[run[r].task] \subseteq site'[run'[r].task]
<1>1. Custody /\ TypeOK /\ ReqLinked /\ JobLinked /\ RowsLinked /\ RowsLinked'
  BY NextIInv DEF Told, Custody, IInv, Linked
<1>2. RunExists(r)
  BY <1>1, StaysGone
<1>3. run[r].task \in Task /\ task'[run'[r].task].status \in TaskStatus
  BY <1>1, <1>2 DEF RowsLinked, TaskExists
<1>4. TaskExists(run[r].task)'
  BY <1>3 DEF TaskExists
<1> QED
  BY <1>1, <1>2, <1>3, <1>4, SitesGrow

LEMMA PagesListedStep == Listed /\ [Next]_vars => PagesAreListed'
<1> SUFFICES ASSUME Listed, [Next]_vars, NEW r \in Run, NEW n \in Captured(r)'
             PROVE  run'[r].pages[n] \in site'[run'[r].task]
  BY DEF PagesAreListed
<1>1. /\ Told /\ TypeOK /\ JobLinked /\ ReqLinked /\ run \in [Run -> RunRow] /\ run[r] \in RunRow
      /\ site \in [Task -> SUBSET Url] /\ Told'
  BY ToldStep DEF Listed, Told, Custody, IInv, Linked, TypeOK, StoreTypeOK
<1>2. RunExists(r)'
  BY <1>1 DEF Told, PagesTold
<1>3. CASE \E w \in Process : Holds(w, r) /\ StorePage(w)
  <2>1. PICK w \in Process : Holds(w, r) /\ StorePage(w)
    BY <1>3
  <2>2. /\ Captured(r)' = Captured(r) \cup {job[w].page} /\ job[w].page \in PageNo
        /\ run'[r] = [run[r] EXCEPT !.pages[job[w].page] = job[w].url]
        /\ RunExists(r)
    BY <1>1, <2>1, PageStored
  <2>3. /\ run'[r].task = run[r].task
        /\ \A m \in PageNo :
              run'[r].pages[m] = IF m = job[w].page THEN job[w].url ELSE run[r].pages[m]
    BY <1>1, <2>2 DEF RunRow
  <2>4. run[r].task \in Task /\ site[run[r].task] \subseteq site'[run'[r].task]
    BY <1>1, <1>2, <2>3, SitesKept
  <2>5. job[w].url \in site'[run'[r].task]
    <3>1. CASE job[w].fresh
      BY <1>1, <2>1, <2>3, <2>4, <3>1 DEF StorePage, TaskOf, Holds
    <3>2. CASE ~job[w].fresh
      BY <2>1, <2>2, <2>4, <3>2 DEF Listed, StillListed, StorePage, Doing, TaskOf, Holds
    <3> QED
      BY <3>1, <3>2
  <2>6. n # job[w].page => n \in Captured(r) /\ n \in PageNo
    BY <2>2 DEF Captured
  <2> QED
    BY <2>2, <2>3, <2>4, <2>5, <2>6 DEF Listed, PagesAreListed
<1>4. CASE run'[r].pages = run[r].pages /\ run'[r].task = run[r].task
  BY <1>1, <1>2, <1>4, CapturedSame, SitesKept DEF Listed, PagesAreListed
<1>5. CASE run'[r] = GoneRun \/ \E t : run'[r] = QueuedRun(t)
  BY <1>5, BlankCaptured DEF GoneRun, QueuedRun, BlankRun
<1>6. ASSUME NEW w \in Process, Holds(w, r), Finish(w) \/ MarkFailed(w)
      PROVE  run'[r].pages = run[r].pages /\ run'[r].task = run[r].task
  <2>1. \E status, good, bad : run'[r] = Ended(run[r], status, good, bad)
    BY <1>1, <1>6 DEF Finish, MarkFailed, Holds
  <2> QED
    BY <1>1, <2>1 DEF Ended, RunRow
<1> QED
  BY <1>1, <1>3, <1>4, <1>5, <1>6, RunSteps DEF RowKept

LEMMA StillListedStep == Listed /\ [Next]_vars => StillListed'
<1> SUFFICES ASSUME Listed, [Next]_vars, NEW w \in Process,
                    job'[w].pc = "store", ~job'[w].fresh,
                    run'[job'[w].run].status \in TaskRunStatus
             PROVE  job'[w].url \in site'[run'[job'[w].run].task]
  BY DEF StillListed, TaskOf, RunExists
<1>1. /\ Told /\ TypeOK /\ JobLinked /\ ReqLinked /\ TypeOK' /\ JobLinked'
      /\ run \in [Run -> RunRow]
      /\ job \in [Process -> Job] /\ job[w] \in Job /\ Custody
  BY NextIInv DEF Listed, Told, Custody, IInv, Linked, TypeOK, StoreTypeOK, WorkerTypeOK
<1>2. job'[w].run = job[w].run /\ job[w].pc \in {"visit", "store"}
  <2>1. CASE job'[w] = job[w]
    BY <2>1
  <2>2. CASE Perform(w)
    <3>1. job'[w].run # NULL
      BY <1>1 DEF JobLinked
    <3>2. ASSUME job'[w] = AfterPage(w) PROVE FALSE
      BY <1>1, <3>2 DEF AfterPage, Job
    <3> QED
      BY <1>1, <2>2, <3>1, <3>2, Progress
  <2> QED
    BY <1>1, <2>1, <2>2, OtherWorker DEF Next, RedisRestart, vars
<1>3. PICK r \in Run : r = job[w].run /\ Holds(w, r)
  BY <1>1, <1>2 DEF JobLinked, Job, Holds
<1>4. run'[r].task = run[r].task
  <2>1. run[r].status # "absent" /\ run'[r] # GoneRun
    BY <1>1, <1>2, <1>3, StoreAssumption
       DEF JobLinked, GoneRun, BlankRun, TaskRunStatus, Run
  <2>2. CASE RowKept(r)
    BY <2>2 DEF RowKept
  <2>3. ASSUME NEW v \in Process, Holds(v, r), StorePage(v) \/ Finish(v) \/ MarkFailed(v)
        PROVE  run'[r].task = run[r].task
    <3>1. CASE StorePage(v)
      BY <1>1, <2>3, <3>1 DEF StorePage, Holds, RunRow
    <3>2. CASE Finish(v) \/ MarkFailed(v)
      <4>1. \E status, good, bad : run'[r] = Ended(run[r], status, good, bad)
        BY <1>1, <2>3, <3>2 DEF Finish, MarkFailed, Holds
      <4> QED
        BY <1>1, <4>1 DEF Ended, RunRow
    <3> QED
      BY <2>3, <3>1, <3>2
  <2> QED
    BY <1>1, <2>1, <2>2, <2>3, RunSteps
<1>5. RunExists(r) /\ site[run[r].task] \subseteq site'[run'[r].task]
  BY <1>1, <1>2, <1>3, <1>4, SitesKept DEF RunExists
<1>6. CASE job'[w] = job[w]
  BY <1>2, <1>3, <1>5, <1>6 DEF Listed, StillListed, TaskOf
<1>7. CASE Perform(w) /\ job'[w] # job[w]
  <2>1. job'[w].run # NULL
    BY <1>1 DEF JobLinked
  <2>2. ASSUME job'[w] = AfterPage(w) PROVE FALSE
    BY <1>1, <2>2 DEF AfterPage, Job
  <2>3. Visit(w)
    BY <1>1, <1>7, <2>1, <2>2, Progress
  <2>4. PICK u \in Url : job'[w] = [job[w] EXCEPT !.pc = "store", !.url = u,
                                                  !.fresh = IsNewSite(w, u)]
    BY <1>1, <2>3 DEF Visit, Proceed
  <2>5. job'[w].url = u /\ job'[w].fresh = IsNewSite(w, u)
    BY <1>1, <2>4 DEF Job
  <2>6. ~IsNewSite(w, u)
    BY <2>5
  <2>7. u \in site[run[r].task]
    BY <1>3, <1>5, <2>6 DEF IsNewSite, TaskOf
  <2> QED
    BY <1>2, <1>3, <1>5, <2>5, <2>7
<1> QED
  BY <1>1, <1>6, <1>7, OtherWorker DEF Next, RedisRestart, vars

\* The address of every stored page is among the found sites of the run's task,
\* also when runs of the task race to list it (worker.py:138-156).
THEOREM StoredPagesListed == Spec => []PagesAreListed
<1>1. Init => Listed
  <2>1. Init => \A w \in Process : job[w].pc = "idle"
    BY DEF Init, WorkerInit, NoJob
  <2>2. Init => \A r \in Run : Captured(r) = {}
    BY DEF Init, StoreInit, BlankRun, Captured
  <2> QED
    BY <2>1, <2>2, InitTold DEF Listed, PagesAreListed, StillListed
<1>2. Listed /\ [Next]_vars => Listed'
  BY ToldStep, PagesListedStep, StillListedStep DEF Listed
<1>3. Listed => PagesAreListed
  BY DEF Listed
<1> QED
  BY <1>1, <1>2, <1>3, PTL DEF Spec
=============================================================================

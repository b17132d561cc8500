--------------------------- MODULE Serv01_proofs ----------------------------
(***************************************************************************)
(* Theorems about Serv01 for any number of tasks, runs, pages, request     *)
(* threads and workers, and for every set of faults: that IInv is          *)
(* inductive, first types, then the links between rows and memories, then  *)
(* statuses, and what follows from it.                                     *)
(***************************************************************************)
EXTENDS Serv01_invariant, SequenceTheorems, FiniteSetTheorems, TLAPS

-----------------------------------------------------------------------------
(* Lemmas about the operators                                              *)

\* Removing the element at i moves the elements behind it one place forward.
LEMMA RemoveAtProperties ==
    ASSUME NEW S, NEW q \in Seq(S), NEW i \in 1..Len(q)
    PROVE  /\ RemoveAt(q, i) \in Seq(S)
           /\ Len(RemoveAt(q, i)) = Len(q) - 1
           /\ \A j \in 1..(Len(q) - 1) :
                 RemoveAt(q, i)[j] = IF j < i THEN q[j] ELSE q[j + 1]
<1> DEFINE a == SubSeq(q, 1, i - 1)
           b == SubSeq(q, i + 1, Len(q))
<1>1. a \in Seq(S) /\ Len(a) = i - 1 /\ \A j \in 1..(i - 1) : a[j] = q[j]
  BY SubSeqProperties
<1>2. b \in Seq(S) /\ Len(b) = Len(q) - i /\ \A j \in 1..(Len(q) - i) : b[j] = q[i + j]
  BY SubSeqProperties
<1>3. RemoveAt(q, i) = a \o b
  BY DEF RemoveAt
<1> HIDE DEF a, b
<1>4. /\ a \o b \in Seq(S)
      /\ Len(a \o b) = Len(a) + Len(b)
      /\ \A j \in 1..Len(a) + Len(b) : (a \o b)[j] = IF j <= Len(a) THEN a[j] ELSE b[j - Len(a)]
  BY <1>1, <1>2, ConcatProperties
<1> QED
  BY <1>1, <1>2, <1>3, <1>4

\* The number of captured pages fits its column.
LEMMA CapturedSize ==
    ASSUME NEW r \in Run
    PROVE  /\ IsFiniteSet(Captured(r))
           /\ Cardinality(Captured(r)) \in 0..MaxPages
<1>1. IsFiniteSet(1..MaxPages) /\ Cardinality(1..MaxPages) = MaxPages
  BY FS_Interval, StoreAssumption, SMT
<1>2. Captured(r) \subseteq 1..MaxPages
  BY DEF Captured, PageNo
<1> QED
  BY <1>1, <1>2, FS_Subset, FS_CardinalityType, StoreAssumption

\* The rows and records that the actions write have their declared types.
LEMMA RowTypes ==
    /\ BlankRun \in RunRow /\ GoneRun \in RunRow
    /\ \A t \in Task : QueuedRun(t) \in RunRow
    /\ \A row \in RunRow : \A seen :
          Cancelled(row, seen) \in RunRow /\ RecoveredRun(row, seen) \in RunRow
    /\ \A row \in RunRow, status \in TaskRunStatus, good \in 0..MaxPages, bad \in {0, 1} :
          Ended(row, status, good, bad) \in RunRow
    /\ \A row \in RunRow :
          /\ [row EXCEPT !.queue_job_id = TRUE] \in RunRow
          /\ [row EXCEPT !.status = "running"] \in RunRow
    /\ \A row \in TaskRow, n \in 0..MaxPages : [row EXCEPT !.urls = n] \in TaskRow
    /\ BlankTask \in TaskRow
    /\ \A row \in TaskRow : \A seen : RecoveredTask(row, seen) \in TaskRow
    /\ Idle \in Request
    /\ NoJob \in Job
<1>1. 0 \in 0..MaxPages
  BY StoreAssumption
<1>2. BlankRun \in RunRow
  BY DEF BlankRun, RunRow, NoRow
<1>3. GoneRun \in RunRow
  BY <1>2 DEF GoneRun, RunRow, NoRow
<1>4. ASSUME NEW t \in Task PROVE QueuedRun(t) \in RunRow
  BY <1>2 DEF QueuedRun, RunRow, TaskRunStatus
<1>5. ASSUME NEW row \in RunRow, NEW seen
      PROVE  Cancelled(row, seen) \in RunRow /\ RecoveredRun(row, seen) \in RunRow
  BY DEF Cancelled, RecoveredRun, RunRow, TaskRunStatus
<1>6. ASSUME NEW row \in RunRow, NEW status \in TaskRunStatus,
             NEW good \in 0..MaxPages, NEW bad \in {0, 1}
      PROVE  Ended(row, status, good, bad) \in RunRow
  <2>1. [successful_pages |-> good, failed_pages |-> bad] \in Result
    BY DEF Result
  <2>2. QED
    BY <2>1 DEF Ended, RunRow
<1>7. BlankTask \in TaskRow
  BY <1>1 DEF BlankTask, TaskRow, NoRow
<1>8. ASSUME NEW row \in TaskRow, NEW seen PROVE RecoveredTask(row, seen) \in TaskRow
  BY DEF RecoveredTask, TaskRow, TaskStatus
<1>9. Idle \in Request
  BY <1>1 DEF Idle, Request, RequestStep
<1>10. NoJob \in Job
  BY <1>1 DEF NoJob, Job, WorkStep
<1>11. ASSUME NEW row \in RunRow
       PROVE  /\ [row EXCEPT !.queue_job_id = TRUE] \in RunRow
              /\ [row EXCEPT !.status = "running"] \in RunRow
  BY DEF RunRow, TaskRunStatus
<1>12. ASSUME NEW row \in TaskRow, NEW n \in 0..MaxPages
       PROVE  [row EXCEPT !.urls = n] \in TaskRow
  BY DEF TaskRow
<1> QED
  BY <1>2, <1>3, <1>4, <1>5, <1>6, <1>7, <1>8, <1>9, <1>10, <1>11, <1>12

\* What the queue's operations make of it: still a sequence of runs, with no
\* other elements than before, except the one pushed.
LEMMA QueueOps ==
    ASSUME queue \in Seq(Run), NEW r
    PROVE  /\ Withdraw(r) \/ Take(r) \/ Forget =>
                 /\ queue' \in Seq(Run)
                 /\ \A j \in DOMAIN queue' : \E i \in DOMAIN queue : queue'[j] = queue[i]
           /\ r \in Run /\ Push(r) =>
                 /\ queue' \in Seq(Run)
                 /\ \A j \in DOMAIN queue' :
                       queue'[j] = r \/ \E i \in DOMAIN queue : queue'[j] = queue[i]
           /\ Take(r) => r \in Run /\ \E i \in DOMAIN queue : queue[i] = r
<1>1. ASSUME Withdraw(r)
      PROVE  /\ queue' \in Seq(Run)
             /\ \A j \in DOMAIN queue' : \E i \in DOMAIN queue : queue'[j] = queue[i]
  <2>1. CASE queue' = queue
    BY <2>1
  <2>2. CASE \E i \in DOMAIN queue : queue' = RemoveAt(queue, i)
    <3>1. PICK i \in 1..Len(queue) : queue' = RemoveAt(queue, i)
      BY <2>2
    <3>2. /\ queue' \in Seq(Run)
          /\ Len(queue') = Len(queue) - 1
          /\ \A j \in 1..(Len(queue) - 1) :
                queue'[j] = IF j < i THEN queue[j] ELSE queue[j + 1]
      BY <3>1, RemoveAtProperties
    <3>3. ASSUME NEW j \in DOMAIN queue'
          PROVE  \E k \in DOMAIN queue : queue'[j] = queue[k]
      <4>1. j \in 1..(Len(queue) - 1) /\ j \in DOMAIN queue /\ j + 1 \in DOMAIN queue
        BY <3>2, <3>3
      <4> QED
        BY <3>2, <4>1
    <3> QED
      BY <3>2, <3>3
  <2> QED
    BY <1>1, <2>1, <2>2 DEF Withdraw
<1>2. ASSUME Take(r)
      PROVE  /\ queue' \in Seq(Run)
             /\ \A j \in DOMAIN queue' : \E i \in DOMAIN queue : queue'[j] = queue[i]
             /\ r \in Run /\ \E i \in DOMAIN queue : queue[i] = r
  <2>1. Len(queue) > 0 /\ r = queue[1] /\ r \in Run
    BY <1>2 DEF Take
  <2>2. /\ queue' \in Seq(Run)
        /\ Len(queue') = Len(queue) - 1
        /\ \A j \in 1..Len(queue') : queue'[j] = queue[j + 1]
    BY <1>2 DEF Take
  <2>3. ASSUME NEW j \in DOMAIN queue' PROVE \E i \in DOMAIN queue : queue'[j] = queue[i]
    <3>1. j \in 1..Len(queue') /\ j + 1 \in DOMAIN queue
      BY <2>2
    <3> QED
      BY <2>2, <3>1
  <2>4. 1 \in DOMAIN queue
    BY <2>1
  <2> QED
    BY <2>1, <2>2, <2>3, <2>4
<1>3. ASSUME Forget
      PROVE  /\ queue' \in Seq(Run)
             /\ \A j \in DOMAIN queue' : \E i \in DOMAIN queue : queue'[j] = queue[i]
  BY <1>3 DEF Forget
<1>4. ASSUME r \in Run, Push(r)
      PROVE  /\ queue' \in Seq(Run)
             /\ \A j \in DOMAIN queue' :
                   queue'[j] = r \/ \E i \in DOMAIN queue : queue'[j] = queue[i]
  BY <1>4 DEF Push
<1> QED
  BY <1>1, <1>2, <1>3, <1>4

-----------------------------------------------------------------------------
(* Types                                                                   *)

LEMMA TypeApi ==
    ASSUME TypeOK, RowsLinked, ReqLinked, NEW c \in Thread, Api(c), UNCHANGED job
    PROVE  TypeOK'
<1> USE DEF At
<1> SUFFICES StoreTypeOK' /\ QueueTypeOK' /\ ApiTypeOK'
  BY DEF TypeOK, WorkerTypeOK
<1>1. /\ task \in [Task -> TaskRow] /\ run \in [Run -> RunRow] /\ site \in [Task -> SUBSET Url]
      /\ queue \in Seq(Run)
      /\ req \in [Thread -> Request] /\ req[c] \in Request
  BY DEF TypeOK, StoreTypeOK, QueueTypeOK, ApiTypeOK
<1>2. ASSUME UNCHANGED <<task, run, site>> PROVE StoreTypeOK'
  BY <1>1, <1>2 DEF StoreTypeOK
<1>3. ASSUME UNCHANGED queue PROVE QueueTypeOK'
  BY <1>1, <1>3 DEF QueueTypeOK
<1>4. ASSUME NEW next \in Request, Continue(c, next) PROVE ApiTypeOK'
  BY <1>1, <1>4 DEF Continue, ApiTypeOK
<1>5. ASSUME Done(c) PROVE ApiTypeOK'
  BY <1>4, <1>5, RowTypes DEF Done
<1>6. ASSUME NEW step \in RequestStep, Goto(c, step) PROVE ApiTypeOK'
  BY <1>1, <1>4, <1>6 DEF Goto, Request
<1>7. ASSUME NEW r, Withdraw(r) PROVE QueueTypeOK'
  BY <1>1, <1>7, QueueOps DEF QueueTypeOK
<1>8. ASSUME NEW r \in Run, Push(r) PROVE QueueTypeOK'
  BY <1>1, <1>8, QueueOps DEF QueueTypeOK
<1>9. req[c].pc \in {"enqueue", "record", "recover", "recovering", "unqueue"} => req[c].run \in Run
  BY <1>1 DEF ReqLinked, Request
<1>10. req[c].pc # "idle" => req[c].task \in Task
  BY DEF ReqLinked
<1>11. CASE CreateTask(c) \/ CloneTask(c)
  <2>1. PICK t \in Task, n \in 0..MaxPages : InsertTask(t, n)
    BY <1>1, <1>11, StoreAssumption DEF CreateTask, CloneTask, TaskRow
  <2>2. task' \in [Task -> TaskRow]
    BY <1>1, <2>1 DEF InsertTask, TaskRow, TaskStatus
  <2> QED
    BY <1>1, <1>11, <2>1, <2>2
       DEF InsertTask, CreateTask, CloneTask, StoreTypeOK, QueueTypeOK, ApiTypeOK
<1>12. CASE UpdateRead(c)
  <2>1. PICK t \in Task, n \in UrlCounts :
          Continue(c, [req[c] EXCEPT !.pc = "update", !.task = t, !.urls = n])
    BY <1>12 DEF UpdateRead
  <2>2. ApiTypeOK'
    BY <1>1, <1>4, <2>1, StoreAssumption DEF Request, RequestStep
  <2> QED
    BY <1>2, <1>3, <1>12, <2>2 DEF UpdateRead
<1>13. CASE UpdateCommit(c)
  <2>1. req[c].task \in Task /\ req[c].urls \in 0..MaxPages
    BY <1>1, <1>10, <1>13 DEF UpdateCommit, Request
  <2>2. task' = [task EXCEPT ![req[c].task] = [task[req[c].task] EXCEPT !.urls = req[c].urls]]
    BY <1>1, <1>13, <2>1 DEF UpdateCommit
  <2>3. task' \in [Task -> TaskRow]
    BY <1>1, <2>1, <2>2, RowTypes
  <2> QED
    BY <1>1, <1>3, <1>5, <1>13, <2>3 DEF UpdateCommit, StoreTypeOK
<1>14. CASE DeleteRead(c)
  <2>1. PICK t \in Task : Continue(c, [req[c] EXCEPT !.pc = "delete", !.task = t])
    BY <1>14 DEF DeleteRead
  <2>2. ApiTypeOK'
    BY <1>1, <1>4, <2>1 DEF Request, RequestStep
  <2> QED
    BY <1>2, <1>3, <1>14, <2>2 DEF DeleteRead
<1>15. CASE DeleteCommit(c)
  <2>1. [BlankTask EXCEPT !.status = "deleted"] \in TaskRow
    BY RowTypes DEF TaskRow, NoRow
  <2>2. StoreTypeOK'
    BY <1>1, <1>10, <1>15, <2>1, RowTypes DEF DeleteCommit, DeleteTask, StoreTypeOK
  <2> QED
    BY <1>3, <1>5, <1>15, <2>2 DEF DeleteCommit
<1>16. CASE StartRead(c)
  <2>1. PICK t \in Task : Continue(c, [req[c] EXCEPT !.pc = "start", !.task = t])
    BY <1>16 DEF StartRead
  <2>2. ApiTypeOK'
    BY <1>1, <1>4, <2>1 DEF Request, RequestStep
  <2> QED
    BY <1>2, <1>3, <1>16, <2>2 DEF StartRead
<1>17. CASE StartCommit(c)
  <2>1. PICK r \in Run :
          /\ run' = [run EXCEPT ![r] = QueuedRun(req[c].task)]
          /\ Continue(c, [req[c] EXCEPT !.pc = "enqueue", !.run = r])
    BY <1>17 DEF StartCommit
  <2>2. ApiTypeOK'
    BY <1>1, <1>4, <2>1 DEF Request, RequestStep
  <2>3. run' \in [Run -> RunRow]
    BY <1>1, <1>10, <1>17, <2>1, RowTypes DEF StartCommit
  <2>4. task' \in [Task -> TaskRow]
    BY <1>1, <1>10, <1>17 DEF StartCommit, TaskRow, TaskStatus
  <2> QED
    BY <1>1, <1>3, <1>17, <2>2, <2>3, <2>4 DEF StartCommit, StoreTypeOK
<1>18. CASE Enqueue(c)
  BY <1>2, <1>6, <1>8, <1>9, <1>18 DEF Enqueue, RequestStep
<1>19. CASE EnqueueFails(c)
  <2>1. ApiTypeOK'
    BY <1>1, <1>4, <1>19 DEF EnqueueFails, Request, RequestStep, TaskRunStatus, TaskStatus
  <2> QED
    BY <1>2, <1>3, <1>8, <1>9, <1>19, <2>1 DEF EnqueueFails
<1>20. CASE RecordJob(c)
  <2>1. /\ req[c].run \in Run
        /\ run' = [run EXCEPT ![req[c].run] = [run[req[c].run] EXCEPT !.queue_job_id = TRUE]]
    BY <1>1, <1>9, <1>20 DEF RecordJob
  <2>2. run' \in [Run -> RunRow]
    BY <1>1, <2>1, RowTypes
  <2> QED
    BY <1>1, <1>3, <1>5, <1>20, <2>2 DEF RecordJob, StoreTypeOK
<1>21. CASE RecordFails(c)
  <2>1. /\ req[c].run \in Run
        /\ \/ run' = run
           \/ run' = [run EXCEPT ![req[c].run] = [run[req[c].run] EXCEPT !.queue_job_id = TRUE]]
    BY <1>1, <1>9, <1>21 DEF RecordFails
  <2>2. run' \in [Run -> RunRow]
    <3>1. [run[req[c].run] EXCEPT !.queue_job_id = TRUE] \in RunRow
      BY <1>1, <2>1, RowTypes
    <3> QED
      BY <1>1, <2>1, <3>1
  <2>3. StoreTypeOK'
    BY <1>1, <1>21, <2>2 DEF RecordFails, StoreTypeOK
  <2> QED
    BY <1>3, <1>6, <1>21, <2>3 DEF RecordFails, RequestStep
<1>22. CASE RecoverRead(c)
  <2>1. req[c].pc = "recover" /\ TaskExists(req[c].task)
    BY <1>22 DEF RecoverRead
  <2>2. task[req[c].task].status \in TaskStatus
    BY <2>1 DEF TaskExists
  <2>3. run[req[c].run].task = req[c].task
    BY <2>1 DEF ReqLinked
  <2>4. run[req[c].run].status \in TaskRunStatus
    BY <1>9, <1>10, <2>1, <2>3, StoreAssumption DEF RowsLinked, RunExists
  <2>5. ApiTypeOK'
    BY <1>1, <1>4, <1>22, <2>2, <2>4 DEF RecoverRead, Request, RequestStep
  <2> QED
    BY <1>2, <1>3, <1>22, <2>5 DEF RecoverRead
<1>23. CASE RecoverCommit(c)
  BY <1>1, <1>3, <1>5, <1>9, <1>10, <1>23, RowTypes DEF RecoverCommit, StoreTypeOK
<1>24. CASE SuspendRead(c)
  <2>1. PICK t \in Task, to \in {"paused", "stopped"} :
          Continue(c, [req[c] EXCEPT !.pc = "find", !.task = t, !.to = to])
    BY <1>24 DEF SuspendRead
  <2>2. ApiTypeOK'
    BY <1>1, <1>4, <2>1 DEF Request, RequestStep
  <2> QED
    BY <1>2, <1>3, <1>24, <2>2 DEF SuspendRead
<1>25. CASE FindActiveRun(c)
  <2>1. ASSUME Goto(c, "suspend") PROVE ApiTypeOK'
    BY <1>6, <2>1 DEF RequestStep
  <2>2. ASSUME NEW r \in Run, IsLatestActive(req[c].task, r),
               Continue(c, [req[c] EXCEPT !.pc = AfterFind(r), !.run = r,
                                          !.seenRun = run[r].status])
        PROVE  ApiTypeOK'
    <3>1. AfterFind(r) \in RequestStep
      BY DEF AfterFind, RequestStep
    <3>2. run[r].status \in TaskRunStatus
      BY <2>2 DEF IsLatestActive, IsActive, ActiveStatus, TaskRunStatus
    <3> QED
      BY <1>1, <1>4, <2>2, <3>1, <3>2 DEF Request
  <2> QED
    BY <1>2, <1>3, <1>25, <2>1, <2>2 DEF FindActiveRun
<1>26. CASE Unqueue(c) \/ UnqueueFails(c)
  BY <1>2, <1>3, <1>6, <1>7, <1>26 DEF Unqueue, UnqueueFails, RequestStep
<1>27. CASE SuspendCommit(c)
  <2>1. req[c].to \in {"paused", "stopped"}
    BY <1>1, <1>27 DEF SuspendCommit, ReqLinked, Request
  <2>2. task' \in [Task -> TaskRow]
    BY <1>1, <1>10, <1>27, <2>1 DEF SuspendCommit, TaskRow, TaskStatus
  <2>3. run' \in [Run -> RunRow]
    BY <1>1, <1>27, RowTypes DEF SuspendCommit
  <2> QED
    BY <1>1, <1>3, <1>5, <1>27, <2>2, <2>3 DEF SuspendCommit, StoreTypeOK
<1>28. CASE RowGone(c) \/ ApiCrash(c)
  BY <1>2, <1>3, <1>5, <1>28 DEF RowGone, ApiCrash
<1> QED
  BY <1>11, <1>12, <1>13, <1>14, <1>15, <1>16, <1>17, <1>18, <1>19, <1>20, <1>21,
     <1>22, <1>23, <1>24, <1>25, <1>26, <1>27, <1>28
     DEF Api, NewRequest, Serve, ApiFault

LEMMA TypeWork ==
    ASSUME TypeOK, RowsLinked, JobLinked, NEW w \in Process, Perform(w), UNCHANGED req
    PROVE  TypeOK'
<1> USE DEF Doing, TaskOf
<1> SUFFICES StoreTypeOK' /\ QueueTypeOK' /\ WorkerTypeOK'
  BY DEF TypeOK, ApiTypeOK
<1>1. /\ task \in [Task -> TaskRow] /\ run \in [Run -> RunRow] /\ site \in [Task -> SUBSET Url]
      /\ queue \in Seq(Run)
      /\ job \in [Process -> Job] /\ job[w] \in Job
  BY DEF TypeOK, StoreTypeOK, QueueTypeOK, WorkerTypeOK
<1>2. ASSUME UNCHANGED <<task, run, site>> PROVE StoreTypeOK'
  BY <1>1, <1>2 DEF StoreTypeOK
<1>3. ASSUME UNCHANGED queue PROVE QueueTypeOK'
  BY <1>1, <1>3 DEF QueueTypeOK
<1>4. ASSUME NEW next \in Job, Proceed(w, next) PROVE WorkerTypeOK'
  BY <1>1, <1>4 DEF Proceed, WorkerTypeOK
<1>5. ASSUME Drop(w) PROVE WorkerTypeOK'
  BY <1>4, <1>5, RowTypes DEF Drop
<1>6. ASSUME NEW step \in WorkStep, Advance(w, step) PROVE WorkerTypeOK'
  BY <1>1, <1>4, <1>6 DEF Advance, Job
<1>7. job[w].pc # "idle" => job[w].run \in Run
  BY <1>1 DEF JobLinked, Job
<1>8. ASSUME job[w].pc # "idle", RunExists(job[w].run)
      PROVE  /\ TaskOf(w) \in Task
             /\ task[TaskOf(w)].status \in TaskStatus
             /\ task[TaskOf(w)].urls \in 0..MaxPages
  BY <1>1, <1>7, <1>8 DEF RowsLinked, TaskExists, TaskRow
<1>9. ASSUME Raise(w) PROVE WorkerTypeOK'
  BY <1>1, <1>4, <1>9 DEF Raise, Job, WorkStep
<1>10. ASSUME NEW status \in TaskStatus, NEW t \in Task
       PROVE  [task EXCEPT ![t].status = status] \in [Task -> TaskRow]
  BY <1>1 DEF TaskRow
<1>11. CASE Dequeue(w)
  <2>1. PICK r \in Run : Take(r) /\ Proceed(w, [job[w] EXCEPT !.pc = "load", !.run = r])
    BY <1>11 DEF Dequeue
  <2>2. QueueTypeOK'
    BY <1>1, <2>1, QueueOps DEF QueueTypeOK
  <2>3. WorkerTypeOK'
    BY <1>1, <1>4, <2>1 DEF Job, WorkStep
  <2> QED
    BY <1>2, <1>11, <2>2, <2>3 DEF Dequeue
<1>12. CASE Load(w)
  <2>1. ASSUME MayRun(job[w].run), Proceed(w, Loaded(w, job[w].run)) PROVE WorkerTypeOK'
    <3>1. RunExists(job[w].run)
      BY <2>1 DEF MayRun, RunExists, TaskRunStatus
    <3>2. Loaded(w, job[w].run) \in Job
      BY <1>1, <1>8, <1>12, <3>1 DEF Load, Loaded, Job, WorkStep
    <3> QED
      BY <1>4, <2>1, <3>2
  <2> QED
    BY <1>2, <1>3, <1>5, <1>12, <2>1 DEF Load
<1>13. CASE Begin(w)
  <2>1. StoreTypeOK'
    <3> DEFINE row == [run[job[w].run] EXCEPT !.status = "running"]
    <3>1. job[w].run \in Run /\ run' = [run EXCEPT ![job[w].run] = row]
      BY <1>1, <1>7, <1>13 DEF Begin
    <3>2. row \in RunRow
      BY <1>1, <3>1, RowTypes
    <3> HIDE DEF row
    <3> QED
      BY <1>1, <1>13, <3>1, <3>2 DEF Begin, StoreTypeOK
  <2>2. ASSUME job[w].urls # 0 PROVE [job[w] EXCEPT !.pc = "refresh", !.page = 1] \in Job
    <3>1. job[w].urls \in 0..MaxPages
      BY <1>1 DEF Job
    <3>2. 1 \in 0..MaxPages
      BY <2>2, <3>1, StoreAssumption
    <3> QED
      BY <1>1, <3>2 DEF Job, WorkStep
  <2> QED
    BY <1>3, <1>4, <1>6, <1>13, <2>1, <2>2 DEF Begin, WorkStep
<1>14. CASE Refresh(w)
  <2>1. (IF CancelSeen(w) THEN "rollback" ELSE "visit") \in WorkStep
    BY DEF WorkStep
  <2> QED
    BY <1>2, <1>3, <1>6, <1>14, <2>1 DEF Refresh
<1>15. CASE Visit(w)
  <2>1. PICK u \in Url :
          Proceed(w, [job[w] EXCEPT !.pc = "store", !.url = u, !.fresh = IsNewSite(w, u)])
    BY <1>15 DEF Visit
  <2>2. IsNewSite(w, u) \in BOOLEAN
    BY DEF IsNewSite
  <2>3. WorkerTypeOK'
    BY <1>1, <1>4, <2>1, <2>2 DEF Job, WorkStep
  <2> QED
    BY <1>2, <1>3, <1>15, <2>3 DEF Visit
<1>16. CASE StorePage(w)
  <2>1. /\ job[w].url \in Url
        /\ job[w].page \in PageNo /\ job[w].page \in 1..job[w].urls
        /\ job[w].urls \in 0..MaxPages
    BY <1>1, <1>16, StoreAssumption DEF StorePage, JobLinked, Job, PageNo
  <2>2. run' \in [Run -> RunRow]
    <3> DEFINE old == run[job[w].run]
               pages == [old.pages EXCEPT ![job[w].page] = job[w].url]
    <3>1. job[w].run \in Run /\ old \in RunRow
      BY <1>1, <1>7, <1>16 DEF StorePage
    <3>2. pages \in [PageNo -> Url \cup {NULL}]
      BY <2>1, <3>1 DEF RunRow
    <3>3. run' = [run EXCEPT ![job[w].run] = [old EXCEPT !.pages = pages]]
      BY <1>1, <1>16, <3>1 DEF StorePage
    <3>4. [old EXCEPT !.pages = pages] \in RunRow
      <4> HIDE DEF old, pages
      <4> QED
        BY <3>1, <3>2 DEF RunRow
    <3> QED
      BY <1>1, <3>1, <3>3, <3>4
  <2>3. site' \in [Task -> SUBSET Url]
    BY <1>1, <1>8, <1>16, <2>1 DEF StorePage
  <2>4. AfterPage(w) \in Job
    <3>1. job[w].page < job[w].urls => job[w].page + 1 \in 0..MaxPages
      BY <2>1, StoreAssumption
    <3> QED
      BY <1>1, <3>1 DEF AfterPage, Job, WorkStep
  <2> QED
    BY <1>1, <1>3, <1>4, <1>9, <1>16, <2>2, <2>3, <2>4 DEF StorePage, AnswerLost, StoreTypeOK
<1>17. CASE StoreConflict(w) \/ PageError(w)
  BY <1>2, <1>3, <1>9, <1>17 DEF StoreConflict, PageError
<1>18. CASE Finish(w)
  <2>1. job[w].urls \in 0..MaxPages /\ "success" \in TaskRunStatus
    BY <1>1 DEF Job, TaskRunStatus
  <2>2. run' \in [Run -> RunRow]
    BY <1>1, <1>7, <1>18, <2>1, RowTypes DEF Finish
  <2>3. TaskOf(w) \in Task /\ task[TaskOf(w)].status \in TaskStatus
    BY <1>8, <1>18 DEF Finish
  <2>4. PICK status \in TaskStatus : task' = [task EXCEPT ![TaskOf(w)].status = status]
    BY <1>18, <2>3 DEF Finish, TaskStatus
  <2>5. task' \in [Task -> TaskRow]
    BY <1>10, <2>3, <2>4
  <2> QED
    BY <1>1, <1>3, <1>5, <1>9, <1>18, <2>2, <2>5 DEF Finish, AnswerLost, StoreTypeOK
<1>19. CASE Reload(w)
  <2>1. WorkerTypeOK'
    BY <1>1, <1>4, <1>8, <1>19 DEF Reload, Job, WorkStep
  <2> QED
    BY <1>2, <1>3, <1>19, <2>1 DEF Reload
<1>20. CASE MarkFailed(w)
  <2>1. PagesStored(w) \in 0..MaxPages /\ "failed" \in TaskRunStatus
    BY <1>7, <1>20, CapturedSize DEF MarkFailed, PagesStored, TaskRunStatus
  <2>2. run' \in [Run -> RunRow]
    BY <1>1, <1>7, <1>20, <2>1, RowTypes DEF MarkFailed
  <2>3. TaskOf(w) \in Task /\ task[TaskOf(w)].status \in TaskStatus
    BY <1>8, <1>20 DEF MarkFailed
  <2>4. PICK status \in TaskStatus : task' = [task EXCEPT ![TaskOf(w)].status = status]
    BY <1>20, <2>3 DEF MarkFailed, TaskStatus
  <2>5. task' \in [Task -> TaskRow]
    BY <1>10, <2>3, <2>4
  <2> QED
    BY <1>1, <1>3, <1>5, <1>20, <2>2, <2>5 DEF MarkFailed, StoreTypeOK
<1>21. CASE RunGone(w) \/ WorkerCrash(w)
  BY <1>2, <1>3, <1>5, <1>21 DEF RunGone, WorkerCrash
<1> QED
  BY <1>11, <1>12, <1>13, <1>14, <1>15, <1>16, <1>17, <1>18, <1>19, <1>20, <1>21
     DEF Perform, Work

LEMMA TypeStep == IInv /\ [Next]_vars => TypeOK'
<1> SUFFICES ASSUME IInv, [Next]_vars PROVE TypeOK'
  OBVIOUS
<1>1. TypeOK /\ RowsLinked /\ ReqLinked /\ JobLinked
  BY DEF IInv, Linked
<1>2. CASE RedisRestart
  BY <1>1, <1>2, QueueOps
     DEF RedisRestart, TypeOK, StoreTypeOK, QueueTypeOK, ApiTypeOK, WorkerTypeOK
<1>3. CASE UNCHANGED vars
  BY <1>1, <1>3 DEF vars, TypeOK, StoreTypeOK, QueueTypeOK, ApiTypeOK, WorkerTypeOK
<1> QED
  BY <1>1, <1>2, <1>3, TypeApi, TypeWork DEF Next

-----------------------------------------------------------------------------
(* Rows and what is remembered of them                                     *)

\* What no step undoes: a row that was created stays created or is deleted, a
\* run leaves the status "queued" for good, and belongs to its task as long as
\* that exists.
RowsAge ==
    /\ \A t \in Task :
          /\ task[t].status # "absent" => task'[t].status # "absent"
          /\ task[t].status # "absent" /\ task'[t].status \in TaskStatus => TaskExists(t)
    /\ \A r \in Run :
          /\ run[r].status # "absent" => run'[r].status # "absent"
          /\ run[r].status \notin {"absent", "queued"} => run'[r].status # "queued"
          /\ \A t \in Task :
                run[r].task = t /\ task'[t].status \in TaskStatus => run'[r].task = t

LEMMA RowsUnchanged ==
    ASSUME TypeOK, RowsLinked, UNCHANGED <<task, run>>
    PROVE  RowsAge /\ RowsLinked'
BY DEF RowsAge, RowsLinked, RunExists, TaskExists

\* An UPDATE of an existing run, of an existing task, or of both.
LEMMA RowsUpdated ==
    ASSUME TypeOK, RowsLinked,
           NEW q \in Run, NEW row, NEW t \in Task, NEW entry,
           \/ UNCHANGED run
           \/ /\ run' = [run EXCEPT ![q] = row]
              /\ RunExists(q)
              /\ row.task = run[q].task
              /\ \/ row.status = run[q].status
                 \/ row.status \in {"running", "success", "failed"},
           \/ UNCHANGED task
           \/ /\ task' = [task EXCEPT ![t] = entry]
              /\ TaskExists(t)
              /\ entry.status \in TaskStatus
    PROVE  RowsAge /\ RowsLinked'
<1>1. task \in [Task -> TaskRow] /\ run \in [Run -> RunRow]
  BY DEF TypeOK, StoreTypeOK
<1>2. \A r \in Run : /\ run'[r].task = run[r].task
                     /\ \/ run'[r].status = run[r].status
                        \/ /\ RunExists(r)
                           /\ run'[r].status \in {"running", "success", "failed"}
  BY <1>1
<1>3. \A u \in Task : \/ task'[u] = task[u]
                      \/ TaskExists(u) /\ task'[u].status \in TaskStatus
  BY <1>1
<1>4. RowsAge
  BY <1>2, <1>3 DEF RowsAge, RunExists, TaskExists, TaskRunStatus, TaskStatus
<1>5. RowsLinked'
  BY <1>2, <1>3 DEF RowsLinked, RunExists, TaskExists, TaskRunStatus
<1> QED
  BY <1>4, <1>5

LEMMA RowsApi ==
    ASSUME TypeOK, RowsLinked, ReqLinked, NEW c \in Thread, Api(c)
    PROVE  RowsAge /\ RowsLinked'
<1> USE DEF At
<1>1. /\ task \in [Task -> TaskRow] /\ run \in [Run -> RunRow]
      /\ req[c] \in Request
  BY DEF TypeOK, StoreTypeOK, ApiTypeOK
<1>2. req[c].pc # "idle" => req[c].task \in Task
  BY DEF ReqLinked
<1>3. ASSUME req[c].pc # "idle", TaskExists(req[c].task), req[c].run # NULL
      PROVE  /\ req[c].run \in Run
             /\ run[req[c].run].task = req[c].task
             /\ RunExists(req[c].run)
  <2>1. req[c].run \in Run /\ run[req[c].run].task = req[c].task
    BY <1>1, <1>3 DEF ReqLinked, Request
  <2> QED
    BY <1>2, <1>3, <2>1, StoreAssumption DEF RowsLinked
<1>4. req[c].pc \in {"enqueue", "record", "recover", "recovering", "unqueue"} => req[c].run # NULL
  BY DEF ReqLinked
<1>5. ASSUME UNCHANGED <<task, run>> PROVE RowsAge /\ RowsLinked'
  BY <1>5, RowsUnchanged
<1>6. CASE CreateTask(c) \/ CloneTask(c)
  <2>1. PICK t \in Task, n \in 0..MaxPages : InsertTask(t, n)
    BY <1>1, <1>6, StoreAssumption DEF CreateTask, CloneTask, TaskRow
  <2>2. /\ run' = run
        /\ \A u \in Task : \/ task'[u] = task[u]
                           \/ task[u].status = "absent" /\ task'[u].status = "draft"
    BY <1>1, <2>1 DEF InsertTask
  <2> QED
    BY <2>2 DEF RowsAge, RowsLinked, RunExists, TaskExists, TaskStatus
<1>7. CASE UpdateCommit(c)
  BY <1>1, <1>2, <1>7 DEF UpdateCommit, RowsAge, RowsLinked, RunExists, TaskExists
<1>8. CASE DeleteCommit(c)
  <2>1. /\ req[c].task \in Task /\ TaskExists(req[c].task)
        /\ \A u \in Task : task'[u] = IF u = req[c].task THEN [BlankTask EXCEPT !.status = "deleted"] ELSE task[u]
        /\ \A r \in Run : run'[r] = IF run[r].task = req[c].task THEN GoneRun ELSE run[r]
    BY <1>1, <1>2, <1>8 DEF DeleteCommit, DeleteTask
  <2>2. /\ GoneRun.status = "deleted" /\ GoneRun.task = NULL
        /\ [BlankTask EXCEPT !.status = "deleted"].status = "deleted"
    BY DEF GoneRun, BlankRun, BlankTask
  <2>3. RowsAge
    BY <2>1, <2>2 DEF RowsAge, RunExists, TaskExists, TaskStatus
  <2>4. RowsLinked'
    BY <2>1, <2>2 DEF RowsLinked, RunExists, TaskExists, TaskStatus, TaskRunStatus
  <2> QED
    BY <2>3, <2>4
<1>9. CASE StartCommit(c)
  <2>1. PICK r \in Run : IsNextRun(r) /\ run' = [run EXCEPT ![r] = QueuedRun(req[c].task)]
    BY <1>9 DEF StartCommit
  <2>2. /\ req[c].task \in Task /\ TaskExists(req[c].task)
        /\ run[r].status = "absent"
        /\ QueuedRun(req[c].task).status = "queued" /\ QueuedRun(req[c].task).task = req[c].task
    BY <1>2, <1>9, <2>1 DEF StartCommit, IsNextRun, QueuedRun, BlankRun
  <2>3. \A u \in Task : \/ task'[u] = task[u]
                        \/ TaskExists(u) /\ task'[u].status = "running"
    BY <1>1, <1>9, <2>2 DEF StartCommit
  <2>4. \A q \in Run : run'[q] = IF q = r THEN QueuedRun(req[c].task) ELSE run[q]
    BY <1>1, <2>1
  <2>5. run[r].task = NULL /\ task'[req[c].task].status = "running"
    BY <1>1, <1>9, <2>2 DEF RowsLinked, RunExists, TaskRunStatus, StartCommit
  <2>6. RowsAge
    BY <2>2, <2>3, <2>4, <2>5, StoreAssumption DEF RowsAge, TaskExists
  <2>7. RowsLinked'
    BY <2>2, <2>3, <2>4, <2>5 DEF RowsLinked, RunExists, TaskExists, TaskRunStatus, TaskStatus
  <2> QED
    BY <2>6, <2>7
<1>10. CASE RecordJob(c) \/ RecordFails(c)
  <2>1. /\ req[c].run \in Run /\ RunExists(req[c].run) /\ req[c].task \in Task
        /\ task' = task
        /\ \/ run' = run
           \/ run' = [run EXCEPT ![req[c].run].queue_job_id = TRUE]
    BY <1>2, <1>3, <1>4, <1>10 DEF RecordJob, RecordFails
  <2> DEFINE row == [run[req[c].run] EXCEPT !.queue_job_id = TRUE]
  <2>2. row.task = run[req[c].run].task /\ row.status = run[req[c].run].status
    BY <1>1, <2>1 DEF RunRow
  <2>3. run' = run \/ run' = [run EXCEPT ![req[c].run] = row]
    BY <1>1, <2>1
  <2> HIDE DEF row
  <2> QED
    BY <2>1, <2>2, <2>3, RowsUpdated
<1>11. CASE RecoverCommit(c)
  <2>1. /\ req[c].run \in Run /\ RunExists(req[c].run)
        /\ req[c].task \in Task /\ TaskExists(req[c].task)
    BY <1>2, <1>3, <1>4, <1>11 DEF RecoverCommit
  <2> DEFINE row == RecoveredRun(run[req[c].run], req[c].seenRun)
             entry == RecoveredTask(task[req[c].task], req[c].seenTask)
  <2>2. run' = [run EXCEPT ![req[c].run] = row] /\ task' = [task EXCEPT ![req[c].task] = entry]
    BY <1>1, <1>11, <2>1 DEF RecoverCommit
  <2>3. /\ row.task = run[req[c].run].task
        /\ row.status = run[req[c].run].status \/ row.status = "failed"
    BY <1>1, <2>1 DEF RecoveredRun, RunRow
  <2>4. entry.status \in TaskStatus
    BY <1>1, <2>1 DEF RecoveredTask, TaskRow, TaskExists, TaskStatus
  <2> HIDE DEF row, entry
  <2> QED
    BY <2>1, <2>2, <2>3, <2>4, RowsUpdated
<1>12. CASE SuspendCommit(c)
  <2>1. req[c].task \in Task /\ TaskExists(req[c].task) /\ req[c].to \in {"paused", "stopped"}
    BY <1>1, <1>2, <1>12 DEF SuspendCommit, ReqLinked, Request
  <2> DEFINE entry == [task[req[c].task] EXCEPT !.status = req[c].to]
             row == Cancelled(run[req[c].run], req[c].seenRun)
  <2>2. task' = [task EXCEPT ![req[c].task] = entry] /\ entry.status \in TaskStatus
    BY <1>1, <1>12, <2>1 DEF SuspendCommit, TaskRow, TaskStatus
  <2>3. CASE req[c].run = NULL
    <3>1. NULL \notin Run
      BY StoreAssumption DEF Run
    <3>2. run' = run
      BY <1>1, <1>12, <2>3, <3>1 DEF SuspendCommit
    <3>3. CASE Run = {}
      BY <1>1, <2>1, <2>2, <3>3 DEF RowsAge, RowsLinked, TaskExists
    <3>4. CASE \E q \in Run : TRUE
      <4> HIDE DEF entry
      <4> QED
        BY <2>1, <2>2, <3>2, <3>4, RowsUpdated
    <3> QED
      BY <3>3, <3>4
  <2>4. CASE req[c].run # NULL
    <3>1. req[c].run \in Run /\ RunExists(req[c].run)
      BY <1>3, <1>12, <2>1, <2>4 DEF SuspendCommit
    <3>2. run' = [run EXCEPT ![req[c].run] = row]
      BY <1>1, <1>12, <3>1 DEF SuspendCommit
    <3>3. /\ row.task = run[req[c].run].task
          /\ row.status = run[req[c].run].status \/ row.status = "failed"
      BY <1>1, <3>1 DEF Cancelled, RunRow
    <3> HIDE DEF entry, row
    <3> QED
      BY <2>1, <2>2, <3>1, <3>2, <3>3, RowsUpdated
  <2> QED
    BY <2>3, <2>4
<1>13. CASE UpdateRead(c) \/ DeleteRead(c) \/ StartRead(c) \/ SuspendRead(c)
  BY <1>5, <1>13 DEF UpdateRead, DeleteRead, StartRead, SuspendRead
<1>14. CASE Enqueue(c) \/ EnqueueFails(c) \/ RecoverRead(c) \/ FindActiveRun(c)
            \/ Unqueue(c) \/ UnqueueFails(c) \/ RowGone(c) \/ ApiCrash(c)
  BY <1>5, <1>14
     DEF Enqueue, EnqueueFails, RecoverRead, FindActiveRun, Unqueue, UnqueueFails, RowGone, ApiCrash
<1> QED
  BY <1>6, <1>7, <1>8, <1>9, <1>10, <1>11, <1>12, <1>13, <1>14
     DEF Api, NewRequest, Serve, ApiFault

LEMMA RowsWork ==
    ASSUME TypeOK, RowsLinked, JobLinked, NEW w \in Process, Perform(w)
    PROVE  RowsAge /\ RowsLinked'
<1> USE DEF Doing, TaskOf
<1>1. /\ task \in [Task -> TaskRow] /\ run \in [Run -> RunRow]
      /\ job[w] \in Job
  BY DEF TypeOK, StoreTypeOK, WorkerTypeOK
<1>2. ASSUME job[w].pc # "idle", RunExists(job[w].run)
      PROVE  job[w].run \in Run /\ TaskOf(w) \in Task /\ TaskExists(TaskOf(w))
  <2>1. job[w].run \in Run
    BY <1>1, <1>2 DEF JobLinked, Job
  <2> QED
    BY <1>2, <2>1 DEF RowsLinked
<1>3. ASSUME UNCHANGED <<task, run>> PROVE RowsAge /\ RowsLinked'
  BY <1>3, RowsUnchanged
<1>4. CASE Begin(w) \/ StorePage(w)
  <2>1. job[w].run \in Run /\ RunExists(job[w].run) /\ TaskOf(w) \in Task /\ task' = task
    BY <1>2, <1>4 DEF Begin, StorePage
  <2> DEFINE old == run[job[w].run]
  <2>2. PICK row \in {[old EXCEPT !.status = "running"],
                      [old EXCEPT !.pages[job[w].page] = job[w].url]} :
          run' = [run EXCEPT ![job[w].run] = row]
    BY <1>1, <1>4, <2>1 DEF Begin, StorePage
  <2>3. row.task = old.task /\ row.status \in {old.status, "running"}
    BY <1>1, <2>1 DEF RunRow
  <2> QED
    BY <2>1, <2>2, <2>3, RowsUpdated
<1>5. CASE Finish(w) \/ MarkFailed(w)
  <2>1. job[w].run \in Run /\ RunExists(job[w].run) /\ TaskOf(w) \in Task /\ TaskExists(TaskOf(w))
    BY <1>2, <1>5 DEF Finish, MarkFailed
  <2>2. PICK status \in {"success", "failed"} : \E good, bad :
          run' = [run EXCEPT ![job[w].run] = Ended(run[job[w].run], status, good, bad)]
    BY <1>1, <1>5, <2>1 DEF Finish, MarkFailed
  <2>3. PICK good, bad :
          run' = [run EXCEPT ![job[w].run] = Ended(run[job[w].run], status, good, bad)]
    BY <2>2
  <2>4. PICK status2 \in {"completed", "failed", task[TaskOf(w)].status} :
          task' = [task EXCEPT ![TaskOf(w)].status = status2]
    BY <1>1, <1>5, <2>1 DEF Finish, MarkFailed
  <2> DEFINE row == Ended(run[job[w].run], status, good, bad)
             entry == [task[TaskOf(w)] EXCEPT !.status = status2]
  <2>5. row.task = run[job[w].run].task /\ row.status = status
    BY <1>1, <2>1 DEF Ended, RunRow
  <2>6. task' = [task EXCEPT ![TaskOf(w)] = entry] /\ entry.status \in TaskStatus
    BY <1>1, <2>1, <2>4 DEF TaskRow, TaskStatus, TaskExists
  <2> HIDE DEF row, entry
  <2>7. run' = [run EXCEPT ![job[w].run] = row]
    BY <2>3 DEF row
  <2> QED
    BY <2>1, <2>5, <2>6, <2>7, RowsUpdated
<1>6. CASE \/ Dequeue(w) \/ Load(w) \/ Refresh(w) \/ Visit(w) \/ StoreConflict(w)
           \/ PageError(w) \/ Reload(w) \/ RunGone(w) \/ WorkerCrash(w)
  BY <1>3, <1>6
     DEF Dequeue, Load, Refresh, Visit, StoreConflict, PageError, Reload, RunGone, WorkerCrash
<1> QED
  BY <1>4, <1>5, <1>6 DEF Perform, Work

LEMMA RowsStep == IInv /\ [Next]_vars => RowsAge /\ RowsLinked'
<1> SUFFICES ASSUME IInv, [Next]_vars PROVE RowsAge /\ RowsLinked'
  OBVIOUS
<1>1. TypeOK /\ RowsLinked /\ ReqLinked /\ JobLinked
  BY DEF IInv, Linked
<1>2. CASE RedisRestart \/ UNCHANGED vars
  BY <1>1, <1>2, RowsUnchanged DEF RedisRestart, vars
<1> QED
  BY <1>1, <1>2, RowsApi, RowsWork DEF Next

-----------------------------------------------------------------------------
(* What threads, workers and the queue remember stays linked               *)

\* A step of one thread or worker leaves the others' memory alone.
LEMMA OtherThread ==
    ASSUME TypeOK, NEW c \in Thread, NEW d \in Thread, Api(d), c # d
    PROVE  req'[c] = req[c]
<1>1. req' = req \/ \E request : req' = [req EXCEPT ![d] = request]
  BY DEF Api, NewRequest, Serve, ApiFault, CreateTask, CloneTask, UpdateRead, UpdateCommit,
         DeleteRead, DeleteCommit, StartRead, StartCommit, Enqueue, EnqueueFails, RecordJob,
         RecordFails, RecoverRead, RecoverCommit, SuspendRead, FindActiveRun, Unqueue,
         UnqueueFails, SuspendCommit, RowGone, ApiCrash, Done, Goto, Continue
<1> QED
  BY <1>1 DEF TypeOK, ApiTypeOK

LEMMA OtherWorker ==
    ASSUME TypeOK, NEW w \in Process, NEW v \in Process, Perform(v), w # v
    PROVE  job'[w] = job[w]
<1>1. job' = job \/ \E work : job' = [job EXCEPT ![v] = work]
  BY DEF Perform, Work, Dequeue, Load, Begin, Refresh, Visit, StorePage, StoreConflict,
         Finish, PageError, Reload, MarkFailed, RunGone, WorkerCrash, AnswerLost, Raise, Drop,
         Advance,
         Proceed
<1> QED
  BY <1>1 DEF TypeOK, WorkerTypeOK

\* The steps after which a thread knows a run that it did not create.
LEMMA ReqWrites ==
    ASSUME TypeOK, NEW c \in Thread, Api(c)
    PROVE  \/ FindActiveRun(c) \/ Unqueue(c) \/ UnqueueFails(c)
           \/ EnqueueFails(c) \/ RecoverRead(c)
           \/ req'[c] = req[c]
           \/ req'[c].pc \in {"idle", "update", "delete", "start", "find", "enqueue",
                              "record", "recover"}
<1>1. req \in [Thread -> Request] /\ req[c] \in Request
  BY DEF TypeOK, ApiTypeOK
<1>2. ASSUME NEW request, Continue(c, request) PROVE req'[c] = request
  BY <1>1, <1>2 DEF Continue
<1>3. CASE CreateTask(c) \/ CloneTask(c)
  BY <1>3 DEF CreateTask, CloneTask
<1>4. CASE \/ UpdateCommit(c) \/ DeleteCommit(c) \/ RecordJob(c) \/ RecoverCommit(c)
           \/ SuspendCommit(c) \/ RowGone(c) \/ ApiCrash(c)
  BY <1>2, <1>4
     DEF Done, Idle, UpdateCommit, DeleteCommit, RecordJob, RecoverCommit, SuspendCommit,
         RowGone, ApiCrash
<1>5. CASE UpdateRead(c) \/ DeleteRead(c) \/ StartRead(c) \/ SuspendRead(c)
  BY <1>1, <1>2, <1>5 DEF UpdateRead, DeleteRead, StartRead, SuspendRead, Request
<1>6. CASE StartCommit(c)
  BY <1>1, <1>2, <1>6 DEF StartCommit, Request
<1>7. CASE Enqueue(c) \/ RecordFails(c)
  <2>1. PICK step \in {"record", "recover"} : Goto(c, step)
    BY <1>7 DEF Enqueue, RecordFails
  <2>2. req'[c] = [req[c] EXCEPT !.pc = step]
    BY <1>2, <2>1 DEF Goto
  <2> QED
    BY <1>1, <2>2 DEF Request
<1> QED
  BY <1>3, <1>4, <1>5, <1>6, <1>7 DEF Api, NewRequest, Serve, ApiFault

LEMMA ReqStep == IInv /\ [Next]_vars => ReqLinked'
<1> SUFFICES ASSUME IInv, [Next]_vars PROVE ReqLinked'
  OBVIOUS
<1> DEFINE Points(c, request) ==
             request.run # NULL =>
                /\ run'[request.run].status # "absent"
                /\ task'[request.task].status \in TaskStatus =>
                      run'[request.run].task = request.task
           Good(c, request) ==
             /\ request.pc # "idle" =>
                  request.task \in Task /\ task'[request.task].status # "absent"
             /\ request.pc \in {"find", "unqueue", "suspend"} => request.to \in {"paused", "stopped"}
             /\ request.pc \in {"enqueue", "record", "recover", "recovering", "unqueue"} =>
                  request.run # NULL
             /\ request.pc \in {"idle", "start", "find", "update", "delete"} =>
                  request.run = NULL
             /\ Points(c, request)
<1>1. /\ TypeOK /\ RowsAge /\ ReqLinked
      /\ req \in [Thread -> Request]
      /\ task \in [Task -> TaskRow] /\ run \in [Run -> RunRow]
  BY RowsStep DEF IInv, Linked, TypeOK, StoreTypeOK, ApiTypeOK
<1>2. SUFFICES ASSUME NEW c \in Thread PROVE Good(c, req'[c])
  BY DEF ReqLinked, TaskExists
<1>3. /\ req[c] \in Request
      /\ req[c].pc # "idle" =>
            req[c].task \in Task /\ task'[req[c].task].status # "absent"
  BY <1>1 DEF ReqLinked, RowsAge
<1>4. Points(c, req[c])
  <2>1. ASSUME req[c].run # NULL
        PROVE  /\ req[c].run \in Run /\ req[c].task \in Task
               /\ task[req[c].task].status # "absent"
    BY <1>1, <2>1 DEF ReqLinked, Request
  <2> QED
    BY <1>1, <2>1 DEF ReqLinked, RowsAge, TaskExists
<1>5. CASE req'[c] = req[c]
  BY <1>1, <1>3, <1>4, <1>5 DEF ReqLinked
<1>6. ASSUME Api(c) PROVE Good(c, req'[c])
  <2> USE DEF At
  <2>1. ASSUME NEW request, Continue(c, request) PROVE req'[c] = request
    BY <1>1, <2>1 DEF Continue
  <2>2. ASSUME Done(c) PROVE Good(c, req'[c])
    BY <2>1, <2>2 DEF Done, Idle
  <2>3. ASSUME NEW step, Goto(c, step) PROVE req'[c] = [req[c] EXCEPT !.pc = step]
    BY <2>1, <2>3 DEF Goto
  <2>4. CASE UpdateRead(c) \/ DeleteRead(c) \/ StartRead(c) \/ SuspendRead(c)
    <3>1. req[c].pc = "idle" /\ req[c].run = NULL
      BY <1>1, <2>4 DEF UpdateRead, DeleteRead, StartRead, SuspendRead, ReqLinked
    <3>2. ASSUME NEW t \in Task, task'[t].status # "absent",
                 NEW step \in {"update", "delete", "start"},
                 req'[c].pc = step, req'[c].task = t, req'[c].run = req[c].run
          PROVE  Good(c, req'[c])
      BY <3>1, <3>2
    <3>3. \A t \in Task : /\ TaskExists(t) => task[t].status # "absent"
                          /\ task[t].status \in {"draft", "running", "paused"} =>
                                task[t].status # "absent"
      BY DEF TaskExists, TaskStatus
    <3>4. ASSUME UNCHANGED task, UpdateRead(c) PROVE Good(c, req'[c])
      <4>1. PICK t \in Task, n \in UrlCounts :
              TaskExists(t) /\ req'[c] = [req[c] EXCEPT !.pc = "update", !.task = t, !.urls = n]
        BY <2>1, <3>4 DEF UpdateRead
      <4>2. req'[c].pc = "update" /\ req'[c].task = t /\ req'[c].run = req[c].run
        BY <1>3, <4>1 DEF Request
      <4> QED
        BY <3>2, <3>3, <3>4, <4>1, <4>2
    <3>5. ASSUME UNCHANGED task, DeleteRead(c) \/ StartRead(c) PROVE Good(c, req'[c])
      <4>1. PICK t \in Task, step \in {"delete", "start"} :
              /\ TaskExists(t) \/ task[t].status \in {"draft", "paused"}
              /\ req'[c] = [req[c] EXCEPT !.pc = step, !.task = t]
        BY <2>1, <3>5 DEF DeleteRead, StartRead, Startable
      <4>2. req'[c].pc = step /\ req'[c].task = t /\ req'[c].run = req[c].run
        BY <1>3, <4>1 DEF Request
      <4> QED
        BY <3>2, <3>3, <3>5, <4>1, <4>2
    <3>6. ASSUME UNCHANGED task, SuspendRead(c) PROVE Good(c, req'[c])
      <4>1. PICK t \in Task, to \in {"paused", "stopped"} :
              /\ task[t].status \in {"running", "paused"}
              /\ req'[c] = [req[c] EXCEPT !.pc = "find", !.task = t, !.to = to]
        BY <2>1, <3>6 DEF SuspendRead, SuspendableFrom
      <4>2. /\ req'[c].pc = "find" /\ req'[c].task = t /\ req'[c].run = NULL
            /\ req'[c].to = to
        BY <1>3, <3>1, <4>1 DEF Request
      <4> QED
        BY <3>3, <3>6, <4>1, <4>2
    <3> QED
      BY <2>4, <3>4, <3>5, <3>6 DEF UpdateRead, DeleteRead, StartRead, SuspendRead
  <2>5. CASE StartCommit(c)
    <3>1. PICK r \in Run :
            /\ run' = [run EXCEPT ![r] = QueuedRun(req[c].task)]
            /\ Continue(c, [req[c] EXCEPT !.pc = "enqueue", !.run = r])
      BY <2>5 DEF StartCommit
    <3>2. run'[r].status = "queued" /\ run'[r].task = req[c].task
      BY <1>1, <3>1 DEF QueuedRun, BlankRun
    <3>3. r # NULL
      BY StoreAssumption DEF Run
    <3>4. req'[c].pc = "enqueue" /\ req'[c].task = req[c].task /\ req'[c].run = r
      BY <1>3, <2>1, <3>1 DEF Request
    <3>5. req[c].pc = "start"
      BY <2>5 DEF StartCommit
    <3> QED
      BY <1>3, <3>2, <3>3, <3>4, <3>5
  <2>6. CASE Enqueue(c) \/ EnqueueFails(c) \/ RecordFails(c) \/ RecoverRead(c)
    <3>1. /\ req'[c].run = req[c].run /\ req'[c].task = req[c].task
          /\ req'[c].pc \in {"record", "recover", "recovering"}
          /\ req[c].pc \in {"enqueue", "record", "recover"}
      <4>1. CASE Enqueue(c)
        <5>1. req'[c] = [req[c] EXCEPT !.pc = "record"] /\ req[c].pc = "enqueue"
          BY <2>3, <4>1 DEF Enqueue
        <5> QED
          BY <1>3, <5>1 DEF Request
      <4>2. CASE EnqueueFails(c)
        BY <1>3, <2>1, <4>2 DEF EnqueueFails, Request
      <4>3. CASE RecordFails(c)
        <5>1. req'[c] = [req[c] EXCEPT !.pc = "recover"] /\ req[c].pc = "record"
          BY <2>3, <4>3 DEF RecordFails
        <5> QED
          BY <1>3, <5>1 DEF Request
      <4>4. CASE RecoverRead(c)
        BY <1>3, <2>1, <4>4 DEF RecoverRead, Request
      <4> QED
        BY <2>6, <4>1, <4>2, <4>3, <4>4
    <3> QED
      BY <1>1, <1>3, <1>4, <3>1 DEF ReqLinked
  <2>7. CASE FindActiveRun(c)
    <3>1. req[c].pc = "find" /\ run' = run /\ task' = task /\ req[c].to \in {"paused", "stopped"}
      BY <1>1, <2>7 DEF FindActiveRun, ReqLinked
    <3>2. CASE Goto(c, "suspend")
      <4>1. req'[c] = [req[c] EXCEPT !.pc = "suspend"]
        BY <2>3, <3>2
      <4>2. /\ req'[c].pc = "suspend" /\ req'[c].task = req[c].task
            /\ req'[c].run = req[c].run /\ req'[c].to = req[c].to
        BY <1>3, <4>1 DEF Request
      <4> QED
        BY <1>3, <1>4, <3>1, <4>2
    <3>3. CASE \E r \in Run :
                 /\ IsLatestActive(req[c].task, r)
                 /\ Continue(c, [req[c] EXCEPT !.pc = AfterFind(r), !.run = r,
                                               !.seenRun = run[r].status])
      <4>1. PICK r \in Run :
              /\ IsLatestActive(req[c].task, r)
              /\ req'[c] = [req[c] EXCEPT !.pc = AfterFind(r), !.run = r,
                                          !.seenRun = run[r].status]
        BY <2>1, <3>3
      <4>2. run[r].task = req[c].task /\ run[r].status # "absent" /\ r # NULL
        BY <4>1, StoreAssumption DEF IsLatestActive, IsActive, ActiveStatus, Run
      <4>3. AfterFind(r) \in {"unqueue", "suspend"}
        BY DEF AfterFind
      <4> QED
        BY <1>3, <3>1, <4>1, <4>2, <4>3 DEF Request
    <3> QED
      BY <2>7, <3>2, <3>3 DEF FindActiveRun
  <2>8. CASE Unqueue(c) \/ UnqueueFails(c)
    <3>1. req'[c] = [req[c] EXCEPT !.pc = "suspend"] /\ req[c].pc = "unqueue"
      BY <2>3, <2>8 DEF Unqueue, UnqueueFails
    <3> QED
      BY <1>1, <1>3, <1>4, <3>1 DEF ReqLinked, Request
  <2>9. CASE CreateTask(c) \/ CloneTask(c)
    BY <1>5, <2>9 DEF CreateTask, CloneTask
  <2>10. CASE \/ UpdateCommit(c) \/ DeleteCommit(c) \/ RecordJob(c) \/ RecoverCommit(c)
              \/ SuspendCommit(c) \/ RowGone(c) \/ ApiCrash(c)
    BY <2>2, <2>10
       DEF UpdateCommit, DeleteCommit, RecordJob, RecoverCommit, SuspendCommit, RowGone, ApiCrash
  <2> QED
    BY <1>6, <2>4, <2>5, <2>6, <2>7, <2>8, <2>9, <2>10 DEF Api, NewRequest, Serve, ApiFault
<1> QED
  BY <1>1, <1>5, <1>6, OtherThread DEF Next, RedisRestart, vars

LEMMA QueueStep == IInv /\ [Next]_vars => QueueLinked'
<1> SUFFICES ASSUME IInv, [Next]_vars PROVE QueueLinked'
  OBVIOUS
<1>1. RowsAge /\ QueueLinked /\ ReqLinked /\ queue \in Seq(Run)
  BY RowsStep DEF IInv, Linked, TypeOK, QueueTypeOK
<1>2. \A i \in DOMAIN queue : queue[i] \in Run /\ run'[queue[i]].status # "absent"
  BY <1>1 DEF QueueLinked, RowsAge
<1>3. ASSUME UNCHANGED queue PROVE QueueLinked'
  BY <1>2, <1>3 DEF QueueLinked
<1>4. ASSUME NEW r, Withdraw(r) \/ Take(r) \/ Forget PROVE QueueLinked'
  BY <1>1, <1>2, <1>4, QueueOps DEF QueueLinked
<1>5. ASSUME NEW c \in Thread, Enqueue(c) \/ EnqueueFails(c) PROVE QueueLinked'
  <2>1. req[c].run \in Run /\ run[req[c].run].status # "absent"
    BY <1>1, <1>5 DEF Enqueue, EnqueueFails, At, ReqLinked, IInv, TypeOK, ApiTypeOK, Request
  <2>2. run'[req[c].run].status # "absent"
    BY <1>1, <2>1 DEF RowsAge
  <2>3. CASE Push(req[c].run)
    BY <1>1, <1>2, <2>1, <2>2, <2>3, QueueOps DEF QueueLinked
  <2> QED
    BY <1>3, <1>5, <2>3 DEF Enqueue, EnqueueFails
<1>6. ASSUME NEW c \in Thread, Api(c) PROVE QueueLinked'
  BY <1>3, <1>4, <1>5, <1>6
     DEF Api, NewRequest, Serve, ApiFault, CreateTask, CloneTask, UpdateRead, UpdateCommit,
         DeleteRead, DeleteCommit, StartRead, StartCommit, RecordJob, RecordFails, RecoverRead,
         RecoverCommit, SuspendRead, FindActiveRun, Unqueue, UnqueueFails, SuspendCommit,
         RowGone, ApiCrash
<1>7. ASSUME NEW w \in Process, Perform(w) PROVE QueueLinked'
  BY <1>3, <1>4, <1>7
     DEF Perform, Work, Dequeue, Load, Begin, Refresh, Visit, StorePage, StoreConflict, Finish,
         PageError, Reload, MarkFailed, RunGone, WorkerCrash
<1>8. CASE RedisRestart
  BY <1>4, <1>8 DEF RedisRestart
<1>9. CASE UNCHANGED vars
  BY <1>3, <1>9 DEF vars
<1> QED
  BY <1>6, <1>7, <1>8, <1>9 DEF Next

LEMMA JobStep == IInv /\ [Next]_vars => JobLinked'
<1> SUFFICES ASSUME IInv, [Next]_vars PROVE JobLinked'
  OBVIOUS
<1> DEFINE Good(work) ==
             /\ work.pc = "idle" <=> work.run = NULL
             /\ work.run # NULL => run'[work.run].status # "absent"
             /\ work.pc \in {"refresh", "visit", "store", "finish"} =>
                   work.page \in 1..work.urls
             /\ work.pc = "store" => work.url # NULL
<1>1. /\ TypeOK /\ RowsAge /\ JobLinked /\ QueueLinked
      /\ job \in [Process -> Job] /\ queue \in Seq(Run)
  BY RowsStep DEF IInv, Linked, TypeOK, WorkerTypeOK, QueueTypeOK
<1>2. SUFFICES ASSUME NEW w \in Process PROVE Good(job'[w])
  BY DEF JobLinked
<1>3. /\ job[w] \in Job
      /\ job[w].pc = "idle" <=> job[w].run = NULL
      /\ job[w].run # NULL => job[w].run \in Run /\ run'[job[w].run].status # "absent"
      /\ job[w].pc \in {"refresh", "visit", "store", "finish"} =>
            job[w].page \in 1..job[w].urls
      /\ job[w].pc = "store" => job[w].url # NULL
  BY <1>1 DEF JobLinked, Job, RowsAge
<1>4. CASE job'[w] = job[w]
  BY <1>3, <1>4
<1>5. ASSUME Perform(w) PROVE Good(job'[w])
  <2> USE DEF Doing
  <2>1. ASSUME NEW work, Proceed(w, work) PROVE job'[w] = work
    BY <1>1, <2>1 DEF Proceed
  <2>2. ASSUME Drop(w) PROVE Good(job'[w])
    BY <2>1, <2>2 DEF Drop, NoJob
  <2>3. ASSUME NEW step, Advance(w, step) PROVE job'[w] = [job[w] EXCEPT !.pc = step]
    BY <2>1, <2>3 DEF Advance
  \* A step that keeps the job's run and leaves the loop.
  <2>4. ASSUME job[w].pc # "idle", job'[w].run = job[w].run,
               job'[w].pc \in {"load", "begin", "failing", "rollback"}
        PROVE  Good(job'[w])
    BY <1>3, <2>4
  <2>14. ASSUME job[w].pc # "idle", Raise(w) PROVE Good(job'[w])
    <3>1. PICK step \in {"failing", "rollback"} :
            job'[w] = [job[w] EXCEPT !.pc = step, !.url = NULL, !.fresh = FALSE]
      BY <2>1, <2>14 DEF Raise
    <3>2. job'[w].pc = step /\ job'[w].run = job[w].run
      BY <1>3, <3>1 DEF Job
    <3> QED
      BY <2>4, <2>14, <3>2
  <2>5. CASE Dequeue(w)
    <3>1. PICK r \in Run : Take(r) /\ job'[w] = [job[w] EXCEPT !.pc = "load", !.run = r]
      BY <2>1, <2>5 DEF Dequeue
    <3>2. run[r].status # "absent" /\ r # NULL
      BY <1>1, <3>1, QueueOps, StoreAssumption DEF QueueLinked, Run
    <3>3. job'[w].pc = "load" /\ job'[w].run = r
      BY <1>3, <3>1 DEF Job
    <3> QED
      BY <1>1, <3>2, <3>3 DEF RowsAge
  <2>6. CASE Load(w)
    <3>1. CASE Proceed(w, Loaded(w, job[w].run))
      <4>1. job'[w] = Loaded(w, job[w].run) /\ job[w].pc = "load"
        BY <2>1, <2>6, <3>1 DEF Load
      <4>2. job'[w].run = job[w].run /\ job'[w].pc \in {"begin", "failing"}
        BY <1>3, <4>1 DEF Loaded, Job
      <4> QED
        BY <2>4, <4>1, <4>2
    <3> QED
      BY <2>2, <2>6, <3>1 DEF Load
  <2>7. CASE Begin(w)
    <3>1. job[w].pc = "begin"
      BY <2>7 DEF Begin
    <3>2. CASE job[w].urls = 0
      <4>1. job'[w] = [job[w] EXCEPT !.pc = "failing"]
        BY <2>3, <2>7, <3>2 DEF Begin
      <4>2. job'[w].pc = "failing" /\ job'[w].run = job[w].run
        BY <1>3, <4>1 DEF Job
      <4> QED
        BY <2>4, <3>1, <4>2
    <3>3. CASE job[w].urls # 0
      <4>1. job'[w] = [job[w] EXCEPT !.pc = "refresh", !.page = 1]
        BY <2>1, <2>7, <3>3 DEF Begin
      <4>2. /\ job'[w].pc = "refresh" /\ job'[w].run = job[w].run
            /\ job'[w].page = 1 /\ job'[w].urls = job[w].urls
        BY <1>3, <4>1 DEF Job
      <4>3. job[w].urls \in Nat \ {0}
        BY <1>3, <3>3, StoreAssumption DEF Job
      <4> QED
        BY <1>3, <3>1, <4>2, <4>3
    <3> QED
      BY <3>2, <3>3
  <2>8. CASE Refresh(w)
    <3>1. PICK step \in {"rollback", "visit"} : job'[w] = [job[w] EXCEPT !.pc = step]
      BY <2>3, <2>8 DEF Refresh
    <3>2. /\ job[w].pc = "refresh" /\ job'[w].pc = step /\ job'[w].run = job[w].run
          /\ job'[w].page = job[w].page /\ job'[w].urls = job[w].urls
      BY <1>3, <2>8, <3>1 DEF Refresh, Job
    <3> QED
      BY <1>3, <3>2
  <2>9. CASE Visit(w)
    <3>1. PICK u \in Url, fresh \in BOOLEAN :
            job'[w] = [job[w] EXCEPT !.pc = "store", !.url = u, !.fresh = fresh]
      BY <2>1, <2>9 DEF Visit, IsNewSite
    <3>2. /\ job[w].pc = "visit" /\ job'[w].pc = "store" /\ job'[w].run = job[w].run
          /\ job'[w].page = job[w].page /\ job'[w].urls = job[w].urls /\ job'[w].url = u
      BY <1>3, <2>9, <3>1 DEF Visit, Job
    <3>3. u # NULL
      BY StoreAssumption
    <3> QED
      BY <1>3, <3>2, <3>3
  <2>10. CASE StorePage(w)
    <3>1. CASE AnswerLost(w)
      BY <2>10, <2>14, <3>1 DEF StorePage, AnswerLost
    <3>2. CASE Proceed(w, AfterPage(w))
      <4>1. job[w].pc = "store" /\ job'[w] = AfterPage(w)
        BY <2>1, <2>10, <3>2 DEF StorePage
      <4>2. job[w].urls \in Nat /\ job[w].page \in 1..job[w].urls
        BY <1>3, <4>1, StoreAssumption DEF Job
      <4>3. CASE job[w].page < job[w].urls
        <5>1. /\ job'[w].pc = "refresh" /\ job'[w].run = job[w].run
              /\ job'[w].page = job[w].page + 1 /\ job'[w].urls = job[w].urls
          BY <1>3, <4>1, <4>3 DEF AfterPage, Job
        <5> QED
          BY <1>3, <4>1, <4>2, <4>3, <5>1
      <4>4. CASE ~(job[w].page < job[w].urls)
        <5>1. /\ job'[w].pc = "finish" /\ job'[w].run = job[w].run
              /\ job'[w].page = job[w].page /\ job'[w].urls = job[w].urls
          BY <1>3, <4>1, <4>4 DEF AfterPage, Job
        <5> QED
          BY <1>3, <4>1, <5>1
      <4> QED
        BY <4>3, <4>4
    <3> QED
      BY <2>10, <3>1, <3>2 DEF StorePage
  <2>11. CASE StoreConflict(w) \/ PageError(w)
    BY <2>11, <2>14 DEF StoreConflict, PageError
  <2>12. CASE Reload(w)
    <3>1. /\ job[w].pc = "rollback"
          /\ job'[w] = [job[w] EXCEPT !.pc = "failing", !.seenTask = task[TaskOf(w)].status]
      BY <2>1, <2>12 DEF Reload
    <3>2. job'[w].pc = "failing" /\ job'[w].run = job[w].run
      BY <1>3, <3>1 DEF Job
    <3> QED
      BY <2>4, <3>1, <3>2
  <2>13. CASE Finish(w) \/ MarkFailed(w) \/ RunGone(w) \/ WorkerCrash(w)
    BY <2>2, <2>13, <2>14 DEF Finish, AnswerLost, MarkFailed, RunGone, WorkerCrash
  <2> QED
    BY <1>5, <2>5, <2>6, <2>7, <2>8, <2>9, <2>10, <2>11, <2>12, <2>13 DEF Perform, Work
<1> QED
  BY <1>1, <1>4, <1>5, OtherWorker DEF Next, RedisRestart, vars

-----------------------------------------------------------------------------
(* Cancellation                                                            *)

\* The ways in which a step can leave a run's row.
LEMMA RunWrites ==
    ASSUME TypeOK, ReqLinked, JobLinked, [Next]_vars, NEW r \in Run
    PROVE  \/ run'[r].status = "deleted"
           \/ run'[r].status = "queued" /\ ~run'[r].cancel_requested
           \/ /\ run'[r].cancel_requested = run[r].cancel_requested
              /\ run'[r].status = run[r].status \/ run'[r].status # "queued"
           \/ \E c \in Thread :
                 /\ At(c, "suspend") /\ req[c].run = r
                 /\ run'[r] = Cancelled(run[r], req[c].seenRun)
<1> DEFINE Kept == /\ run'[r].cancel_requested = run[r].cancel_requested
                   /\ run'[r].status = run[r].status \/ run'[r].status # "queued"
<1>1. run \in [Run -> RunRow] /\ run[r] \in RunRow
  BY DEF TypeOK, StoreTypeOK
<1>2. ASSUME UNCHANGED run PROVE Kept
  BY <1>2
<1>3. ASSUME NEW c \in Thread, DeleteCommit(c)
      PROVE  run'[r].status = "deleted" \/ Kept
  BY <1>1, <1>3 DEF DeleteCommit, DeleteTask, GoneRun, BlankRun
<1>4. ASSUME NEW c \in Thread, StartCommit(c)
      PROVE  \/ run'[r].status = "queued" /\ ~run'[r].cancel_requested
             \/ Kept
  BY <1>1, <1>4 DEF StartCommit, QueuedRun, BlankRun
<1>5. ASSUME NEW c \in Thread, RecordJob(c) \/ RecordFails(c)
      PROVE  Kept
  <2>1. run'[r] = run[r] \/ run'[r] = [run[r] EXCEPT !.queue_job_id = TRUE]
    BY <1>1, <1>5 DEF RecordJob, RecordFails
  <2> QED
    BY <1>1, <2>1 DEF RunRow
<1>6. ASSUME NEW c \in Thread, RecoverCommit(c)
      PROVE  Kept
  BY <1>1, <1>6 DEF RecoverCommit, RecoveredRun, RunRow
<1>7. ASSUME NEW c \in Thread, SuspendCommit(c)
      PROVE  \/ /\ At(c, "suspend") /\ req[c].run = r
                /\ run'[r] = Cancelled(run[r], req[c].seenRun)
             \/ Kept
  BY <1>1, <1>7 DEF SuspendCommit
<1>8. ASSUME NEW w \in Process, Begin(w) \/ StorePage(w)
      PROVE  Kept
  BY <1>1, <1>8 DEF Begin, StorePage, RunRow
<1>9. ASSUME NEW w \in Process, Finish(w) \/ MarkFailed(w)
      PROVE  Kept
  <2>1. PICK status \in {"success", "failed"} : \E good, bad :
          run' = [run EXCEPT ![job[w].run] = Ended(run[job[w].run], status, good, bad)]
    BY <1>1, <1>9 DEF Finish, MarkFailed
  <2>2. PICK good, bad :
          run' = [run EXCEPT ![job[w].run] = Ended(run[job[w].run], status, good, bad)]
    BY <2>1
  <2>3. run'[r] = run[r] \/ run'[r] = Ended(run[r], status, good, bad)
    BY <1>1, <2>2
  <2>4. /\ Ended(run[r], status, good, bad).status = status
        /\ Ended(run[r], status, good, bad).cancel_requested = run[r].cancel_requested
    BY <1>1 DEF Ended, RunRow
  <2> QED
    BY <2>3, <2>4
<1> HIDE DEF Kept
<1>10. ASSUME NEW c \in Thread, Api(c)
       PROVE  \/ Kept
              \/ run'[r].status = "deleted"
              \/ run'[r].status = "queued" /\ ~run'[r].cancel_requested
              \/ /\ At(c, "suspend") /\ req[c].run = r
                 /\ run'[r] = Cancelled(run[r], req[c].seenRun)
  <2>1. ASSUME NewRequest(c) PROVE UNCHANGED run
    BY <2>1 DEF NewRequest, CreateTask, CloneTask, InsertTask, UpdateRead, DeleteRead,
                      StartRead, SuspendRead
  <2>2. ASSUME \/ UpdateCommit(c) \/ Enqueue(c) \/ RecoverRead(c) \/ FindActiveRun(c)
               \/ Unqueue(c) \/ RowGone(c)
               \/ EnqueueFails(c) \/ UnqueueFails(c) \/ ApiCrash(c)
        PROVE  UNCHANGED run
    BY <2>2 DEF UpdateCommit, Enqueue, RecoverRead, FindActiveRun, Unqueue, RowGone,
                      EnqueueFails, UnqueueFails, ApiCrash
  <2> QED
    BY <1>2, <1>3, <1>4, <1>5, <1>6, <1>7, <1>10, <2>1, <2>2 DEF Api, Serve, ApiFault
<1>11. ASSUME NEW w \in Process, Perform(w) PROVE Kept
  BY <1>2, <1>8, <1>9, <1>11
     DEF Perform, Work, Dequeue, Load, Refresh, Visit, StoreConflict, PageError, Reload, RunGone,
         WorkerCrash
<1>12. CASE RedisRestart \/ UNCHANGED vars
  BY <1>2, <1>12 DEF RedisRestart, vars, Kept
<1> QED
  BY <1>10, <1>11, <1>12 DEF Next, Kept

LEMMA CancelStep == IInv /\ [Next]_vars => CancelledNotQueued' /\ SuspendSeen'
<1> SUFFICES ASSUME IInv, [Next]_vars PROVE CancelledNotQueued' /\ SuspendSeen'
  OBVIOUS
<1>1. /\ RowsAge /\ TypeOK /\ ReqLinked /\ JobLinked /\ CancelledNotQueued /\ SuspendSeen
      /\ req \in [Thread -> Request] /\ run \in [Run -> RunRow]
  BY RowsStep DEF IInv, Linked, TypeOK, ApiTypeOK, StoreTypeOK
<1>2. ASSUME NEW r \in Run, run'[r].cancel_requested PROVE run'[r].status # "queued"
  <2>1. ASSUME NEW c \in Thread, At(c, "suspend"), req[c].run = r,
               run'[r] = Cancelled(run[r], req[c].seenRun)
        PROVE  run'[r].status # "queued"
    <3>1. CASE req[c].seenRun = "queued"
      BY <1>1, <2>1, <3>1 DEF Cancelled, RunRow
    <3>2. CASE req[c].seenRun # "queued"
      <4>1. run[r].status # "queued"
        BY <1>1, <2>1, <3>2, StoreAssumption DEF SuspendSeen, At, Run
      <4> QED
        BY <1>1, <2>1, <3>2, <4>1 DEF Cancelled, RunRow
    <3> QED
      BY <3>1, <3>2
  <2>2. CASE /\ run'[r].cancel_requested = run[r].cancel_requested
             /\ run'[r].status = run[r].status \/ run'[r].status # "queued"
    BY <1>1, <1>2, <2>2 DEF CancelledNotQueued
  <2> QED
    BY <1>1, <1>2, <2>1, <2>2, RunWrites
<1>3. ASSUME NEW c \in Thread, req'[c].pc \in {"unqueue", "suspend"},
             req'[c].run # NULL, req'[c].seenRun # "queued"
      PROVE  run'[req'[c].run].status # "queued"
  <2>1. req[c] \in Request
    BY <1>1
  \* The thread remembers what it remembered before this step.
  <2>2. ASSUME req[c].pc \in {"unqueue", "suspend"},
               req'[c].run = req[c].run, req'[c].seenRun = req[c].seenRun
        PROVE  run'[req'[c].run].status # "queued"
    <3>1. req[c].run \in Run /\ run[req[c].run].status \notin {"absent", "queued"}
      BY <1>1, <1>3, <2>1, <2>2 DEF SuspendSeen, ReqLinked, Request
    <3> QED
      BY <1>1, <2>2, <3>1 DEF RowsAge
  <2>3. CASE req'[c] = req[c]
    BY <1>3, <2>2, <2>3
  <2>4. CASE Api(c)
    <3> USE DEF At
    <3>1. ASSUME NEW request, Continue(c, request) PROVE req'[c] = request
      BY <1>1, <3>1 DEF Continue
    <3>2. ASSUME NEW step, Goto(c, step) PROVE req'[c] = [req[c] EXCEPT !.pc = step]
      BY <3>1, <3>2 DEF Goto
    <3>3. CASE FindActiveRun(c)
      <4>1. CASE Goto(c, "suspend")
        <5>1. req'[c].run = req[c].run /\ req[c].pc = "find"
          BY <2>1, <3>2, <3>3, <4>1 DEF FindActiveRun, Request
        <5> QED
          BY <1>1, <1>3, <5>1 DEF ReqLinked
      <4>2. CASE \E r \in Run :
                   Continue(c, [req[c] EXCEPT !.pc = AfterFind(r), !.run = r,
                                              !.seenRun = run[r].status])
        <5>1. PICK r \in Run : req'[c] = [req[c] EXCEPT !.pc = AfterFind(r), !.run = r,
                                                        !.seenRun = run[r].status]
          BY <3>1, <4>2
        <5>2. req'[c].run = r /\ req'[c].seenRun = run[r].status /\ run' = run
          BY <2>1, <3>3, <5>1 DEF FindActiveRun, Request
        <5> QED
          BY <1>3, <5>2
      <4> QED
        BY <3>3, <4>1, <4>2 DEF FindActiveRun
    <3>4. CASE Unqueue(c) \/ UnqueueFails(c)
      <4>1. req'[c] = [req[c] EXCEPT !.pc = "suspend"] /\ req[c].pc = "unqueue"
        BY <3>2, <3>4 DEF Unqueue, UnqueueFails
      <4> QED
        BY <2>1, <2>2, <4>1 DEF Request
    <3>5. ASSUME EnqueueFails(c) \/ RecoverRead(c) PROVE req'[c].pc = "recovering"
      BY <2>1, <3>1, <3>5 DEF EnqueueFails, RecoverRead, Request
    <3> QED
      BY <1>1, <1>3, <2>3, <2>4, <3>3, <3>4, <3>5, ReqWrites
  <2> QED
    BY <1>1, <2>3, <2>4, OtherThread DEF Next, RedisRestart, vars
<1> QED
  BY <1>2, <1>3 DEF CancelledNotQueued, SuspendSeen

-----------------------------------------------------------------------------
(* Running tasks                                                           *)

LEMMA KeptByApi ==
    ASSUME TypeOK, Linked, RowsAge, NEW c \in Thread, Api(c), UNCHANGED job,
           NEW t \in Task, task[t].status = "running", task'[t].status = "running",
           NEW r \in Run, KeepsRunning(t, r)
    PROVE  KeepsRunning(t, r)'
<1> USE DEF At
<1>1. /\ task \in [Task -> TaskRow] /\ run \in [Run -> RunRow]
      /\ req \in [Thread -> Request] /\ req[c] \in Request
      /\ run[r].task = t /\ run[r].status \in ActiveStatus
      /\ ReqLinked
      /\ r # NULL
  BY StoreAssumption
     DEF TypeOK, StoreTypeOK, ApiTypeOK, KeepsRunning, IsActive, Linked, Run
<1>2. ASSUME req[c].run = r, TaskExists(req[c].task) PROVE req[c].task = t
  BY <1>1, <1>2 DEF ReqLinked
<1>3. req[c].pc # "idle" => req[c].task \in Task
  BY <1>1 DEF ReqLinked
<1>4. run'[r].task = t
  BY <1>1 DEF RowsAge, TaskStatus
<1>5. run'[r].status \in ActiveStatus
  <2>1. CASE DeleteCommit(c)
    <3>1. req[c].task \in Task /\ task'[req[c].task].status = "deleted"
      BY <1>1, <1>3, <2>1 DEF DeleteCommit, DeleteTask, BlankTask
    <3>2. run'[r] = run[r]
      BY <1>1, <2>1, <3>1 DEF DeleteCommit, DeleteTask
    <3> QED
      BY <1>1, <3>2
  <2>2. CASE StartCommit(c)
    <3>1. PICK q \in Run : IsNextRun(q) /\ run' = [run EXCEPT ![q] = QueuedRun(req[c].task)]
      BY <2>2 DEF StartCommit
    <3>2. q # r
      BY <1>1, <3>1 DEF IsNextRun, ActiveStatus
    <3> QED
      BY <1>1, <3>1, <3>2
  <2>3. CASE RecordJob(c) \/ RecordFails(c)
    <3>1. run'[r] = run[r] \/ run'[r] = [run[r] EXCEPT !.queue_job_id = TRUE]
      BY <1>1, <2>3 DEF RecordJob, RecordFails
    <3>2. [run[r] EXCEPT !.queue_job_id = TRUE].status = run[r].status
      BY <1>1 DEF RunRow
    <3> QED
      BY <1>1, <3>1, <3>2
  <2>4. CASE RecoverCommit(c)
    <3>1. ASSUME req[c].run = r PROVE FALSE
      <4>1. req[c].task = t /\ req[c].seenTask = "running"
        BY <1>2, <2>4, <3>1 DEF RecoverCommit, KeepsRunning
      <4>2. task'[t] = RecoveredTask(task[t], "running")
        BY <1>1, <2>4, <4>1 DEF RecoverCommit
      <4>3. RecoveredTask(task[t], "running").status = "failed"
        BY <1>1 DEF RecoveredTask, TaskRow
      <4> QED
        BY <4>2, <4>3
    <3> QED
      BY <1>1, <2>4, <3>1 DEF RecoverCommit
  <2>5. CASE SuspendCommit(c)
    <3>1. ASSUME req[c].run = r PROVE FALSE
      <4>1. req[c].task = t /\ req[c].to \in {"paused", "stopped"}
        BY <1>1, <1>2, <2>5, <3>1 DEF SuspendCommit, ReqLinked
      <4>2. task'[t].status = req[c].to
        BY <1>1, <2>5, <4>1 DEF SuspendCommit, TaskRow
      <4> QED
        BY <4>1, <4>2
    <3> QED
      BY <1>1, <2>5, <3>1 DEF SuspendCommit
  <2>6. ASSUME NewRequest(c) PROVE UNCHANGED run
    BY <2>6 DEF NewRequest, CreateTask, CloneTask, InsertTask, UpdateRead, DeleteRead,
                StartRead, SuspendRead
  <2>7. ASSUME \/ UpdateCommit(c) \/ Enqueue(c) \/ RecoverRead(c) \/ FindActiveRun(c)
               \/ Unqueue(c) \/ RowGone(c)
               \/ EnqueueFails(c) \/ UnqueueFails(c) \/ ApiCrash(c)
        PROVE  UNCHANGED run
    BY <2>7 DEF UpdateCommit, Enqueue, RecoverRead, FindActiveRun, Unqueue, RowGone,
                EnqueueFails, UnqueueFails, ApiCrash
  <2> QED
    BY <1>1, <2>1, <2>2, <2>3, <2>4, <2>5, <2>6, <2>7 DEF Api, Serve, ApiFault
<1>6. ASSUME NEW d \in Thread, req'[d].pc = "recovering", req'[d].run = r
      PROVE  req'[d].seenTask = "running"
  <2>1. CASE d # c \/ req'[d] = req[d]
    BY <1>6, <2>1, OtherThread DEF KeepsRunning
  <2>2. CASE d = c
    <3>1. ASSUME NEW request, Continue(c, request) PROVE req'[c] = request
      BY <1>1, <3>1 DEF Continue
    <3>2. CASE EnqueueFails(c)
      BY <1>1, <2>2, <3>1, <3>2 DEF EnqueueFails, Request
    <3>3. CASE RecoverRead(c)
      <4>1. /\ req'[c].run = req[c].run /\ req'[c].seenTask = task[req[c].task].status
            /\ TaskExists(req[c].task)
        BY <1>1, <3>1, <3>3 DEF RecoverRead, Request
      <4> QED
        BY <1>2, <1>6, <2>2, <4>1
    <3>4. ASSUME NEW step \in {"suspend", "unqueue"}, NEW q, NEW seen,
                 \/ Goto(c, step)
                 \/ Continue(c, [req[c] EXCEPT !.pc = step, !.run = q, !.seenRun = seen])
          PROVE  req'[c].pc = step
      BY <1>1, <3>1, <3>4 DEF Goto, Request
    <3>5. CASE FindActiveRun(c)
      <4>1. \A q \in Run : AfterFind(q) \in {"suspend", "unqueue"}
        BY DEF AfterFind
      <4> QED
        BY <1>6, <2>2, <3>4, <3>5, <4>1 DEF FindActiveRun
    <3>6. CASE Unqueue(c) \/ UnqueueFails(c)
      BY <1>6, <2>2, <3>4, <3>6 DEF Unqueue, UnqueueFails
    <3> QED
      BY <1>6, <2>1, <2>2, <3>2, <3>3, <3>5, <3>6, ReqWrites
  <2> QED
    BY <2>1, <2>2
<1>7. \A w \in Process : job'[w].run = r /\ job'[w].pc # "load" => job'[w].seenTask = "running"
  BY DEF KeepsRunning, Holds, Doing
<1> QED
  BY <1>4, <1>5, <1>6, <1>7 DEF KeepsRunning, IsActive, Holds, Doing

LEMMA KeptByWork ==
    ASSUME TypeOK, Linked, RowsAge, NEW w \in Process, Perform(w), UNCHANGED req,
           NEW t \in Task, task[t].status = "running", task'[t].status = "running",
           NEW r \in Run, KeepsRunning(t, r)
    PROVE  KeepsRunning(t, r)'
<1> USE DEF Doing, TaskOf
<1>1. /\ task \in [Task -> TaskRow] /\ run \in [Run -> RunRow]
      /\ job \in [Process -> Job] /\ job[w] \in Job
      /\ run[r].task = t /\ run[r].status \in ActiveStatus
      /\ JobLinked
      /\ r # NULL
  BY StoreAssumption
     DEF TypeOK, StoreTypeOK, WorkerTypeOK, KeepsRunning, IsActive, Linked, Run
<1>2. run'[r].task = t
  BY <1>1 DEF RowsAge, TaskStatus
<1>3. job[w].run = r /\ job[w].pc # "load" => job[w].seenTask = "running"
  BY DEF KeepsRunning, Holds
<1>4. run'[r].status \in ActiveStatus
  <2>1. CASE Finish(w) \/ MarkFailed(w)
    <3>1. ASSUME job[w].run = r PROVE FALSE
      <4>1. job[w].seenTask = "running"
        BY <1>3, <2>1, <3>1 DEF Finish, MarkFailed
      <4>2. task' = [task EXCEPT ![t].status = "completed"]
            \/ task' = [task EXCEPT ![t].status = "failed"]
        BY <1>1, <2>1, <3>1, <4>1 DEF Finish, MarkFailed, KeepsStatus
      <4> QED
        BY <1>1, <4>2 DEF TaskRow
    <3> QED
      BY <1>1, <2>1, <3>1 DEF Finish, MarkFailed
  <2>2. CASE Begin(w) \/ StorePage(w)
    <3>1. run'[r].status \in {run[r].status, "running"}
      BY <1>1, <2>2 DEF Begin, StorePage, RunRow
    <3> QED
      BY <1>1, <3>1 DEF ActiveStatus
  <2>3. CASE UNCHANGED run
    BY <1>1, <2>3
  <2> QED
    BY <2>1, <2>2, <2>3
       DEF Perform, Work, Dequeue, Load, Refresh, Visit, StoreConflict, PageError, Reload,
           RunGone, WorkerCrash
<1>5. ASSUME NEW v \in Process, job'[v].run = r, job'[v].pc # "load"
      PROVE  job'[v].seenTask = "running"
  <2>1. CASE v # w
    BY <1>5, <2>1, OtherWorker DEF KeepsRunning, Holds
  <2>2. CASE v = w
    <3>1. ASSUME NEW work, Proceed(w, work) PROVE job'[w] = work
      BY <1>1, <3>1 DEF Proceed
    <3>2. ASSUME Drop(w) PROVE FALSE
      BY <1>1, <1>5, <2>2, <3>1, <3>2 DEF Drop, NoJob
    \* A step that keeps the run and the status remembered of its task.
    <3>3. ASSUME job[w].pc # "load", job'[w].run = job[w].run,
                 job'[w].seenTask = job[w].seenTask
          PROVE  job'[w].seenTask = "running"
      BY <1>3, <1>5, <2>2, <3>3
    <3>11. ASSUME job[w].pc # "load", Raise(w) PROVE job'[w].seenTask = "running"
      <4>1. PICK step \in {"failing", "rollback"} :
              job'[w] = [job[w] EXCEPT !.pc = step, !.url = NULL, !.fresh = FALSE]
        BY <3>1, <3>11 DEF Raise
      <4>2. job'[w].run = job[w].run /\ job'[w].seenTask = job[w].seenTask
        BY <1>1, <4>1 DEF Job
      <4> QED
        BY <3>3, <3>11, <4>2
    <3>4. CASE Dequeue(w)
      BY <1>1, <1>5, <2>2, <3>1, <3>4 DEF Dequeue, Job
    <3>5. CASE Load(w)
      <4>1. job'[w] = Loaded(w, job[w].run)
        BY <3>1, <3>2, <3>5 DEF Load
      <4>2. job'[w].run = job[w].run /\ job'[w].seenTask = task[run[job[w].run].task].status
        BY <1>1, <4>1 DEF Loaded, Job
      <4> QED
        BY <1>1, <1>5, <2>2, <4>2
    <3>6. CASE Reload(w)
      <4>1. job'[w].run = job[w].run /\ job'[w].seenTask = task[run[job[w].run].task].status
        BY <1>1, <3>1, <3>6 DEF Reload, Job
      <4> QED
        BY <1>1, <1>5, <2>2, <4>1
    <3>7. CASE Begin(w)
      <4>1. \/ job'[w] = [job[w] EXCEPT !.pc = "failing"]
            \/ job'[w] = [job[w] EXCEPT !.pc = "refresh", !.page = 1]
        BY <3>1, <3>7 DEF Begin, Advance
      <4> QED
        BY <1>1, <2>2, <3>3, <3>7, <4>1 DEF Begin, Job
    <3>8. CASE Refresh(w)
      <4>1. PICK step \in {"rollback", "visit"} : job'[w] = [job[w] EXCEPT !.pc = step]
        BY <3>1, <3>8 DEF Refresh, Advance
      <4> QED
        BY <1>1, <2>2, <3>3, <3>8, <4>1 DEF Refresh, Job
    <3>9. CASE Visit(w)
      <4>1. PICK u \in Url, fresh \in BOOLEAN :
              job'[w] = [job[w] EXCEPT !.pc = "store", !.url = u, !.fresh = fresh]
        BY <3>1, <3>9 DEF Visit, IsNewSite
      <4> QED
        BY <1>1, <2>2, <3>3, <3>9, <4>1 DEF Visit, Job
    <3>10. CASE StorePage(w)
      <4>1. AfterPage(w).run = job[w].run /\ AfterPage(w).seenTask = job[w].seenTask
        BY <1>1 DEF AfterPage, Job
      <4>2. job[w].pc = "store"
        BY <3>10 DEF StorePage
      <4>3. job'[w] = AfterPage(w) \/ Raise(w)
        BY <3>1, <3>10 DEF StorePage, AnswerLost
      <4> QED
        BY <2>2, <3>3, <3>11, <4>1, <4>2, <4>3
    <3>12. CASE StoreConflict(w) \/ Finish(w) \/ PageError(w)
      <4>1. job[w].pc \in {"refresh", "visit", "store", "finish"}
        BY <3>12 DEF StoreConflict, Finish, PageError
      <4>2. Raise(w) \/ Drop(w)
        BY <3>12 DEF StoreConflict, Finish, AnswerLost, PageError
      <4> QED
        BY <2>2, <3>2, <3>11, <4>1, <4>2
    <3> QED
      BY <2>2, <3>2, <3>4, <3>5, <3>6, <3>7, <3>8, <3>9, <3>10, <3>12
         DEF Perform, Work, MarkFailed, RunGone, WorkerCrash
  <2> QED
    BY <2>1, <2>2
<1>6. \A c \in Thread :
         req'[c].pc = "recovering" /\ req'[c].run = r => req'[c].seenTask = "running"
  BY DEF KeepsRunning, At
<1> QED
  BY <1>2, <1>4, <1>5, <1>6 DEF KeepsRunning, IsActive, Holds, At

\* The run that a start creates is still known to nobody else.
LEMMA KeptByStart ==
    ASSUME TypeOK, Linked, NEW c \in Thread, StartCommit(c), UNCHANGED job,
           NEW t \in Task, req[c].task = t
    PROVE  \E r \in Run : KeepsRunning(t, r)'
<1>1. PICK r \in Run :
        /\ IsNextRun(r)
        /\ run' = [run EXCEPT ![r] = QueuedRun(req[c].task)]
        /\ Continue(c, [req[c] EXCEPT !.pc = "enqueue", !.run = r])
  BY DEF StartCommit
<1>2. /\ run \in [Run -> RunRow] /\ req \in [Thread -> Request] /\ req[c] \in Request
      /\ ReqLinked /\ JobLinked
      /\ run[r].status = "absent" /\ r # NULL
  BY <1>1, StoreAssumption DEF TypeOK, StoreTypeOK, ApiTypeOK, Linked, IsNextRun, Run
<1>3. run'[r].task = t /\ run'[r].status \in ActiveStatus
  BY <1>1, <1>2 DEF QueuedRun, BlankRun, ActiveStatus
<1>4. \A w \in Process : job'[w].run # r
  BY <1>2 DEF JobLinked
<1>5. \A d \in Thread : req'[d].pc = "recovering" => req'[d].run # r
  BY <1>1, <1>2 DEF ReqLinked, Continue, Request
<1> QED
  BY <1>3, <1>4, <1>5 DEF KeepsRunning, IsActive, Holds, At

LEMMA KeptStep == IInv /\ [Next]_vars => RunningKept'
<1> SUFFICES ASSUME IInv, [Next]_vars, NEW t \in Task, task'[t].status = "running"
             PROVE  \E r \in Run : KeepsRunning(t, r)'
  BY DEF RunningKept
<1>1. TypeOK /\ Linked /\ RowsAge /\ RunningKept /\ task \in [Task -> TaskRow]
  BY RowsStep DEF IInv, TypeOK, StoreTypeOK
<1>2. CASE task[t].status = "running"
  <2>1. PICK r \in Run : KeepsRunning(t, r)
    BY <1>1, <1>2 DEF RunningKept
  <2>2. CASE RedisRestart \/ UNCHANGED vars
    BY <2>1, <2>2 DEF RedisRestart, vars, KeepsRunning, IsActive, Holds, Doing, At
  <2> QED
    BY <1>1, <1>2, <2>1, <2>2, KeptByApi, KeptByWork DEF Next
<1>3. CASE task[t].status # "running"
  <2>1. ASSUME NEW c \in Thread, Api(c) PROVE StartCommit(c) /\ req[c].task = t
    <3>1. CASE CreateTask(c) \/ CloneTask(c)
      BY <1>1, <1>3, <3>1 DEF CreateTask, CloneTask, InsertTask
    <3>2. CASE UpdateCommit(c)
      BY <1>1, <1>3, <3>2 DEF UpdateCommit, TaskRow
    <3>3. CASE DeleteCommit(c)
      BY <1>1, <1>3, <3>3 DEF DeleteCommit, DeleteTask, BlankTask
    <3>4. CASE StartCommit(c)
      BY <1>1, <1>3, <3>4 DEF StartCommit
    <3>5. CASE RecoverCommit(c)
      BY <1>1, <1>3, <3>5 DEF RecoverCommit, RecoveredTask, TaskRow
    <3>6. CASE SuspendCommit(c)
      <4>1. req[c].to \in {"paused", "stopped"}
        BY <1>1, <3>6 DEF SuspendCommit, At, Linked, ReqLinked
      <4> QED
        BY <1>1, <1>3, <3>6, <4>1 DEF SuspendCommit
    <3>7. CASE UNCHANGED task
      BY <1>3, <3>7
    <3> QED
      BY <2>1, <3>1, <3>2, <3>3, <3>4, <3>5, <3>6, <3>7
         DEF Api, NewRequest, Serve, ApiFault, UpdateRead, DeleteRead, StartRead, SuspendRead,
             Enqueue, EnqueueFails, RecordJob, RecordFails, RecoverRead, FindActiveRun, Unqueue,
             UnqueueFails, RowGone, ApiCrash
  <2>2. ASSUME NEW w \in Process, Perform(w) PROVE FALSE
    <3>1. ASSUME Finish(w) \/ MarkFailed(w)
          PROVE  task'[t].status \in {task[t].status, "completed", "failed"}
      BY <1>1, <3>1 DEF Finish, MarkFailed, TaskRow
    <3>2. CASE UNCHANGED task
      BY <1>3, <3>2
    <3> QED
      BY <1>3, <2>2, <3>1, <3>2
         DEF Perform, Work, Dequeue, Load, Begin, Refresh, Visit, StorePage, StoreConflict,
             PageError, Reload, RunGone, WorkerCrash
  <2> QED
    BY <1>1, <1>3, <2>1, <2>2, KeptByStart DEF Next, RedisRestart, vars
<1> QED
  BY <1>2, <1>3

-----------------------------------------------------------------------------
(* The theorems                                                            *)

LEMMA InitIInv == Init => IInv
<1> SUFFICES ASSUME Init PROVE IInv
  OBVIOUS
<1>1. TypeOK
  BY RowTypes
     DEF Init, StoreInit, QueueInit, ApiInit, WorkerInit,
         TypeOK, StoreTypeOK, QueueTypeOK, ApiTypeOK, WorkerTypeOK
<1>2. /\ \A t \in Task : task[t].status = "absent"
      /\ \A r \in Run : /\ run[r].status = "absent" /\ run[r].task = NULL
                        /\ ~run[r].cancel_requested
      /\ queue = <<>>
      /\ \A c \in Thread : req[c].pc = "idle" /\ req[c].run = NULL
      /\ \A w \in Process : job[w].pc = "idle" /\ job[w].run = NULL
  BY DEF Init, StoreInit, QueueInit, ApiInit, WorkerInit, BlankTask, BlankRun, Idle, NoJob
<1>3. RowsLinked /\ QueueLinked
  BY <1>2 DEF RowsLinked, QueueLinked, RunExists, TaskRunStatus
<1>4. ReqLinked /\ JobLinked
  BY <1>2 DEF ReqLinked, JobLinked
<1>5. CancelledNotQueued /\ SuspendSeen /\ RunningKept
  BY <1>2 DEF CancelledNotQueued, SuspendSeen, RunningKept
<1> QED
  BY <1>1, <1>3, <1>4, <1>5 DEF IInv, Linked

LEMMA NextIInv == IInv /\ [Next]_vars => IInv'
BY TypeStep, RowsStep, QueueStep, ReqStep, JobStep, CancelStep, KeptStep DEF IInv, Linked

\* Whatever threads and workers remember of rows, however long ago they read
\* them, agrees with the rows as far as their next commit relies on it
\* (services.py:40-123, worker.py:31-47, 78-176).
THEOREM Inductive == Spec => []IInv
BY InitIInv, NextIInv, PTL DEF Spec

\* Every row, request and job keeps the declared types, and no row gets a
\* status of the other enumeration (models.py, domain.py).
THEOREM TypeCorrect == Spec => []TypeOK
<1>1. IInv => TypeOK
  BY DEF IInv
<1> QED
  BY <1>1, Inductive, PTL

\* A run whose cancellation is stored is never queued, however many requests
\* and workers interleave and whatever fails (services.py:96-123).
THEOREM CancelledStaysOutOfQueue == Spec => []CancelledNotQueued
<1>1. IInv => CancelledNotQueued
  BY DEF IInv
<1> QED
  BY <1>1, Inductive, PTL

\* A task shown as running has a queued or running run
\* (services.py:40-123, worker.py:31-47, 158-167).
THEOREM RunningTaskIsActive == Spec => []RunningTaskHasActiveRun
<1>1. IInv => RunningTaskHasActiveRun
  BY DEF IInv, RunningKept, KeepsRunning, RunningTaskHasActiveRun
<1> QED
  BY <1>1, Inductive, PTL
=============================================================================

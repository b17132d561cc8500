-------------------------- MODULE Serv01_execution --------------------------
(***************************************************************************)
(* The queue, the request threads and the workers together implement       *)
(* RunExecution: every step of Serv01 is one of its steps, or changes      *)
(* neither the phase of a run nor the number of its pages.  As long as no  *)
(* process dies, every active run is also somebody's business; as long as  *)
(* there is one client, a task has at most one run that is still wanted.   *)
(***************************************************************************)
EXTENDS Serv01_pages

-----------------------------------------------------------------------------
(* The abstract state after a step                                         *)

PhaseMap == [r \in Run |-> PhaseOf(r)]

SizeMap == [r \in Run |-> Cardinality(Captured(r))]

AbstractStep == [Execution!Next]_<<PhaseMap, SizeMap>>

\* A step touches neither the row nor the job of r.
SamePlace(r) ==
    /\ run'[r].status = "absent" <=> run[r].status = "absent"
    /\ Waiting(r)' <=> Waiting(r)
    /\ \A c \in Thread : Launching(c, r)' <=> Launching(c, r)
    /\ \A w \in Process : Holds(w, r)' <=> Holds(w, r)

LEMMA PhaseKept ==
    ASSUME NEW r \in Run, SamePlace(r)
    PROVE  PhaseOf(r)' = PhaseOf(r)
BY DEF SamePlace, PhaseOf

LEMMA StepStutters ==
    ASSUME \A r \in Run : PhaseOf(r)' = PhaseOf(r),
           \A r \in Run : Captured(r)' = Captured(r)
    PROVE  AbstractStep
<1>1. PhaseMap' = PhaseMap
  BY DEF PhaseMap
<1>2. SizeMap' = SizeMap
  BY DEF SizeMap
<1> QED
  BY <1>1, <1>2 DEF AbstractStep

\* The phase of one run changes.
LEMMA StepMoves ==
    ASSUME NEW q \in Run,
           \/ PhaseOf(q) = "unused" /\ PhaseOf(q)' = "pending"
           \/ PhaseOf(q) = "pending" /\ PhaseOf(q)' = "executing"
           \/ PhaseOf(q) \in {"pending", "executing"} /\ PhaseOf(q)' = "over",
           \A r \in Run : r # q => SamePlace(r),
           \A r \in Run : Captured(r)' = Captured(r)
    PROVE  AbstractStep
<1>1. PhaseMap' = [PhaseMap EXCEPT ![q] = PhaseOf(q)'] /\ PhaseMap[q] = PhaseOf(q)
  BY PhaseKept DEF PhaseMap
<1>2. SizeMap' = SizeMap
  BY DEF SizeMap
<1>3. Execution!Submit(q) \/ Execution!Execute(q) \/ Execution!Retire(q)
  BY <1>1, <1>2 DEF Execution!Submit, Execution!Execute, Execution!Retire, PhaseMap, SizeMap
<1> QED
  BY <1>3 DEF AbstractStep, Execution!Next

\* A page is stored in q.
LEMMA StepCaptures ==
    ASSUME NEW q \in Run, PhaseOf(q) = "executing",
           \A r \in Run : SamePlace(r),
           \A r \in Run : r # q => Captured(r)' = Captured(r),
           Cardinality(Captured(q)) < MaxPages,
           Cardinality(Captured(q)') = Cardinality(Captured(q)) + 1
    PROVE  AbstractStep
<1>1. PhaseMap' = PhaseMap /\ PhaseMap[q] = "executing"
  BY PhaseKept DEF PhaseMap
<1>2. SizeMap' = [SizeMap EXCEPT ![q] = @ + 1] /\ SizeMap[q] < MaxPages
  BY DEF SizeMap
<1>3. Execution!Capture(q)
  BY <1>1, <1>2 DEF Execution!Capture, PhaseMap, SizeMap
<1> QED
  BY <1>3 DEF AbstractStep, Execution!Next

\* The rows of the runs in S are deleted.
LEMMA StepErases ==
    ASSUME NEW S \in SUBSET Run,
           \A r \in Run : SamePlace(r),
           \A r \in Run : Captured(r)' = IF r \in S THEN {} ELSE Captured(r)
    PROVE  AbstractStep
<1>1. PhaseMap' = PhaseMap
  BY PhaseKept DEF PhaseMap
<1>2. SizeMap' = [r \in Run |-> IF r \in S THEN 0 ELSE SizeMap[r]]
  <2>1. \A r \in Run : Cardinality(Captured(r)') = IF r \in S THEN 0 ELSE Cardinality(Captured(r))
    BY FS_EmptySet
  <2> QED
    BY <2>1 DEF SizeMap
<1>3. Execution!Erase(S)
  BY <1>1, <1>2 DEF Execution!Erase, PhaseMap, SizeMap
<1> QED
  BY <1>3 DEF AbstractStep, Execution!Next

\* The jobs of the runs in S are lost.
LEMMA StepLoses ==
    ASSUME NEW S \in SUBSET Run,
           \A r \in S : PhaseOf(r) = "pending" /\ PhaseOf(r)' = "over",
           \A r \in Run \ S : SamePlace(r),
           \A r \in Run : Captured(r)' = Captured(r)
    PROVE  AbstractStep
<1>1. /\ PhaseMap' = [r \in Run |-> IF r \in S THEN "over" ELSE PhaseMap[r]]
      /\ \A r \in S : PhaseMap[r] = "pending"
  BY PhaseKept DEF PhaseMap
<1>2. SizeMap' = SizeMap
  BY DEF SizeMap
<1>3. Execution!Lose(S)
  BY <1>1, <1>2 DEF Execution!Lose, PhaseMap, SizeMap
<1> QED
  BY <1>3 DEF AbstractStep, Execution!Next

-----------------------------------------------------------------------------
(* The phases of a run                                                     *)

\* The phase tells where the job of a run is, because it is in one place only.
LEMMA Phases ==
    ASSUME Custody, NEW r \in Run
    PROVE  /\ run[r].status = "absent" => PhaseOf(r) = "unused"
           /\ \A w \in Process : Holds(w, r) => PhaseOf(r) = "executing"
           /\ Waiting(r) => PhaseOf(r) = "pending"
           /\ \A c \in Thread : Launching(c, r) => PhaseOf(r) = "pending"
           /\ run[r].status # "absent" /\ ~HasJob(r) => PhaseOf(r) = "over"
<1>1. HasJob(r) => run[r].status # "absent"
  BY NoJobBefore DEF Custody, HasJob
<1>2. Waiting(r) \/ (\E c \in Thread : Launching(c, r)) => ~\E w \in Process : Holds(w, r)
  BY DEF Custody, OnePlace
<1> QED
  BY <1>1, <1>2 DEF PhaseOf, HasJob

\* What the steps that are treated one by one below leave alone.
RowPlace(r) ==
    /\ Captured(r)' = Captured(r)
    /\ run'[r].status = "absent" <=> run[r].status = "absent"

LEMMA ApiRows ==
    ASSUME Custody, NEW r \in Run, NEW c \in Thread, Api(c), ~StartCommit(c), ~DeleteCommit(c)
    PROVE  RowPlace(r)
<1>1. run \in [Run -> RunRow] /\ run[r] \in RunRow /\ ReqLinked /\ r # NULL
  BY StoreAssumption DEF Custody, IInv, Linked, TypeOK, StoreTypeOK, Run
<1>2. ASSUME run'[r] = run[r] PROVE RowPlace(r)
  BY <1>2, CapturedSame DEF RowPlace
<1>3. ASSUME run'[r].pages = run[r].pages, run[r].status # "absent", run'[r].status # "absent"
      PROVE  RowPlace(r)
  BY <1>3, CapturedSame DEF RowPlace
<1>4. ASSUME NEW seen,
             \/ run'[r] = [run[r] EXCEPT !.queue_job_id = TRUE]
             \/ run'[r] = RecoveredRun(run[r], seen)
             \/ run'[r] = Cancelled(run[r], seen),
             run[r].status # "absent"
      PROVE  RowPlace(r)
  <2>1. run'[r].pages = run[r].pages /\ run'[r].status # "absent"
    BY <1>1, <1>4 DEF RecoveredRun, Cancelled, RunRow
  <2> QED
    BY <1>3, <1>4, <2>1
<1>5. req[c].run = r => run[r].status # "absent"
  BY <1>1 DEF ReqLinked
<1>6. CASE RecordJob(c) \/ RecordFails(c)
  BY <1>1, <1>2, <1>4, <1>5, <1>6 DEF RecordJob, RecordFails
<1>7. CASE RecoverCommit(c)
  BY <1>1, <1>2, <1>4, <1>5, <1>7 DEF RecoverCommit
<1>8. CASE SuspendCommit(c)
  BY <1>1, <1>2, <1>4, <1>5, <1>8 DEF SuspendCommit
<1>9. ASSUME NewRequest(c) PROVE UNCHANGED run
  BY <1>9 DEF NewRequest, CreateTask, CloneTask, InsertTask, UpdateRead, DeleteRead,
              StartRead, SuspendRead
<1>10. ASSUME \/ UpdateCommit(c) \/ Enqueue(c) \/ RecoverRead(c) \/ FindActiveRun(c)
              \/ Unqueue(c) \/ RowGone(c)
              \/ EnqueueFails(c) \/ UnqueueFails(c) \/ ApiCrash(c)
       PROVE  UNCHANGED run
  BY <1>10 DEF UpdateCommit, Enqueue, RecoverRead, FindActiveRun, Unqueue, RowGone,
               EnqueueFails, UnqueueFails, ApiCrash
<1> QED
  BY <1>2, <1>6, <1>7, <1>8, <1>9, <1>10 DEF Api, Serve, ApiFault

LEMMA WorkRows ==
    ASSUME Custody, NEW r \in Run, NEW w \in Process, Perform(w), ~StorePage(w)
    PROVE  RowPlace(r)
<1>1. run \in [Run -> RunRow] /\ run[r] \in RunRow
  BY DEF Custody, IInv, TypeOK, StoreTypeOK
<1>2. ASSUME run'[r] = run[r] PROVE RowPlace(r)
  BY <1>2, CapturedSame DEF RowPlace
<1>3. ASSUME run'[r].pages = run[r].pages, RunExists(r), run'[r].status # "absent"
      PROVE  RowPlace(r)
  BY <1>3, CapturedSame DEF RowPlace, RunExists, TaskRunStatus
<1>4. CASE Begin(w)
  <2>1. CASE job[w].run = r
    <3>1. run'[r].pages = run[r].pages /\ run'[r].status = "running" /\ RunExists(r)
      BY <1>1, <1>4, <2>1 DEF Begin, RunRow
    <3> QED
      BY <1>3, <3>1
  <2>2. CASE job[w].run # r
    BY <1>1, <1>2, <1>4, <2>2 DEF Begin
  <2> QED
    BY <2>1, <2>2
<1>5. CASE Finish(w) \/ MarkFailed(w)
  <2>1. \/ run'[r] = run[r]
        \/ /\ RunExists(r)
           /\ \E status \in {"success", "failed"} : \E good, bad :
                 run'[r] = Ended(run[r], status, good, bad)
    BY <1>1, <1>5 DEF Finish, MarkFailed
  <2>2. ASSUME NEW status \in {"success", "failed"}, NEW good, NEW bad,
               run'[r] = Ended(run[r], status, good, bad)
        PROVE  run'[r].pages = run[r].pages /\ run'[r].status # "absent"
    BY <1>1, <2>2 DEF Ended, RunRow
  <2> QED
    BY <1>2, <1>3, <2>1, <2>2
<1>6. CASE UNCHANGED run
  BY <1>2, <1>6
<1> QED
  BY <1>4, <1>5, <1>6
     DEF Perform, Work, Dequeue, Load, Refresh, Visit, StoreConflict, PageError, Reload, RunGone,
         WorkerCrash

-----------------------------------------------------------------------------
(* Steps of requests                                                       *)

LEMMA StartMaps ==
    ASSUME Told, NEW c \in Thread, Api(c), UNCHANGED job, StartCommit(c)
    PROVE  AbstractStep
<1>1. /\ Custody /\ TypeOK /\ run \in [Run -> RunRow] /\ req \in [Thread -> Request]
      /\ req[c] \in Request
  BY DEF Told, Custody, IInv, TypeOK, StoreTypeOK, ApiTypeOK
<1>2. PICK q \in Run : /\ run[q].status = "absent"
                       /\ run' = [run EXCEPT ![q] = QueuedRun(req[c].task)]
                       /\ Continue(c, [req[c] EXCEPT !.pc = "enqueue", !.run = q])
                       /\ UNCHANGED queue
  BY DEF StartCommit, IsNextRun
<1>3. run'[q].status = "queued" /\ run'[q].pages = [n \in PageNo |-> NULL]
  BY <1>1, <1>2 DEF QueuedRun, BlankRun
<1>4. \A r \in Run : Captured(r)' = Captured(r)
  <2>1. Captured(q)' = {} /\ Captured(q) = {}
    BY <1>2, <1>3, BlankCaptured DEF Told, PagesTold, RunExists, TaskRunStatus
  <2>2. \A r \in Run : r # q => Captured(r)' = Captured(r)
    BY <1>1, <1>2, CapturedSame
  <2> QED
    BY <2>1, <2>2
<1>5. /\ \A d \in Thread : d # c => req'[d] = req[d]
      /\ req'[c].pc = "enqueue" /\ req'[c].run = q /\ req[c].pc = "start"
  <2>1. req'[c] = [req[c] EXCEPT !.pc = "enqueue", !.run = q]
    BY <1>1, <1>2 DEF Continue
  <2> QED
    BY <1>1, <2>1, OtherThread DEF StartCommit, At, Request
<1>6. ASSUME NEW r \in Run, r # q PROVE SamePlace(r)
  <2>1. run'[r] = run[r]
    BY <1>1, <1>2, <1>6
  <2>2. \A d \in Thread : Launching(d, r)' <=> Launching(d, r)
    BY <1>5, <1>6 DEF Launching, At
  <2> QED
    BY <1>2, <2>1, <2>2 DEF SamePlace, Waiting, Holds
<1>7. PhaseOf(q) = "unused" /\ PhaseOf(q)' = "pending"
  <2>1. PhaseOf(q) = "unused" /\ \A w \in Process : ~Holds(w, q)
    BY <1>1, <1>2, Phases, NoJobBefore DEF Custody
  <2>2. \A w \in Process : ~Holds(w, q)'
    BY <2>1 DEF Holds
  <2>3. Launching(c, q)'
    BY <1>5 DEF Launching, At
  <2> QED
    BY <1>3, <2>1, <2>2, <2>3 DEF PhaseOf
<1> QED
  BY <1>4, <1>6, <1>7, StepMoves

LEMMA DeleteMaps ==
    ASSUME Told, NEW c \in Thread, Api(c), UNCHANGED job, DeleteCommit(c)
    PROVE  AbstractStep
<1> DEFINE S == {r \in Run : run[r].task = req[c].task}
<1>1. /\ TypeOK /\ run \in [Run -> RunRow] /\ req \in [Thread -> Request] /\ RowsLinked
      /\ req[c].task # NULL
  BY StoreAssumption
     DEF Told, Custody, IInv, Linked, TypeOK, StoreTypeOK, ApiTypeOK, ReqLinked, DeleteCommit, At
<1>2. \A r \in Run : run'[r] = IF r \in S THEN GoneRun ELSE run[r]
  BY DEF DeleteCommit, DeleteTask
<1>3. \A r \in S : run[r].status # "absent"
  BY <1>1 DEF RowsLinked, RunExists, TaskRunStatus
<1>4. GoneRun.status = "deleted" /\ GoneRun.pages = [n \in PageNo |-> NULL]
  BY DEF GoneRun, BlankRun
<1>5. \A r \in Run : Captured(r)' = IF r \in S THEN {} ELSE Captured(r)
  BY <1>2, <1>4, BlankCaptured, CapturedSame
<1>6. /\ UNCHANGED queue /\ \A d \in Thread : d # c => req'[d] = req[d]
      /\ req'[c].pc = "idle" /\ req[c].pc = "delete"
  BY <1>1, OtherThread DEF DeleteCommit, Done, Continue, Idle, At
<1>7. ASSUME NEW r \in Run PROVE SamePlace(r)
  <2>1. run'[r].status = "absent" <=> run[r].status = "absent"
    BY <1>2, <1>3, <1>4
  <2>2. \A d \in Thread : Launching(d, r)' <=> Launching(d, r)
    BY <1>6 DEF Launching, At
  <2> QED
    BY <1>6, <2>1, <2>2 DEF SamePlace, Waiting, Holds
<1>8. S \in SUBSET Run
  OBVIOUS
<1> HIDE DEF S
<1> QED
  BY <1>5, <1>7, <1>8, StepErases

\* The step at which a created run's job reaches the queue or is lost.
LEMMA LaunchStep ==
    ASSUME TypeOK, NEW c \in Thread, Api(c), At(c, "enqueue")
    PROVE  /\ req'[c].pc # "enqueue"
           /\ Push(req[c].run) \/ UNCHANGED queue
<1>1. req \in [Thread -> Request] /\ req[c] \in Request
  BY DEF TypeOK, ApiTypeOK
<1>2. Enqueue(c) \/ EnqueueFails(c) \/ ApiCrash(c)
  BY DEF At, Api, NewRequest, Serve, ApiFault, CreateTask, CloneTask, UpdateRead, UpdateCommit,
         DeleteRead, DeleteCommit, StartRead, StartCommit, RecordJob, RecordFails, RecoverRead,
         RecoverCommit, SuspendRead, FindActiveRun, Unqueue, UnqueueFails, SuspendCommit,
         RowGone, TouchesRow
<1>3. CASE Enqueue(c)
  BY <1>1, <1>3 DEF Enqueue, Goto, Continue, Request
<1>4. CASE EnqueueFails(c)
  BY <1>1, <1>4 DEF EnqueueFails, Continue, Request
<1>5. CASE ApiCrash(c)
  BY <1>1, <1>5 DEF ApiCrash, Done, Continue, Idle
<1> QED
  BY <1>2, <1>3, <1>4, <1>5

LEMMA RequestMaps ==
    ASSUME Told, NEW c \in Thread, Api(c), UNCHANGED job, ~StartCommit(c), ~DeleteCommit(c)
    PROVE  AbstractStep
<1>1. /\ Custody /\ TypeOK /\ queue \in Seq(Run) /\ Distinct /\ OnePlace /\ ReqLinked
      /\ req[c] \in Request
  BY DEF Told, Custody, IInv, Linked, TypeOK, QueueTypeOK, ApiTypeOK, OnePlace
<1>2. /\ \A r \in Run : Captured(r)' = Captured(r)
      /\ \A r \in Run : run'[r].status = "absent" <=> run[r].status = "absent"
  BY <1>1, ApiRows DEF RowPlace
<1>3. \A d \in Thread : d # c => req'[d] = req[d]
  BY <1>1, OtherThread
<1>4. \A r \in Run, w \in Process : Holds(w, r)' <=> Holds(w, r)
  BY DEF Holds
<1>5. PICK q : q = req[c].run
  OBVIOUS
<1>6. CASE At(c, "enqueue")
  <2>1. q \in Run /\ Launching(c, q) /\ run[q].status # "absent"
    BY <1>1, <1>5, <1>6 DEF ReqLinked, Request, At, Launching
  <2>2. /\ ~Waiting(q) /\ PhaseOf(q) = "pending"
        /\ \A w \in Process : ~Holds(w, q)
        /\ \A d \in Thread : Launching(d, q) => d = c
    BY <1>1, <2>1, Phases DEF OnePlace
  <2>3. /\ req'[c].pc # "enqueue"
        /\ Push(q) \/ UNCHANGED queue
    BY <1>1, <1>5, <1>6, LaunchStep
  <2>4. \A r \in Run : Waiting(r)' <=> Waiting(r) \/ (r = q /\ Push(q))
    <3>1. CASE Push(q)
      BY <1>1, <2>1, <2>2, <3>1, PushMoves
    <3>2. CASE ~Push(q) /\ UNCHANGED queue
      BY <3>2 DEF Waiting
    <3> QED
      BY <2>3, <3>1, <3>2
  <2>5. ASSUME NEW r \in Run, r # q PROVE SamePlace(r)
    <3>1. \A d \in Thread : Launching(d, r)' <=> Launching(d, r)
      BY <1>3, <2>1, <2>3, <2>5 DEF Launching, At
    <3> QED
      BY <1>2, <1>4, <2>4, <2>5, <3>1 DEF SamePlace
  <2>6. /\ \A d \in Thread : ~Launching(d, q)'
        /\ \A w \in Process : ~Holds(w, q)'
        /\ run'[q].status # "absent"
    BY <1>2, <1>3, <1>4, <2>1, <2>2, <2>3 DEF Launching, At
  <2>7. CASE Push(q)
    <3>1. PhaseOf(q)' = "pending"
      BY <2>1, <2>4, <2>6, <2>7 DEF PhaseOf
    <3>2. \A r \in Run : PhaseOf(r)' = PhaseOf(r)
      BY <2>2, <2>5, <3>1, PhaseKept
    <3> QED
      BY <1>2, <3>2, StepStutters
  <2>8. CASE ~Push(q)
    <3>1. PhaseOf(q)' = "over"
      BY <2>1, <2>2, <2>4, <2>6, <2>8 DEF PhaseOf
    <3> QED
      BY <1>2, <2>1, <2>2, <2>5, <3>1, StepMoves
  <2> QED
    BY <2>7, <2>8
<1>7. CASE ~At(c, "enqueue")
  <2>1. /\ req'[c].pc # "enqueue" \/ req'[c] = req[c]
        /\ Withdraw(q) \/ UNCHANGED queue
    BY <1>1, <1>5, <1>7, ApiMoves
  <2>2. \A r \in Run, d \in Thread : Launching(d, r)' <=> Launching(d, r)
    BY <1>3, <1>7, <2>1 DEF Launching, At
  <2>3. /\ \A r : Waiting(r)' => Waiting(r)
        /\ \A r : r # q /\ Waiting(r) => Waiting(r)'
    <3>1. CASE Withdraw(q)
      BY <1>1, <3>1, WithdrawMoves
    <3>2. CASE UNCHANGED queue
      BY <3>2 DEF Waiting
    <3> QED
      BY <2>1, <3>1, <3>2
  <2>4. ASSUME NEW r \in Run, r # q \/ (Waiting(r) => Waiting(r)')
        PROVE  SamePlace(r)
    <3>1. Waiting(r)' <=> Waiting(r)
      BY <2>3, <2>4
    <3> QED
      BY <1>2, <1>4, <2>2, <3>1 DEF SamePlace
  <2>5. CASE q \in Run /\ Waiting(q) /\ ~Waiting(q)'
    <3>1. /\ PhaseOf(q) = "pending" /\ run[q].status # "absent"
          /\ \A w \in Process : ~Holds(w, q)
          /\ \A d \in Thread : ~Launching(d, q)
      BY <1>1, <2>5, Phases, NoJobBefore DEF OnePlace, Custody
    <3>2. PhaseOf(q)' = "over"
      BY <1>2, <1>4, <2>2, <2>5, <3>1 DEF PhaseOf
    <3>3. \A r \in Run : r # q => SamePlace(r)
      BY <2>3, <2>4
    <3> QED
      BY <1>2, <2>5, <3>1, <3>2, <3>3, StepMoves
  <2>6. CASE ~(q \in Run /\ Waiting(q) /\ ~Waiting(q)')
    <3>1. \A r \in Run : SamePlace(r)
      BY <2>3, <2>4, <2>6
    <3> QED
      BY <1>2, <3>1, PhaseKept, StepStutters
  <2> QED
    BY <2>5, <2>6
<1> QED
  BY <1>6, <1>7

-----------------------------------------------------------------------------
(* Steps of workers                                                        *)

LEMMA CaptureMaps ==
    ASSUME Told, NEW w \in Process, Perform(w), UNCHANGED req, StorePage(w)
    PROVE  AbstractStep
<1>1. /\ Custody /\ TypeOK /\ JobLinked /\ run \in [Run -> RunRow]
      /\ job \in [Process -> Job] /\ job[w] \in Job
  BY DEF Told, Custody, IInv, Linked, TypeOK, StoreTypeOK, WorkerTypeOK
<1>2. PICK q \in Run : q = job[w].run /\ Holds(w, q)
  BY <1>1 DEF StorePage, Doing, JobLinked, Job, Holds
<1>3. /\ job[w].page \in PageNo \ Captured(q)
      /\ Captured(q)' = Captured(q) \cup {job[w].page}
      /\ run'[q] = [run[q] EXCEPT !.pages[job[w].page] = job[w].url]
      /\ RunExists(q)
  BY <1>1, <1>2, PageStored
<1>4. /\ Cardinality(Captured(q)) < MaxPages
      /\ Cardinality(Captured(q)') = Cardinality(Captured(q)) + 1
  <2>1. IsFiniteSet(Captured(q)) /\ Cardinality(Captured(q)) \in Nat
    BY CapturedSize, StoreAssumption
  <2>2. Cardinality(Captured(q)') = Cardinality(Captured(q)) + 1
    BY <1>3, <2>1, FS_AddElement
  <2>3. Captured(q)' \subseteq 1..MaxPages
    BY <1>3 DEF Captured, PageNo
  <2>4. IsFiniteSet(1..MaxPages) /\ Cardinality(1..MaxPages) = MaxPages
    BY FS_Interval, StoreAssumption, SMT
  <2>5. Cardinality(Captured(q)') <= MaxPages
    BY <2>3, <2>4, FS_Subset
  <2> QED
    BY <2>1, <2>2, <2>5, StoreAssumption
<1>5. \A r \in Run : r # q => run'[r] = run[r]
  BY <1>1, <1>2 DEF StorePage
<1>6. run'[q].status = run[q].status
  BY <1>1, <1>3 DEF RunRow
<1>7. \A r \in Run : r # q => Captured(r)' = Captured(r)
  BY <1>5, CapturedSame
<1>8. /\ UNCHANGED queue /\ \A v \in Process : job'[v].run = job[v].run
  <2>1. AfterPage(w).run = job[w].run
    BY <1>1 DEF AfterPage, Job
  <2>2. Raise(w) => job'[w].run = job[w].run
    BY <1>1 DEF Raise, Proceed, Job
  <2>3. job'[w].run = job[w].run
    BY <1>1, <2>1, <2>2 DEF StorePage, AnswerLost, Proceed
  <2> QED
    BY <1>1, <2>3, OtherWorker DEF StorePage
<1>9. ASSUME NEW r \in Run PROVE SamePlace(r)
  <2>1. run'[r].status = "absent" <=> run[r].status = "absent"
    BY <1>5, <1>6
  <2>2. \A v \in Process : Holds(v, r)' <=> Holds(v, r)
    BY <1>8 DEF Holds
  <2> QED
    BY <1>8, <2>1, <2>2 DEF SamePlace, Waiting, Launching, At
<1>10. PhaseOf(q) = "executing"
  BY <1>1, <1>2, Phases
<1> QED
  BY <1>4, <1>7, <1>9, <1>10, StepCaptures

LEMMA JobMaps ==
    ASSUME Told, NEW w \in Process, Perform(w), UNCHANGED req, ~StorePage(w)
    PROVE  AbstractStep
<1>1. /\ Custody /\ TypeOK /\ queue \in Seq(Run) /\ Distinct /\ OnePlace /\ JobLinked
      /\ job[w] \in Job
  BY DEF Told, Custody, IInv, Linked, TypeOK, QueueTypeOK, WorkerTypeOK, OnePlace
<1>2. /\ \A r \in Run : Captured(r)' = Captured(r)
      /\ \A r \in Run : run'[r].status = "absent" <=> run[r].status = "absent"
  BY <1>1, WorkRows DEF RowPlace
<1>3. \A v \in Process : v # w => job'[v] = job[v]
  BY <1>1, OtherWorker
<1>4. \A r \in Run, c \in Thread : Launching(c, r)' <=> Launching(c, r)
  BY DEF Launching, At
<1>5. \A r \in Run : r # NULL
  BY StoreAssumption DEF Run
<1>6. ASSUME NEW q \in Run, Doing(w, "idle"), Take(q), job'[w].run = q
      PROVE  AbstractStep
  <2>1. Waiting(q) /\ \A r \in Run : Waiting(r)' <=> Waiting(r) /\ r # q
    BY <1>1, <1>6, TakeMoves
  <2>2. PhaseOf(q) = "pending" /\ run[q].status # "absent"
    BY <1>1, <2>1, Phases, NoJobBefore DEF Custody
  <2>3. job[w].run = NULL
    BY <1>1, <1>6 DEF JobLinked, Doing
  <2>4. Holds(w, q)'
    BY <1>6 DEF Holds
  <2>5. PhaseOf(q)' = "executing"
    BY <1>2, <2>2, <2>4 DEF PhaseOf
  <2>6. ASSUME NEW r \in Run, r # q PROVE SamePlace(r)
    <3>1. \A v \in Process : Holds(v, r)' <=> Holds(v, r)
      BY <1>3, <1>5, <1>6, <2>3, <2>6 DEF Holds
    <3> QED
      BY <1>2, <1>4, <2>1, <2>6, <3>1 DEF SamePlace
  <2> QED
    BY <1>2, <2>2, <2>5, <2>6, StepMoves
<1>7. CASE UNCHANGED queue /\ job'[w].run = job[w].run
  <2>1. \A r \in Run, v \in Process : Holds(v, r)' <=> Holds(v, r)
    BY <1>3, <1>7 DEF Holds
  <2>2. \A r \in Run : SamePlace(r)
    BY <1>2, <1>4, <1>7, <2>1 DEF SamePlace, Waiting
  <2> QED
    BY <1>2, <2>2, PhaseKept, StepStutters
<1>8. CASE UNCHANGED queue /\ job'[w].run = NULL /\ job[w].run # NULL
  <2>1. PICK q \in Run : q = job[w].run /\ Holds(w, q)
    BY <1>1, <1>8 DEF Job, Holds
  <2>2. /\ PhaseOf(q) = "executing" /\ run[q].status # "absent"
        /\ ~Waiting(q) /\ \A c \in Thread : ~Launching(c, q)
        /\ \A v \in Process : Holds(v, q) => v = w
    BY <1>1, <2>1, Phases, NoJobBefore DEF OnePlace, Custody
  <2>3. \A v \in Process : ~Holds(v, q)'
    BY <1>3, <1>5, <1>8, <2>2 DEF Holds
  <2>4. PhaseOf(q)' = "over"
    BY <1>2, <1>4, <1>8, <2>2, <2>3 DEF PhaseOf, Waiting
  <2>5. ASSUME NEW r \in Run, r # q PROVE SamePlace(r)
    <3>1. \A v \in Process : Holds(v, r)' <=> Holds(v, r)
      BY <1>3, <1>5, <1>8, <2>1, <2>5 DEF Holds
    <3> QED
      BY <1>2, <1>4, <1>8, <3>1 DEF SamePlace, Waiting
  <2> QED
    BY <1>2, <2>2, <2>4, <2>5, StepMoves
<1> QED
  BY <1>1, <1>6, <1>7, <1>8, WorkMoves

-----------------------------------------------------------------------------
(* The refinement                                                          *)

LEMMA ForgetMaps ==
    ASSUME Told, RedisRestart
    PROVE  AbstractStep
<1> DEFINE S == {r \in Run : Waiting(r)}
<1>1. Custody /\ OnePlace /\ queue' = <<>> /\ UNCHANGED <<run, req, job>>
  BY DEF Told, Custody, RedisRestart, Forget
<1>2. \A r \in Run : /\ ~Waiting(r)'
                      /\ Captured(r)' = Captured(r)
                      /\ run'[r].status = run[r].status
  BY <1>1, CapturedSame DEF Waiting
<1>3. \A r \in Run, c \in Thread : Launching(c, r)' <=> Launching(c, r)
  BY <1>1 DEF Launching, At
<1>4. \A r \in Run, w \in Process : Holds(w, r)' <=> Holds(w, r)
  BY <1>1 DEF Holds
<1>5. ASSUME NEW r \in S PROVE PhaseOf(r) = "pending" /\ PhaseOf(r)' = "over"
  <2>1. /\ PhaseOf(r) = "pending" /\ run[r].status # "absent"
        /\ \A w \in Process : ~Holds(w, r)
        /\ \A c \in Thread : ~Launching(c, r)
    BY <1>1, Phases, NoJobBefore DEF OnePlace, Custody
  <2> QED
    BY <1>2, <1>3, <1>4, <2>1 DEF PhaseOf
<1>6. \A r \in Run \ S : SamePlace(r)
  BY <1>2, <1>3, <1>4 DEF SamePlace
<1>7. S \in SUBSET Run
  OBVIOUS
<1> HIDE DEF S
<1> QED
  BY <1>2, <1>5, <1>6, <1>7, StepLoses

LEMMA StepMaps == Told /\ [Next]_vars => AbstractStep
<1> SUFFICES ASSUME Told, [Next]_vars PROVE AbstractStep
  OBVIOUS
<1>1. CASE UNCHANGED vars
  <2>1. \A r \in Run : SamePlace(r) /\ Captured(r)' = Captured(r)
    BY <1>1, CapturedSame DEF vars, SamePlace, Waiting, Launching, At, Holds
  <2> QED
    BY <2>1, PhaseKept, StepStutters
<1> QED
  BY <1>1, StartMaps, DeleteMaps, RequestMaps, CaptureMaps, JobMaps, ForgetMaps DEF Next

\* Serv01 implements RunExecution: the job of every run is submitted once and
\* executed at most once, by one worker; pages are stored one at a time during
\* that execution and never afterwards (services.py:46-61, worker.py:50-167).
THEOREM ImplementsRunExecution == Spec => ExecutesAtMostOnce
<1>1. Init => Execution!Init
  <2> SUFFICES ASSUME Init PROVE Execution!Init
    OBVIOUS
  <2>1. ASSUME NEW r \in Run
        PROVE  PhaseOf(r) = "unused" /\ Cardinality(Captured(r)) = 0
    <3>1. run[r].status = "absent" /\ Captured(r) = {}
      BY DEF Init, StoreInit, BlankRun, Captured
    <3> QED
      BY <3>1, FS_EmptySet DEF PhaseOf
  <2> QED
    BY <2>1 DEF Execution!Init
<1>2. Told /\ [Next]_vars
        => [Execution!Next]_<<[r \in Run |-> PhaseOf(r)],
                              [r \in Run |-> Cardinality(Captured(r))]>>
  BY StepMaps DEF AbstractStep, PhaseMap, SizeMap
<1> QED
  BY <1>1, <1>2, ToldHolds, PTL DEF Spec, ExecutesAtMostOnce, Execution!Spec

-----------------------------------------------------------------------------
(* The creation of a run                                                   *)

\* The facts about a state that the proofs below use.
LEMMA ToldTypes ==
    ASSUME Told
    PROVE  /\ Custody /\ TypeOK /\ RowsLinked /\ ReqLinked /\ JobLinked /\ OnePlace
           /\ run \in [Run -> RunRow] /\ task \in [Task -> TaskRow]
           /\ req \in [Thread -> Request]
           /\ job \in [Process -> Job]
           /\ NULL \notin Run /\ NULL \notin Task
BY StoreAssumption
   DEF Told, Custody, IInv, Linked, OnePlace, TypeOK, StoreTypeOK, QueueTypeOK,
       ApiTypeOK, WorkerTypeOK, Run

\* A run is created by one commit only.
LEMMA Created ==
    ASSUME Told, [Next]_vars, NEW r \in Run, run[r].status = "absent",
           run'[r].status # "absent"
    PROVE  \E c \in Thread :
              /\ StartCommit(c) /\ IsNextRun(r) /\ UNCHANGED job
              /\ run' = [run EXCEPT ![r] = QueuedRun(req[c].task)]
              /\ req'[c] = [req[c] EXCEPT !.pc = "enqueue", !.run = r]
<1>1. /\ Custody /\ run \in [Run -> RunRow] /\ req \in [Thread -> Request]
      /\ JobLinked /\ job \in [Process -> Job] /\ RowsLinked /\ ReqLinked /\ NULL \notin Task
  BY ToldTypes
<1>2. run[r].task = NULL
  BY <1>1 DEF RowsLinked, RunExists, TaskRunStatus
<1>3. ASSUME NEW c \in Thread, Api(c), UNCHANGED job
      PROVE  /\ StartCommit(c) /\ IsNextRun(r)
             /\ run' = [run EXCEPT ![r] = QueuedRun(req[c].task)]
             /\ req'[c] = [req[c] EXCEPT !.pc = "enqueue", !.run = r]
  <2>1. CASE StartCommit(c)
    <3>1. PICK q \in Run : /\ IsNextRun(q)
                           /\ run' = [run EXCEPT ![q] = QueuedRun(req[c].task)]
                           /\ Continue(c, [req[c] EXCEPT !.pc = "enqueue", !.run = q])
      BY <2>1 DEF StartCommit
    <3>2. q = r
      BY <1>1, <3>1
    <3> QED
      BY <1>1, <2>1, <3>1, <3>2 DEF Continue
  <2>2. CASE DeleteCommit(c)
    <3>1. req[c].task \in Task
      BY <1>1, <2>2 DEF DeleteCommit, ReqLinked, At
    <3>2. run'[r] = run[r]
      BY <1>1, <1>2, <2>2, <3>1 DEF DeleteCommit, DeleteTask
    <3> QED
      BY <3>2
  <2> QED
    BY <1>1, <1>3, <2>1, <2>2, ApiRows DEF RowPlace
<1>4. ASSUME NEW w \in Process, Perform(w) PROVE FALSE
  <2>1. CASE StorePage(w)
    <3>1. job[w].run # r
      BY <2>1 DEF StorePage, RunExists, TaskRunStatus
    <3> QED
      BY <1>1, <2>1, <3>1 DEF StorePage
  <2> QED
    BY <1>1, <1>4, <2>1, WorkRows DEF RowPlace
<1> QED
  BY <1>3, <1>4 DEF Next, RedisRestart, vars

-----------------------------------------------------------------------------
(* Nobody's run                                                            *)

\* No process dies and Redis does not restart; its calls and the commits of
\* queue_job_id may fail.
Calm == Faults \cap {"api", "worker", "redis_restart"} = {}

\* The thread c will enqueue r or fail it.
Attends(c, r) ==
    /\ req[c].run = r
    /\ \/ req[c].pc \in {"enqueue", "recovering"}
       \/ At(c, "suspend") /\ req[c].seenRun = "queued"

Attended(r) ==
    \/ Waiting(r)
    \/ \E w \in Process : Holds(w, r)
    \/ \E c \in Thread : Attends(c, r)

\* NoOrphanRun, and what the threads that take responsibility remember.
Attention ==
    /\ \A r \in Run : IsActive(r) => Attended(r)
    /\ \A r \in Run : Unbegun(r) => run[r].status \notin {"running", "success"}
    /\ \A c \in Thread : At(c, "unqueue") => req[c].seenRun = "queued"
    /\ \A c \in Thread :
          /\ At(c, "recovering") /\ req[c].seenRun = "failed" /\ IsActive(req[c].run)
          => \E w \in Process : Holds(w, req[c].run)
    /\ \A c \in Thread :
          /\ req[c].run # NULL /\ RunExists(req[c].run)
          => run[req[c].run].task = req[c].task

Answered == Told /\ Attention

\* The facts about a state that the proofs below use.
LEMMA AnsweredTypes ==
    ASSUME Answered
    PROVE  /\ Told /\ Custody /\ TypeOK /\ RowsLinked /\ ReqLinked /\ JobLinked /\ OnePlace
           /\ queue \in Seq(Run) /\ Distinct
           /\ run \in [Run -> RunRow]
           /\ req \in [Thread -> Request]
           /\ job \in [Process -> Job]
           /\ NULL \notin Run
BY StoreAssumption
   DEF Answered, Told, Custody, IInv, Linked, OnePlace, TypeOK, StoreTypeOK, QueueTypeOK,
       ApiTypeOK, WorkerTypeOK, Run

\* A worker keeps the job of a run until the run has ended.
LEMMA HoldKept ==
    ASSUME Calm, Answered, [Next]_vars, NEW r \in Run, NEW w \in Process, Holds(w, r),
           run'[r].status \in ActiveStatus
    PROVE  Holds(w, r)'
<1>1. /\ TypeOK /\ JobLinked /\ run \in [Run -> RunRow] /\ job[w] \in Job /\ NULL \notin Run
      /\ job \in [Process -> Job]
  BY AnsweredTypes
<1>2. CASE job'[w].run = job[w].run
  BY <1>2 DEF Holds
<1>3. CASE Perform(w) /\ job'[w].run # job[w].run
  <2>1. job[w].pc # "idle" /\ job[w].run = r
    BY <1>1 DEF JobLinked, Holds
  <2>2. UNCHANGED queue /\ job'[w].run = NULL
    BY <1>1, <1>3, <2>1, WorkMoves DEF Doing
  <2>3. CASE Finish(w) \/ MarkFailed(w)
    <3>1. PICK status \in {"success", "failed"} : \E good, bad :
             run'[r] = Ended(run[r], status, good, bad)
      BY <1>1, <2>1, <2>3 DEF Finish, MarkFailed
    <3>2. run'[r].status = status
      BY <1>1, <3>1 DEF Ended, RunRow
    <3> QED
      BY <3>2 DEF ActiveStatus
  <2>4. CASE RunGone(w)
    BY <2>1, <2>4 DEF RunGone, RunExists, TaskRunStatus, ActiveStatus
  <2>5. CASE Load(w)
    <3>1. Loaded(w, r).run = r
      BY <1>1, <2>1 DEF Loaded, Job
    <3>2. ~MayRun(r) /\ UNCHANGED run
      BY <1>1, <1>3, <2>1, <2>5, <3>1 DEF Load, Proceed
    <3>3. Unbegun(r)
      BY <2>1, <2>5 DEF Unbegun, Holds, Load, Doing
    <3> QED
      BY <3>2, <3>3 DEF Answered, Attention, MayRun, ActiveStatus
  <2>6. ~WorkerCrash(w)
    BY DEF WorkerCrash, Calm
  <2>7. ~Dequeue(w)
    BY <2>1 DEF Dequeue, Doing
  <2>8. ASSUME Begin(w) \/ Refresh(w) \/ Visit(w) \/ Reload(w) PROVE job'[w].run = job[w].run
    <3>1. ASSUME NEW work, Proceed(w, work) PROVE job'[w] = work
      BY <1>1, <3>1 DEF Proceed
    <3>2. ASSUME NEW step, Advance(w, step) PROVE job'[w].run = job[w].run
      BY <1>1, <3>1, <3>2 DEF Advance, Job
    <3> QED
      BY <1>1, <2>8, <3>1, <3>2 DEF Begin, Refresh, Visit, Reload, Job
  <2>9. ASSUME Raise(w) PROVE job'[w].run = job[w].run
    <3>1. \E step : job'[w] = [job[w] EXCEPT !.pc = step, !.url = NULL, !.fresh = FALSE]
      BY <1>1, <2>9 DEF Raise, Proceed
    <3> QED
      BY <1>1, <3>1 DEF Job
  <2>10. ASSUME StorePage(w) \/ StoreConflict(w) \/ PageError(w)
         PROVE  job'[w].run = job[w].run
    <3>1. AfterPage(w).run = job[w].run
      BY <1>1 DEF AfterPage, Job
    <3>2. Raise(w) \/ job'[w] = AfterPage(w)
      BY <1>1, <2>10 DEF StorePage, StoreConflict, PageError, AnswerLost, Proceed
    <3> QED
      BY <2>9, <3>1, <3>2
  <2> QED
    BY <1>3, <2>3, <2>4, <2>5, <2>6, <2>7, <2>8, <2>10 DEF Perform, Work
<1> QED
  BY <1>1, <1>2, <1>3, OtherWorker DEF Next, RedisRestart, vars

\* A run becomes active again only in the hands of its worker.
LEMMA ActiveAgain ==
    ASSUME Calm, Answered, [Next]_vars, NEW r \in Run, run[r].status # "absent",
           ~IsActive(r), run'[r].status \in ActiveStatus
    PROVE  \E w \in Process : Holds(w, r)'
<1>1. TypeOK /\ ReqLinked /\ run \in [Run -> RunRow] /\ run[r] \in RunRow
  BY AnsweredTypes
<1>2. run'[r] # GoneRun
  BY DEF GoneRun, BlankRun, ActiveStatus
<1>3. \E w \in Process : Holds(w, r)
  BY <1>1, <1>2, RunSteps DEF RowKept, IsActive, ActiveStatus
<1> QED
  BY <1>3, HoldKept

\* A row that is created is that of the run which a thread will enqueue.
LEMMA ActiveFirst ==
    ASSUME Answered, [Next]_vars, NEW r \in Run, run[r].status = "absent",
           run'[r].status \in ActiveStatus
    PROVE  \E c \in Thread : Attends(c, r)'
<1>1. Told /\ req \in [Thread -> Request]
  BY AnsweredTypes
<1>2. PICK c \in Thread : req'[c] = [req[c] EXCEPT !.pc = "enqueue", !.run = r]
  BY <1>1, Created DEF ActiveStatus
<1>3. req'[c].pc = "enqueue" /\ req'[c].run = r
  BY <1>1, <1>2 DEF Request
<1> QED
  BY <1>3 DEF Attends

\* What a step of another thread or of a worker leaves to c.
LEMMA ReqSame ==
    ASSUME Answered, [Next]_vars, NEW c \in Thread, ~Api(c)
    PROVE  req'[c] = req[c]
BY AnsweredTypes, OtherThread DEF Next, RedisRestart, vars

\* The threads that know a run after a step knew it before, have created it or
\* have found it.
LEMMA RunKnown ==
    ASSUME Answered, NEW c \in Thread, Api(c), req'[c].run # NULL
    PROVE  \/ req'[c].run = req[c].run /\ req'[c].task = req[c].task
           \/ /\ StartCommit(c) /\ req'[c].run \in Run
              /\ run'[req'[c].run].task = req'[c].task
           \/ /\ FindActiveRun(c) /\ req'[c].run \in Run /\ UNCHANGED run
              /\ run[req'[c].run].task = req'[c].task
<1>1. /\ req \in [Thread -> Request] /\ req[c] \in Request
      /\ run \in [Run -> RunRow] /\ ReqLinked
  BY AnsweredTypes
<1>2. ASSUME NEW request, Continue(c, request) PROVE req'[c] = request
  BY <1>1, <1>2 DEF Continue
<1>3. ASSUME NEW step, Goto(c, step)
      PROVE  req'[c].run = req[c].run /\ req'[c].task = req[c].task
  BY <1>1, <1>2, <1>3 DEF Goto, Request
<1>4. ~Done(c)
  BY <1>2 DEF Done, Idle
<1>5. CASE NewRequest(c)
  <2>1. ASSUME CreateTask(c) \/ CloneTask(c) PROVE req' = req
    BY <2>1 DEF CreateTask, CloneTask
  <2>2. ASSUME UpdateRead(c) \/ DeleteRead(c) \/ StartRead(c) \/ SuspendRead(c)
        PROVE  req'[c].run = req[c].run /\ req[c].pc = "idle"
    BY <1>1, <1>2, <2>2 DEF UpdateRead, DeleteRead, StartRead, SuspendRead, At, Request
  <2>3. req[c].pc = "idle" => req[c].run = NULL
    BY <1>1 DEF ReqLinked
  <2> QED
    BY <1>5, <2>1, <2>2, <2>3 DEF NewRequest
<1>6. CASE StartCommit(c)
  <2>1. PICK r \in Run : /\ run' = [run EXCEPT ![r] = QueuedRun(req[c].task)]
                         /\ Continue(c, [req[c] EXCEPT !.pc = "enqueue", !.run = r])
    BY <1>6 DEF StartCommit
  <2>2. req'[c].run = r /\ req'[c].task = req[c].task
    BY <1>1, <1>2, <2>1 DEF Request
  <2>3. run'[r].task = req[c].task
    BY <1>1, <2>1 DEF QueuedRun, BlankRun
  <2> QED
    BY <1>6, <2>2, <2>3
<1>7. CASE EnqueueFails(c) \/ RecoverRead(c)
  BY <1>1, <1>2, <1>7 DEF EnqueueFails, RecoverRead, Request
<1>8. CASE FindActiveRun(c)
  <2>1. ASSUME NEW r \in Run, IsLatestActive(req[c].task, r),
               Continue(c, [req[c] EXCEPT !.pc = AfterFind(r), !.run = r,
                                          !.seenRun = run[r].status])
        PROVE  req'[c].run = r /\ req'[c].task = req[c].task /\ run[r].task = req[c].task
    BY <1>1, <1>2, <2>1 DEF IsLatestActive, Request
  <2> QED
    BY <1>3, <1>8, <2>1 DEF FindActiveRun
<1>9. CASE Enqueue(c) \/ RecordFails(c) \/ Unqueue(c) \/ UnqueueFails(c)
  BY <1>3, <1>9 DEF Enqueue, RecordFails, Unqueue, UnqueueFails
<1>10. CASE UpdateCommit(c) \/ DeleteCommit(c) \/ RecordJob(c) \/ RecoverCommit(c)
            \/ SuspendCommit(c) \/ RowGone(c) \/ ApiCrash(c)
  BY <1>4, <1>10 DEF UpdateCommit, DeleteCommit, RecordJob, RecoverCommit, SuspendCommit,
                     RowGone, ApiCrash
<1> QED
  BY <1>5, <1>6, <1>7, <1>8, <1>9, <1>10 DEF Api, Serve, ApiFault

LEMMA OwnRunStep ==
    ASSUME Answered, [Next]_vars, NEW c \in Thread, req'[c].run # NULL,
           run'[req'[c].run].status \in TaskRunStatus
    PROVE  run'[req'[c].run].task = req'[c].task
<1>1. /\ Custody /\ TypeOK /\ ReqLinked /\ run \in [Run -> RunRow] /\ NULL \notin Run
      /\ req[c] \in Request
  BY AnsweredTypes
<1>2. ASSUME req'[c].run = req[c].run, req'[c].task = req[c].task
      PROVE  run'[req'[c].run].task = req'[c].task
  <2>1. PICK r \in Run : r = req[c].run
    BY <1>1, <1>2 DEF Request
  <2>2. run[r].status # "absent"
    BY <1>1, <2>1 DEF ReqLinked
  <2>3. run'[r].task = run[r].task
    <3>1. run'[r] # GoneRun
      BY <1>2, <2>1 DEF GoneRun, BlankRun, TaskRunStatus
    <3>2. ASSUME NEW w \in Process, Holds(w, r), StorePage(w) \/ Finish(w) \/ MarkFailed(w)
          PROVE  run'[r].task = run[r].task
      <4>1. CASE StorePage(w)
        BY <1>1, <3>2, <4>1 DEF StorePage, Holds, RunRow
      <4>2. CASE Finish(w) \/ MarkFailed(w)
        <5>1. \E status, good, bad : run'[r] = Ended(run[r], status, good, bad)
          BY <1>1, <3>2, <4>2 DEF Finish, MarkFailed, Holds
        <5> QED
          BY <1>1, <5>1 DEF Ended, RunRow
      <4> QED
        BY <3>2, <4>1, <4>2
    <3> QED
      BY <1>1, <2>2, <3>1, <3>2, RunSteps DEF RowKept
  <2>4. RunExists(r)
    <3>1. RunExists(r)'
      BY <1>2, <2>1 DEF RunExists
    <3> QED
      BY <1>1, <2>3, <3>1, StaysGone
  <2> QED
    BY <1>2, <2>1, <2>3, <2>4, <1>1 DEF Answered, Attention
<1>3. CASE Api(c)
  BY <1>2, <1>3, RunKnown
<1>4. CASE ~Api(c)
  BY <1>2, <1>4, ReqSame
<1> QED
  BY <1>3, <1>4

LEMMA UnbegunIdle ==
    ASSUME Answered, [Next]_vars, NEW r \in Run, Unbegun(r)'
    PROVE  run'[r].status \notin {"running", "success"}
<1>1. /\ Custody /\ TypeOK /\ ReqLinked /\ run \in [Run -> RunRow] /\ run[r] \in RunRow
      /\ OnePlace /\ OnePlace' /\ job \in [Process -> Job] /\ Told
  BY AnsweredTypes, PlaceStep DEF Custody
<1>2. CASE run'[r] = GoneRun \/ (run[r].status = "absent" /\ \E t : run'[r] = QueuedRun(t))
  BY <1>2 DEF GoneRun, QueuedRun, BlankRun
<1>3. run[r].status = "absent" => \A w \in Process : ~Holds(w, r)
  BY <1>1, NoJobBefore DEF Custody
<1>4. CASE RowKept(r) /\ run[r].status = "absent"
  BY <1>3, <1>4 DEF RowKept
<1>5. CASE run[r].status # "absent"
  <2>1. Unbegun(r)
    BY <1>1, <1>5, UnbegunStays
  <2>2. run[r].status \notin {"running", "success"}
    BY <2>1 DEF Answered, Attention
  <2>3. ASSUME NEW w \in Process, Begin(w), Holds(w, r) PROVE FALSE
    <3>1. job'[w].pc \in {"failing", "refresh"} /\ job'[w].run = r
      <4>1. \/ job'[w] = [job[w] EXCEPT !.pc = "failing"]
            \/ job'[w] = [job[w] EXCEPT !.pc = "refresh", !.page = 1]
        BY <1>1, <2>3 DEF Begin, Advance, Proceed
      <4> QED
        BY <1>1, <2>3, <4>1 DEF Holds, Job
    <3>2. Holds(w, r)'
      BY <3>1 DEF Holds
    <3>3. \A v \in Process : Holds(v, r)' => v = w
      BY <1>1, <3>2 DEF OnePlace
    <3> QED
      BY <1>1, <3>1, <3>2, <3>3 DEF OnePlace, Unbegun
  <2>4. ASSUME NEW w \in Process, Holds(w, r), StorePage(w) \/ Finish(w) \/ MarkFailed(w)
        PROVE  FALSE
    <3>1. CASE StorePage(w) \/ Finish(w) \/ MarkFailed(w)
      <4>1. job[w].pc \in {"store", "finish", "failing"}
        BY <3>1 DEF StorePage, Finish, MarkFailed, Doing
      <4>2. ~Waiting(r) /\ \A c \in Thread : ~Launching(c, r)
        BY <1>1, <2>4 DEF OnePlace
      <4>3. PICK v \in Process : Holds(v, r) /\ job[v].pc \in {"load", "begin"}
        BY <2>1, <4>2 DEF Unbegun
      <4>4. v = w
        BY <1>1, <2>4, <4>3 DEF OnePlace
      <4> QED
        BY <4>1, <4>3, <4>4
    <3> QED
      BY <2>4, <3>1
  <2> QED
    BY <1>1, <1>2, <2>2, <2>3, <2>4, RunSteps DEF RowKept
<1>6. CASE run[r].status = "absent"
  <2>1. \/ RowKept(r)
        \/ run'[r] = GoneRun
        \/ run[r].status = "absent" /\ \E t : run'[r] = QueuedRun(t)
        \/ \E w \in Process : Holds(w, r) /\ (StorePage(w) \/ Finish(w) \/ MarkFailed(w))
    BY <1>1, RunSteps
  <2> QED
    BY <1>2, <1>3, <1>4, <1>6, <2>1
<1> QED
  BY <1>5, <1>6

\* How a thread comes to the steps at which it takes responsibility for a run.
LEMMA ThreadSteps ==
    ASSUME Answered, NEW c \in Thread, Api(c), req'[c].pc \in {"unqueue", "recovering"}
    PROVE  \/ req'[c] = req[c]
           \/ /\ req'[c].run \in Run /\ UNCHANGED run
              /\ IF req'[c].pc = "unqueue"
                 THEN req'[c].seenRun = "queued"
                 ELSE req'[c].seenRun \in {"queued", run[req'[c].run].status}
<1>1. /\ req \in [Thread -> Request] /\ req[c] \in Request
      /\ run \in [Run -> RunRow] /\ ReqLinked /\ TypeOK
  BY AnsweredTypes
<1>2. ASSUME NEW request, Continue(c, request) PROVE req'[c] = request
  BY <1>1, <1>2 DEF Continue
<1>3. CASE FindActiveRun(c)
  <2>1. ASSUME NEW r \in Run,
               Continue(c, [req[c] EXCEPT !.pc = AfterFind(r), !.run = r,
                                          !.seenRun = run[r].status])
        PROVE  req'[c].pc = AfterFind(r) /\ req'[c].run = r /\ req'[c].seenRun = run[r].status
    BY <1>1, <1>2, <2>1 DEF Request
  <2>2. ~Goto(c, "suspend")
    BY <1>1, <1>2 DEF Goto, Request
  <2>3. PICK r \in Run : /\ req'[c].pc = AfterFind(r) /\ req'[c].run = r
                         /\ req'[c].seenRun = run[r].status
    BY <1>3, <2>1, <2>2 DEF FindActiveRun
  <2>4. req'[c].pc = "unqueue" /\ run[r].status = "queued"
    BY <2>3 DEF AfterFind
  <2> QED
    BY <1>3, <2>3, <2>4 DEF FindActiveRun
<1>4. CASE Unqueue(c) \/ UnqueueFails(c)
  BY <1>1, <1>2, <1>4 DEF Unqueue, UnqueueFails, Goto, Request
<1>5. CASE EnqueueFails(c)
  <2>1. req[c].run \in Run
    BY <1>1, <1>5 DEF EnqueueFails, ReqLinked, At, Request
  <2>2. req'[c].pc = "recovering" /\ req'[c].run = req[c].run /\ req'[c].seenRun = "queued"
    BY <1>1, <1>2, <1>5 DEF EnqueueFails, Request
  <2> QED
    BY <1>5, <2>1, <2>2 DEF EnqueueFails
<1>6. CASE RecoverRead(c)
  <2>1. req[c].run \in Run
    BY <1>1, <1>6 DEF RecoverRead, ReqLinked, At, Request
  <2>2. /\ req'[c].pc = "recovering" /\ req'[c].run = req[c].run
        /\ req'[c].seenRun = run[req[c].run].status
    BY <1>1, <1>2, <1>6 DEF RecoverRead, Request
  <2> QED
    BY <1>6, <2>1, <2>2 DEF RecoverRead
<1> QED
  BY <1>1, <1>3, <1>4, <1>5, <1>6, ReqWrites

LEMMA UnqueueSeen ==
    ASSUME Answered, [Next]_vars, NEW c \in Thread, req'[c].pc = "unqueue"
    PROVE  req'[c].seenRun = "queued"
<1>1. req'[c] = req[c] => req[c].pc = "unqueue"
  OBVIOUS
<1> QED
  BY <1>1, ReqSame, ThreadSteps DEF Answered, Attention, At

LEMMA FailureSeen ==
    ASSUME Calm, Answered, [Next]_vars, NEW c \in Thread,
           req'[c].pc = "recovering", req'[c].seenRun = "failed",
           run'[req'[c].run].status \in ActiveStatus
    PROVE  \E w \in Process : Holds(w, req[c].run)' /\ req'[c].run = req[c].run
<1>1. ReqLinked /\ req[c] \in Request
  BY AnsweredTypes
<1>2. CASE req'[c] = req[c]
  <2>1. PICK r \in Run : r = req[c].run
    BY <1>1, <1>2 DEF ReqLinked, Request
  <2>2. run[r].status # "absent" /\ run'[r].status \in ActiveStatus
    BY <1>1, <1>2, <2>1 DEF ReqLinked, Request
  <2>3. \E w \in Process : Holds(w, r)'
    <3>1. CASE IsActive(r)
      <4>1. \E w \in Process : Holds(w, r)
        BY <1>2, <2>1, <3>1 DEF Answered, Attention, At
      <4> QED
        BY <2>2, <4>1, HoldKept
    <3> QED
      BY <2>2, <3>1, ActiveAgain
  <2> QED
    BY <1>2, <2>1, <2>3 DEF Holds
<1>3. CASE Api(c) /\ req'[c] # req[c]
  <2>1. run' = run /\ req'[c].run \in Run /\ run[req'[c].run].status = "failed"
    BY <1>3, ThreadSteps
  <2> QED
    BY <2>1 DEF ActiveStatus
<1> QED
  BY <1>2, <1>3, ReqSame

\* Only a few steps of a request touch the queue.
LEMMA QueueKept ==
    ASSUME NEW c \in Thread, Api(c),
           ~Enqueue(c), ~EnqueueFails(c), ~Unqueue(c), ~UnqueueFails(c)
    PROVE  UNCHANGED queue
BY DEF Api, NewRequest, Serve, ApiFault, CreateTask, CloneTask, UpdateRead, UpdateCommit,
       DeleteRead, DeleteCommit, StartRead, StartCommit, RecordJob, RecordFails, RecoverRead,
       RecoverCommit, SuspendRead, FindActiveRun, SuspendCommit, RowGone, ApiCrash

\* A job leaves the queue in the hands of a worker, or of a thread that saw its
\* run queued and will fail it.
LEMMA WaitingKept ==
    ASSUME Calm, Answered, [Next]_vars, NEW r \in Run, Waiting(r)
    PROVE  Attended(r)'
<1>1. /\ TypeOK /\ OnePlace /\ ReqLinked /\ queue \in Seq(Run) /\ Distinct
      /\ req \in [Thread -> Request] /\ job \in [Process -> Job]
  BY AnsweredTypes
<1>2. CASE UNCHANGED queue
  <2>1. Waiting(r)'
    BY <1>2 DEF Waiting
  <2> QED
    BY <2>1 DEF Attended
<1>3. ASSUME NEW c \in Thread, Enqueue(c) \/ EnqueueFails(c), ~UNCHANGED queue
      PROVE  Attended(r)'
  <2>1. PICK q \in Run : q = req[c].run
    BY <1>1, <1>3 DEF Enqueue, EnqueueFails, ReqLinked, At, Request
  <2>2. Launching(c, q) /\ Push(q)
    BY <1>3, <2>1 DEF Enqueue, EnqueueFails, Launching
  <2>3. ~Waiting(q)
    BY <1>1, <2>2 DEF OnePlace
  <2>4. Waiting(r)'
    BY <1>1, <2>2, <2>3, PushMoves
  <2> QED
    BY <2>4 DEF Attended
<1>4. ASSUME NEW c \in Thread, Unqueue(c) \/ UnqueueFails(c), ~UNCHANGED queue
      PROVE  Attended(r)'
  <2>1. Withdraw(req[c].run) /\ Goto(c, "suspend") /\ At(c, "unqueue")
    BY <1>4 DEF Unqueue, UnqueueFails
  <2>2. CASE r # req[c].run
    <3>1. Waiting(r)'
      BY <1>1, <2>1, <2>2, WithdrawMoves
    <3> QED
      BY <3>1 DEF Attended
  <2>3. CASE r = req[c].run
    <3>1. req[c].seenRun = "queued"
      BY <2>1 DEF Answered, Attention
    <3>2. req'[c].pc = "suspend" /\ req'[c].run = r /\ req'[c].seenRun = "queued"
      BY <1>1, <2>1, <2>3, <3>1 DEF Goto, Continue, Request
    <3>3. Attends(c, r)'
      BY <3>2 DEF Attends, At
    <3> QED
      BY <3>3 DEF Attended
  <2> QED
    BY <2>2, <2>3
<1>5. ASSUME NEW w \in Process, Perform(w), ~UNCHANGED queue
      PROVE  Attended(r)'
  <2>1. PICK q \in Run : Take(q) /\ job'[w].run = q
    BY <1>1, <1>5, WorkMoves
  <2>2. CASE q = r
    BY <2>1, <2>2 DEF Attended, Holds
  <2>3. CASE q # r
    <3>1. Waiting(r)'
      BY <1>1, <2>1, <2>3, TakeMoves
    <3> QED
      BY <3>1 DEF Attended
  <2> QED
    BY <2>2, <2>3
<1>6. ~RedisRestart
  BY DEF RedisRestart, Calm
<1> QED
  BY <1>2, <1>3, <1>4, <1>5, <1>6, QueueKept DEF Next, vars

\* A thread that attends to a run enqueues it, fails it, or leaves it to the
\* worker that ended it before.
LEMMA AttendsKept ==
    ASSUME Calm, Answered, [Next]_vars, NEW r \in Run, NEW c \in Thread, Attends(c, r),
           run'[r].status \in ActiveStatus
    PROVE  Attended(r)'
<1>1. /\ TypeOK /\ OnePlace /\ ReqLinked /\ RowsLinked /\ queue \in Seq(Run) /\ Distinct
      /\ req \in [Thread -> Request] /\ run \in [Run -> RunRow] /\ run[r] \in RunRow
      /\ NULL \notin Run /\ req[c].run = r
  BY AnsweredTypes DEF Attends
<1>2. CASE req'[c] = req[c]
  BY <1>2 DEF Attends, Attended, At
<1>3. ~ApiCrash(c)
  BY DEF ApiCrash, Calm
<1>4. ~RowGone(c)
  <2>1. SUFFICES ASSUME RowGone(c) PROVE FALSE
    OBVIOUS
  <2>2. run' = run /\ ~TaskExists(req[c].task)
    BY <2>1 DEF RowGone
  <2>3. RunExists(r)
    BY <2>2 DEF RunExists, ActiveStatus, TaskRunStatus
  <2>4. run[r].task = req[c].task
    BY <1>1, <2>3 DEF Answered, Attention
  <2> QED
    BY <1>1, <2>2, <2>3, <2>4 DEF RowsLinked
<1>5. CASE Enqueue(c)
  <2>1. Launching(c, r) /\ Push(r)
    BY <1>1, <1>5 DEF Enqueue, Launching
  <2>2. ~Waiting(r)
    BY <1>1, <2>1 DEF OnePlace
  <2>3. Waiting(r)'
    BY <1>1, <2>1, <2>2, PushMoves
  <2> QED
    BY <2>3 DEF Attended
<1>6. CASE EnqueueFails(c)
  <2>1. req'[c].pc = "recovering" /\ req'[c].run = r
    BY <1>1, <1>6 DEF EnqueueFails, Continue, Request
  <2>2. Attends(c, r)'
    BY <2>1 DEF Attends
  <2> QED
    BY <2>2 DEF Attended
<1>7. CASE RecoverCommit(c)
  <2>1. run'[r] = RecoveredRun(run[r], req[c].seenRun) /\ At(c, "recovering")
    BY <1>1, <1>7 DEF RecoverCommit
  <2>2. req[c].seenRun = "failed" /\ IsActive(r)
    BY <1>1, <2>1 DEF RecoveredRun, RunRow, ActiveStatus, IsActive
  <2>3. PICK w \in Process : Holds(w, r)
    BY <1>1, <2>1, <2>2 DEF Answered, Attention
  <2>4. Holds(w, r)'
    BY <2>3, HoldKept
  <2> QED
    BY <2>4 DEF Attended
<1>8. ~(SuspendCommit(c) /\ req[c].seenRun = "queued")
  <2>1. SUFFICES ASSUME SuspendCommit(c), req[c].seenRun = "queued" PROVE FALSE
    OBVIOUS
  <2>2. run'[r] = Cancelled(run[r], "queued")
    BY <1>1, <2>1 DEF SuspendCommit
  <2>3. run'[r].status = "failed"
    BY <1>1, <2>2 DEF Cancelled, RunRow
  <2> QED
    BY <2>3 DEF ActiveStatus
<1>9. ASSUME Api(c), req'[c] # req[c]
      PROVE  \/ Enqueue(c) \/ EnqueueFails(c) \/ RecoverCommit(c)
             \/ SuspendCommit(c) /\ req[c].seenRun = "queued"
             \/ RowGone(c) \/ ApiCrash(c)
  BY <1>9 DEF Attends, At, Api, NewRequest, Serve, ApiFault, CreateTask, CloneTask, UpdateRead,
              UpdateCommit, DeleteRead, DeleteCommit, StartRead, StartCommit, Enqueue,
              EnqueueFails, RecordJob, RecordFails, RecoverRead, RecoverCommit, SuspendRead,
              FindActiveRun, Unqueue, UnqueueFails, SuspendCommit
<1> QED
  BY <1>2, <1>3, <1>4, <1>5, <1>6, <1>7, <1>8, <1>9, ReqSame

LEMMA AttendedStep ==
    ASSUME Calm, Answered, [Next]_vars, NEW r \in Run, run'[r].status \in ActiveStatus
    PROVE  Attended(r)'
<1>1. ASSUME NEW w \in Process, Holds(w, r)' PROVE Attended(r)'
  BY <1>1 DEF Attended
<1>2. ASSUME NEW c \in Thread, Attends(c, r)' PROVE Attended(r)'
  BY <1>2 DEF Attended
<1>3. CASE run[r].status = "absent"
  BY <1>2, <1>3, ActiveFirst
<1>4. CASE run[r].status # "absent" /\ ~IsActive(r)
  BY <1>1, <1>4, ActiveAgain
<1>5. CASE IsActive(r)
  <2>1. Attended(r)
    BY <1>5 DEF Answered, Attention
  <2>2. ASSUME NEW w \in Process, Holds(w, r) PROVE Attended(r)'
    BY <1>1, <2>2, HoldKept
  <2> QED
    BY <2>1, <2>2, WaitingKept, AttendsKept DEF Attended
<1> QED
  BY <1>3, <1>4, <1>5

LEMMA AnsweredStep == Calm /\ Answered /\ [Next]_vars => Answered'
<1> SUFFICES ASSUME Calm, Answered, [Next]_vars PROVE Answered'
  OBVIOUS
<1>1. Told'
  BY ToldStep DEF Answered
<1>2. ASSUME NEW r \in Run, IsActive(r)' PROVE Attended(r)'
  BY <1>2, AttendedStep DEF IsActive
<1>3. ASSUME NEW r \in Run, Unbegun(r)' PROVE run'[r].status \notin {"running", "success"}
  BY <1>3, UnbegunIdle
<1>4. ASSUME NEW c \in Thread, At(c, "unqueue")' PROVE req'[c].seenRun = "queued"
  BY <1>4, UnqueueSeen DEF At
<1>5. ASSUME NEW c \in Thread, At(c, "recovering")', req'[c].seenRun = "failed",
             run'[req'[c].run].status \in ActiveStatus
      PROVE  \E w \in Process : job'[w].run = req'[c].run
  BY <1>5, FailureSeen DEF At, Holds
<1>6. ASSUME NEW c \in Thread, req'[c].run # NULL, run'[req'[c].run].status \in TaskRunStatus
      PROVE  run'[req'[c].run].task = req'[c].task
  BY <1>6, OwnRunStep
<1>7. Attention'
  BY <1>2, <1>3, <1>4, <1>5, <1>6 DEF Attention, IsActive, RunExists, Holds
<1> QED
  BY <1>1, <1>7 DEF Answered

LEMMA InitAnswered == Init => Answered
<1> SUFFICES ASSUME Init PROVE Answered
  OBVIOUS
<1>1. \A r \in Run : run[r].status = "absent"
  BY DEF Init, StoreInit, BlankRun
<1>2. \A c \in Thread : req[c].pc = "idle" /\ req[c].run = NULL
  BY DEF Init, ApiInit, Idle
<1>3. Attention
  BY <1>1, <1>2 DEF Attention, IsActive, ActiveStatus, At
<1> QED
  BY <1>3, InitTold DEF Answered

\* As long as no process dies and Redis keeps its list, every queued or running
\* run is waiting, with a worker, or with a thread that will enqueue or fail it,
\* although calls to Redis and commits of the job's identifier may fail
\* (services.py:46-77, 96-123; worker.py:50-98).
THEOREM NoRunOrphaned ==
    ASSUME Calm
    PROVE  Spec => []NoOrphanRun
<1>1. Answered /\ [Next]_vars => Answered'
  BY AnsweredStep
<1>2. Answered => NoOrphanRun
  BY DEF Answered, Attention, Attended, Attends, NoOrphanRun
<1> QED
  BY <1>1, <1>2, InitAnswered, PTL DEF Spec

-----------------------------------------------------------------------------
(* The runs of one task                                                    *)

\* A run that may still be executed and that nobody has cancelled.
Hopeful(r) ==
    /\ RunExists(r) /\ ~run[r].cancel_requested
    /\ IsActive(r) \/ ~PastPages(r)

\* Runs are created in the order of their numbers.
InOrder == \A q, r \in Run : q < r /\ run[q].status = "absent" => run[r].status = "absent"

\* A hopeful run is the latest of its task.
HopeIsLatest ==
    \A q, r \in Run : Hopeful(r) /\ run[q].task = run[r].task => q <= r

\* Its task cannot be started, and shows it as running only while it is active.
HopeKeepsTask ==
    \A r \in Run : Hopeful(r) =>
        /\ task[run[r].task].status \notin Startable
        /\ task[run[r].task].status = "running" => IsActive(r)

\* The request in progress does not start its task, and suspends that run.
HopeIsSeen ==
    \A c \in Thread, r \in Run : Hopeful(r) /\ req[c].task = run[r].task =>
        /\ ~At(c, "start")
        /\ At(c, "find") => IsActive(r)
        /\ req[c].pc \in {"unqueue", "suspend"} => req[c].run = r

\* A recovery that leaves the task alone has seen it failed.
FailureIsSeen ==
    \A c \in Thread : At(c, "recovering") /\ req[c].seenTask = "failed" =>
        task[req[c].task].status \notin Startable \cup {"running"}

OneHope ==
    /\ Told
    /\ InOrder
    /\ HopeIsLatest
    /\ HopeKeepsTask
    /\ HopeIsSeen
    /\ FailureIsSeen

\* What the worker of a run writes into its row.
LEMMA HolderWrites ==
    ASSUME Told, NEW r \in Run, NEW w \in Process, Holds(w, r),
           StorePage(w) \/ Finish(w) \/ MarkFailed(w)
    PROVE  /\ RunExists(r)
           /\ run'[r].task = run[r].task
           /\ run'[r].cancel_requested = run[r].cancel_requested
           /\ StorePage(w) => run'[r].status = run[r].status
           /\ ~StorePage(w) => run'[r].status \in TerminalStatus
<1>1. run \in [Run -> RunRow] /\ run[r] \in RunRow /\ job[w].run = r
  BY ToldTypes DEF Holds
<1>2. CASE StorePage(w)
  BY <1>1, <1>2 DEF StorePage, RunRow
<1>3. CASE Finish(w) \/ MarkFailed(w)
  <2>1. /\ RunExists(r)
        /\ \E status \in TerminalStatus : \E good, bad : run'[r] = Ended(run[r], status, good, bad)
    BY <1>1, <1>3 DEF Finish, MarkFailed, TerminalStatus
  <2>2. ~StorePage(w)
    BY <1>3 DEF StorePage, Finish, MarkFailed, Doing
  <2> QED
    BY <1>1, <2>1, <2>2 DEF Ended, RunRow
<1> QED
  BY <1>2, <1>3

\* Hope is not regained: a run is hopeful from its creation until it is
\* cancelled or has nobody left to execute it.
LEMMA HopeStep ==
    ASSUME Told, [Next]_vars, NEW r \in Run, Hopeful(r)'
    PROVE  IF run[r].status = "absent"
           THEN \E c \in Thread :
                   /\ StartCommit(c) /\ IsNextRun(r) /\ UNCHANGED job
                   /\ run' = [run EXCEPT ![r] = QueuedRun(req[c].task)]
                   /\ req'[c] = [req[c] EXCEPT !.pc = "enqueue", !.run = r]
           ELSE Hopeful(r) /\ run'[r].task = run[r].task
<1>1. /\ Custody /\ TypeOK /\ ReqLinked /\ run \in [Run -> RunRow] /\ run[r] \in RunRow
      /\ run'[r].status \in TaskRunStatus
  BY ToldTypes DEF Hopeful, RunExists
<1>2. CASE run[r].status = "absent"
  BY <1>1, <1>2, Created DEF TaskRunStatus
<1>3. CASE run[r].status # "absent" /\ RowKept(r)
  <2>1. run'[r].task = run[r].task /\ (run[r].cancel_requested => run'[r].cancel_requested)
    BY <1>3 DEF RowKept
  <2>2. RunExists(r)
    BY <1>1, <2>1, StaysGone DEF RunExists
  <2>3. IsActive(r)' => IsActive(r) \/ ~PastPages(r)
    BY <1>3 DEF RowKept, IsActive, ActiveStatus, PastPages, Begin, Doing
  <2>4. PastPages(r) => PastPages(r)'
    BY <1>1, <1>3, PastPagesStays
  <2> QED
    BY <1>3, <2>1, <2>2, <2>3, <2>4 DEF Hopeful
<1>4. ASSUME run[r].status # "absent", NEW w \in Process, Holds(w, r),
             StorePage(w) \/ Finish(w) \/ MarkFailed(w)
      PROVE  Hopeful(r) /\ run'[r].task = run[r].task
  <2>1. /\ RunExists(r) /\ run'[r].task = run[r].task
        /\ run'[r].cancel_requested = run[r].cancel_requested
        /\ StorePage(w) => run'[r].status = run[r].status
        /\ ~StorePage(w) => run'[r].status \in TerminalStatus
    BY <1>4, HolderWrites
  <2>2. IsActive(r)' => StorePage(w) /\ IsActive(r)
    BY <2>1 DEF IsActive, TerminalStatus, ActiveStatus
  <2>3. PastPages(r) => PastPages(r)'
    BY <1>1, <1>4, PastPagesStays
  <2> QED
    BY <2>1, <2>2, <2>3 DEF Hopeful
<1>5. run'[r] # GoneRun
  BY <1>1 DEF GoneRun, BlankRun, TaskRunStatus
<1> QED
  BY <1>1, <1>2, <1>3, <1>4, <1>5, RunSteps

\* A worker that ends a run leaves no job behind that could revive it.
LEMMA EndedHopeless ==
    ASSUME Told, [Next]_vars, NEW r \in Run, NEW w \in Process, Holds(w, r), Perform(w),
           Finish(w) \/ MarkFailed(w), UNCHANGED req
    PROVE  ~Hopeful(r)'
<1>1. /\ Custody /\ TypeOK /\ OnePlace /\ job \in [Process -> Job] /\ NULL \notin Run
  BY ToldTypes
<1>2. ~StorePage(w)
  BY DEF StorePage, Finish, MarkFailed, Doing
<1>3. run'[r].status \in TerminalStatus
  BY <1>2, HolderWrites
<1>4. PastPages(r)'
  BY <1>1, EndedPast
<1> QED
  BY <1>3, <1>4 DEF Hopeful, IsActive, TerminalStatus, ActiveStatus

\* Only the recovery of a failed enqueue makes a hopeful run inactive.
LEMMA ActiveKept ==
    ASSUME Told, [Next]_vars, NEW r \in Run, IsActive(r), Hopeful(r)',
           \A c \in Thread : ~(RecoverCommit(c) /\ req[c].run = r)
    PROVE  IsActive(r)'
<1>1. /\ Custody /\ TypeOK /\ ReqLinked /\ run \in [Run -> RunRow] /\ run[r] \in RunRow
      /\ run[r].status # "absent" /\ run[r].status \in ActiveStatus
  BY ToldTypes DEF IsActive, ActiveStatus
<1>2. ASSUME run'[r].status = run[r].status PROVE IsActive(r)'
  BY <1>1, <1>2 DEF IsActive
<1>3. ASSUME NEW c \in Thread, Api(c) PROVE IsActive(r)'
  <2>1. CASE DeleteCommit(c)
    <3>1. run'[r] = run[r] \/ run'[r] = GoneRun
      BY <1>1, <2>1 DEF DeleteCommit, DeleteTask
    <3>2. run'[r] # GoneRun
      BY DEF Hopeful, RunExists, GoneRun, BlankRun, TaskRunStatus
    <3> QED
      BY <1>2, <3>1, <3>2
  <2>2. CASE StartCommit(c)
    BY <1>1, <1>2, <2>2 DEF StartCommit, IsNextRun
  <2>3. CASE RecordJob(c) \/ RecordFails(c)
    <3>1. run'[r] = run[r] \/ run'[r] = [run[r] EXCEPT !.queue_job_id = TRUE]
      BY <1>1, <2>3 DEF RecordJob, RecordFails
    <3> QED
      BY <1>1, <1>2, <3>1 DEF RunRow
  <2>4. CASE RecoverCommit(c)
    BY <1>1, <1>2, <2>4 DEF RecoverCommit
  <2>5. CASE SuspendCommit(c)
    <3>1. run'[r] = run[r] \/ \E seen : run'[r] = Cancelled(run[r], seen)
      BY <1>1, <2>5 DEF SuspendCommit
    <3>2. ASSUME NEW seen, run'[r] = Cancelled(run[r], seen) PROVE FALSE
      <4>1. run'[r].cancel_requested
        BY <1>1, <3>2 DEF Cancelled, RunRow
      <4> QED
        BY <4>1 DEF Hopeful
    <3> QED
      BY <1>2, <3>1, <3>2
  <2>6. ASSUME NewRequest(c) PROVE UNCHANGED run
    BY <2>6 DEF NewRequest, CreateTask, CloneTask, InsertTask, UpdateRead, DeleteRead,
                StartRead, SuspendRead
  <2>7. ASSUME \/ UpdateCommit(c) \/ Enqueue(c) \/ RecoverRead(c) \/ FindActiveRun(c)
               \/ Unqueue(c) \/ RowGone(c)
               \/ EnqueueFails(c) \/ UnqueueFails(c) \/ ApiCrash(c)
        PROVE  UNCHANGED run
    BY <2>7 DEF UpdateCommit, Enqueue, RecoverRead, FindActiveRun, Unqueue, RowGone,
                EnqueueFails, UnqueueFails, ApiCrash
  <2> QED
    BY <1>2, <1>3, <2>1, <2>2, <2>3, <2>4, <2>5, <2>6, <2>7 DEF Api, Serve, ApiFault
<1>4. ASSUME NEW w \in Process, Perform(w), UNCHANGED req PROVE IsActive(r)'
  <2>1. CASE Begin(w)
    <3>1. run'[r].status \in {run[r].status, "running"}
      BY <1>1, <2>1 DEF Begin, RunRow
    <3> QED
      BY <1>1, <3>1 DEF IsActive, ActiveStatus
  <2>2. CASE StorePage(w)
    <3>1. CASE Holds(w, r)
      BY <1>2, <2>2, <3>1, HolderWrites
    <3>2. CASE ~Holds(w, r)
      BY <1>1, <1>2, <2>2, <3>2 DEF StorePage, Holds
    <3> QED
      BY <3>1, <3>2
  <2>3. CASE Finish(w) \/ MarkFailed(w)
    <3>1. CASE Holds(w, r)
      BY <1>4, <2>3, <3>1, EndedHopeless
    <3>2. CASE ~Holds(w, r)
      BY <1>1, <1>2, <2>3, <3>2 DEF Finish, MarkFailed, Holds
    <3> QED
      BY <3>1, <3>2
  <2>4. CASE UNCHANGED run
    BY <1>2, <2>4
  <2> QED
    BY <1>4, <2>1, <2>2, <2>3, <2>4
       DEF Perform, Work, Dequeue, Load, Refresh, Visit, StoreConflict, PageError, Reload, RunGone,
           WorkerCrash
<1>5. CASE RedisRestart \/ UNCHANGED vars
  BY <1>2, <1>5 DEF RedisRestart, vars
<1> QED
  BY <1>3, <1>4, <1>5 DEF Next

\* A run that exists belongs to the task it was created for.
LEMMA TaskFixed ==
    ASSUME Told, [Next]_vars, NEW r \in Run, run[r].status # "absent", RunExists(r)'
    PROVE  run'[r].task = run[r].task
<1>1. TypeOK /\ ReqLinked
  BY ToldTypes
<1>2. run'[r] # GoneRun
  BY DEF RunExists, GoneRun, BlankRun, TaskRunStatus
<1> QED
  BY <1>1, <1>2, RunSteps, HolderWrites DEF RowKept

\* What may happen to the status of a task.
LEMMA TaskStep ==
    ASSUME Told, [Next]_vars, NEW t \in Task
    PROVE  \/ task'[t].status = task[t].status
           \/ task[t].status = "absent"
           \/ task'[t].status \in {"completed", "failed", "deleted"}
           \/ \E c \in Thread : (StartCommit(c) \/ SuspendCommit(c)) /\ req[c].task = t
<1>1. task \in [Task -> TaskRow] /\ task[t] \in TaskRow
  BY ToldTypes
<1>2. ASSUME NEW c \in Thread, Api(c)
      PROVE  \/ task'[t].status = task[t].status
             \/ task[t].status = "absent"
             \/ task'[t].status \in {"completed", "failed", "deleted"}
             \/ (StartCommit(c) \/ SuspendCommit(c)) /\ req[c].task = t
  <2>1. CASE CreateTask(c) \/ CloneTask(c)
    <3>1. PICK u \in Task : \E n : InsertTask(u, n)
      BY <2>1 DEF CreateTask, CloneTask
    <3> QED
      BY <1>1, <3>1 DEF InsertTask
  <2>2. CASE UpdateCommit(c)
    <3>1. task'[t] = task[t] \/ task'[t] = [task[t] EXCEPT !.urls = req[c].urls]
      BY <1>1, <2>2 DEF UpdateCommit
    <3> QED
      BY <1>1, <3>1 DEF TaskRow
  <2>3. CASE DeleteCommit(c)
    <3>1. task'[t] = task[t] \/ task'[t] = [BlankTask EXCEPT !.status = "deleted"]
      BY <1>1, <2>3 DEF DeleteCommit, DeleteTask
    <3> QED
      BY <3>1 DEF BlankTask
  <2>4. CASE StartCommit(c) \/ SuspendCommit(c)
    <3>1. \E status : task' = [task EXCEPT ![req[c].task].status = status]
      BY <2>4 DEF StartCommit, SuspendCommit
    <3> QED
      BY <1>1, <2>4, <3>1
  <2>5. CASE RecoverCommit(c)
    <3>1. task'[t] = task[t] \/ \E seen : task'[t] = RecoveredTask(task[t], seen)
      BY <1>1, <2>5 DEF RecoverCommit
    <3> QED
      BY <1>1, <3>1 DEF RecoveredTask, TaskRow
  <2>6. CASE \/ UpdateRead(c) \/ DeleteRead(c) \/ StartRead(c) \/ SuspendRead(c)
             \/ Enqueue(c) \/ RecordJob(c) \/ RecoverRead(c) \/ FindActiveRun(c)
             \/ Unqueue(c) \/ RowGone(c)
             \/ EnqueueFails(c) \/ RecordFails(c) \/ UnqueueFails(c) \/ ApiCrash(c)
    <3>1. UNCHANGED task
      BY <2>6 DEF UpdateRead, DeleteRead, StartRead, SuspendRead, Enqueue, RecordJob, RecoverRead,
                  FindActiveRun, Unqueue, RowGone, EnqueueFails, RecordFails, UnqueueFails, ApiCrash
    <3> QED
      BY <3>1
  <2> QED
    BY <1>2, <2>1, <2>2, <2>3, <2>4, <2>5, <2>6 DEF Api, NewRequest, Serve, ApiFault
<1>3. ASSUME NEW w \in Process, Perform(w)
      PROVE  task'[t].status = task[t].status \/ task'[t].status \in {"completed", "failed"}
  <2>1. CASE Finish(w) \/ MarkFailed(w)
    <3>1. \/ task' = [task EXCEPT ![TaskOf(w)].status = @]
          \/ task' = [task EXCEPT ![TaskOf(w)].status = "completed"]
          \/ task' = [task EXCEPT ![TaskOf(w)].status = "failed"]
      BY <2>1 DEF Finish, MarkFailed
    <3> QED
      BY <1>1, <3>1 DEF TaskRow
  <2>2. CASE UNCHANGED task
    BY <2>2
  <2> QED
    BY <1>3, <2>1, <2>2
       DEF Perform, Work, Dequeue, Load, Begin, Refresh, Visit, StorePage, StoreConflict, PageError,
           Reload, RunGone, WorkerCrash
<1>4. CASE RedisRestart \/ UNCHANGED vars
  BY <1>4 DEF RedisRestart, vars
<1> QED
  BY <1>2, <1>3, <1>4 DEF Next

\* How a request comes to the steps at which it starts, or suspends, a task, or
\* recovers from a failure.
LEMMA RequestSteps ==
    ASSUME Told, NEW c \in Thread, Api(c)
    PROVE  \/ req'[c] = req[c]
           \/ req'[c].pc \in {"idle", "update", "delete", "enqueue", "record", "recover"}
           \/ /\ StartRead(c) /\ req'[c].pc = "start"
              /\ req'[c].task \in Task /\ task[req'[c].task].status \in Startable
           \/ /\ SuspendRead(c) /\ req'[c].pc = "find"
              /\ req'[c].task \in Task /\ task[req'[c].task].status \in {"running", "paused"}
           \/ /\ FindActiveRun(c) /\ req'[c].pc \in {"unqueue", "suspend"}
              /\ req'[c].task = req[c].task
           \/ /\ req[c].pc = "unqueue" /\ req'[c].pc = "suspend"
              /\ req'[c].task = req[c].task /\ req'[c].run = req[c].run
           \/ /\ req'[c].pc = "recovering" /\ req'[c].task = req[c].task /\ UNCHANGED task
              /\ req'[c].seenTask \in {"running", task[req[c].task].status}
<1>1. req \in [Thread -> Request] /\ req[c] \in Request /\ TypeOK
  BY ToldTypes
<1>2. ASSUME NEW request, Continue(c, request) PROVE req'[c] = request
  BY <1>1, <1>2 DEF Continue
<1>3. CASE StartRead(c)
  <2>1. PICK t \in Task : /\ task[t].status \in Startable
                          /\ Continue(c, [req[c] EXCEPT !.pc = "start", !.task = t])
    BY <1>3 DEF StartRead
  <2>2. req'[c].pc = "start" /\ req'[c].task = t
    BY <1>1, <1>2, <2>1 DEF Request
  <2> QED
    BY <1>3, <2>1, <2>2
<1>4. CASE SuspendRead(c)
  <2>1. PICK t \in Task, to \in {"paused", "stopped"} :
           /\ task[t].status \in SuspendableFrom(to)
           /\ Continue(c, [req[c] EXCEPT !.pc = "find", !.task = t, !.to = to])
    BY <1>4 DEF SuspendRead
  <2>2. req'[c].pc = "find" /\ req'[c].task = t
    BY <1>1, <1>2, <2>1 DEF Request
  <2> QED
    BY <1>4, <2>1, <2>2 DEF SuspendableFrom
<1>5. CASE FindActiveRun(c)
  <2>1. \/ \E r \in Run : Continue(c, [req[c] EXCEPT !.pc = AfterFind(r), !.run = r,
                                                     !.seenRun = run[r].status])
        \/ Goto(c, "suspend")
    BY <1>5 DEF FindActiveRun
  <2>2. req'[c].pc \in {"unqueue", "suspend"} /\ req'[c].task = req[c].task
    BY <1>1, <1>2, <2>1 DEF Goto, Request, AfterFind
  <2> QED
    BY <1>5, <2>2
<1>6. CASE Unqueue(c) \/ UnqueueFails(c)
  BY <1>1, <1>2, <1>6 DEF Unqueue, UnqueueFails, Goto, Request, At
<1>7. CASE EnqueueFails(c)
  BY <1>1, <1>2, <1>7 DEF EnqueueFails, Request
<1>8. CASE RecoverRead(c)
  BY <1>1, <1>2, <1>8 DEF RecoverRead, Request
<1>9. CASE CreateTask(c) \/ CloneTask(c)
  BY <1>9 DEF CreateTask, CloneTask
<1>10. CASE \/ UpdateCommit(c) \/ DeleteCommit(c) \/ RecordJob(c) \/ RecoverCommit(c)
            \/ SuspendCommit(c) \/ RowGone(c) \/ ApiCrash(c)
  BY <1>2, <1>10
     DEF Done, Idle, UpdateCommit, DeleteCommit, RecordJob, RecoverCommit, SuspendCommit,
         RowGone, ApiCrash
<1>11. CASE UpdateRead(c) \/ DeleteRead(c)
  BY <1>1, <1>2, <1>11 DEF UpdateRead, DeleteRead, Request
<1>12. CASE StartCommit(c)
  BY <1>1, <1>2, <1>12 DEF StartCommit, Request
<1>13. CASE Enqueue(c) \/ RecordFails(c)
  <2>1. PICK step \in {"record", "recover"} : Goto(c, step)
    BY <1>13 DEF Enqueue, RecordFails
  <2> QED
    BY <1>1, <1>2, <2>1 DEF Goto, Request
<1> QED
  BY <1>3, <1>4, <1>5, <1>6, <1>7, <1>8, <1>9, <1>10, <1>11, <1>12, <1>13
     DEF Api, NewRequest, Serve, ApiFault

LEMMA InOrderStep == Told /\ InOrder /\ [Next]_vars => InOrder'
<1> SUFFICES ASSUME Told, InOrder, [Next]_vars,
                    NEW q \in Run, NEW r \in Run, q < r, run'[q].status = "absent",
                    run'[r].status # "absent"
             PROVE  FALSE
  BY DEF InOrder
<1>1. IInv
  BY DEF Told, Custody
<1>2. run[q].status = "absent"
  BY <1>1, RowsStep DEF RowsAge
<1>3. run[r].status = "absent"
  BY <1>2 DEF InOrder
<1> QED
  BY <1>2, <1>3, Created DEF IsNextRun

\* The run that is created becomes the latest of its task; no run of a task is
\* created as long as it has a hopeful one.
LEMMA LatestStep == OneHope /\ [Next]_vars => HopeIsLatest'
<1> SUFFICES ASSUME OneHope, [Next]_vars, NEW q \in Run, NEW r \in Run, Hopeful(r)',
                    run'[q].task = run'[r].task
             PROVE  q <= r
  BY DEF HopeIsLatest
<1>1. /\ Told /\ RowsLinked /\ ReqLinked /\ run \in [Run -> RunRow] /\ NULL \notin Task
      /\ q \in Nat /\ r \in Nat
  BY ToldTypes, StoreAssumption DEF OneHope, Run
<1>2. RowsLinked'
  BY RowsStep DEF OneHope, Told, Custody, IInv, Linked
<1>3. run'[r].task \in Task
  BY <1>2 DEF RowsLinked, Hopeful
<1>4. RunExists(q)'
  BY <1>1, <1>2, <1>3 DEF RowsLinked
<1>5. CASE run[r].status = "absent"
  <2>1. PICK c \in Thread : /\ StartCommit(c) /\ IsNextRun(r)
                            /\ run' = [run EXCEPT ![r] = QueuedRun(req[c].task)]
    BY <1>1, <1>5, HopeStep
  <2>2. SUFFICES ASSUME q > r PROVE FALSE
    BY <1>1
  <2>3. run[q].status = "absent" /\ run'[q] = run[q]
    BY <1>1, <1>5, <2>1, <2>2 DEF OneHope, InOrder
  <2> QED
    BY <1>4, <2>3 DEF RunExists, TaskRunStatus
<1>6. CASE run[r].status # "absent"
  <2>1. Hopeful(r) /\ run'[r].task = run[r].task
    BY <1>1, <1>6, HopeStep
  <2>2. CASE run[q].status # "absent"
    <3>1. run[q].task = run[r].task
      BY <1>1, <1>4, <2>1, <2>2, TaskFixed
    <3> QED
      BY <2>1, <3>1 DEF OneHope, HopeIsLatest
  <2>3. CASE run[q].status = "absent"
    <3>1. PICK c \in Thread : /\ StartCommit(c)
                              /\ run' = [run EXCEPT ![q] = QueuedRun(req[c].task)]
      BY <1>1, <1>4, <2>3, Created DEF RunExists, TaskRunStatus
    <3>2. req[c].task = run[r].task
      BY <1>1, <2>1, <3>1 DEF QueuedRun, BlankRun
    <3> QED
      BY <2>1, <3>1, <3>2 DEF OneHope, HopeIsSeen, StartCommit
  <2> QED
    BY <2>2, <2>3
<1> QED
  BY <1>5, <1>6

\* A suspension cancels the hopeful run of its task.
LEMMA SuspendEndsHope ==
    ASSUME OneHope, NEW c \in Thread, SuspendCommit(c), NEW r \in Run, Hopeful(r),
           req[c].task = run[r].task
    PROVE  ~Hopeful(r)'
<1>1. run \in [Run -> RunRow] /\ run[r] \in RunRow
  BY ToldTypes DEF OneHope
<1>2. req[c].run = r
  BY DEF OneHope, HopeIsSeen, SuspendCommit, At
<1>3. run'[r] = Cancelled(run[r], req[c].seenRun)
  BY <1>2 DEF SuspendCommit
<1>4. run'[r].cancel_requested
  BY <1>1, <1>3 DEF Cancelled, RunRow
<1> QED
  BY <1>4 DEF Hopeful

\* The recovery of a failed enqueue leaves no task running.
LEMMA RecoveryEndsRunning ==
    ASSUME OneHope, NEW c \in Thread, RecoverCommit(c), NEW r \in Run, RunExists(r),
           req[c].run = r
    PROVE  task'[run[r].task].status # "running"
<1>1. /\ task \in [Task -> TaskRow] /\ req[c] \in Request /\ ReqLinked
      /\ req[c].task \in Task /\ NULL \notin Run
  BY ToldTypes DEF OneHope, ReqLinked, RecoverCommit, At
<1>2. run[r].task = req[c].task
  BY <1>1 DEF ReqLinked, RecoverCommit
<1>3. task'[req[c].task] = RecoveredTask(task[req[c].task], req[c].seenTask)
  BY <1>1 DEF RecoverCommit
<1>4. CASE req[c].seenTask = "failed"
  BY <1>1, <1>2, <1>3, <1>4 DEF RecoveredTask, TaskRow, OneHope, FailureIsSeen, RecoverCommit
<1>5. CASE req[c].seenTask # "failed"
  BY <1>1, <1>2, <1>3, <1>5 DEF RecoveredTask, TaskRow
<1> QED
  BY <1>4, <1>5

LEMMA KeepsTaskStep == OneHope /\ [Next]_vars => HopeKeepsTask'
<1> SUFFICES ASSUME OneHope, [Next]_vars, NEW r \in Run, Hopeful(r)'
             PROVE  /\ task'[run'[r].task].status \notin Startable
                    /\ task'[run'[r].task].status = "running" => IsActive(r)'
  BY DEF HopeKeepsTask, Startable
<1>1. /\ Told /\ RowsLinked /\ ReqLinked /\ run \in [Run -> RunRow] /\ NULL \notin Task
      /\ task \in [Task -> TaskRow]
  BY ToldTypes DEF OneHope
<1>2. CASE run[r].status = "absent"
  <2>1. PICK c \in Thread : /\ StartCommit(c)
                            /\ run' = [run EXCEPT ![r] = QueuedRun(req[c].task)]
    BY <1>1, <1>2, HopeStep
  <2>2. req[c].task \in Task
    BY <1>1, <2>1 DEF StartCommit, At, ReqLinked
  <2>3. run'[r].task = req[c].task /\ run'[r].status = "queued"
    BY <1>1, <2>1 DEF QueuedRun, BlankRun
  <2>4. task'[req[c].task].status = "running"
    BY <1>1, <2>1, <2>2 DEF StartCommit, TaskRow
  <2> QED
    BY <2>3, <2>4 DEF Startable, IsActive, ActiveStatus
<1>3. CASE run[r].status # "absent"
  <2>1. Hopeful(r) /\ run'[r].task = run[r].task
    BY <1>1, <1>3, HopeStep
  <2>2. PICK t \in Task : t = run[r].task /\ task[t].status # "absent"
    BY <1>1, <2>1 DEF Hopeful, RowsLinked, TaskExists, TaskStatus
  <2>3. ASSUME NEW c \in Thread, StartCommit(c) \/ SuspendCommit(c), req[c].task = t
        PROVE  FALSE
    BY <2>1, <2>2, <2>3, SuspendEndsHope DEF OneHope, HopeIsSeen, StartCommit
  <2>4. \/ task'[t].status = task[t].status
        \/ task'[t].status \in {"completed", "failed", "deleted"}
    BY <1>1, <2>2, <2>3, TaskStep
  <2>5. task[t].status \notin Startable /\ (task[t].status = "running" => IsActive(r))
    BY <2>1, <2>2 DEF OneHope, HopeKeepsTask
  <2>6. ASSUME task'[t].status = "running" PROVE IsActive(r)'
    <3>1. IsActive(r)
      BY <2>4, <2>5, <2>6
    <3>2. ASSUME NEW c \in Thread, RecoverCommit(c), req[c].run = r PROVE FALSE
      BY <2>1, <2>2, <2>6, <3>2, RecoveryEndsRunning DEF Hopeful
    <3> QED
      BY <1>1, <3>1, <3>2, ActiveKept
  <2> QED
    BY <2>1, <2>2, <2>4, <2>5, <2>6 DEF Startable
<1> QED
  BY <1>2, <1>3

LEMMA SeenStep == TakesTurns /\ OneHope /\ [Next]_vars => HopeIsSeen'
<1> SUFFICES ASSUME TakesTurns, OneHope, [Next]_vars, NEW c \in Thread, NEW r \in Run, Hopeful(r)',
                    req'[c].task = run'[r].task
             PROVE  /\ req'[c].pc # "start"
                    /\ req'[c].pc = "find" => IsActive(r)'
                    /\ req'[c].pc \in {"unqueue", "suspend"} => req'[c].run = r
  BY DEF HopeIsSeen, At
<1>1. /\ Told /\ TypeOK /\ RowsLinked /\ ReqLinked /\ run \in [Run -> RunRow] /\ NULL \notin Task
      /\ req \in [Thread -> Request] /\ req[c] \in Request /\ NULL \notin Run
  BY ToldTypes DEF OneHope
<1>2. CASE run[r].status = "absent"
  <2>1. PICK d \in Thread : /\ StartCommit(d)
                            /\ run' = [run EXCEPT ![r] = QueuedRun(req[d].task)]
                            /\ req'[d] = [req[d] EXCEPT !.pc = "enqueue", !.run = r]
    BY <1>1, <1>2, HopeStep
  <2>2. CASE c = d
    <3>1. req'[c].pc = "enqueue"
      BY <1>1, <2>1, <2>2 DEF Request
    <3> QED
      BY <3>1
  <2>3. CASE c # d
    <3>1. req'[c] = req[c]
      BY <1>1, <2>1, <2>3, OtherThread DEF Api, Serve
    <3>2. req[d].pc = "start" /\ req[c].task = req[d].task
      BY <1>1, <2>1, <3>1 DEF StartCommit, At, QueuedRun, BlankRun
    <3>3. ~Deciding(c)
      BY <2>3, <3>2 DEF TakesTurns, Deciding
    <3> QED
      BY <3>1, <3>3 DEF Deciding
  <2> QED
    BY <2>2, <2>3
<1>3. CASE run[r].status # "absent"
  <2>1. Hopeful(r) /\ run'[r].task = run[r].task
    BY <1>1, <1>3, HopeStep
  <2>2. /\ task[run[r].task].status \notin Startable
        /\ task[run[r].task].status = "running" => IsActive(r)
    BY <2>1 DEF OneHope, HopeKeepsTask
  <2>3. CASE req'[c] = req[c]
    <3>1. /\ ~At(c, "start")
          /\ At(c, "find") => IsActive(r)
          /\ req[c].pc \in {"unqueue", "suspend"} => req[c].run = r
      BY <2>1, <2>3 DEF OneHope, HopeIsSeen
    <3>2. ASSUME At(c, "find"), NEW d \in Thread, RecoverCommit(d), req[d].run = r PROVE FALSE
      <4>1. req[d].task = run[r].task
        BY <1>1, <3>2, StoreAssumption DEF RecoverCommit, ReqLinked, Run
      <4>2. req[c].task = req[d].task
        BY <2>1, <2>3, <4>1
      <4> QED
        BY <3>2, <4>2 DEF TakesTurns, Deciding, RecoverCommit, At
    <3> QED
      BY <1>1, <2>3, <3>1, <3>2, ActiveKept DEF At
  <2>4. CASE Api(c)
    <3>1. CASE StartRead(c) /\ req'[c].task \in Task /\ task[req'[c].task].status \in Startable
      BY <2>1, <2>2, <3>1
    <3>2. CASE SuspendRead(c) /\ req'[c].pc = "find"
               /\ task[req'[c].task].status \in {"running", "paused"}
      <4>1. IsActive(r)
        BY <2>1, <2>2, <3>2 DEF Startable
      <4>2. IsActive(r)'
        BY <3>2, <4>1 DEF SuspendRead, IsActive
      <4> QED
        BY <3>2, <4>2
    <3>3. CASE FindActiveRun(c) /\ req'[c].pc \in {"unqueue", "suspend"}
               /\ req'[c].task = req[c].task
      <4>1. req[c].task = run[r].task /\ IsActive(r)
        BY <2>1, <3>3 DEF OneHope, HopeIsSeen, FindActiveRun
      <4>2. IsLatestActive(req[c].task, r)
        BY <2>1, <4>1 DEF OneHope, HopeIsLatest, IsLatestActive
      <4>3. PICK q \in Run :
               /\ IsLatestActive(req[c].task, q)
               /\ Continue(c, [req[c] EXCEPT !.pc = AfterFind(q), !.run = q,
                                          !.seenRun = run[q].status])
        BY <3>3, <4>2 DEF FindActiveRun
      <4>4. q = r
        BY <4>1, <4>2, <4>3, StoreAssumption DEF IsLatestActive, Run
      <4>5. req'[c].run = r
        BY <1>1, <4>3, <4>4 DEF Continue, Request
      <4> QED
        BY <3>3, <4>5
    <3>4. CASE /\ req[c].pc = "unqueue" /\ req'[c].pc = "suspend"
               /\ req'[c].task = req[c].task /\ req'[c].run = req[c].run
      BY <2>1, <3>4 DEF OneHope, HopeIsSeen
    <3>5. CASE req'[c].pc \in {"idle", "update", "delete", "enqueue", "record", "recover",
                               "recovering"}
      BY <3>5
    <3> QED
      BY <1>1, <2>3, <2>4, <3>1, <3>2, <3>3, <3>4, <3>5, RequestSteps
  <2> QED
    BY <1>1, <2>3, <2>4, OtherThread DEF Next, RedisRestart, vars
<1> QED
  BY <1>2, <1>3

LEMMA FailureSeenStep == TakesTurns /\ OneHope /\ [Next]_vars => FailureIsSeen'
<1> SUFFICES ASSUME TakesTurns, OneHope, [Next]_vars, NEW c \in Thread,
                    req'[c].pc = "recovering", req'[c].seenTask = "failed"
             PROVE  task'[req'[c].task].status \notin Startable \cup {"running"}
  BY DEF FailureIsSeen, At, Startable
<1>1. /\ Told /\ TypeOK /\ ReqLinked
      /\ req \in [Thread -> Request] /\ req[c] \in Request
  BY ToldTypes DEF OneHope
<1>2. CASE req'[c] = req[c]
  <2>1. PICK t \in Task : t = req[c].task /\ task[t].status # "absent"
    BY <1>1, <1>2 DEF ReqLinked
  <2>2. task[t].status \notin Startable \cup {"running"}
    BY <1>2, <2>1 DEF OneHope, FailureIsSeen, At
  <2>3. ASSUME NEW d \in Thread, StartCommit(d) \/ SuspendCommit(d), req[d].task = t
        PROVE  FALSE
    BY <1>2, <2>1, <2>3 DEF TakesTurns, Deciding, StartCommit, SuspendCommit, At
  <2>4. task'[t].status = task[t].status \/ task'[t].status \in {"completed", "failed", "deleted"}
    BY <1>1, <2>1, <2>3, TaskStep
  <2> QED
    BY <1>2, <2>1, <2>2, <2>4 DEF Startable
<1>3. CASE Api(c) /\ req'[c] # req[c]
  <2>1. /\ req'[c].task = req[c].task /\ UNCHANGED task
        /\ req'[c].seenTask \in {"running", task[req[c].task].status}
    BY <1>1, <1>3, RequestSteps
  <2> QED
    BY <2>1 DEF Startable
<1> QED
  BY <1>1, <1>2, <1>3, OtherThread DEF Next, RedisRestart, vars

LEMMA InitOneHope == Init => OneHope
<1> SUFFICES ASSUME Init PROVE OneHope
  OBVIOUS
<1>1. \A r \in Run : run[r].status = "absent"
  BY DEF Init, StoreInit, BlankRun
<1>2. \A r \in Run : ~Hopeful(r)
  BY <1>1 DEF Hopeful, RunExists, TaskRunStatus
<1>3. \A c \in Thread : ~At(c, "recovering")
  BY DEF Init, ApiInit, Idle, At
<1> QED
  BY <1>1, <1>2, <1>3, InitTold
     DEF OneHope, InOrder, HopeIsLatest, HopeKeepsTask, HopeIsSeen, FailureIsSeen

\* A task never has two runs that are queued or running and not cancelled,
\* whatever fails and however requests and workers interleave, as long as no two
\* of the requests that change a task's status decide about it at the same time
\* (tasks.py:186-193, 213-221; services.py:46-71, 96-123).
THEOREM OneRunAtATime == Spec /\ []TakesTurns => []OneLiveRun
<1>1. OneHope /\ TakesTurns /\ [Next]_vars => OneHope'
  BY ToldStep, InOrderStep, LatestStep, KeepsTaskStep, SeenStep, FailureSeenStep DEF OneHope
<1>2. OneHope => OneLiveRun
  <2> SUFFICES ASSUME OneHope, NEW q \in Run, NEW r \in Run,
                      IsActive(q), ~run[q].cancel_requested,
                      IsActive(r), ~run[r].cancel_requested,
                      run[q].task = run[r].task
               PROVE  q = r
    BY DEF OneLiveRun
  <2>1. Hopeful(q) /\ Hopeful(r)
    BY DEF Hopeful, RunExists, IsActive, ActiveStatus, TaskRunStatus
  <2>2. q <= r /\ r <= q
    BY <2>1 DEF OneHope, HopeIsLatest
  <2> QED
    BY <2>2, StoreAssumption DEF Run
<1> QED
  BY <1>1, <1>2, InitOneHope, PTL DEF Spec
=============================================================================

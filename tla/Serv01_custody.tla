--------------------------- MODULE Serv01_custody ---------------------------
(***************************************************************************)
(* The job of a run is in one place only.  It moves from the thread that   *)
(* created the run to the queue and from there to one worker, or is lost;  *)
(* no step copies it.  Whatever holds because a run has only one worker    *)
(* rests on this.                                                          *)
(***************************************************************************)
EXTENDS Serv01_proofs

-----------------------------------------------------------------------------
(* The queue                                                               *)

\* No job waits twice.
Distinct == \A i, j \in DOMAIN queue : queue[i] = queue[j] => i = j

\* Withdrawing removes at most the job that is asked for.
LEMMA WithdrawMoves ==
    ASSUME queue \in Seq(Run), Distinct, NEW r, Withdraw(r)
    PROVE  /\ Distinct'
           /\ \A q : Waiting(q)' => Waiting(q)
           /\ \A q : q # r /\ Waiting(q) => Waiting(q)'
<1>1. CASE queue' = queue
  BY <1>1 DEF Distinct, Waiting
<1>2. ASSUME NEW i \in DOMAIN queue, queue[i] = r, queue' = RemoveAt(queue, i)
      PROVE  /\ Distinct'
             /\ \A q : Waiting(q)' => Waiting(q)
             /\ \A q : q # r /\ Waiting(q) => Waiting(q)'
  <2> DEFINE from(j) == IF j < i THEN j ELSE j + 1
  <2>1. i \in 1..Len(queue) /\ DOMAIN queue = 1..Len(queue) /\ Len(queue) \in Nat
    OBVIOUS
  <2>2. /\ queue' \in Seq(Run) /\ Len(queue') = Len(queue) - 1
        /\ \A j \in 1..(Len(queue) - 1) :
              queue'[j] = IF j < i THEN queue[j] ELSE queue[j + 1]
    BY <1>2, <2>1, RemoveAtProperties
  <2>3. DOMAIN queue' = 1..(Len(queue) - 1)
    BY <2>2
  <2>4. ASSUME NEW j \in DOMAIN queue'
        PROVE  from(j) \in DOMAIN queue /\ queue'[j] = queue[from(j)]
    BY <2>1, <2>2, <2>3, <2>4
  <2>5. ASSUME NEW j \in DOMAIN queue', NEW k \in DOMAIN queue', queue'[j] = queue'[k]
        PROVE  j = k
    <3>1. from(j) = from(k)
      BY <2>4, <2>5 DEF Distinct
    <3> QED
      BY <2>1, <2>3, <3>1
  <2>6. ASSUME NEW k \in DOMAIN queue, k # i
        PROVE  \E j \in DOMAIN queue' : queue'[j] = queue[k]
    <3> DEFINE j == IF k < i THEN k ELSE k - 1
    <3>1. j \in DOMAIN queue' /\ from(j) = k
      BY <2>1, <2>3, <2>6
    <3> QED
      BY <2>4, <3>1
  <2> HIDE DEF from
  <2>7. Distinct'
    BY <2>5 DEF Distinct
  <2>8. ASSUME NEW q, Waiting(q)' PROVE Waiting(q)
    BY <2>4, <2>8 DEF Waiting
  <2>9. ASSUME NEW q, q # r, Waiting(q) PROVE Waiting(q)'
    BY <1>2, <2>6, <2>9 DEF Waiting
  <2> QED
    BY <2>7, <2>8, <2>9
<1> QED
  BY <1>1, <1>2 DEF Withdraw

\* Taking removes the job that is taken and no other.
LEMMA TakeMoves ==
    ASSUME queue \in Seq(Run), Distinct, NEW r, Take(r)
    PROVE  /\ Distinct'
           /\ \A q : Waiting(q)' <=> Waiting(q) /\ q # r
           /\ r \in Run /\ Waiting(r)
<1>1. Len(queue) \in Nat /\ Len(queue) > 0 /\ r = queue[1] /\ r \in Run
  BY DEF Take
<1>2. /\ Len(queue') = Len(queue) - 1 /\ queue' \in Seq(Run)
      /\ \A j \in 1..Len(queue') : queue'[j] = queue[j + 1]
  BY <1>1 DEF Take
<1>3. DOMAIN queue = 1..Len(queue) /\ DOMAIN queue' = 1..(Len(queue) - 1)
  BY <1>2
<1>4. \A j \in DOMAIN queue' : j + 1 \in DOMAIN queue /\ queue'[j] = queue[j + 1]
  BY <1>1, <1>2, <1>3
<1>5. ASSUME NEW j \in DOMAIN queue', NEW k \in DOMAIN queue', queue'[j] = queue'[k]
      PROVE  j = k
  <2>1. j + 1 = k + 1
    BY <1>4, <1>5 DEF Distinct
  <2> QED
    BY <1>1, <1>3, <2>1
<1>6. ASSUME NEW q, Waiting(q)' PROVE Waiting(q) /\ q # r
  <2>1. PICK j \in DOMAIN queue' : queue'[j] = q
    BY <1>6 DEF Waiting
  <2>2. j + 1 \in DOMAIN queue /\ queue[j + 1] = q /\ j + 1 # 1 /\ 1 \in DOMAIN queue
    BY <1>1, <1>3, <1>4, <2>1
  <2> QED
    BY <1>1, <2>2 DEF Waiting, Distinct
<1>7. ASSUME NEW q, Waiting(q), q # r PROVE Waiting(q)'
  <2>1. PICK k \in DOMAIN queue : queue[k] = q
    BY <1>7 DEF Waiting
  <2>2. k - 1 \in DOMAIN queue' /\ (k - 1) + 1 = k
    BY <1>1, <1>3, <1>7, <2>1
  <2> QED
    BY <1>4, <2>1, <2>2 DEF Waiting
<1>8. Waiting(r)
  BY <1>1, <1>3 DEF Waiting
<1>9. Distinct'
  BY <1>5 DEF Distinct
<1> QED
  BY <1>1, <1>6, <1>7, <1>8, <1>9

\* A job that does not wait yet is pushed behind the others.
LEMMA PushMoves ==
    ASSUME queue \in Seq(Run), Distinct, NEW r \in Run, ~Waiting(r), Push(r)
    PROVE  /\ Distinct'
           /\ \A q : Waiting(q)' <=> Waiting(q) \/ q = r
<1> DEFINE n == Len(queue)
<1>1. /\ n \in Nat /\ DOMAIN queue = 1..n /\ DOMAIN queue' = 1..(n + 1)
      /\ \A i \in 1..n : queue'[i] = queue[i]
      /\ queue'[n + 1] = r
  BY DEF Push
<1> HIDE DEF n
<1>2. ASSUME NEW i \in DOMAIN queue', NEW j \in DOMAIN queue', queue'[i] = queue'[j]
      PROVE  i = j
  <2>1. CASE i \in 1..n /\ j \in 1..n
    BY <1>1, <1>2, <2>1 DEF Distinct
  <2>2. CASE i \in 1..n /\ j = n + 1
    BY <1>1, <1>2, <2>2 DEF Waiting
  <2>3. CASE i = n + 1 /\ j \in 1..n
    BY <1>1, <1>2, <2>3 DEF Waiting
  <2>4. CASE i = n + 1 /\ j = n + 1
    BY <2>4
  <2> QED
    BY <1>1, <2>1, <2>2, <2>3, <2>4
<1>3. ASSUME NEW q, Waiting(q)' PROVE Waiting(q) \/ q = r
  <2>1. PICK j \in 1..(n + 1) : queue'[j] = q
    BY <1>1, <1>3 DEF Waiting
  <2>2. j \in 1..n \/ j = n + 1
    BY <1>1
  <2> QED
    BY <1>1, <2>1, <2>2 DEF Waiting
<1>4. ASSUME NEW q, Waiting(q) \/ q = r PROVE Waiting(q)'
  <2>1. 1..n \subseteq 1..(n + 1) /\ n + 1 \in 1..(n + 1)
    BY <1>1
  <2> QED
    BY <1>1, <1>4, <2>1 DEF Waiting
<1>5. Distinct'
  BY <1>2 DEF Distinct
<1> QED
  BY <1>3, <1>4, <1>5

-----------------------------------------------------------------------------
(* Jobs move                                                               *)

\* What a request can do to jobs: create one, put it into the queue or lose it,
\* and withdraw it.
LEMMA ApiMoves ==
    ASSUME TypeOK, NEW c \in Thread, Api(c)
    PROVE  \/ UNCHANGED queue /\ StartCommit(c)
           \/ /\ At(c, "enqueue") /\ req'[c].pc # "enqueue"
              /\ Push(req[c].run) \/ UNCHANGED queue
           \/ /\ req'[c].pc # "enqueue" \/ req'[c] = req[c]
              /\ Withdraw(req[c].run) \/ UNCHANGED queue
<1>1. req \in [Thread -> Request] /\ req[c] \in Request
  BY DEF TypeOK, ApiTypeOK
<1>2. ASSUME NEW request, Continue(c, request) PROVE req'[c] = request
  BY <1>1, <1>2 DEF Continue
<1>3. ASSUME NEW step, Goto(c, step) PROVE req'[c].pc = step
  BY <1>1, <1>2, <1>3 DEF Goto, Request
<1>4. ASSUME Done(c) PROVE req'[c].pc = "idle"
  BY <1>2, <1>4 DEF Done, Idle
<1>5. ASSUME NewRequest(c)
      PROVE  (req'[c].pc # "enqueue" \/ req'[c] = req[c]) /\ UNCHANGED queue
  <2>1. ASSUME CreateTask(c) \/ CloneTask(c)
        PROVE  req'[c] = req[c] /\ UNCHANGED queue
    BY <2>1 DEF CreateTask, CloneTask
  <2>2. ASSUME UpdateRead(c) \/ DeleteRead(c) \/ StartRead(c) \/ SuspendRead(c)
        PROVE  req'[c].pc # "enqueue" /\ UNCHANGED queue
    BY <1>1, <1>2, <2>2 DEF UpdateRead, DeleteRead, StartRead, SuspendRead, Request
  <2> QED
    BY <1>5, <2>1, <2>2 DEF NewRequest
<1>6. ASSUME UpdateCommit(c) \/ DeleteCommit(c) \/ RecordJob(c) \/ RecoverCommit(c)
             \/ SuspendCommit(c) \/ RowGone(c) \/ ApiCrash(c)
      PROVE  req'[c].pc # "enqueue" /\ UNCHANGED queue
  BY <1>4, <1>6 DEF UpdateCommit, DeleteCommit, RecordJob, RecoverCommit, SuspendCommit,
                    RowGone, ApiCrash
<1>7. ASSUME Enqueue(c) \/ EnqueueFails(c)
      PROVE  /\ At(c, "enqueue") /\ req'[c].pc # "enqueue"
             /\ Push(req[c].run) \/ UNCHANGED queue
  BY <1>1, <1>2, <1>3, <1>7 DEF Enqueue, EnqueueFails, Request
<1>8. ASSUME RecordFails(c) \/ RecoverRead(c)
      PROVE  req'[c].pc # "enqueue" /\ UNCHANGED queue
  BY <1>1, <1>2, <1>3, <1>8 DEF RecordFails, RecoverRead, Request
<1>9. ASSUME FindActiveRun(c)
      PROVE  req'[c].pc # "enqueue" /\ UNCHANGED queue
  <2>1. \A r \in Run : AfterFind(r) \in {"suspend", "unqueue"}
    BY DEF AfterFind
  <2>2. ASSUME NEW r \in Run,
               Continue(c, [req[c] EXCEPT !.pc = AfterFind(r), !.run = r,
                                          !.seenRun = run[r].status])
        PROVE  req'[c].pc = AfterFind(r)
    BY <1>1, <1>2, <2>2 DEF Request
  <2> QED
    BY <1>3, <1>9, <2>1, <2>2 DEF FindActiveRun
<1>10. ASSUME Unqueue(c) \/ UnqueueFails(c)
       PROVE  req'[c].pc # "enqueue" /\ (Withdraw(req[c].run) \/ UNCHANGED queue)
  BY <1>3, <1>10 DEF Unqueue, UnqueueFails
<1>11. ASSUME StartCommit(c) PROVE UNCHANGED queue
  BY <1>11 DEF StartCommit
<1> QED
  BY <1>5, <1>6, <1>7, <1>8, <1>9, <1>10, <1>11 DEF Api, Serve, ApiFault

\* What a worker can do to jobs: take one, and end it.
LEMMA WorkMoves ==
    ASSUME TypeOK, NEW w \in Process, Perform(w)
    PROVE  \/ /\ Doing(w, "idle")
              /\ \E r \in Run : Take(r) /\ job'[w].run = r /\ job'[w].pc = "load"
           \/ UNCHANGED queue /\ job'[w].run \in {job[w].run, NULL}
<1>1. job \in [Process -> Job] /\ job[w] \in Job
  BY DEF TypeOK, WorkerTypeOK
<1>2. ASSUME NEW work, Proceed(w, work) PROVE job'[w] = work
  BY <1>1, <1>2 DEF Proceed
<1>3. ASSUME NEW step, Advance(w, step) PROVE job'[w].run = job[w].run
  BY <1>1, <1>2, <1>3 DEF Advance, Job
<1>4. ASSUME Drop(w) PROVE job'[w].run = NULL
  BY <1>2, <1>4 DEF Drop, NoJob
<1>5. ASSUME Raise(w) PROVE job'[w].run = job[w].run
  BY <1>1, <1>2, <1>5 DEF Raise, Job
<1>6. ASSUME Dequeue(w)
      PROVE  /\ Doing(w, "idle")
             /\ \E r \in Run : Take(r) /\ job'[w].run = r /\ job'[w].pc = "load"
  BY <1>1, <1>2, <1>6 DEF Dequeue, Job
<1>7. ASSUME Load(w) PROVE job'[w].run \in {job[w].run, NULL} /\ UNCHANGED queue
  <2>1. Loaded(w, job[w].run).run = job[w].run
    BY <1>1 DEF Loaded, Job
  <2> QED
    BY <1>2, <1>4, <1>7, <2>1 DEF Load
<1>8. ASSUME Begin(w) \/ Refresh(w) \/ Visit(w) \/ Reload(w)
      PROVE  job'[w].run = job[w].run /\ UNCHANGED queue
  BY <1>1, <1>2, <1>3, <1>8 DEF Begin, Refresh, Visit, Reload, Job
<1>9. ASSUME StorePage(w) PROVE job'[w].run = job[w].run /\ UNCHANGED queue
  BY <1>1, <1>2, <1>5, <1>9 DEF StorePage, AnswerLost, AfterPage, Job
<1>10. ASSUME StoreConflict(w) \/ PageError(w)
       PROVE  job'[w].run = job[w].run /\ UNCHANGED queue
  BY <1>5, <1>10 DEF StoreConflict, PageError
<1>11. ASSUME Finish(w) \/ MarkFailed(w) \/ RunGone(w) \/ WorkerCrash(w)
       PROVE  job'[w].run \in {job[w].run, NULL} /\ UNCHANGED queue
  BY <1>4, <1>5, <1>11 DEF Finish, AnswerLost, MarkFailed, RunGone, WorkerCrash
<1> QED
  BY <1>6, <1>7, <1>8, <1>9, <1>10, <1>11 DEF Perform, Work

-----------------------------------------------------------------------------
(* One place                                                               *)

\* SingleCustody without its last part, which IInv implies, and in terms of
\* waiting runs instead of positions in the queue.
OnePlace ==
    /\ Distinct
    /\ \A r \in Run, v, w \in Process : Holds(v, r) /\ Holds(w, r) => v = w
    /\ \A r \in Run, c, d \in Thread : Launching(c, r) /\ Launching(d, r) => c = d
    /\ \A r \in Run, w \in Process : ~(Waiting(r) /\ Holds(w, r))
    /\ \A r \in Run, c \in Thread : ~(Waiting(r) /\ Launching(c, r))
    /\ \A r \in Run, c \in Thread, w \in Process : ~(Launching(c, r) /\ Holds(w, r))

\* A run that was not created yet has no job.
LEMMA NoJobBefore ==
    ASSUME IInv, NEW r \in Run, run[r].status = "absent"
    PROVE  /\ ~Waiting(r)
           /\ \A w \in Process : ~Holds(w, r)
           /\ \A c \in Thread : ~Launching(c, r)
<1>1. r # NULL
  BY StoreAssumption DEF Run
<1> QED
  BY <1>1 DEF IInv, Linked, QueueLinked, JobLinked, ReqLinked, Waiting, Holds, Launching

LEMMA OnePlaceIsSingleCustody == IInv => (OnePlace <=> SingleCustody)
<1> SUFFICES ASSUME IInv PROVE OnePlace <=> SingleCustody
  OBVIOUS
<1>1. /\ \A i \in DOMAIN queue : queue[i] \in Run
      /\ \A w \in Process : job[w].run # NULL => job[w].run \in Run
      /\ \A c \in Thread : At(c, "enqueue") => req[c].run \in Run
  BY DEF IInv, TypeOK, QueueTypeOK, WorkerTypeOK, Job, ApiTypeOK, Request, Linked, ReqLinked, At
<1>2. \A r \in Run : r # NULL
  BY StoreAssumption DEF Run
<1>3. ASSUME OnePlace PROVE SingleCustody
  <2>1. \A r \in Run : run[r].status = "absent" =>
            /\ ~Waiting(r)
            /\ \A w \in Process : ~Holds(w, r)
            /\ \A c \in Thread : ~Launching(c, r)
    BY NoJobBefore
  <2>2. \A i \in DOMAIN queue : Waiting(queue[i])
    BY DEF Waiting
  <2>3. \A c \in Thread : At(c, "enqueue") => Launching(c, req[c].run)
    BY DEF Launching
  <2>4. \A w \in Process : Holds(w, job[w].run)
    BY DEF Holds
  <2> QED
    BY <1>1, <1>3, <2>1, <2>2, <2>3, <2>4 DEF OnePlace, SingleCustody, Distinct
<1>4. ASSUME SingleCustody PROVE OnePlace
  BY <1>2, <1>4 DEF OnePlace, SingleCustody, Distinct, Waiting, Holds, Launching
<1> QED
  BY <1>3, <1>4

LEMMA PlaceApi ==
    ASSUME IInv, OnePlace, NEW c \in Thread, Api(c), UNCHANGED job
    PROVE  OnePlace'
<1>1. /\ TypeOK /\ queue \in Seq(Run) /\ req \in [Thread -> Request] /\ Distinct
      /\ ReqLinked /\ req[c] \in Request
  BY DEF IInv, TypeOK, QueueTypeOK, ApiTypeOK, OnePlace, Linked
<1>2. \A d \in Thread : d # c => req'[d] = req[d]
  BY <1>1, OtherThread
<1>3. \A w \in Process, r \in Run : Holds(w, r)' <=> Holds(w, r)
  BY DEF Holds
<1>4. CASE UNCHANGED queue /\ StartCommit(c)
  <2>1. PICK r \in Run : /\ run[r].status = "absent"
                         /\ Continue(c, [req[c] EXCEPT !.pc = "enqueue", !.run = r])
    BY <1>4 DEF StartCommit, IsNextRun
  <2>2. req'[c].pc = "enqueue" /\ req'[c].run = r
    BY <1>1, <2>1 DEF Continue, Request
  <2>3. /\ ~Waiting(r)
        /\ \A w \in Process : ~Holds(w, r)
        /\ \A d \in Thread : ~Launching(d, r)
    BY <2>1, NoJobBefore
  <2>4. \A q \in Run, d \in Thread :
           Launching(d, q)' => IF d = c THEN q = r ELSE Launching(d, q)
    BY <1>2, <2>2 DEF Launching, At
  <2>5. \A q \in Run : Waiting(q)' <=> Waiting(q)
    BY <1>4 DEF Waiting
  <2>6. Distinct'
    BY <1>1, <1>4 DEF Distinct
  <2> QED
    BY <1>3, <2>3, <2>4, <2>5, <2>6 DEF OnePlace
<1>5. CASE /\ At(c, "enqueue") /\ req'[c].pc # "enqueue"
           /\ Push(req[c].run) \/ UNCHANGED queue
  <2>1. PICK r \in Run : r = req[c].run /\ Launching(c, r)
    BY <1>1, <1>5 DEF ReqLinked, Request, At, Launching
  <2>2. ~Waiting(r) /\ \A w \in Process : ~Holds(w, r)
    BY <2>1 DEF OnePlace
  <2>3. Distinct' /\ \A q : Waiting(q)' => Waiting(q) \/ q = r
    <3>1. CASE UNCHANGED queue
      BY <1>1, <3>1 DEF Distinct, Waiting
    <3>2. CASE Push(r)
      BY <1>1, <2>2, <3>2, PushMoves
    <3> QED
      BY <1>5, <2>1, <3>1, <3>2
  <2>4. \A q \in Run, d \in Thread : Launching(d, q)' => d # c /\ Launching(d, q)
    BY <1>2, <1>5 DEF Launching, At
  <2>5. \A d \in Thread : Launching(d, r) => d = c
    BY <2>1 DEF OnePlace
  <2> QED
    BY <1>3, <2>2, <2>3, <2>4, <2>5 DEF OnePlace
<1>6. CASE /\ req'[c].pc # "enqueue" \/ req'[c] = req[c]
           /\ Withdraw(req[c].run) \/ UNCHANGED queue
  <2>1. Distinct' /\ \A q : Waiting(q)' => Waiting(q)
    <3>1. CASE UNCHANGED queue
      BY <1>1, <3>1 DEF Distinct, Waiting
    <3> QED
      BY <1>1, <1>6, <3>1, WithdrawMoves
  <2>2. \A q \in Run, d \in Thread : Launching(d, q)' => Launching(d, q)
    BY <1>2, <1>6 DEF Launching, At
  <2> QED
    BY <1>3, <2>1, <2>2 DEF OnePlace
<1> QED
  BY <1>1, <1>4, <1>5, <1>6, ApiMoves

LEMMA PlaceWork ==
    ASSUME IInv, OnePlace, NEW w \in Process, Perform(w), UNCHANGED req
    PROVE  OnePlace'
<1>1. TypeOK /\ queue \in Seq(Run) /\ Distinct
  BY DEF IInv, TypeOK, QueueTypeOK, OnePlace
<1>2. \A v \in Process : v # w => job'[v] = job[v]
  BY <1>1, OtherWorker
<1>3. \A c \in Thread, r \in Run : Launching(c, r)' <=> Launching(c, r)
  BY DEF Launching, At
<1>4. \A r \in Run : r # NULL
  BY StoreAssumption DEF Run
<1>5. ASSUME NEW r \in Run, Take(r), job'[w].run = r
      PROVE  OnePlace'
  <2>1. Distinct' /\ Waiting(r) /\ \A q : Waiting(q)' <=> Waiting(q) /\ q # r
    BY <1>1, <1>5, TakeMoves
  <2>2. (\A v \in Process : ~Holds(v, r)) /\ (\A c \in Thread : ~Launching(c, r))
    BY <2>1 DEF OnePlace
  <2>3. \A q \in Run, v \in Process : Holds(v, q)' => IF v = w THEN q = r ELSE Holds(v, q)
    BY <1>2, <1>5 DEF Holds
  <2> QED
    BY <1>3, <2>1, <2>2, <2>3 DEF OnePlace
<1>6. CASE UNCHANGED queue /\ job'[w].run \in {job[w].run, NULL}
  <2>1. \A q \in Run, v \in Process : Holds(v, q)' => Holds(v, q)
    BY <1>2, <1>4, <1>6 DEF Holds
  <2>2. Distinct' /\ \A q : Waiting(q)' <=> Waiting(q)
    BY <1>1, <1>6 DEF Distinct, Waiting
  <2> QED
    BY <1>3, <2>1, <2>2 DEF OnePlace
<1> QED
  BY <1>1, <1>5, <1>6, WorkMoves

LEMMA PlaceStep == IInv /\ OnePlace /\ [Next]_vars => OnePlace'
<1> SUFFICES ASSUME IInv, OnePlace, [Next]_vars PROVE OnePlace'
  OBVIOUS
<1>1. ASSUME UNCHANGED <<req, job>>, Distinct', \A q : Waiting(q)' => Waiting(q)
      PROVE  OnePlace'
  <2>1. \A r \in Run, c \in Thread : Launching(c, r)' <=> Launching(c, r)
    BY <1>1 DEF Launching, At
  <2>2. \A r \in Run, w \in Process : Holds(w, r)' <=> Holds(w, r)
    BY <1>1 DEF Holds
  <2>3. \A r \in Run : Waiting(r)' => Waiting(r)
    BY <1>1
  <2> QED
    BY <1>1, <2>1, <2>2, <2>3 DEF OnePlace
<1>2. CASE RedisRestart
  <2>1. queue' = <<>> /\ UNCHANGED <<req, job>>
    BY <1>2 DEF RedisRestart, Forget
  <2>2. Distinct' /\ \A q : ~Waiting(q)'
    BY <2>1 DEF Distinct, Waiting
  <2> QED
    BY <1>1, <2>1, <2>2
<1>3. CASE UNCHANGED vars
  <2>1. UNCHANGED <<queue, req, job>>
    BY <1>3 DEF vars
  <2>2. Distinct' /\ \A q : Waiting(q)' => Waiting(q)
    BY <2>1 DEF Distinct, Waiting, OnePlace
  <2> QED
    BY <1>1, <2>1, <2>2
<1> QED
  BY <1>2, <1>3, PlaceApi, PlaceWork DEF Next

LEMMA InitPlace == Init => OnePlace
<1> SUFFICES ASSUME Init PROVE OnePlace
  OBVIOUS
<1>1. /\ queue = <<>>
      /\ \A c \in Thread : req[c].pc = "idle"
      /\ \A w \in Process : job[w].run = NULL
  BY DEF Init, QueueInit, ApiInit, WorkerInit, Idle, NoJob
<1>2. \A r \in Run : r # NULL
  BY StoreAssumption DEF Run
<1> QED
  BY <1>1, <1>2 DEF OnePlace, Distinct, Waiting, Holds, Launching, At

\* The invariant of the rows together with the place of every job.
Custody == IInv /\ OnePlace

LEMMA CustodyHolds == Spec => []Custody
<1>1. Init => Custody
  BY InitIInv, InitPlace DEF Custody
<1>2. Custody /\ [Next]_vars => Custody'
  BY NextIInv, PlaceStep DEF Custody
<1> QED
  BY <1>1, <1>2, PTL DEF Spec

\* The job of a run is in one place only, so no run is crawled by two workers
\* or twice, whatever is lost and whoever dies (queueing.py:10-31,
\* services.py:46-61, worker.py:50-57).
THEOREM OneCustodian == Spec => []SingleCustody
<1>1. Custody => SingleCustody
  BY OnePlaceIsSingleCustody DEF Custody
<1> QED
  BY <1>1, CustodyHolds, PTL

-----------------------------------------------------------------------------
(* A run's row                                                             *)

\* What a step that is not named in RunSteps leaves of a run's row.
RowKept(r) ==
    /\ run'[r].task = run[r].task
    /\ run'[r].pages = run[r].pages
    /\ run'[r].result_json = run[r].result_json
    /\ run[r].cancel_requested => run'[r].cancel_requested
    /\ run[r].status = "absent" => run'[r].cancel_requested = run[r].cancel_requested
    /\ \/ run'[r].status \in {run[r].status, "failed"}
       \/ run'[r].status = "running" /\ \E w \in Process : Begin(w) /\ Holds(w, r)

\* A run's row is deleted, created, given a page or ended by the worker that
\* holds the run's job, or keeps its pages and result.
LEMMA RunSteps ==
    ASSUME TypeOK, ReqLinked, [Next]_vars, NEW r \in Run
    PROVE  \/ RowKept(r)
           \/ run'[r] = GoneRun
           \/ run[r].status = "absent" /\ \E t : run'[r] = QueuedRun(t)
           \/ \E w \in Process : Holds(w, r) /\ (StorePage(w) \/ Finish(w) \/ MarkFailed(w))
<1>1. run \in [Run -> RunRow] /\ run[r] \in RunRow
  BY DEF TypeOK, StoreTypeOK
<1>2. ASSUME run'[r] = run[r] PROVE RowKept(r)
  BY <1>2 DEF RowKept
<1>3. ASSUME NEW c \in Thread, Api(c)
      PROVE  \/ RowKept(r)
             \/ run'[r] = GoneRun
             \/ run[r].status = "absent" /\ \E t : run'[r] = QueuedRun(t)
  <2>1. CASE DeleteCommit(c)
    BY <1>1, <1>2, <2>1 DEF DeleteCommit, DeleteTask
  <2>2. CASE StartCommit(c)
    BY <1>1, <1>2, <2>2 DEF StartCommit, IsNextRun
  <2>3. CASE RecordJob(c) \/ RecordFails(c)
    <3>1. run'[r] = run[r] \/ run'[r] = [run[r] EXCEPT !.queue_job_id = TRUE]
      BY <1>1, <2>3 DEF RecordJob, RecordFails
    <3> QED
      BY <1>1, <1>2, <3>1 DEF RowKept, RunRow
  <2>4. CASE RecoverCommit(c)
    <3>1. run'[r] = run[r] \/ \E seen : run'[r] = RecoveredRun(run[r], seen)
      BY <1>1, <2>4 DEF RecoverCommit
    <3> QED
      BY <1>1, <1>2, <3>1 DEF RowKept, RecoveredRun, RunRow
  <2>5. CASE SuspendCommit(c)
    <3>1. \/ run'[r] = run[r]
          \/ run[r].status # "absent" /\ \E seen : run'[r] = Cancelled(run[r], seen)
      BY <1>1, <2>5, StoreAssumption DEF SuspendCommit, ReqLinked, Run
    <3> QED
      BY <1>1, <1>2, <3>1 DEF RowKept, Cancelled, RunRow
  <2>6. ASSUME NewRequest(c) PROVE UNCHANGED run
    BY <2>6 DEF NewRequest, CreateTask, CloneTask, InsertTask, UpdateRead, DeleteRead,
                StartRead, SuspendRead
  <2>7. ASSUME \/ UpdateCommit(c) \/ Enqueue(c) \/ RecoverRead(c) \/ FindActiveRun(c)
               \/ Unqueue(c) \/ RowGone(c)
               \/ EnqueueFails(c) \/ UnqueueFails(c) \/ ApiCrash(c)
        PROVE  UNCHANGED run
    BY <2>7 DEF UpdateCommit, Enqueue, RecoverRead, FindActiveRun, Unqueue, RowGone,
                EnqueueFails, UnqueueFails, ApiCrash
  <2> QED
    BY <1>2, <1>3, <2>1, <2>2, <2>3, <2>4, <2>5, <2>6, <2>7 DEF Api, Serve, ApiFault
<1>4. ASSUME NEW w \in Process, Perform(w)
      PROVE  RowKept(r) \/ (Holds(w, r) /\ (StorePage(w) \/ Finish(w) \/ MarkFailed(w)))
  <2>1. CASE Begin(w)
    <3>1. run' = [run EXCEPT ![job[w].run].status = "running"]
      BY <2>1 DEF Begin
    <3>2. CASE Holds(w, r)
      BY <1>1, <2>1, <3>1, <3>2 DEF RowKept, RunRow, Holds
    <3> QED
      BY <1>1, <1>2, <3>1, <3>2 DEF Holds
  <2>2. CASE StorePage(w) \/ Finish(w) \/ MarkFailed(w)
    BY <1>1, <1>2, <2>2 DEF StorePage, Finish, MarkFailed, Holds
  <2>3. CASE UNCHANGED run
    BY <1>2, <2>3
  <2> QED
    BY <1>4, <2>1, <2>2, <2>3
       DEF Perform, Work, Dequeue, Load, Refresh, Visit, StoreConflict, PageError, Reload, RunGone,
           WorkerCrash
<1>5. CASE RedisRestart \/ UNCHANGED vars
  BY <1>2, <1>5 DEF RedisRestart, vars
<1> QED
  BY <1>3, <1>4, <1>5 DEF Next

-----------------------------------------------------------------------------
(* A run that failed in the queue                                          *)

\* r failed, or went with its task, before any worker began it.
NeverBegun(r) ==
    /\ run[r].status \in {"failed", "deleted"}
    /\ \A w \in Process : Holds(w, r) => Doing(w, "load")

LEMMA NeverBegunStep ==
    ASSUME NEW r \in Run, Custody, NeverBegun(r), [Next]_vars
    PROVE  NeverBegun(r)'
<1>1. /\ TypeOK /\ RowsAge /\ ReqLinked /\ JobLinked /\ run[r] \in RunRow /\ r # NULL
      /\ job \in [Process -> Job]
  BY RowsStep, StoreAssumption
     DEF Custody, IInv, Linked, TypeOK, StoreTypeOK, WorkerTypeOK, Run
<1>2. run'[r].status \in {"failed", "deleted"}
  <2>1. \A w \in Process : Holds(w, r) => ~(Begin(w) \/ StorePage(w) \/ Finish(w) \/ MarkFailed(w))
    BY DEF NeverBegun, Begin, StorePage, Finish, MarkFailed, Doing
  <2>2. run'[r] = GoneRun => run'[r].status = "deleted"
    BY DEF GoneRun, BlankRun
  <2> QED
    BY <1>1, <2>1, <2>2, RunSteps DEF NeverBegun, RowKept
<1>3. ASSUME NEW w \in Process, Holds(w, r)' PROVE Doing(w, "load")'
  <2>1. CASE job'[w] = job[w]
    BY <1>3, <2>1 DEF NeverBegun, Holds, Doing
  <2>2. CASE Perform(w)
    <3>1. CASE \E q \in Run : Take(q) /\ job'[w].run = q /\ job'[w].pc = "load"
      BY <3>1 DEF Doing
    <3>2. CASE job'[w].run \in {job[w].run, NULL}
      <4>1. Holds(w, r) /\ Doing(w, "load")
        BY <1>1, <1>3, <3>2 DEF NeverBegun, Holds
      <4>2. Load(w) \/ WorkerCrash(w)
        BY <2>2, <4>1 DEF Perform, Work, Dequeue, Begin, Refresh, Visit, StorePage,
             StoreConflict, Finish, PageError, Reload, MarkFailed, RunGone, Doing, TouchesRun
      <4>3. Drop(w)
        BY <4>1, <4>2 DEF Load, MayRun, NeverBegun, Holds, WorkerCrash
      <4>4. job'[w].run = NULL
        BY <1>1, <4>3 DEF Drop, Proceed, NoJob
      <4> QED
        BY <1>1, <1>3, <4>4 DEF Holds
    <3> QED
      BY <1>1, <2>2, <3>1, <3>2, WorkMoves
  <2> QED
    BY <1>1, <2>1, <2>2, OtherWorker DEF Next, RedisRestart, vars
<1> QED
  BY <1>2, <1>3 DEF NeverBegun

\* A run that failed while its job waited is never executed, even when Redis
\* kept the job (services.py:109-122, worker.py:78-79).
THEOREM FailedInQueueStaysUnstarted == Spec => FailedInQueueNeverRuns
<1>1. ASSUME NEW r \in Run
      PROVE  Spec => [](Waiting(r) /\ run[r].status = "failed"
                           => [](run[r].status \notin {"running", "success"}))
  <2>1. Custody /\ Waiting(r) /\ run[r].status = "failed" => NeverBegun(r)
    BY DEF Custody, OnePlace, NeverBegun
  <2>2. Custody /\ NeverBegun(r) /\ [Next]_vars => NeverBegun(r)'
    BY NeverBegunStep
  <2>3. NeverBegun(r) => run[r].status \notin {"running", "success"}
    BY DEF NeverBegun
  <2> QED
    BY <2>1, <2>2, <2>3, CustodyHolds, PTL DEF Spec
<1> QED
  BY <1>1 DEF FailedInQueueNeverRuns
=============================================================================

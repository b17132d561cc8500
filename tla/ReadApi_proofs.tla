--------------------------- MODULE ReadApi_proofs ---------------------------
(***************************************************************************)
(* What a reading client may rely on, for every number of tasks, runs,     *)
(* pages, threads and workers, every page size, and under every fault.     *)
(*                                                                         *)
(* None of the three promises is inductive: each is about answers that     *)
(* were read some steps ago.  The invariants say what these answers still  *)
(* have to do with the tables while the service goes on.                   *)
(***************************************************************************)
EXTENDS ReadApi, Serv01_execution

-----------------------------------------------------------------------------
(* The service and the client                                              *)

\* The client changes nothing of the service.
LEMMA ReadersOnlyRead == [ReadNext]_<<vars, readVars>> => [Next]_vars
BY DEF ReadNext, Service, readVars

LEMMA ListedHolds == ReadSpec => []Listed
<1>1. ReadInit => Listed
  <2>1. Init => \A w \in Process : job[w].pc = "idle"
    BY DEF Init, WorkerInit, NoJob
  <2>2. Init => \A r \in Run : Captured(r) = {}
    BY DEF Init, StoreInit, BlankRun, Captured
  <2> QED
    BY <2>1, <2>2, InitTold DEF ReadInit, Listed, PagesAreListed, StillListed
<1>2. Listed /\ [ReadNext]_<<vars, readVars>> => Listed'
  BY ReadersOnlyRead, ToldStep, PagesListedStep, StillListedStep DEF Listed
<1> QED
  BY <1>1, <1>2, PTL DEF ReadSpec

\* At most one task is inserted in a step.
LEMMA OneInserted ==
    ASSUME Told, [Next]_vars
    PROVE  \/ Inserted = {}
           \/ \E t \in Task : Inserted = {t}
<1>1. TypeOK /\ RowsLinked /\ task \in [Task -> TaskRow]
  BY ToldTypes
<1>2. ASSUME NEW t \in Task, NEW n, InsertTask(t, n)
      PROVE  Inserted = {t}
  BY <1>1, <1>2 DEF InsertTask, Inserted
<1>3. ASSUME NEW t \in Task, TaskExists(t), \A u \in Task \ {t} : task'[u] = task[u]
      PROVE  Inserted = {}
  BY <1>3 DEF Inserted, TaskExists, TaskStatus
<1>4. ASSUME UNCHANGED task PROVE Inserted = {}
  BY <1>4 DEF Inserted
<1>5. ASSUME NEW c \in Thread, Api(c)
      PROVE  Inserted = {} \/ \E t \in Task : Inserted = {t}
  <2>1. CASE CreateTask(c) \/ CloneTask(c)
    <3>1. PICK t \in Task : \E n : InsertTask(t, n)
      BY <2>1 DEF CreateTask, CloneTask
    <3> QED
      BY <1>2, <3>1
  <2>2. CASE \/ UpdateCommit(c) \/ DeleteCommit(c) \/ StartCommit(c)
             \/ SuspendCommit(c) \/ RecoverCommit(c)
    <3>1. TaskExists(req[c].task) /\ \A u \in Task \ {req[c].task} : task'[u] = task[u]
      BY <1>1, <2>2 DEF UpdateCommit, DeleteCommit, DeleteTask, StartCommit, SuspendCommit,
                        RecoverCommit
    <3> QED
      BY <1>3, <3>1 DEF Inserted
  <2>3. CASE UNCHANGED task
    BY <1>4, <2>3
  <2> QED
    BY <1>5, <2>1, <2>2, <2>3
       DEF Api, NewRequest, Serve, ApiFault, UpdateRead, DeleteRead, StartRead, SuspendRead, Enqueue,
           RecordJob, RecoverRead, FindActiveRun, Unqueue, RowGone, EnqueueFails, RecordFails,
           UnqueueFails, ApiCrash
<1>6. ASSUME NEW w \in Process, Perform(w) PROVE Inserted = {}
  <2>1. CASE Finish(w) \/ MarkFailed(w)
    <3>1. /\ TypeOK /\ job[w].run \in Run /\ RunExists(job[w].run)
          /\ \A u \in Task \ {TaskOf(w)} : task'[u] = task[u]
      <4>1. job[w].run # NULL
        BY <1>1, <2>1, ToldTypes DEF Finish, MarkFailed, Doing, JobLinked
      <4> QED
        BY <1>1, <2>1, <4>1 DEF Finish, MarkFailed, TypeOK, WorkerTypeOK, Job
    <3>2. TaskOf(w) \in Task /\ TaskExists(TaskOf(w))
      BY <1>1, <3>1 DEF RowsLinked, TaskOf
    <3> QED
      BY <1>3, <3>1, <3>2
  <2>2. CASE UNCHANGED task
    BY <1>4, <2>2
  <2> QED
    BY <1>6, <2>1, <2>2
       DEF Perform, Work, Dequeue, Load, Begin, Refresh, Visit, StorePage, StoreConflict, PageError,
           Reload, RunGone, WorkerCrash
<1>7. CASE RedisRestart \/ UNCHANGED vars
  BY <1>4, <1>7 DEF RedisRestart, vars
<1> QED
  BY <1>5, <1>6, <1>7 DEF Next

-----------------------------------------------------------------------------
(* The order of the list                                                   *)

\* InsertAt puts x at i and moves the elements from there one place back.
LEMMA InsertAtProperties ==
    ASSUME NEW S, NEW s \in Seq(S), NEW i \in 1..(Len(s) + 1), NEW x \in S
    PROVE  /\ InsertAt(s, i, x) \in Seq(S)
           /\ Len(InsertAt(s, i, x)) = Len(s) + 1
           /\ \A j \in 1..(Len(s) + 1) :
                 InsertAt(s, i, x)[j] =
                    IF j < i THEN s[j] ELSE IF j = i THEN x ELSE s[j - 1]
<1> DEFINE a == SubSeq(s, 1, i - 1)
           b == SubSeq(s, i, Len(s))
           ax == a \o <<x>>
<1>1. a \in Seq(S) /\ Len(a) = i - 1 /\ \A j \in 1..(i - 1) : a[j] = s[j]
  BY SubSeqProperties
<1>2. b \in Seq(S) /\ Len(b) = Len(s) + 1 - i /\ \A j \in 1..(Len(s) + 1 - i) : b[j] = s[i + j - 1]
  BY SubSeqProperties
<1>3. InsertAt(s, i, x) = ax \o b
  BY DEF InsertAt
<1>4. <<x>> \in Seq(S) /\ Len(<<x>>) = 1 /\ <<x>>[1] = x
  OBVIOUS
<1> HIDE DEF a, b, ax
<1>5. /\ ax \in Seq(S) /\ Len(ax) = i
      /\ \A j \in 1..i : ax[j] = IF j < i THEN s[j] ELSE x
  <2>1. /\ a \o <<x>> \in Seq(S)
        /\ Len(a \o <<x>>) = Len(a) + 1
        /\ \A j \in 1..(Len(a) + 1) : (a \o <<x>>)[j] = IF j <= Len(a) THEN a[j] ELSE <<x>>[j - Len(a)]
    BY <1>1, <1>4, ConcatProperties
  <2> QED
    BY <1>1, <1>4, <2>1 DEF ax
<1>6. /\ ax \o b \in Seq(S)
      /\ Len(ax \o b) = Len(ax) + Len(b)
      /\ \A j \in 1..(Len(ax) + Len(b)) :
            (ax \o b)[j] = IF j <= Len(ax) THEN ax[j] ELSE b[j - Len(ax)]
  BY <1>2, <1>5, ConcatProperties
<1> QED
  BY <1>2, <1>3, <1>5, <1>6

\* The order of created_at is what the rows say.
OrderTypeOK ==
    /\ created \in Seq(Task) /\ IsInjective(created)
    /\ ToSet(created) = {t \in Task : task[t].status # "absent"}

\* A new task takes a place among the others; these keep their order.
LEMMA OrderKept ==
    ASSUME Told, OrderTypeOK, [Next]_vars, NoteCreation
    PROVE  /\ OrderTypeOK'
           /\ \A u, t \in Task : Precedes(u, t) => Precedes(u, t)'
<1>1. RowsAge
  BY RowsStep DEF Told, Custody
<1>2. CASE Inserted = {}
  <2>1. created' = created
    BY <1>2 DEF NoteCreation
  <2>2. \A t \in Task : task'[t].status # "absent" <=> task[t].status # "absent"
    BY <1>1, <1>2 DEF Inserted, RowsAge
  <2> QED
    BY <2>1, <2>2 DEF OrderTypeOK, Precedes
<1>3. ASSUME NEW t \in Task, Inserted = {t}
      PROVE  OrderTypeOK' /\ \A u, v \in Task : Precedes(u, v) => Precedes(u, v)'
  <2>1. PICK i \in 1..(Len(created) + 1) : created' = InsertAt(created, i, t)
    BY <1>3 DEF NoteCreation
  <2>2. created \in Seq(Task) /\ \A m, n \in 1..Len(created) : created[m] = created[n] => m = n
    BY DEF OrderTypeOK, IsInjective
  <2>3. /\ created' \in Seq(Task)
        /\ Len(created') = Len(created) + 1
        /\ \A j \in 1..(Len(created) + 1) :
              created'[j] = IF j < i THEN created[j] ELSE IF j = i THEN t ELSE created[j - 1]
    <3> DEFINE s == InsertAt(created, i, t)
    <3>1. /\ s \in Seq(Task)
          /\ Len(s) = Len(created) + 1
          /\ \A j \in 1..(Len(created) + 1) :
                s[j] = IF j < i THEN created[j] ELSE IF j = i THEN t ELSE created[j - 1]
      BY ONLY <2>2, InsertAtProperties, t \in Task, i \in 1..(Len(created) + 1)
    <3>2. created' = s
      BY <2>1
    <3> HIDE DEF s
    <3> QED
      BY <3>1, <3>2
  <2>4. task[t].status = "absent" /\ task'[t].status # "absent"
    BY <1>3 DEF Inserted
  <2>5. \A n \in 1..Len(created) : created[n] \in Task /\ created[n] # t
    BY <2>2, <2>4 DEF OrderTypeOK, ToSet
  <2>6. \A u \in Task : task'[u].status # "absent" <=> task[u].status # "absent" \/ u = t
    BY <1>1, <1>3, <2>4 DEF Inserted, RowsAge
  <2>7. IsInjective(created)'
    <3>1. ASSUME NEW m \in 1..Len(created'), NEW n \in 1..Len(created'), created'[m] = created'[n]
          PROVE  m = n
      <4> DEFINE back(j) == IF j < i THEN j ELSE j - 1
      <4>1. \A j \in 1..Len(created') :
               \/ j = i /\ created'[j] = t
               \/ /\ j # i /\ back(j) \in 1..Len(created)
                  /\ created'[j] = created[back(j)] /\ created'[j] # t
        BY <2>2, <2>3, <2>5
      <4>2. m # i /\ n # i /\ back(m) = back(n) => m = n
        OBVIOUS
      <4> HIDE DEF back
      <4> QED
        BY <2>2, <3>1, <4>1, <4>2
    <3> QED
      BY <2>3, <3>1 DEF IsInjective
  <2>8. DOMAIN created = 1..Len(created) /\ DOMAIN created' = 1..Len(created')
    BY <2>2, <2>3
  <2>9. ASSUME NEW n \in 1..Len(created)
        PROVE  LET m == IF n < i THEN n ELSE n + 1
               IN  m \in 1..Len(created') /\ created'[m] = created[n]
    BY <2>2, <2>3
  <2>10. ToSet(created)' = {u \in Task : task'[u].status # "absent"}
    <3>1. ToSet(created)' = ToSet(created) \cup {t}
      <4>1. ToSet(created)' \subseteq ToSet(created) \cup {t}
        <5>1. \A j \in 1..Len(created') :
                 created'[j] = t \/ \E n \in 1..Len(created) : created'[j] = created[n]
          BY <2>2, <2>3
        <5> QED
          BY <2>8, <5>1 DEF ToSet
      <4>2. t \in ToSet(created)'
        BY <2>2, <2>3, <2>8 DEF ToSet
      <4>3. ToSet(created) \subseteq ToSet(created)'
        BY <2>8, <2>9 DEF ToSet
      <4> QED
        BY <4>1, <4>2, <4>3
    <3> QED
      BY <2>6, <3>1 DEF OrderTypeOK
  <2>11. ASSUME NEW u \in Task, NEW v \in Task, Precedes(u, v) PROVE Precedes(u, v)'
    <3>1. PICK m \in 1..Len(created), n \in 1..Len(created) :
             m < n /\ created[m] = u /\ created[n] = v
      BY <2>8, <2>11 DEF Precedes
    <3> DEFINE k(j) == IF j < i THEN j ELSE j + 1
    <3>2. k(m) \in DOMAIN created' /\ k(n) \in DOMAIN created' /\ k(m) < k(n)
      BY <2>2, <2>3, <2>8, <3>1
    <3>3. created'[k(m)] = u /\ created'[k(n)] = v
      BY <2>9, <3>1
    <3> HIDE DEF k
    <3> QED
      BY <3>2, <3>3 DEF Precedes
  <2> QED
    BY <2>3, <2>7, <2>10, <2>11 DEF OrderTypeOK
<1> QED
  BY <1>2, <1>3, OneInserted

LEMMA ToSetFinite ==
    ASSUME NEW S, NEW s \in Seq(S)
    PROVE  IsFiniteSet(ToSet(s))
<1>1. s \in Surjection(1..Len(s), ToSet(s))
  BY DEF ToSet, Surjection
<1>2. IsFiniteSet(1..Len(s))
  BY FS_Interval
<1> QED
  BY <1>1, <1>2, FS_Surjection

\* There are finitely many rows in the list.
LEMMA RowsFinite ==
    ASSUME OrderTypeOK, NEW filter
    PROVE  IsFiniteSet(Matching(filter)) /\ Matching(filter) \subseteq Task
<1>1. created \in Seq(Task) /\ IsFiniteSet(ToSet(created))
  BY ToSetFinite DEF OrderTypeOK
<1>2. Matching(filter) \subseteq ToSet(created)
  BY DEF OrderTypeOK, Matching, Matches, Lists, TaskStatus
<1> QED
  BY <1>1, <1>2, FS_Subset DEF Matching

-----------------------------------------------------------------------------
(* What the client holds                                                   *)

\* While the client looks at a run, it has one that was created, and the task
\* that the run belonged to.
ReadLinked ==
    view.pc \in {"pages", "shown"} =>
        /\ view.run \in Run /\ run[view.run].status # "absent"
        /\ view.task \in Task /\ task[view.task].status # "absent"
        /\ RunExists(view.run) => run[view.run].task = view.task

LEMMA BlankView == Blank \in View
BY StoreAssumption DEF Blank, View, ReadStep, NoPages

\* A step of the service leaves the client's view alone, up to the mark of a
\* disturbance.
LEMMA ServiceKeepsView ==
    ASSUME view \in View, NoteDisturbance
    PROVE  /\ view' \in View
           /\ \A f \in DOMAIN view \ {"disturbed"} : view'[f] = view[f]
           /\ view.disturbed => view'.disturbed
<1>1. CASE view' = view
  BY <1>1
<1>2. CASE view' = [view EXCEPT !.disturbed = TRUE]
  BY <1>2 DEF View
<1> QED
  BY <1>1, <1>2 DEF NoteDisturbance

\* Where the client's steps lead.
LEMMA NextStep ==
    ASSUME view \in View
    PROVE  /\ CountTasks => view'.pc = "items"
           /\ ListTasks => view'.pc \in {"next", "listed"}
           /\ ReadRun => view'.pc = "pages"
           /\ ReadPages => view'.pc = "shown"
           /\ ReadSites => view'.pc = "sites"
<1>1. CountTasks => view'.pc = "items"
  BY DEF CountTasks, Blank, View
<1>2. ListTasks => view'.pc \in {"next", "listed"}
  <2>1. ListTasks => \E seen : \/ view' = [view EXCEPT !.pc = "next", !.seen = seen]
                              \/ view' = [Blank EXCEPT !.pc = "listed", !.seen = seen,
                                                      !.began = view.began,
                                                      !.disturbed = view.disturbed]
    BY DEF ListTasks
  <2> QED
    BY <2>1 DEF Blank, View
<1>3. ReadRun => view'.pc = "pages"
  BY DEF ReadRun, Blank
<1>4. ReadPages => view'.pc = "shown"
  BY DEF ReadPages, View
<1>5. ReadSites => view'.pc = "sites"
  BY DEF ReadSites, View
<1> QED
  BY <1>1, <1>2, <1>3, <1>4, <1>5

LEMMA ReadTypeStep ==
    ASSUME Listed, ReadTypeOK, ReadLinked, [ReadNext]_<<vars, readVars>>
    PROVE  ReadTypeOK' /\ ReadLinked'
<1>1. Told /\ OrderTypeOK /\ view \in View
  BY DEF Listed, ReadTypeOK, OrderTypeOK
<1>2. CASE Service
  <2>1. view' \in View /\ view'.pc = view.pc /\ view'.run = view.run /\ view'.task = view.task
    BY <1>1, <1>2, ServiceKeepsView DEF Service, View
  <2>2. OrderTypeOK'
    BY <1>1, <1>2, OrderKept DEF Service
  <2>3. RowsAge
    BY <1>1, <1>2, RowsStep DEF Service, Told, Custody
  <2>4. ASSUME view.pc \in {"pages", "shown"}, RunExists(view.run)'
        PROVE  run'[view'.run].task = view'.task
    <3>1. PICK r \in Run : r = view.run
      BY <2>4 DEF ReadLinked
    <3>2. RunExists(r)' /\ run[r].status # "absent"
      BY <2>1, <2>4, <3>1 DEF RunExists, ReadLinked
    <3>3. run'[r].task = run[r].task
      BY <1>1, <1>2, <3>2, TaskFixed DEF Service
    <3>4. RunExists(r)
      BY <1>1, <1>2, <3>2, <3>3, StaysGone DEF Service, Told
    <3> QED
      BY <2>1, <2>4, <3>1, <3>3, <3>4 DEF ReadLinked
  <2> QED
    BY <2>1, <2>2, <2>3, <2>4 DEF ReadTypeOK, OrderTypeOK, ReadLinked, RowsAge
<1>3. ASSUME UNCHANGED <<vars, created>>, view' \in View,
             view'.pc \notin {"pages", "shown"}
      PROVE  ReadTypeOK' /\ ReadLinked'
  BY <1>1, <1>3 DEF ReadTypeOK, OrderTypeOK, ReadLinked, vars
<1>4. CASE CountTasks /\ UNCHANGED <<vars, created>>
  <2>1. \A filter : Cardinality(Matching(filter)) \in Nat /\ Matching(filter) \subseteq Task
    BY <1>1, RowsFinite, FS_CardinalityType
  <2>2. view' \in View /\ view'.pc = "items"
    <3>1. CASE Reading("idle")
      <4>1. PICK filter \in Filters : \E rows, total :
               /\ rows = Matching(filter) /\ total = Cardinality(Matching(filter))
               /\ view' = [Blank EXCEPT !.pc = "items", !.filter = filter, !.page = 1,
                                       !.total = total, !.began = rows]
        BY <1>4, <3>1 DEF CountTasks, Reading
      <4>2. PICK rows, total :
               /\ rows = Matching(filter) /\ total = Cardinality(Matching(filter))
               /\ view' = [Blank EXCEPT !.pc = "items", !.filter = filter, !.page = 1,
                                       !.total = total, !.began = rows]
        BY <4>1
      <4>3. total \in Nat /\ rows \in SUBSET Task
        BY <2>1, <4>2
      <4>4. view' = [pc |-> "items", filter |-> filter, page |-> 1, total |-> total, seen |-> {},
                     began |-> rows, disturbed |-> FALSE, run |-> NULL, task |-> NULL,
                     status |-> NULL, result |-> NULL, pages |-> NoPages, limit |-> 0,
                     sites |-> {}]
        BY <4>2 DEF Blank
      <4> QED
        BY <4>3, <4>4 DEF View, ReadStep, NoPages
    <3>2. CASE Reading("next")
      <4>1. PICK page, total :
               /\ page = view.page + 1 /\ total = Cardinality(Matching(view.filter))
               /\ view' = [view EXCEPT !.pc = "items", !.page = page, !.total = total]
        BY <1>4, <3>2 DEF CountTasks, Reading
      <4>2. page \in Nat /\ total \in Nat
        BY <1>1, <2>1, <4>1 DEF View
      <4>3. view' = [view EXCEPT !.pc = "items", !.page = page, !.total = total]
        BY <4>1
      <4> QED
        BY <1>1, <4>2, <4>3 DEF View, ReadStep
    <3> QED
      BY <1>4, <3>1, <3>2 DEF CountTasks
  <2> QED
    BY <1>3, <1>4, <2>2
<1>5. CASE ListTasks /\ UNCHANGED <<vars, created>>
  <2>1. PageItems(view.filter, view.page) \subseteq Task
    BY DEF PageItems, Slice, Matching
  <2>2. PICK seen \in SUBSET Task :
           \/ view' = [view EXCEPT !.pc = "next", !.seen = seen]
           \/ view' = [Blank EXCEPT !.pc = "listed", !.seen = seen, !.began = view.began,
                                   !.disturbed = view.disturbed]
    <3>1. PICK seen : /\ seen = view.seen \cup PageItems(view.filter, view.page)
                      /\ \/ view' = [view EXCEPT !.pc = "next", !.seen = seen]
                         \/ view' = [Blank EXCEPT !.pc = "listed", !.seen = seen,
                                                 !.began = view.began,
                                                 !.disturbed = view.disturbed]
      BY <1>5 DEF ListTasks
    <3>2. seen \in SUBSET Task
      BY <1>1, <2>1, <3>1 DEF View
    <3> QED
      BY <3>1, <3>2
  <2>3. view' \in View /\ view'.pc \in {"next", "listed"}
    <3>1. CASE view' = [view EXCEPT !.pc = "next", !.seen = seen]
      BY <1>1, <3>1 DEF View, ReadStep
    <3>2. CASE view' = [Blank EXCEPT !.pc = "listed", !.seen = seen, !.began = view.began,
                                    !.disturbed = view.disturbed]
      <4>1. view.began \in SUBSET Task /\ view.disturbed \in BOOLEAN
        BY <1>1 DEF View
      <4>2. view' = [pc |-> "listed", filter |-> NULL, page |-> 0, total |-> 0, seen |-> seen,
                     began |-> view.began, disturbed |-> view.disturbed, run |-> NULL,
                     task |-> NULL, status |-> NULL, result |-> NULL, pages |-> NoPages,
                     limit |-> 0, sites |-> {}]
        BY <3>2 DEF Blank
      <4> QED
        BY <4>1, <4>2 DEF View, ReadStep, NoPages
    <3> QED
      BY <2>2, <3>1, <3>2
  <2> QED
    BY <1>3, <1>5, <2>3
<1>6. CASE ReadRun /\ UNCHANGED <<vars, created>>
  <2>1. PICK r \in Run :
           /\ RunExists(r)
           /\ view' = [Blank EXCEPT !.pc = "pages", !.run = r, !.task = run[r].task,
                                   !.status = run[r].status, !.result = run[r].result_json]
    BY <1>6 DEF ReadRun
  <2>2. run[r] \in RunRow /\ run[r].task \in Task /\ TaskExists(run[r].task)
    BY <1>1, <2>1, ToldTypes DEF RowsLinked
  <2>3. /\ run[r].status \in TaskRunStatus /\ run[r].status # "absent"
        /\ task[run[r].task].status # "absent"
    BY <2>1, <2>2 DEF RunExists, TaskExists, TaskRunStatus, TaskStatus
  <2>4. view' \in View
    BY <2>1, <2>2, <2>3, BlankView DEF View, ReadStep, RunRow
  <2>5. view'.run = r /\ view'.task = run[r].task
    BY <2>1 DEF Blank
  <2> QED
    BY <1>1, <1>6, <2>2, <2>3, <2>4, <2>5 DEF ReadTypeOK, OrderTypeOK, ReadLinked, vars
<1>7. CASE ReadPages /\ UNCHANGED <<vars, created>>
  <2>1. view.run \in Run /\ run[view.run] \in RunRow
    BY <1>1, <1>7, ToldTypes DEF ReadPages, Reading, ReadLinked
  <2>2. view' = [view EXCEPT !.pc = "shown", !.pages = run[view.run].pages]
    BY <1>7 DEF ReadPages
  <2>3. view' \in View /\ view'.run = view.run /\ view'.task = view.task
    BY <1>1, <2>1, <2>2 DEF View, ReadStep, RunRow
  <2> QED
    BY <1>1, <1>7, <2>3
       DEF ReadTypeOK, OrderTypeOK, ReadLinked, RunExists, vars, ReadPages, Reading
<1>8. CASE ReadSites /\ UNCHANGED <<vars, created>>
  <2>1. site[view.task] \in SUBSET Url
    BY <1>1, <1>8, ToldTypes DEF ReadSites, Reading, ReadLinked, TypeOK, StoreTypeOK
  <2>2. PICK limit, sites :
           /\ limit \in SiteLimits /\ sites \in Newest(view.task, limit)
           /\ view' = [view EXCEPT !.pc = "sites", !.limit = limit, !.sites = sites]
    BY <1>8 DEF ReadSites
  <2>3. sites \in SUBSET Url
    BY <2>1, <2>2 DEF Newest
  <2>4. view' \in View /\ view'.pc = "sites"
    BY <1>1, <2>2, <2>3 DEF View, ReadStep
  <2> QED
    BY <1>3, <1>8, <2>4
<1>9. CASE UNCHANGED <<vars, readVars>>
  BY <1>9 DEF ReadTypeOK, ReadLinked, RunExists, vars, readVars
<1> QED
  BY <1>2, <1>4, <1>5, <1>6, <1>7, <1>8, <1>9 DEF ReadNext, Read

LEMMA InitReadType == ReadInit => ReadTypeOK /\ ReadLinked
<1> SUFFICES ASSUME ReadInit PROVE ReadTypeOK /\ ReadLinked
  OBVIOUS
<1>1. created = <<>> /\ view = Blank /\ \A t \in Task : task[t].status = "absent"
  BY DEF ReadInit, Init, StoreInit, BlankTask
<1>2. view \in View /\ view.pc = "idle"
  BY <1>1, BlankView DEF Blank
<1>3. created \in Seq(Task) /\ IsInjective(created) /\ ToSet(created) = {}
  BY <1>1 DEF IsInjective, ToSet
<1> QED
  BY <1>1, <1>2, <1>3 DEF ReadTypeOK, ReadLinked

LEMMA ReadTypeHolds == ReadSpec => [](ReadTypeOK /\ ReadLinked)
BY InitReadType, ReadTypeStep, ListedHolds, PTL DEF ReadSpec

\* The order of created_at ranks every task that was inserted, once, wherever
\* concurrent insertions commit, and the client gets what its requests may
\* return (tasks.py:39-66, runs.py:18-62, reports.py:16-44).
THEOREM ReadTypeCorrect == ReadSpec => []ReadTypeOK
BY ReadTypeHolds, PTL

-----------------------------------------------------------------------------
(* A run with its pages                                                    *)

\* A successful run has a first page.
FirstPageStored == \A r \in Run : run[r].status = "success" => 1 \in Captured(r)

LEMMA FirstPageStep ==
    ASSUME Told, FirstPageStored, [Next]_vars
    PROVE  FirstPageStored'
<1> SUFFICES ASSUME NEW r \in Run, run'[r].status = "success"
             PROVE  1 \in Captured(r)'
  BY DEF FirstPageStored
<1>1. /\ Custody /\ TypeOK /\ ReqLinked /\ JobLinked /\ run \in [Run -> RunRow] /\ run[r] \in RunRow
      /\ job \in [Process -> Job]
  BY ToldTypes
<1>2. CASE RowKept(r)
  BY <1>2, CapturedSame DEF RowKept, FirstPageStored
<1>3. run'[r] # GoneRun /\ ~\E t : run'[r] = QueuedRun(t)
  BY DEF GoneRun, QueuedRun, BlankRun
<1>4. ASSUME NEW w \in Process, Holds(w, r), StorePage(w)
      PROVE  1 \in Captured(r)'
  <2>1. run[r].status = "success"
    BY <1>4, HolderWrites
  <2> QED
    BY <1>1, <1>4, <2>1, PageStored DEF FirstPageStored
<1>5. ASSUME NEW w \in Process, Holds(w, r), Finish(w)
      PROVE  1 \in Captured(r)'
  <2>1. /\ job[w] \in Job /\ job[w].run = r /\ job[w].pc = "finish" /\ RunExists(r)
        /\ job[w].page \in 1..job[w].urls
    BY <1>1, <1>5 DEF Finish, Doing, Holds, JobLinked
  <2>2. Captured(r) = 1..job[w].urls
    BY <1>5, <2>1 DEF Told, PagesTold, LoopStep, PagesBefore, Doing
  <2>3. run'[r].pages = run[r].pages
    BY <1>1, <1>5, <2>1 DEF Finish, Ended, RunRow
  <2>4. Captured(r)' = Captured(r)
    BY <2>3, CapturedSame
  <2>5. job[w].urls \in Nat /\ 1 <= job[w].urls
    BY <2>1, StoreAssumption DEF Job
  <2> QED
    BY <2>2, <2>4, <2>5
<1>6. ASSUME NEW w \in Process, Holds(w, r), MarkFailed(w) PROVE FALSE
  BY <1>1, <1>6 DEF MarkFailed, Holds, Ended, RunRow
<1> QED
  BY <1>1, <1>2, <1>3, <1>4, <1>5, <1>6, RunSteps

\* A failure to store a success is stored as a failure with the same pages.
SameCount(new, old) == new # NULL /\ new.successful_pages = old.successful_pages

LEMMA EndedResult ==
    ASSUME NEW row \in RunRow, NEW status, NEW good, NEW bad
    PROVE  /\ Ended(row, status, good, bad).pages = row.pages
           /\ Ended(row, status, good, bad).result_json =
                 [successful_pages |-> good, failed_pages |-> bad]
BY DEF Ended, RunRow

\* What the result of a run that still exists says of its pages is final, and
\* its pages stay.
LEMMA ResultFinal ==
    ASSUME Told, [Next]_vars, NEW r \in Run, run[r].status # "absent", RunExists(r)'
    PROVE  /\ run[r].result_json # NULL => SameCount(run'[r].result_json, run[r].result_json)
           /\ Captured(r) \subseteq Captured(r)'
           /\ RunExists(r)
<1>1. /\ Custody /\ TypeOK /\ ReqLinked /\ JobLinked /\ run \in [Run -> RunRow] /\ run[r] \in RunRow
  BY ToldTypes
<1>2. RunExists(r)
  BY <1>1, TaskFixed, StaysGone
<1>3. run'[r] # GoneRun
  BY DEF RunExists, GoneRun, BlankRun, TaskRunStatus
<1>4. CASE RowKept(r)
  BY <1>2, <1>4, CapturedSame DEF RowKept, SameCount
<1>5. ASSUME NEW w \in Process, Holds(w, r), StorePage(w) \/ Finish(w) \/ MarkFailed(w)
      PROVE  /\ run[r].result_json # NULL => SameCount(run'[r].result_json, run[r].result_json)
             /\ Captured(r) \subseteq Captured(r)'
  <2>1. CASE StorePage(w)
    <3>1. run[r].result_json = NULL
      BY <1>5, <2>1 DEF Told, PagesTold, PastPages, StorePage, Doing
    <3>2. Captured(r)' = Captured(r) \cup {job[w].page}
      BY <1>1, <1>5, <2>1, PageStored
    <3> QED
      BY <3>1, <3>2
  <2>2. CASE Finish(w) \/ MarkFailed(w)
    <3>1. PICK good \in 0..MaxPages, bad \in {0, 1} :
             \E status : run'[r] = Ended(run[r], status, good, bad)
      <4>1. PagesStored(w) \in 0..MaxPages
        BY <1>5, CapturedSize DEF Holds, PagesStored
      <4>2. job[w].urls \in 0..MaxPages
        BY <1>1 DEF TypeOK, WorkerTypeOK, Job
      <4> QED
        BY <1>1, <1>5, <2>2, <4>1, <4>2 DEF Finish, MarkFailed, Holds
    <3>2. run'[r].pages = run[r].pages /\ run'[r].result_json # NULL
      <4>1. [successful_pages |-> good, failed_pages |-> bad] \in Result
        BY DEF Result
      <4> QED
        BY <1>1, <3>1, <4>1, EndedResult, NullIsNoResult
    <3>3. Captured(r)' = Captured(r)
      BY <3>2, CapturedSame
    <3>4. run'[r].result_json.successful_pages = Cardinality(Captured(r)')
      <4>1. PagesTold(r)'
        BY ToldStep DEF Told
      <4> QED
        BY <3>2, <4>1 DEF PagesTold
    <3>5. run[r].result_json # NULL => run[r].result_json.successful_pages = Cardinality(Captured(r))
      BY DEF Told, PagesTold
    <3> QED
      BY <3>2, <3>3, <3>4, <3>5 DEF SameCount
  <2> QED
    BY <1>5, <2>1, <2>2
<1> QED
  BY <1>1, <1>2, <1>3, <1>4, <1>5, RunSteps

\* While the client asks for the pages, what it has read of them is still so;
\* only pages may have come since.
DetailCurrent ==
    view.pc = "pages" /\ RunExists(view.run) =>
        /\ view.result # NULL => SameCount(run[view.run].result_json, view.result)
        /\ view.status = "success" => 1 \in Captured(view.run)

DetailInv == FirstPageStored /\ DetailCurrent /\ DetailIsComplete

LEMMA DetailStep ==
    ASSUME Listed, ReadTypeOK, ReadLinked, DetailInv, [ReadNext]_<<vars, readVars>>
    PROVE  DetailInv'
<1>1. Told /\ view \in View /\ [Next]_vars
  BY ReadersOnlyRead DEF Listed, ReadTypeOK
<1>2. FirstPageStored'
  BY <1>1, FirstPageStep DEF DetailInv
<1>3. CASE Service
  <2>1. /\ view'.pc = view.pc /\ view'.run = view.run /\ view'.status = view.status
        /\ view'.result = view.result /\ view'.pages = view.pages
    BY <1>1, <1>3, ServiceKeepsView DEF Service, View
  <2>2. ASSUME view.pc \in {"pages", "shown"}, RunExists(view.run)'
        PROVE  /\ view.run \in Run /\ RunExists(view.run)
               /\ run[view.run].result_json # NULL =>
                     SameCount(run'[view'.run].result_json, run[view.run].result_json)
               /\ 1 \in Captured(view.run) => 1 \in Captured(view.run)'
    <3>1. PICK r \in Run : r = view.run /\ run[r].status # "absent"
      BY <2>2 DEF ReadLinked
    <3>2. RunExists(r)'
      BY <2>1, <2>2, <3>1 DEF RunExists
    <3>3. /\ run[r].result_json # NULL =>
                SameCount(run'[r].result_json, run[r].result_json)
          /\ Captured(r) \subseteq Captured(r)' /\ RunExists(r)
      BY <1>1, <3>1, <3>2, ResultFinal
    <3>4. Captured(view.run)' = Captured(r)'
      BY <2>1, <3>1 DEF Captured
    <3> QED
      BY <2>1, <3>1, <3>3, <3>4
  <2>3. DetailCurrent'
    BY <2>1, <2>2 DEF DetailInv, DetailCurrent, SameCount
  <2>4. DetailIsComplete'
    BY <2>1, <2>2 DEF DetailInv, DetailIsComplete, Reading
  <2> QED
    BY <1>2, <2>3, <2>4 DEF DetailInv
<1>4. CASE ReadRun /\ UNCHANGED <<vars, created>>
  <2>1. PICK r \in Run :
           /\ RunExists(r)
           /\ view' = [Blank EXCEPT !.pc = "pages", !.run = r, !.task = run[r].task,
                                   !.status = run[r].status, !.result = run[r].result_json]
    BY <1>4 DEF ReadRun
  <2>2. /\ view'.pc = "pages" /\ view'.run = r /\ view'.status = run[r].status
        /\ view'.result = run[r].result_json
    BY <2>1 DEF Blank
  <2>3. run' = run
    BY <1>4 DEF vars
  <2>4. DetailCurrent'
    BY <2>2, <2>3 DEF DetailCurrent, DetailInv, SameCount, FirstPageStored, Captured
  <2> QED
    BY <1>2, <2>2, <2>4 DEF DetailInv, DetailIsComplete, Reading
<1>5. CASE ReadPages /\ UNCHANGED <<vars, created>>
  <2>1. PICK r \in Run : r = view.run /\ view.pc = "pages"
    BY <1>5 DEF ReadPages, Reading, ReadLinked
  <2>2. /\ view'.pc = "shown" /\ view'.run = r /\ view'.status = view.status
        /\ view'.result = view.result /\ view'.pages = run[r].pages
    BY <1>1, <1>5, <2>1 DEF ReadPages, View
  <2>3. run' = run
    BY <1>5 DEF vars
  <2>4. {n \in PageNo : view'.pages[n] # NULL} = Captured(r)
    BY <2>2 DEF Captured
  <2>5. ASSUME RunExists(r)
        PROVE  /\ view.result # NULL => Cardinality(Captured(r)) = view.result.successful_pages
               /\ view.status = "success" => 1 \in Captured(r)
    BY <1>1, <2>1, <2>5 DEF Told, PagesTold, DetailInv, DetailCurrent, SameCount
  <2>6. DetailIsComplete'
    BY <2>2, <2>3, <2>4, <2>5 DEF DetailIsComplete, RunExists
  <2> QED
    BY <1>2, <2>2, <2>6 DEF DetailInv, DetailCurrent
<1>6. CASE view'.pc \notin {"pages", "shown"}
  BY <1>2, <1>6 DEF DetailInv, DetailCurrent, DetailIsComplete, Reading
<1>7. CASE CountTasks \/ ListTasks \/ ReadSites
  BY <1>1, <1>6, <1>7, NextStep
<1>8. CASE UNCHANGED <<vars, readVars>>
  BY <1>2, <1>8
     DEF DetailInv, DetailCurrent, DetailIsComplete, RunExists, Captured, Reading, vars, readVars
<1> QED
  BY <1>3, <1>4, <1>5, <1>7, <1>8 DEF ReadNext, Read

\* However many pages and results are committed between the two SELECTs, a run
\* is shown with the pages that its result counts, and a successful one with a
\* first page (runs.py:51-62, worker.py:158-176).
THEOREM DetailsAreComplete == ReadSpec => []DetailIsComplete
<1>1. ReadInit => DetailInv
  BY DEF ReadInit, Init, StoreInit, BlankRun, Blank, DetailInv, DetailCurrent,
         DetailIsComplete, FirstPageStored, Reading
<1>2. DetailInv => DetailIsComplete
  BY DEF DetailInv
<1> QED
  BY <1>1, <1>2, DetailStep, ReadTypeHolds, ListedHolds, PTL DEF ReadSpec

-----------------------------------------------------------------------------
(* The found sites of a run's task                                         *)

\* As long as the task is there, the addresses of the pages that the client has
\* seen are among its sites.
AddressesListed ==
    Reading("shown") /\ TaskExists(view.task) =>
        {view.pages[n] : n \in PageNo} \ {NULL} \subseteq site[view.task]

SitesInv == AddressesListed /\ SitesCoverDetail

LEMMA SitesStep ==
    ASSUME Listed, ReadTypeOK, ReadLinked, SitesInv, [ReadNext]_<<vars, readVars>>
    PROVE  SitesInv'
<1>1. /\ Told /\ view \in View /\ TypeOK /\ ReqLinked /\ JobLinked /\ RowsLinked
      /\ RowsAge /\ [Next]_vars
  BY ReadersOnlyRead, ToldTypes, RowsStep DEF Listed, ReadTypeOK, Custody
<1>2. CASE Service
  <2>1. /\ view'.pc = view.pc /\ view'.task = view.task /\ view'.pages = view.pages
        /\ view'.limit = view.limit /\ view'.sites = view.sites
    BY <1>1, <1>2, ServiceKeepsView DEF Service, View
  <2>2. ASSUME view.pc = "shown", task'[view.task].status \in TaskStatus
        PROVE  TaskExists(view.task) /\ site[view.task] \subseteq site'[view.task]
    <3>1. PICK t \in Task : t = view.task /\ task[t].status # "absent"
      BY <2>2 DEF ReadLinked
    <3>2. TaskExists(t)
      BY <1>1, <2>2, <3>1 DEF RowsAge
    <3>3. site[t] \subseteq site'[t]
      BY <1>1, <2>2, <3>1, SitesGrow DEF TaskExists
    <3> QED
      BY <3>1, <3>2, <3>3
  <2>3. AddressesListed'
    BY <2>1, <2>2 DEF SitesInv, AddressesListed, Reading, TaskExists
  <2>4. SitesCoverDetail'
    BY <2>1 DEF SitesInv, SitesCoverDetail, Reading
  <2> QED
    BY <2>3, <2>4 DEF SitesInv
<1>3. CASE ReadPages /\ UNCHANGED <<vars, created>>
  <2>1. PICK r \in Run : r = view.run /\ view.pc = "pages"
    BY <1>3 DEF ReadPages, Reading, ReadLinked
  <2>2. /\ view'.pc = "shown" /\ view'.task = view.task /\ view'.pages = run[r].pages
    BY <1>1, <1>3, <2>1 DEF ReadPages, View
  <2>3. site' = site
    BY <1>3 DEF vars
  <2>4. ASSUME NEW n \in PageNo, run[r].pages[n] # NULL
        PROVE  run[r].pages[n] \in site[view.task]
    <3>1. n \in Captured(r)
      BY <2>4 DEF Captured
    <3>2. RunExists(r)
      BY <1>1, <3>1 DEF Told, PagesTold
    <3>3. run[r].task = view.task
      BY <2>1, <3>2 DEF ReadLinked
    <3> QED
      BY <3>1, <3>3 DEF Listed, PagesAreListed
  <2> QED
    BY <2>2, <2>3, <2>4 DEF SitesInv, AddressesListed, SitesCoverDetail, Reading
<1>4. CASE ReadSites /\ UNCHANGED <<vars, created>>
  <2>1. PICK limit, sites :
           /\ limit \in SiteLimits /\ sites \in Newest(view.task, limit)
           /\ view' = [view EXCEPT !.pc = "sites", !.limit = limit, !.sites = sites]
    BY <1>4 DEF ReadSites
  <2>2. /\ view'.pc = "sites" /\ view'.pages = view.pages
        /\ view'.limit = limit /\ view'.sites = sites
    BY <1>1, <2>1 DEF View
  <2>3. limit \in Nat
    BY <2>1, ReadAssumption
  <2>4. Cardinality(sites) < limit => sites = site[view.task]
    BY <2>1, <2>3 DEF Newest
  <2>5. {view.pages[n] : n \in PageNo} \ {NULL} \subseteq site[view.task]
    BY <1>4 DEF SitesInv, AddressesListed, ReadSites
  <2> QED
    BY <2>2, <2>4, <2>5 DEF SitesInv, AddressesListed, SitesCoverDetail, Reading
<1>5. CASE view'.pc \notin {"shown", "sites"}
  BY <1>5 DEF SitesInv, AddressesListed, SitesCoverDetail, Reading
<1>6. CASE CountTasks \/ ListTasks \/ ReadRun
  BY <1>1, <1>5, <1>6, NextStep
<1>7. CASE UNCHANGED <<vars, readVars>>
  BY <1>7 DEF SitesInv, AddressesListed, SitesCoverDetail, TaskExists, Reading, vars, readVars
<1> QED
  BY <1>2, <1>3, <1>4, <1>6, <1>7 DEF ReadNext, Read

\* Fewer sites than the client asked for, read after the pages of a run, contain
\* the addresses of these pages, whatever runs of the task have raced to list
\* them (reports.py:28-44, worker.py:138-156).
THEOREM SitesAreCovered == ReadSpec => []SitesCoverDetail
<1>1. ReadInit => SitesInv
  BY DEF ReadInit, Blank, SitesInv, AddressesListed, SitesCoverDetail, Reading
<1>2. SitesInv => SitesCoverDetail
  BY DEF SitesInv
<1> QED
  BY <1>1, <1>2, SitesStep, ReadTypeHolds, ListedHolds, PTL DEF ReadSpec

-----------------------------------------------------------------------------
(* The walk through the list of tasks                                      *)

\* How many places of the list the client has gone through.
Offset == (IF Reading("items") THEN view.page - 1 ELSE view.page) * PageSize

\* What the client that walks undisturbed has seen, and what it may hope for.
\* Tasks only move back in the list, so what stood before Offset when it was
\* read has been seen, although other tasks stand there now.
WalkInv ==
    view.pc \in {"items", "next"} /\ ~view.disturbed =>
        /\ view.page # 0
        /\ view.began \subseteq Matching(view.filter)
        /\ \A t \in view.began : Rank(t, Matching(view.filter)) < Offset => t \in view.seen
        /\ Reading("items") => view.total = Cardinality(Matching(view.filter))

\* A row has fewer rows before it than there are, and has not fewer of them
\* before it when rows are added.
LEMMA RankBounds ==
    ASSUME OrderTypeOK, NEW filter, NEW t \in Matching(filter)
    PROVE  /\ Rank(t, Matching(filter)) \in Nat
           /\ Cardinality(Matching(filter)) \in Nat
           /\ Rank(t, Matching(filter)) < Cardinality(Matching(filter))
<1> DEFINE rows == Matching(filter)
           before == {u \in rows : Precedes(u, t)}
<1>1. IsFiniteSet(rows) /\ rows \subseteq Task
  BY RowsFinite
<1>2. t \notin before
  <2>1. created \in Seq(Task) /\ \A i, j \in DOMAIN created : created[i] = created[j] => i = j
    BY DEF OrderTypeOK, IsInjective
  <2> QED
    BY <2>1 DEF Precedes
<1>3. before \subseteq rows /\ before # rows
  BY <1>2
<1> HIDE DEF rows, before
<1>4. /\ IsFiniteSet(before) /\ Cardinality(before) <= Cardinality(rows)
      /\ Cardinality(before) # Cardinality(rows)
  BY <1>1, <1>3, FS_Subset
<1>5. Cardinality(before) \in Nat /\ Cardinality(rows) \in Nat
  BY <1>1, <1>4, FS_CardinalityType
<1>6. Rank(t, rows) = Cardinality(before)
  BY DEF Rank, rows, before
<1> QED
  BY <1>4, <1>5, <1>6 DEF rows

LEMMA RankGrows ==
    ASSUME OrderTypeOK, OrderTypeOK', NEW filter, NEW t \in Matching(filter),
           Matching(filter) \subseteq Matching(filter)',
           \A u, v \in Task : Precedes(u, v) => Precedes(u, v)'
    PROVE  /\ Rank(t, Matching(filter))' \in Nat
           /\ Rank(t, Matching(filter)) <= Rank(t, Matching(filter))'
<1> DEFINE before == {u \in Matching(filter) : Precedes(u, t)}
           after == {u \in Matching(filter)' : Precedes(u, t)'}
<1>1. IsFiniteSet(Matching(filter)')
  <2>1. created' \in Seq(Task) /\ IsFiniteSet(ToSet(created'))
    BY ToSetFinite DEF OrderTypeOK
  <2>2. Matching(filter)' \subseteq ToSet(created')
    BY DEF OrderTypeOK, Matching, Matches, Lists, TaskStatus
  <2> QED
    BY <2>1, <2>2, FS_Subset
<1>2. before \subseteq after
  BY RowsFinite
<1>3. IsFiniteSet(after)
  BY <1>1, FS_Subset
<1>4. Rank(t, Matching(filter)) = Cardinality(before)
  BY DEF Rank
<1>5. Rank(t, Matching(filter))' = Cardinality(after)
  BY DEF Rank
<1> HIDE DEF before, after
<1> QED
  BY <1>2, <1>3, <1>4, <1>5, FS_Subset, FS_CardinalityType

\* A step of the service, seen from a list that the client walks through.
LEMMA ListGrows ==
    ASSUME Told, OrderTypeOK, Service, NEW filter,
           view.pc \in {"items", "next"}, ~Disturbs(filter)
    PROVE  /\ Matching(filter) \subseteq Matching(filter)'
           /\ Reading("items") => Matching(filter)' = Matching(filter)
           /\ \A t \in Matching(filter) :
                 /\ Rank(t, Matching(filter))' \in Nat
                 /\ Rank(t, Matching(filter)) <= Rank(t, Matching(filter))'
<1>1. /\ Matching(filter) \subseteq Matching(filter)'
      /\ Reading("items") => Matching(filter)' = Matching(filter)
  BY DEF Disturbs, Matching, Matches
<1>2. OrderTypeOK' /\ \A u, t \in Task : Precedes(u, t) => Precedes(u, t)'
  BY OrderKept DEF Service
<1> QED
  BY <1>1, <1>2, RankGrows

LEMMA WalkStep ==
    ASSUME Listed, ReadTypeOK, WalkInv, WalkMissesNothing, [ReadNext]_<<vars, readVars>>
    PROVE  WalkInv' /\ WalkMissesNothing'
<1>1. /\ Told /\ OrderTypeOK /\ view \in View /\ PageSize \in Nat /\ view.page \in Nat
  BY ReadAssumption DEF Listed, ReadTypeOK, OrderTypeOK, View
<1>2. PICK filter : filter = view.filter
  OBVIOUS
<1> DEFINE rows == Matching(filter)
<1>3. \A t \in rows :
         /\ Rank(t, rows) \in Nat /\ Cardinality(rows) \in Nat
         /\ Rank(t, rows) < Cardinality(rows)
  BY <1>1, RankBounds
<1>4. CASE Service
  <2>1. CASE view'.disturbed
    BY <2>1 DEF WalkInv, WalkMissesNothing
  <2>2. CASE view' = view /\ view.pc \notin {"items", "next"}
    BY <2>2 DEF WalkInv, WalkMissesNothing, Reading
  <2>3. CASE view' = view /\ view.pc \in {"items", "next"} /\ ~Disturbs(filter)
    <3>1. /\ rows \subseteq rows' /\ (Reading("items") => rows' = rows)
          /\ \A t \in rows : Rank(t, rows)' \in Nat /\ Rank(t, rows) <= Rank(t, rows)'
      BY <1>1, <1>4, <2>3, ListGrows
    <3>2. Offset' = Offset /\ Offset \in Int
      BY <1>1, <2>3 DEF Offset, Reading
    <3>3. ASSUME ~view.disturbed, NEW t \in view.began, Rank(t, rows)' < Offset'
          PROVE  t \in view.seen
      <4>1. t \in rows
        BY <1>2, <2>3, <3>3 DEF WalkInv
      <4>2. Rank(t, rows) < Offset
        BY <1>3, <3>1, <3>2, <3>3, <4>1
      <4> QED
        BY <1>2, <2>3, <3>3, <4>2 DEF WalkInv
    <3> HIDE DEF rows
    <3>4. WalkInv'
      BY <1>2, <2>3, <3>1, <3>3 DEF WalkInv, Reading, rows
    <3> QED
      BY <2>3, <3>4 DEF WalkMissesNothing, Reading
  <2> QED
    BY <1>1, <1>2, <1>4, <2>1, <2>2, <2>3 DEF Service, NoteDisturbance, View
<1>5. CASE CountTasks /\ UNCHANGED <<vars, created>>
  <2>1. \A f : Matching(f)' = Matching(f) /\ \A t : Rank(t, Matching(f))' = Rank(t, Matching(f))
    BY <1>5 DEF Matching, Matches, Rank, Precedes, vars
  <2>2. CASE Reading("idle")
    <3>1. PICK f : view' = [Blank EXCEPT !.pc = "items", !.filter = f, !.page = 1,
                                         !.total = Cardinality(Matching(f)),
                                         !.began = Matching(f)]
      BY <1>5, <2>2 DEF CountTasks, Reading
    <3>2. /\ view'.pc = "items" /\ view'.filter = f /\ view'.page = 1
          /\ view'.total = Cardinality(Matching(f)) /\ view'.began = Matching(f)
      BY <3>1 DEF Blank
    <3>3. Offset' = 0
      BY <1>1, <3>2 DEF Offset, Reading
    <3>4. \A t \in Matching(f) : ~(Rank(t, Matching(f)) < 0)
      BY <1>1, RankBounds
    <3> QED
      BY <2>1, <3>2, <3>3, <3>4 DEF WalkInv, WalkMissesNothing, Reading
  <2>3. CASE Reading("next")
    <3>1. /\ view'.pc = "items" /\ view'.filter = filter /\ view'.page = view.page + 1
          /\ view'.total = Cardinality(rows) /\ view'.began = view.began
          /\ view'.seen = view.seen /\ view'.disturbed = view.disturbed
      BY <1>1, <1>2, <1>5, <2>3 DEF CountTasks, Reading, View
    <3>2. view'.page - 1 = view.page /\ view'.page # 0
      BY <1>1, <3>1
    <3>3. Offset' = Offset
      BY <2>3, <3>1, <3>2 DEF Offset, Reading
    <3> QED
      BY <1>2, <2>1, <2>3, <3>1, <3>2, <3>3 DEF WalkInv, WalkMissesNothing, Reading
  <2> QED
    BY <1>5, <2>2, <2>3 DEF CountTasks
<1>6. CASE ListTasks /\ UNCHANGED <<vars, created>>
  <2>1. \A f : Matching(f)' = Matching(f) /\ \A t : Rank(t, Matching(f))' = Rank(t, Matching(f))
    BY <1>6 DEF Matching, Matches, Rank, Precedes, vars
  <2>2. PICK items : items = PageItems(filter, view.page)
    OBVIOUS
  <2>3. /\ view.pc = "items" /\ view'.seen = view.seen \cup items /\ view'.began = view.began
        /\ view'.disturbed = view.disturbed
        /\ \/ view'.pc = "next" /\ view'.page = view.page /\ view'.filter = filter
           \/ view'.pc = "listed" /\ view.page * PageSize >= view.total
    <3>1. PICK seen :
             /\ seen = view.seen \cup items
             /\ \/ view' = [view EXCEPT !.pc = "next", !.seen = seen]
                \/ /\ view.page * PageSize >= view.total
                   /\ view' = [Blank EXCEPT !.pc = "listed", !.seen = seen,
                                           !.began = view.began, !.disturbed = view.disturbed]
      BY <1>2, <1>6, <2>2 DEF ListTasks
    <3>2. CASE view' = [view EXCEPT !.pc = "next", !.seen = seen]
      BY <1>1, <1>2, <1>6, <3>1, <3>2 DEF ListTasks, Reading, View
    <3>3. CASE view' = [Blank EXCEPT !.pc = "listed", !.seen = seen, !.began = view.began,
                                    !.disturbed = view.disturbed]
      <4>1. /\ view'.pc = "listed" /\ view'.seen = seen /\ view'.began = view.began
            /\ view'.disturbed = view.disturbed
        BY <3>3 DEF Blank
      <4>2. view' # [view EXCEPT !.pc = "next", !.seen = seen]
        BY <1>1, <4>1 DEF View
      <4> QED
        BY <1>6, <3>1, <4>1, <4>2 DEF ListTasks, Reading
    <3> QED
      BY <3>1, <3>2, <3>3
  <2>4. /\ Offset = (view.page - 1) * PageSize /\ Offset \in Int /\ view.page * PageSize \in Int
    BY <1>1, <2>3 DEF Offset, Reading
  <2>5. ASSUME ~view.disturbed, NEW t \in view.began, Rank(t, rows) < view.page * PageSize
        PROVE  t \in view'.seen
    <3>1. t \in rows /\ Rank(t, rows) \in Nat
      BY <1>2, <1>3, <2>3, <2>5 DEF WalkInv
    <3>2. CASE Rank(t, rows) < Offset
      BY <1>2, <2>3, <2>5, <3>2 DEF WalkInv
    <3>3. CASE Offset <= Rank(t, rows)
      BY <2>2, <2>3, <2>4, <2>5, <3>1, <3>3 DEF PageItems, Slice
    <3> QED
      BY <2>4, <3>1, <3>2, <3>3
  <2>6. CASE view'.pc = "next" /\ view'.page = view.page /\ view'.filter = filter
    <3>1. Offset' = view.page * PageSize
      BY <2>6 DEF Offset, Reading
    <3> QED
      BY <1>2, <2>1, <2>3, <2>5, <2>6, <3>1 DEF WalkInv, WalkMissesNothing, Reading
  <2>7. CASE view'.pc = "listed" /\ view.page * PageSize >= view.total
    <3>1. ASSUME ~view.disturbed, NEW t \in view.began PROVE t \in view'.seen
      <4>1. t \in rows /\ view.total = Cardinality(rows)
        BY <1>2, <2>3, <3>1 DEF WalkInv, Reading
      <4>2. Rank(t, rows) < view.page * PageSize
        BY <1>3, <2>4, <2>7, <4>1
      <4> QED
        BY <2>5, <3>1, <4>2
    <3> QED
      BY <2>3, <2>7, <3>1 DEF WalkInv, WalkMissesNothing, Reading
  <2> QED
    BY <2>3, <2>6, <2>7
<1>7. CASE view'.pc \notin {"items", "next", "listed"}
  BY <1>7 DEF WalkInv, WalkMissesNothing, Reading
<1>8. CASE ReadRun \/ ReadPages \/ ReadSites
  BY <1>1, <1>7, <1>8, NextStep
<1>9. CASE UNCHANGED <<vars, readVars>>
  <2>1. \A f : Matching(f)' = Matching(f) /\ \A t : Rank(t, Matching(f))' = Rank(t, Matching(f))
    BY <1>9 DEF Matching, Matches, Rank, Precedes, vars, readVars
  <2>2. view' = view /\ Offset' = Offset
    BY <1>9 DEF Offset, Reading, readVars
  <2> QED
    BY <2>1, <2>2 DEF WalkInv, WalkMissesNothing, Reading
<1> QED
  BY <1>4, <1>5, <1>6, <1>8, <1>9 DEF ReadNext, Read

\* A client that walks through the pages of the list sees every task that was
\* listed when it began, for every page size and however many tasks are created
\* meanwhile, unless one leaves the list, or joins it between the count and the
\* items of a page (tasks.py:51-60).
THEOREM WalkSeesAll == ReadSpec => []WalkMissesNothing
<1>1. ReadInit => WalkInv /\ WalkMissesNothing
  BY DEF ReadInit, Blank, WalkInv, WalkMissesNothing, Reading
<1> QED
  BY <1>1, WalkStep, ReadTypeHolds, ListedHolds, PTL DEF ReadSpec
=============================================================================

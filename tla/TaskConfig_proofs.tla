-------------------------- MODULE TaskConfig_proofs --------------------------
(***************************************************************************)
(* TemplateOfOwner and StaysInAccount for every number of accounts,        *)
(* templates, tasks and threads.                                           *)
(*                                                                         *)
(* TemplateOfOwner is not inductive: it also depends on what the requests  *)
(* in progress carry.  Owners never change, so whatever a request has      *)
(* looked up for its account still belongs to that account when it         *)
(* commits, even if the row is gone by then; and the foreign key rejects a *)
(* template that is gone.                                                  *)
(***************************************************************************)
EXTENDS TaskConfig, TLAPS

\* A task row refers to nothing but a present template of its owner, and a row
\* that is not there refers to nothing.
RowsLinked ==
    \A t \in Task : task[t].template_id # NULL =>
        /\ TaskExists(t)
        /\ TemplateExists(task[t].template_id)
        /\ template[task[t].template_id].owner = task[t].owner

\* p has belonged to account u since it was created.
TemplateOf(u, p) == template[p].state # "absent" /\ template[p].owner = u

TaskOf(u, t) == task[t].state # "absent" /\ task[t].owner = u

\* What a request carries belongs to its account.
Carries(c) ==
    /\ req[c].pc # "idle" => req[c].user \in User
    /\ req[c].pc \in {"update", "delete"} => req[c].task # NULL
    /\ req[c].pc = "insert" => req[c].task = NULL
    /\ req[c].task # NULL => TaskOf(req[c].user, req[c].task)
    /\ req[c].pc = "validate" =>
          /\ req[c].template # NULL
          /\ req[c].form.template_id \in {req[c].template, "unset", NULL}
    /\ req[c].pc \in {"insert", "update"} /\ req[c].form.template_id \in Template =>
          TemplateOf(req[c].user, req[c].form.template_id)
    /\ req[c].pc \in {"collect", "drop"} =>
          req[c].template # NULL /\ TemplateOf(req[c].user, req[c].template)
    /\ \A t \in req[c].tasks : TaskOf(req[c].user, t)

ReqLinked == \A c \in Thread : Carries(c)

\* Only an insertion has no task, and it carries a value for every column.
Complete(c) ==
    req[c].pc \in {"validate", "insert"} /\ req[c].task = NULL =>
        /\ req[c].form.template_id # "unset"
        /\ req[c].form.schedule_type # "unset"
        /\ req[c].form.cron_expression # "unset"

IInv == TypeOK /\ RowsLinked /\ ReqLinked /\ (\A c \in Thread : Complete(c))

-----------------------------------------------------------------------------
\* The initial states satisfy the invariant.
LEMMA InitIInv == Init => IInv
  BY ConfigAssumption
  DEF Init, IInv, TypeOK, TemplateRow, TaskRow, Request, RequestStep, RowState, Form,
      Cron, FiveFields, Idle, NothingSet, RowsLinked, TaskExists, TemplateExists,
      ReqLinked, Carries, Complete

\* No step takes a row away from its owner.
OwnersStay ==
    /\ \A p \in Template : template[p].state # "absent" =>
          template'[p].state # "absent" /\ template'[p].owner = template[p].owner
    /\ \A t \in Task : task[t].state # "absent" =>
          task'[t].state # "absent" /\ task'[t].owner = task[t].owner

\* What a thread carries stays linked while the thread rests.
LEMMA RestingThread ==
  ASSUME TypeOK, OwnersStay, NEW d \in Thread, Carries(d), Complete(d), req'[d] = req[d]
  PROVE  Carries(d)' /\ Complete(d)'
<1> DEFINE r == req[d]
<1>1. r \in Request
  BY DEF TypeOK
<1>2. \A t \in Task : TaskOf(r.user, t) => task'[t].state # "absent" /\ task'[t].owner = r.user
  BY DEF OwnersStay, TaskOf
<1>3. \A p \in Template : TemplateOf(r.user, p) =>
          template'[p].state # "absent" /\ template'[p].owner = r.user
  BY DEF OwnersStay, TemplateOf
<1>4. r.tasks \subseteq Task /\ r.task \in Task \cup {NULL} /\ r.template \in Template \cup {NULL}
  BY <1>1 DEF Request
<1>5. Complete(d)'
  BY DEF Complete
<1>6. Carries(d)'
  BY <1>2, <1>3, <1>4, Zenon DEF Carries, TaskOf, TemplateOf
<1> QED BY <1>5, <1>6

\* No step takes a row away from its owner: rows are created and deleted, and
\* their owner is never assigned.
LEMMA StepOwners == TypeOK /\ [Next]_vars => OwnersStay
<1> SUFFICES ASSUME TypeOK, [Next]_vars
             PROVE  OwnersStay
  OBVIOUS
<1> USE DEF OwnersStay, Continue, Done
<1>1. CASE UNCHANGED vars
  BY <1>1 DEF vars
<1>2. ASSUME NEW c \in Thread, NEW u \in User, NewRequest(c, u)
      PROVE  OwnersStay
  <2>1. CASE CreateTemplate(c, u)
    BY <2>1 DEF CreateTemplate, TypeOK, TemplateRow, TaskRow
  <2>2. CASE DeleteTemplateRead(c, u)
    BY <2>2 DEF DeleteTemplateRead
  <2>3. CASE CreateTask(c, u)
    BY <2>3 DEF CreateTask
  <2>4. CASE CloneTask(c, u)
    BY <2>4 DEF CloneTask
  <2>5. CASE UpdateTask(c, u)
    BY <2>5 DEF UpdateTask
  <2>6. CASE DeleteTaskRead(c, u)
    BY <2>6 DEF DeleteTaskRead
  <2> QED BY <1>2, <2>1, <2>2, <2>3, <2>4, <2>5, <2>6 DEF NewRequest
<1>3. ASSUME NEW c \in Thread, Serve(c)
      PROVE  OwnersStay
  <2>1. CASE CollectTasks(c)
    BY <2>1 DEF CollectTasks
  <2>2. CASE DropTemplate(c)
    BY <2>2 DEF DropTemplate, TypeOK, TemplateRow, TaskRow
  <2>3. CASE ValidateTemplate(c)
    BY <2>3 DEF ValidateTemplate
  <2>4. CASE InsertTask(c)
    BY <2>4 DEF InsertTask, NewRow, TypeOK, TemplateRow, TaskRow
  <2>5. CASE WriteTask(c)
    BY <2>5 DEF WriteTask, Written, TypeOK, TemplateRow, TaskRow
  <2>6. CASE DeleteTaskCommit(c)
    BY <2>6 DEF DeleteTaskCommit, GoneRow, TypeOK, TemplateRow, TaskRow
  <2>7. CASE CommitFails(c)
    BY <2>7 DEF CommitFails
  <2> QED BY <1>3, <2>1, <2>2, <2>3, <2>4, <2>5, <2>6, <2>7 DEF Serve
<1>4. ASSUME NEW t \in Task, StatusChanges(t)
      PROVE  OwnersStay
  BY <1>4 DEF StatusChanges, TypeOK, TaskRow
<1> QED BY <1>1, <1>2, <1>3, <1>4 DEF Next

\* An idle thread's record is well typed, and so are the fields of a record.
LEMMA IdleType == Idle \in Request
  BY ConfigAssumption DEF Idle, Request, RequestStep, NothingSet, Form

\* A request that goes on with a well-typed record keeps req well typed.
LEMMA ContinueType ==
  ASSUME req \in [Thread -> Request], NEW c \in Thread,
         NEW request \in Request, Continue(c, request)
  PROVE  req' \in [Thread -> Request]
  BY DEF Continue

\* The columns a PATCH changes are columns of a form.
LEMMA ChangesType ==
  ASSUME NEW form \in Form, NEW row \in TaskRow
  PROVE  Changes(form, row) \in Form
  BY DEF Changes, Dirty, CronGiven, Form, TaskRow

\* A row is still a row after the columns of a form are written.
LEMMA WrittenType ==
  ASSUME NEW form \in Form, NEW row \in TaskRow
  PROVE  Written(row, form) \in TaskRow
<1>1. /\ Given(form.template_id, row.template_id) \in Template \cup {NULL}
      /\ Given(form.schedule_type, row.schedule_type) \in {"once", "cron"}
      /\ Given(form.cron_expression, row.cron_expression) \in Cron \cup {NULL}
  BY DEF Given, Form, TaskRow
<1> QED BY <1>1 DEF Written, TaskRow

\* Every step keeps the types.
LEMMA StepType == IInv /\ [Next]_vars => TypeOK'
<1> SUFFICES ASSUME IInv, [Next]_vars
             PROVE  TypeOK'
  OBVIOUS
<1> USE DEF IInv, TypeOK
<1>1. CASE UNCHANGED vars
  BY <1>1 DEF vars
<1>2. ASSUME NEW c \in Thread, NEW u \in User, NewRequest(c, u)
      PROVE  TypeOK'
  <2>1. CASE CreateTemplate(c, u)
    BY <2>1 DEF CreateTemplate, TemplateRow, RowState
  <2>2. CASE DeleteTemplateRead(c, u)
    <3>1. PICK p \in Template :
             Continue(c, [Idle EXCEPT !.pc = "collect", !.user = u, !.template = p])
      BY <2>2 DEF DeleteTemplateRead
    <3>2. [Idle EXCEPT !.pc = "collect", !.user = u, !.template = p] \in Request
      BY IdleType DEF Request, RequestStep
    <3> QED BY <2>2, <3>1, <3>2, ContinueType DEF DeleteTemplateRead
  <2>3. CASE CreateTask(c, u)
    <3>1. PICK p \in Template \cup {NULL}, type \in Schedules, cron \in Cron \cup {NULL} :
             Continue(c, [Idle EXCEPT
                !.pc = NextStep(p, "insert"), !.user = u, !.template = p,
                !.form = [template_id |-> p, schedule_type |-> type,
                          cron_expression |-> cron]])
      BY <2>3 DEF CreateTask
    <3>2. [template_id |-> p, schedule_type |-> type, cron_expression |-> cron] \in Form
      BY ConfigAssumption DEF Form
    <3>3. [Idle EXCEPT
                !.pc = NextStep(p, "insert"), !.user = u, !.template = p,
                !.form = [template_id |-> p, schedule_type |-> type,
                          cron_expression |-> cron]] \in Request
      BY <3>2, IdleType DEF Request, RequestStep, NextStep
    <3> QED BY <2>3, <3>1, <3>3, ContinueType DEF CreateTask
  <2>4. CASE CloneTask(c, u)
    <3>1. PICK t \in Task :
             Continue(c, [Idle EXCEPT !.pc = "insert", !.user = u,
                !.form = [template_id |-> task[t].template_id,
                          schedule_type |-> task[t].schedule_type,
                          cron_expression |-> task[t].cron_expression]])
      BY <2>4 DEF CloneTask
    <3>2. [template_id |-> task[t].template_id, schedule_type |-> task[t].schedule_type,
           cron_expression |-> task[t].cron_expression] \in Form
      BY DEF Form, TaskRow
    <3>3. [Idle EXCEPT !.pc = "insert", !.user = u,
                !.form = [template_id |-> task[t].template_id,
                          schedule_type |-> task[t].schedule_type,
                          cron_expression |-> task[t].cron_expression]] \in Request
      BY <3>2, IdleType DEF Request, RequestStep
    <3> QED BY <2>4, <3>1, <3>3, ContinueType DEF CloneTask
  <2>5. CASE UpdateTask(c, u)
    <3>1. PICK t \in Task, form \in Patch :
             Continue(c, [Idle EXCEPT
                !.pc = NextStep(form.template_id, "update"), !.user = u, !.task = t,
                !.template = IF form.template_id \in Template THEN form.template_id ELSE NULL,
                !.form = Changes(form, task[t])])
      BY <2>5 DEF UpdateTask
    <3>2. Changes(form, task[t]) \in Form
      BY ChangesType DEF Patch
    <3>3. [Idle EXCEPT
                !.pc = NextStep(form.template_id, "update"), !.user = u, !.task = t,
                !.template = IF form.template_id \in Template THEN form.template_id ELSE NULL,
                !.form = Changes(form, task[t])] \in Request
      BY <3>2, IdleType DEF Request, RequestStep, NextStep
    <3> QED BY <2>5, <3>1, <3>3, ContinueType DEF UpdateTask
  <2>6. CASE DeleteTaskRead(c, u)
    <3>1. PICK t \in Task : Continue(c, [Idle EXCEPT !.pc = "delete", !.user = u, !.task = t])
      BY <2>6 DEF DeleteTaskRead
    <3>2. [Idle EXCEPT !.pc = "delete", !.user = u, !.task = t] \in Request
      BY IdleType DEF Request, RequestStep
    <3> QED BY <2>6, <3>1, <3>2, ContinueType DEF DeleteTaskRead
  <2> QED BY <1>2, <2>1, <2>2, <2>3, <2>4, <2>5, <2>6 DEF NewRequest
<1>3. ASSUME NEW c \in Thread, Serve(c)
      PROVE  TypeOK'
  <2>1. CASE CollectTasks(c)
    <3>1. [req[c] EXCEPT !.pc = "drop", !.tasks = {t \in Task :
              TaskExists(t) /\ task[t].template_id = req[c].template}] \in Request
      BY DEF Request, RequestStep
    <3> QED BY <2>1, <3>1, ContinueType DEF CollectTasks
  <2>2. CASE DropTemplate(c)
    <3>1. req' \in [Thread -> Request]
      BY <2>2, IdleType, ContinueType DEF DropTemplate, Done
    <3>2. template' \in [Template -> TemplateRow]
      BY <2>2 DEF DropTemplate, TemplateRow, RowState
    <3>3. task' \in [Task -> TaskRow]
      BY <2>2 DEF DropTemplate, TaskRow
    <3> QED BY <3>1, <3>2, <3>3
  <2>3. CASE ValidateTemplate(c)
    <3>1. [req[c] EXCEPT !.pc = IF req[c].task = NULL THEN "insert" ELSE "update",
                         !.template = NULL] \in Request
      BY DEF Request, RequestStep
    <3> QED BY <2>3, <3>1, IdleType, ContinueType DEF ValidateTemplate, Done
  <2>4. CASE InsertTask(c)
    <3>1. req' \in [Thread -> Request]
      BY <2>4, IdleType, ContinueType DEF InsertTask, Done
    <3>2. req[c].user \in User
      BY <2>4 DEF InsertTask, At, ReqLinked, Carries
    <3>3. /\ req[c].form.template_id \in Template \cup {NULL}
          /\ req[c].form.schedule_type \in {"once", "cron"}
          /\ req[c].form.cron_expression \in Cron \cup {NULL}
      BY <2>4 DEF InsertTask, At, ReqLinked, Carries, Complete, Request, Form
    <3>4. NewRow(req[c].user, req[c].form) \in TaskRow
      BY <3>2, <3>3 DEF NewRow, TaskRow, RowState
    <3>5. task' \in [Task -> TaskRow]
      BY <2>4, <3>4 DEF InsertTask
    <3> QED BY <2>4, <3>1, <3>5 DEF InsertTask
  <2>5. CASE WriteTask(c)
    <3>1. req' \in [Thread -> Request]
      BY <2>5, IdleType, ContinueType DEF WriteTask, Done
    <3>2. \A t \in Task : Written(task[t], req[c].form) \in TaskRow
      BY WrittenType DEF Request
    <3>3. task' \in [Task -> TaskRow]
      BY <2>5, <3>2 DEF WriteTask
    <3> QED BY <2>5, <3>1, <3>3 DEF WriteTask
  <2>6. CASE DeleteTaskCommit(c)
    <3>1. req' \in [Thread -> Request]
      BY <2>6, IdleType, ContinueType DEF DeleteTaskCommit, Done
    <3>2. \A t \in Task : GoneRow(task[t]) \in TaskRow
      BY DEF GoneRow, TaskRow, RowState
    <3>3. task' \in [Task -> TaskRow]
      BY <2>6, <3>2 DEF DeleteTaskCommit
    <3> QED BY <2>6, <3>1, <3>3 DEF DeleteTaskCommit
  <2>7. CASE CommitFails(c)
    BY <2>7, IdleType, ContinueType DEF CommitFails, Done
  <2> QED BY <1>3, <2>1, <2>2, <2>3, <2>4, <2>5, <2>6, <2>7 DEF Serve
<1>4. ASSUME NEW t \in Task, StatusChanges(t)
      PROVE  TypeOK'
  <2>1. [task[t] EXCEPT !.running = ~task[t].running] \in TaskRow
    BY DEF TaskRow
  <2>2. task' = [task EXCEPT ![t] = [task[t] EXCEPT !.running = ~task[t].running]]
    BY <1>4 DEF StatusChanges
  <2>3. task' \in [Task -> TaskRow]
    BY <2>1, <2>2
  <2> QED BY <1>4, <2>3 DEF StatusChanges
<1> QED BY <1>1, <1>2, <1>3, <1>4 DEF Next

\* Every step keeps the rows linked: a template is deleted together with the
\* references to it, and the foreign key checks every reference written.
LEMMA StepRows == IInv /\ [Next]_vars => RowsLinked'
<1> SUFFICES ASSUME IInv, [Next]_vars
             PROVE  RowsLinked'
  OBVIOUS
<1> USE DEF IInv, RowsLinked, TaskExists, TemplateExists
<1>1. ASSUME UNCHANGED <<template, task>>
      PROVE  RowsLinked'
  BY <1>1
<1>2. ASSUME NEW c \in Thread, NEW u \in User, NewRequest(c, u)
      PROVE  RowsLinked'
  <2>1. CASE CreateTemplate(c, u)
    <3>1. PICK p \in Template :
             /\ template[p].state = "absent"
             /\ template' = [template EXCEPT ![p] = [state |-> "present", owner |-> u]]
      BY <2>1 DEF CreateTemplate
    <3>2. \A q \in Template : q # p => template'[q] = template[q]
      BY <3>1 DEF TypeOK
    <3>3. \A t \in Task : task[t].template_id \in Template \cup {NULL} /\ task[t].template_id # p
      BY <3>1, ConfigAssumption DEF TypeOK, TaskRow
    <3> QED BY <2>1, <3>2, <3>3 DEF CreateTemplate
  <2>2. CASE ~CreateTemplate(c, u)
    BY <1>1, <1>2, <2>2
    DEF NewRequest, DeleteTemplateRead, CreateTask, CloneTask, UpdateTask, DeleteTaskRead
  <2> QED BY <2>1, <2>2
<1>3. ASSUME NEW c \in Thread, Serve(c)
      PROVE  RowsLinked'
  <2> DEFINE r == req[c]
  <2>0. r \in Request /\ Carries(c) /\ Complete(c)
    BY DEF TypeOK, ReqLinked
  <2>1. CASE CollectTasks(c) \/ ValidateTemplate(c) \/ CommitFails(c)
    BY <1>1, <2>1 DEF CollectTasks, ValidateTemplate, CommitFails
  <2>2. CASE DropTemplate(c)
    <3>1. \A q \in Template : q # r.template => template'[q] = template[q]
      BY <2>2 DEF DropTemplate, TypeOK
    <3>2. \A t \in Task :
             /\ task'[t].state = task[t].state /\ task'[t].owner = task[t].owner
             /\ task'[t].template_id \in {task[t].template_id, NULL} \ {r.template}
      <4>1. r.template # NULL
        BY <2>0, <2>2 DEF DropTemplate, At, Carries
      <4>2. \A t \in Task : task[t] \in TaskRow
        BY DEF TypeOK
      <4> QED BY <2>2, <4>1, <4>2 DEF DropTemplate, LosesTemplate, TaskRow
    <3>3. \A t \in Task : task[t].template_id \in Template \cup {NULL}
      BY DEF TypeOK, TaskRow
    <3> QED BY <3>1, <3>2, <3>3
  <2>3. CASE InsertTask(c)
    <3>1. PICK t \in Task :
             task[t].state = "absent" /\ task' = [task EXCEPT ![t] = NewRow(r.user, r.form)]
      BY <2>3 DEF InsertTask
    <3>2. /\ task'[t] = NewRow(r.user, r.form)
          /\ \A k \in Task : k # t => task'[k] = task[k]
      BY <3>1 DEF TypeOK
    <3>3. r.form.template_id # NULL =>
             TemplateExists(r.form.template_id) /\ template[r.form.template_id].owner = r.user
      BY <2>0, <2>3
      DEF InsertTask, At, ReferenceHolds, Carries, Complete, TemplateOf, Request, Form
    <3>4. template' = template
      BY <2>3 DEF InsertTask
    <3> QED BY <3>2, <3>3, <3>4 DEF NewRow
  <2>4. CASE WriteTask(c)
    <3>1. r.task \in Task /\ TaskExists(r.task) /\ task[r.task].owner = r.user
      BY <2>0, <2>4 DEF WriteTask, At, Carries, TaskOf, Request
    <3>2. /\ task'[r.task] = Written(task[r.task], r.form)
          /\ \A k \in Task : k # r.task => task'[k] = task[k]
      BY <2>4, <3>1 DEF WriteTask, TypeOK
    <3>3. r.form.template_id \in Template =>
             TemplateExists(r.form.template_id) /\ template[r.form.template_id].owner = r.user
      BY <2>0, <2>4 DEF WriteTask, At, ReferenceHolds, Carries, TemplateOf
    <3>4. template' = template
      BY <2>4 DEF WriteTask
    <3>5. task[r.task] \in TaskRow
      BY <3>1 DEF TypeOK
    <3>6. /\ task'[r.task].state = task[r.task].state
          /\ task'[r.task].owner = task[r.task].owner
          /\ task'[r.task].template_id = Given(r.form.template_id, task[r.task].template_id)
      BY <3>2, <3>5 DEF Written, TaskRow
    <3>7. r.form.template_id \in Template \cup {NULL, "unset"}
      BY <2>0 DEF Request, Form
    <3> QED BY <3>1, <3>2, <3>3, <3>4, <3>6, <3>7 DEF Given
  <2>5. CASE DeleteTaskCommit(c)
    <3>1. r.task \in Task
      BY <2>0, <2>5 DEF DeleteTaskCommit, At, Carries, Request
    <3>2. /\ task'[r.task] = GoneRow(task[r.task])
          /\ \A k \in Task : k # r.task => task'[k] = task[k]
      BY <2>5, <3>1 DEF DeleteTaskCommit, TypeOK
    <3>3. task'[r.task].template_id = NULL
      BY <3>1, <3>2 DEF GoneRow, TypeOK, TaskRow
    <3> QED BY <2>5, <3>2, <3>3 DEF DeleteTaskCommit
  <2> QED BY <1>3, <2>1, <2>2, <2>3, <2>4, <2>5 DEF Serve
<1>4. ASSUME NEW t \in Task, StatusChanges(t)
      PROVE  RowsLinked'
  BY <1>4 DEF StatusChanges, TypeOK, TaskRow
<1>5. CASE UNCHANGED vars
  BY <1>1, <1>5 DEF vars
<1> QED BY <1>2, <1>3, <1>4, <1>5 DEF Next

\* The thread that takes the step carries what it has looked up, and no more.
LEMMA ActingThread ==
  ASSUME IInv, OwnersStay, NEW c \in Thread,
         (\E u \in User : NewRequest(c, u)) \/ Serve(c)
  PROVE  Carries(c)' /\ Complete(c)'
<1> DEFINE r == req[c]
<1>0. /\ r \in Request /\ Carries(c) /\ Complete(c)
      /\ task \in [Task -> TaskRow] /\ template \in [Template -> TemplateRow]
  BY DEF IInv, TypeOK, ReqLinked
<1>1. ASSUME req'[c] = Idle PROVE Carries(c)' /\ Complete(c)'
  BY <1>1 DEF Carries, Complete, Idle
<1>2. ASSUME NEW request, Continue(c, request) PROVE req'[c] = request
  BY <1>2 DEF Continue, IInv, TypeOK
<1>3. ASSUME NEW u \in User, NewRequest(c, u)
      PROVE  Carries(c)' /\ Complete(c)'
  <2>1. CASE CreateTemplate(c, u)
    BY <1>0, <2>1, RestingThread DEF CreateTemplate, IInv
  <2>2. CASE DeleteTemplateRead(c, u)
    <3>1. PICK p \in Template :
             /\ OwnsTemplate(u, p)
             /\ Continue(c, [Idle EXCEPT !.pc = "collect", !.user = u, !.template = p])
      BY <2>2 DEF DeleteTemplateRead
    <3>2. req'[c] = [Idle EXCEPT !.pc = "collect", !.user = u, !.template = p]
      BY <1>2, <3>1
    <3>3. UNCHANGED <<template, task>>
      BY <2>2 DEF DeleteTemplateRead
    <3> QED BY <3>1, <3>2, <3>3, ConfigAssumption
      DEF Idle, Carries, Complete, TemplateOf, OwnsTemplate, TemplateExists
  <2>3. CASE CreateTask(c, u)
    <3>1. PICK p \in Template \cup {NULL}, type \in Schedules, cron \in Cron \cup {NULL} :
             Continue(c, [Idle EXCEPT
                !.pc = NextStep(p, "insert"), !.user = u, !.template = p,
                !.form = [template_id |-> p, schedule_type |-> type,
                          cron_expression |-> cron]])
      BY <2>3 DEF CreateTask
    <3> DEFINE form == [template_id |-> p, schedule_type |-> type, cron_expression |-> cron]
    <3>2. req'[c] = [Idle EXCEPT !.pc = NextStep(p, "insert"), !.user = u,
                                 !.template = p, !.form = form]
      BY <1>2, <3>1
    <3>3. form.template_id # "unset" /\ form.schedule_type # "unset"
          /\ form.cron_expression # "unset"
      BY ConfigAssumption DEF Cron, FiveFields
    <3> QED BY <3>2, <3>3, ConfigAssumption DEF Idle, Carries, Complete, NextStep
  <2>4. CASE CloneTask(c, u)
    <3>1. PICK t \in Task :
             /\ OwnsTask(u, t)
             /\ Continue(c, [Idle EXCEPT !.pc = "insert", !.user = u,
                !.form = [template_id |-> task[t].template_id,
                          schedule_type |-> task[t].schedule_type,
                          cron_expression |-> task[t].cron_expression]])
      BY <2>4 DEF CloneTask
    <3> DEFINE form == [template_id |-> task[t].template_id,
                        schedule_type |-> task[t].schedule_type,
                        cron_expression |-> task[t].cron_expression]
    <3>2. req'[c] = [Idle EXCEPT !.pc = "insert", !.user = u, !.form = form]
      BY <1>2, <3>1
    <3>3. form.template_id # "unset" /\ form.schedule_type # "unset"
          /\ form.cron_expression # "unset"
      BY <1>0, ConfigAssumption DEF TaskRow, Cron, FiveFields
    <3>4. form.template_id \in Template => TemplateOf(u, form.template_id)
      BY <3>1, ConfigAssumption
      DEF IInv, RowsLinked, OwnsTask, TaskExists, TemplateExists, TemplateOf
    <3>5. UNCHANGED <<template, task>>
      BY <2>4 DEF CloneTask
    <3>6. Carries(c)'
      BY <3>2, <3>4, <3>5 DEF Idle, Carries, TemplateOf
    <3>7. Complete(c)'
      BY <3>2, <3>3, <3>5 DEF Idle, Complete
    <3> QED BY <3>6, <3>7
  <2>5. CASE UpdateTask(c, u)
    <3>1. PICK t \in Task, form \in Patch :
             /\ OwnsTask(u, t)
             /\ Continue(c, [Idle EXCEPT
                !.pc = NextStep(form.template_id, "update"), !.user = u, !.task = t,
                !.template = IF form.template_id \in Template THEN form.template_id ELSE NULL,
                !.form = Changes(form, task[t])])
      BY <2>5 DEF UpdateTask
    <3>2. req'[c] = [Idle EXCEPT
                !.pc = NextStep(form.template_id, "update"), !.user = u, !.task = t,
                !.template = IF form.template_id \in Template THEN form.template_id ELSE NULL,
                !.form = Changes(form, task[t])]
      BY <1>2, <3>1
    <3>3. UNCHANGED <<template, task>>
      BY <2>5 DEF UpdateTask
    <3>4. t # NULL /\ TaskOf(u, t)
      BY <3>1, ConfigAssumption DEF OwnsTask, TaskExists, TaskOf
    <3>5. Changes(form, task[t]).template_id \in {form.template_id, "unset"}
      BY DEF Changes, Dirty
    <3>6. form.template_id \in Template \cup {NULL, "unset"}
      BY DEF Patch, Form
    <3>7. /\ req'[c].pc = NextStep(form.template_id, "update")
          /\ req'[c].user = u /\ req'[c].task = t /\ req'[c].tasks = {}
          /\ req'[c].template = IF form.template_id \in Template THEN form.template_id ELSE NULL
          /\ req'[c].form = Changes(form, task[t])
      BY <3>2 DEF Idle
    <3>8. Complete(c)'
      BY <3>4, <3>7 DEF Complete
    <3>9. Carries(c)'
      BY <3>3, <3>4, <3>5, <3>6, <3>7, ConfigAssumption DEF Carries, NextStep, TaskOf
    <3> QED BY <3>8, <3>9
  <2>6. CASE DeleteTaskRead(c, u)
    <3>1. PICK t \in Task :
             /\ OwnsTask(u, t)
             /\ Continue(c, [Idle EXCEPT !.pc = "delete", !.user = u, !.task = t])
      BY <2>6 DEF DeleteTaskRead
    <3>2. req'[c] = [Idle EXCEPT !.pc = "delete", !.user = u, !.task = t]
      BY <1>2, <3>1
    <3>3. UNCHANGED <<template, task>>
      BY <2>6 DEF DeleteTaskRead
    <3> QED BY <3>1, <3>2, <3>3, ConfigAssumption
      DEF Idle, NothingSet, Carries, Complete, TaskOf, OwnsTask, TaskExists
  <2> QED BY <1>3, <2>1, <2>2, <2>3, <2>4, <2>5, <2>6 DEF NewRequest
<1>4. CASE Serve(c)
  <2>1. CASE CollectTasks(c)
    <3> DEFINE ts == {t \in Task : TaskExists(t) /\ task[t].template_id = r.template}
    <3>1. req'[c] = [r EXCEPT !.pc = "drop", !.tasks = ts] /\ UNCHANGED <<template, task>>
      BY <1>2, <2>1 DEF CollectTasks
    <3>2. /\ req'[c].pc = "drop" /\ req'[c].tasks = ts /\ req'[c].user = r.user
          /\ req'[c].task = r.task /\ req'[c].template = r.template
      BY <1>0, <3>1 DEF Request
    <3>3. r.pc = "collect" /\ r.template # NULL /\ TemplateOf(r.user, r.template)
      BY <1>0, <2>1 DEF CollectTasks, At, Carries
    <3>4. \A t \in ts : TaskOf(r.user, t)
      BY <3>3 DEF IInv, RowsLinked, TemplateOf, TaskOf, TaskExists
    <3>5. r.user \in User /\ (r.task # NULL => TaskOf(r.user, r.task))
      BY <1>0, <3>3 DEF Carries
    <3>6. Complete(c)'
      BY <3>2 DEF Complete
    <3>7. Carries(c)'
      BY <3>1, <3>2, <3>3, <3>4, <3>5 DEF Carries, TemplateOf, TaskOf
    <3> QED BY <3>6, <3>7
  <2>2. CASE ValidateTemplate(c)
    <3>1. CASE Done(c)
      BY <1>1, <1>2, <3>1 DEF Done
    <3>2. CASE ~Done(c)
      <4> DEFINE step == IF r.task = NULL THEN "insert" ELSE "update"
      <4>1. /\ OwnsTemplate(r.user, r.template)
            /\ req'[c] = [r EXCEPT !.pc = step, !.template = NULL]
            /\ UNCHANGED <<template, task>>
        BY <1>2, <2>2, <3>2 DEF ValidateTemplate
      <4>2. /\ req'[c].pc = step /\ req'[c].template = NULL /\ req'[c].user = r.user
            /\ req'[c].task = r.task /\ req'[c].form = r.form /\ req'[c].tasks = r.tasks
        BY <1>0, <4>1 DEF Request
      <4>3. r.pc = "validate" /\ TemplateOf(r.user, r.template)
        BY <2>2, <4>1 DEF ValidateTemplate, At, OwnsTemplate, TemplateExists, TemplateOf
      <4>4. r.form.template_id \in Template => TemplateOf(r.user, r.form.template_id)
        BY <1>0, <4>3, ConfigAssumption DEF Carries
      <4>5. Complete(c)'
        BY <1>0, <4>2, <4>3 DEF Complete
      <4>6. Carries(c)'
        BY <1>0, <4>1, <4>2, <4>3, <4>4 DEF Carries, TaskOf, TemplateOf
      <4> QED BY <4>5, <4>6
    <3> QED BY <3>1, <3>2
  <2>3. CASE DropTemplate(c) \/ InsertTask(c) \/ WriteTask(c) \/ DeleteTaskCommit(c) \/ CommitFails(c)
    BY <1>1, <1>2, <2>3
    DEF DropTemplate, InsertTask, WriteTask, DeleteTaskCommit, CommitFails, Done
  <2> QED BY <1>4, <2>1, <2>2, <2>3 DEF Serve
<1> QED BY <1>3, <1>4

\* A thread's step leaves the requests of the others alone.
LEMMA OnlyItself ==
  ASSUME TypeOK, NEW c \in Thread, (\E u \in User : NewRequest(c, u)) \/ Serve(c),
         NEW d \in Thread, d # c
  PROVE  req'[d] = req[d]
  BY DEF TypeOK, NewRequest, Serve, Continue, Done, CreateTemplate, DeleteTemplateRead,
         CreateTask, CloneTask, UpdateTask, DeleteTaskRead, CollectTasks, DropTemplate,
         ValidateTemplate, InsertTask, WriteTask, DeleteTaskCommit, CommitFails

\* Every step keeps the invariant.
LEMMA NextIInv == IInv /\ [Next]_vars => IInv'
<1> SUFFICES ASSUME IInv, [Next]_vars
             PROVE  IInv'
  OBVIOUS
<1>1. OwnersStay
  BY StepOwners DEF IInv
<1>2. ASSUME NEW d \in Thread, req'[d] = req[d]
      PROVE  Carries(d)' /\ Complete(d)'
  BY <1>1, <1>2, RestingThread DEF IInv, ReqLinked
<1>3. ASSUME NEW c \in Thread, (\E u \in User : NewRequest(c, u)) \/ Serve(c),
             NEW d \in Thread
      PROVE  Carries(d)' /\ Complete(d)'
  <2>1. CASE d = c
    BY <1>1, <1>3, <2>1, ActingThread
  <2>2. CASE d # c
    <3>1. req'[d] = req[d]
      BY <1>3, <2>2, OnlyItself DEF IInv
    <3> QED BY <1>2, <3>1
  <2> QED BY <2>1, <2>2
<1>4. \A d \in Thread : Carries(d)' /\ Complete(d)'
  <2>1. CASE \E t \in Task : StatusChanges(t)
    BY <1>2, <2>1 DEF StatusChanges
  <2>2. CASE UNCHANGED vars
    BY <1>2, <2>2 DEF vars
  <2> QED BY <1>3, <2>1, <2>2 DEF Next
<1> QED BY <1>4, StepType, StepRows DEF IInv, ReqLinked

\* The invariant holds in every reachable state.
THEOREM ConfigInvariant == Spec => []IInv
  BY InitIInv, NextIInv, PTL DEF Spec

\* Rows and requests always hold values of the declared columns and fields.
THEOREM ConfigTypeCorrect == Spec => []TypeOK
<1>1. IInv => TypeOK
  BY DEF IInv
<1> QED BY <1>1, ConfigInvariant, PTL

\* However requests interleave, a task refers to nothing but a present template
\* of its own account (tasks.py:29-36, templates.py:62-67, models.py:85-87).
THEOREM TemplatesBelongToOwner == Spec => []TemplateOfOwner
<1>1. IInv => TemplateOfOwner
  BY DEF IInv, RowsLinked, TemplateOfOwner
<1> QED BY <1>1, ConfigInvariant, PTL

\* A step in which a thread serves a request changes rows of its account only.
LEMMA StepStaysInAccount ==
  ASSUME IInv, [Next]_vars, NEW c \in Thread, ~At(c, "idle"), req'[c] # req[c]
  PROVE  /\ \A t \in Task : task'[t] # task[t] => task'[t].owner = req[c].user
         /\ \A p \in Template : template'[p] # template[p] => template'[p].owner = req[c].user
<1> DEFINE r == req[c]
<1>1. OwnersStay
  BY StepOwners DEF IInv
<1>2. r \in Request /\ Carries(c)
  BY DEF IInv, TypeOK, ReqLinked
<1>3. Serve(c)
  <2>1. ASSUME NEW d \in Thread, NEW u \in User, NewRequest(d, u)
        PROVE  d = c => FALSE
    BY <2>1
    DEF NewRequest, At, CreateTemplate, DeleteTemplateRead, CreateTask, CloneTask,
        UpdateTask, DeleteTaskRead
  <2>2. ASSUME NEW d \in Thread, d # c, (\E u \in User : NewRequest(d, u)) \/ Serve(d)
        PROVE  FALSE
    BY <2>2, OnlyItself DEF IInv
  <2>3. ~(\E t \in Task : StatusChanges(t)) /\ ~UNCHANGED vars
    BY DEF StatusChanges, vars
  <2> QED BY <2>1, <2>2, <2>3 DEF Next
<1>4. CASE CollectTasks(c) \/ ValidateTemplate(c) \/ CommitFails(c)
  BY <1>4 DEF CollectTasks, ValidateTemplate, CommitFails
<1>5. CASE DropTemplate(c)
  <2>1. r.template \in Template /\ TemplateOf(r.user, r.template)
    BY <1>2, <1>5 DEF DropTemplate, At, Carries, Request
  <2>2. \A p \in Template : template'[p] # template[p] => p = r.template
    BY <1>5 DEF DropTemplate, IInv, TypeOK
  <2>3. \A p \in Template : template'[p] # template[p] => template'[p].owner = r.user
    BY <1>1, <2>1, <2>2 DEF OwnersStay, TemplateOf
  <2>4. \A t \in Task : LosesTemplate(c, t) => TaskOf(r.user, t)
    BY <1>2, <2>1, ConfigAssumption
    DEF LosesTemplate, Carries, IInv, RowsLinked, TaskExists, TaskOf, TemplateOf
  <2>5. \A t \in Task : task'[t] # task[t] => LosesTemplate(c, t)
    BY <1>5 DEF DropTemplate, IInv, TypeOK
  <2>6. \A t \in Task : task'[t] # task[t] => task'[t].owner = r.user
    BY <1>1, <2>4, <2>5 DEF OwnersStay, TaskOf
  <2> QED BY <2>3, <2>6
<1>6. CASE InsertTask(c)
  BY <1>6 DEF InsertTask, NewRow, IInv, TypeOK
<1>7. CASE WriteTask(c) \/ DeleteTaskCommit(c)
  <2>1. r.task \in Task /\ TaskOf(r.user, r.task)
    BY <1>2, <1>7 DEF WriteTask, DeleteTaskCommit, At, Carries, Request
  <2>2. \A t \in Task : task'[t] # task[t] => t = r.task
    BY <1>7 DEF WriteTask, DeleteTaskCommit, IInv, TypeOK
  <2>3. template' = template
    BY <1>7 DEF WriteTask, DeleteTaskCommit
  <2> QED BY <1>1, <2>1, <2>2, <2>3 DEF OwnersStay, TaskOf
<1> QED BY <1>3, <1>4, <1>5, <1>6, <1>7 DEF Serve

\* However requests of several accounts interleave, none changes a row of
\* another account (services.py:12-17, templates.py:13-21).
THEOREM RequestsStayInAccount == Spec => StaysInAccount
<1>1. IInv /\ [Next]_vars =>
        [\A c \in Thread : ~At(c, "idle") /\ req'[c] # req[c] =>
          /\ \A t \in Task : task'[t] # task[t] => task'[t].owner = req[c].user
          /\ \A p \in Template :
                template'[p] # template[p] => template'[p].owner = req[c].user]_vars
  BY StepStaysInAccount
<1> QED BY <1>1, ConfigInvariant, PTL DEF Spec, StaysInAccount

=============================================================================

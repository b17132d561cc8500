----------------------------- MODULE TaskConfig -----------------------------
(***************************************************************************)
(* The configuration of tasks and the templates they refer to              *)
(* (serv01/routers/tasks.py, routers/templates.py, the two creating page   *)
(* handlers of routers/web.py, serv01/schemas.py).                         *)
(*                                                                         *)
(* Every account edits its own rows, through several request threads.  A   *)
(* request reads the rows it needs, decides, and commits later; nothing    *)
(* locks or versions a row in between.  A PATCH writes only the columns    *)
(* whose new value differs from the value it read.  The columns without a  *)
(* rule of their own (name, keywords, limits...) are left out, and so are  *)
(* the addresses, which TaskApi models.                                    *)
(***************************************************************************)
EXTENDS Naturals, FiniteSets

CONSTANTS
    User,      \* accounts
    Template,  \* primary keys that templates may get
    Task,      \* primary keys that tasks may get
    Thread,    \* request threads
    Schedules, \* schedule types that users ask for
    NULL

ASSUME ConfigAssumption ==
    /\ Schedules \subseteq {"once", "cron"}
    /\ NULL \notin User /\ NULL \notin Task /\ NULL \notin Template
    /\ "unset" \notin Template /\ NULL # "unset"

VARIABLES
    template, \* templates
    task,     \* tasks
    req       \* the request every thread is serving

vars == <<template, task, req>>

RowState == {"absent", "present", "deleted"}

TemplateRow == [state : RowState, owner : User \cup {NULL}]

\* Two expressions with five fields; "other" has not five fields, or is "".
FiveFields == {"daily", "weekly"}

Cron == FiveFields \cup {"other"}

TaskRow ==
    [state : RowState,
     owner : User \cup {NULL},
     template_id : Template \cup {NULL},
     schedule_type : {"once", "cron"},
     cron_expression : Cron \cup {NULL},
     running : BOOLEAN]  \* is the status "running"?

\* The fields of a payload; those the client leaves out are "unset".
Form ==
    [template_id : Template \cup {NULL, "unset"},
     schedule_type : {"once", "cron", "unset"},
     cron_expression : Cron \cup {NULL, "unset"}]

RequestStep ==
    {"idle", "validate", "insert", "update", "delete", "collect", "drop"}

Request ==
    [pc : RequestStep,
     user : User \cup {NULL},
     task : Task \cup {NULL},
     template : Template \cup {NULL},  \* to be validated, or to be deleted
     form : Form,                      \* the columns about to be written
     tasks : SUBSET Task]              \* template.tasks as the flush loaded it

NothingSet ==
    [template_id |-> "unset", schedule_type |-> "unset", cron_expression |-> "unset"]

Idle ==
    [pc |-> "idle", user |-> NULL, task |-> NULL, template |-> NULL,
     form |-> NothingSet, tasks |-> {}]

Init ==
    /\ template = [p \in Template |-> [state |-> "absent", owner |-> NULL]]
    /\ task = [t \in Task |->
          [state |-> "absent", owner |-> NULL, template_id |-> NULL,
           schedule_type |-> "once", cron_expression |-> NULL, running |-> FALSE]]
    /\ req = [c \in Thread |-> Idle]

TaskExists(t) == task[t].state = "present"

TemplateExists(p) == template[p].state = "present"

\* Seeded fault: a task is looked up by its primary key alone.
AnyTask(u, t) == TaskExists(t)

OwnsTask(u, t) == TaskExists(t) /\ task[t].owner = u

OwnsTemplate(u, p) == TemplateExists(p) /\ template[p].owner = u

At(c, step) == req[c].pc = step

Continue(c, request) == req' = [req EXCEPT ![c] = request]

Done(c) == Continue(c, Idle)

-----------------------------------------------------------------------------
(* Templates: POST and DELETE /api/templates.                              *)

CreateTemplate(c, u) ==
    /\ At(c, "idle")
    /\ \E p \in Template :
          /\ template[p].state = "absent"
          /\ template' = [template EXCEPT ![p] = [state |-> "present", owner |-> u]]
    /\ UNCHANGED <<task, req>>

DeleteTemplateRead(c, u) ==
    /\ At(c, "idle")
    /\ \E p \in Template :
          /\ OwnsTemplate(u, p)
          /\ Continue(c, [Idle EXCEPT !.pc = "collect", !.user = u, !.template = p])
    /\ UNCHANGED <<template, task>>

\* The flush loads template.tasks in order to clear their template_id.
CollectTasks(c) ==
    /\ At(c, "collect")
    /\ Continue(c, [req[c] EXCEPT !.pc = "drop",
            !.tasks = {t \in Task : TaskExists(t) /\ task[t].template_id = req[c].template}])
    /\ UNCHANGED <<template, task>>

\* Seeded fault: the foreign key has no ON DELETE SET NULL.
LoadedOnly(c, t) == t \in req[c].tasks

\* The loaded tasks are updated, and the foreign key clears the others.
LosesTemplate(c, t) ==
    t \in req[c].tasks \/ task[t].template_id = req[c].template

DropTemplate(c) ==
    /\ At(c, "drop")
    /\ \A t \in req[c].tasks : TaskExists(t)
    /\ template' = [template EXCEPT ![req[c].template].state = "deleted"]
    /\ task' = [t \in Task |->
          IF LosesTemplate(c, t) THEN [task[t] EXCEPT !.template_id = NULL] ELSE task[t]]
    /\ Done(c)

-----------------------------------------------------------------------------
(* Tasks: POST and PATCH /api/tasks, clone, DELETE.                        *)

\* TaskCreate.validate_schedule, and the same rule in update_task.
ValidSchedule(type, cron) ==
    IF type = "cron" THEN cron \in FiveFields ELSE cron = NULL

\* BOUND: a task is created only while an identifier is left for it.
TaskBudget ==
    Cardinality({d \in Thread : req[d].task = NULL /\ req[d].pc \in {"validate", "insert"}})
        < Cardinality({t \in Task : task[t].state = "absent"})

\* A template that the client names is looked up before the commit.
NextStep(p, commit) == IF p \in Template THEN "validate" ELSE commit

CreateTask(c, u) ==
    /\ At(c, "idle")
    /\ TaskBudget
    /\ \E p \in Template \cup {NULL}, type \in Schedules, cron \in Cron \cup {NULL} :
          /\ ValidSchedule(type, cron)
          /\ Continue(c, [Idle EXCEPT
                !.pc = NextStep(p, "insert"), !.user = u, !.template = p,
                !.form = [template_id |-> p, schedule_type |-> type,
                          cron_expression |-> cron]])
    /\ UNCHANGED <<template, task>>

CloneTask(c, u) ==
    /\ At(c, "idle")
    /\ TaskBudget
    /\ \E t \in Task :
          /\ OwnsTask(u, t)
          /\ Continue(c, [Idle EXCEPT !.pc = "insert", !.user = u,
                !.form = [template_id |-> task[t].template_id,
                          schedule_type |-> task[t].schedule_type,
                          cron_expression |-> task[t].cron_expression]])
    /\ UNCHANGED <<template, task>>

\* Seeded fault: the fields the client leaves out are dumped too.
AsSent(value, column) == value

\* values.get(field, column).
Given(value, column) == IF value = "unset" THEN column ELSE value

\* values.setdefault("cron_expression", None).
CronGiven(form) ==
    IF form.schedule_type = "once" /\ form.cron_expression = "unset"
    THEN NULL ELSE form.cron_expression

Accepts(form, row) ==
    ValidSchedule(Given(form.schedule_type, row.schedule_type),
                  Given(CronGiven(form), row.cron_expression))

\* The column is dirty only if its value changes.
Dirty(value, column) == IF value = column THEN "unset" ELSE value

Changes(form, row) ==
    [template_id |-> Dirty(form.template_id, row.template_id),
     schedule_type |-> Dirty(form.schedule_type, row.schedule_type),
     cron_expression |-> Dirty(CronGiven(form), row.cron_expression)]

\* The values a PATCH may carry.
Patch ==
    {form \in Form : form.schedule_type \in Schedules \cup {"unset"}} \ {NothingSet}

UpdateTask(c, u) ==
    /\ At(c, "idle")
    /\ \E t \in Task, form \in Patch :
          /\ OwnsTask(u, t) /\ ~task[t].running
          /\ Accepts(form, task[t])
          /\ Continue(c, [Idle EXCEPT
                !.pc = NextStep(form.template_id, "update"), !.user = u, !.task = t,
                !.template = IF form.template_id \in Template THEN form.template_id ELSE NULL,
                !.form = Changes(form, task[t])])
    /\ UNCHANGED <<template, task>>

\* validate_template; 404 "Template not found".
ValidateTemplate(c) ==
    /\ At(c, "validate")
    /\ \/ /\ OwnsTemplate(req[c].user, req[c].template)
          /\ Continue(c, [req[c] EXCEPT
                !.pc = IF req[c].task = NULL THEN "insert" ELSE "update",
                !.template = NULL])
       \/ /\ ~OwnsTemplate(req[c].user, req[c].template)
          /\ Done(c)
    /\ UNCHANGED <<template, task>>

\* The foreign key of tasks.template_id accepts the row.
ReferenceHolds(c) ==
    req[c].form.template_id \in Template => TemplateExists(req[c].form.template_id)

NewRow(u, form) ==
    [state |-> "present", owner |-> u, template_id |-> form.template_id,
     schedule_type |-> form.schedule_type, cron_expression |-> form.cron_expression,
     running |-> FALSE]

InsertTask(c) ==
    /\ At(c, "insert")
    /\ ReferenceHolds(c)
    /\ \E t \in Task :
          /\ task[t].state = "absent"
          /\ task' = [task EXCEPT ![t] = NewRow(req[c].user, req[c].form)]
    /\ Done(c)
    /\ UNCHANGED template

Written(row, form) ==
    [row EXCEPT !.template_id = Given(form.template_id, @),
                !.schedule_type = Given(form.schedule_type, @),
                !.cron_expression = Given(form.cron_expression, @)]

WriteTask(c) ==
    /\ At(c, "update")
    /\ TaskExists(req[c].task)
    /\ ReferenceHolds(c)
    /\ task' = [task EXCEPT ![req[c].task] = Written(@, req[c].form)]
    /\ Done(c)
    /\ UNCHANGED template

DeleteTaskRead(c, u) ==
    /\ At(c, "idle")
    /\ \E t \in Task :
          /\ OwnsTask(u, t) /\ ~task[t].running
          /\ Continue(c, [Idle EXCEPT !.pc = "delete", !.user = u, !.task = t])
    /\ UNCHANGED <<template, task>>

GoneRow(row) ==
    [row EXCEPT !.state = "deleted", !.template_id = NULL, !.running = FALSE]

DeleteTaskCommit(c) ==
    /\ At(c, "delete")
    /\ TaskExists(req[c].task)
    /\ task' = [task EXCEPT ![req[c].task] = GoneRow(@)]
    /\ Done(c)
    /\ UNCHANGED template

\* The commit fails: a row it updates is gone (StaleDataError; the log entry of
\* a PATCH has no task to refer to), or the template is (IntegrityError).
CommitFails(c) ==
    /\ \/ At(c, "insert") /\ ~ReferenceHolds(c)
       \/ At(c, "update") /\ ~(TaskExists(req[c].task) /\ ReferenceHolds(c))
       \/ At(c, "delete") /\ ~TaskExists(req[c].task)
       \/ At(c, "drop") /\ \E t \in req[c].tasks : ~TaskExists(t)
    /\ Done(c)
    /\ UNCHANGED <<template, task>>

\* A start, a pause, a stop or a worker moves the task in or out of "running".
StatusChanges(t) ==
    /\ TaskExists(t)
    /\ task' = [task EXCEPT ![t].running = ~@]
    /\ UNCHANGED <<template, req>>

-----------------------------------------------------------------------------
NewRequest(c, u) ==
    \/ CreateTemplate(c, u)
    \/ DeleteTemplateRead(c, u)
    \/ CreateTask(c, u)
    \/ CloneTask(c, u)
    \/ UpdateTask(c, u)
    \/ DeleteTaskRead(c, u)

Serve(c) ==
    \/ CollectTasks(c)
    \/ DropTemplate(c)
    \/ ValidateTemplate(c)
    \/ InsertTask(c)
    \/ WriteTask(c)
    \/ DeleteTaskCommit(c)
    \/ CommitFails(c)

Next ==
    \/ \E c \in Thread, u \in User : NewRequest(c, u)
    \/ \E c \in Thread : Serve(c)
    \/ \E t \in Task : StatusChanges(t)

Spec == Init /\ [][Next]_vars

-----------------------------------------------------------------------------
\* Rows and requests hold values of the declared columns and fields.
TypeOK ==
    /\ template \in [Template -> TemplateRow]
    /\ task \in [Task -> TaskRow]
    /\ req \in [Thread -> Request]

\* A task's template exists and belongs to the task's owner, whatever requests
\* delete the template while others create, clone or edit the task
\* (tasks.py:29-36, templates.py:62-67, models.py:85-87).
TemplateOfOwner ==
    \A t \in Task : TaskExists(t) /\ task[t].template_id # NULL =>
        /\ TemplateExists(task[t].template_id)
        /\ template[task[t].template_id].owner = task[t].owner

\* A request changes rows of its own account only, also when it deletes a
\* template and clears the references to it (services.py:12-17,
\* templates.py:13-21).
StaysInAccount ==
    [][\A c \in Thread : ~At(c, "idle") /\ req'[c] # req[c] =>
          /\ \A t \in Task : task'[t] # task[t] => task'[t].owner = req[c].user
          /\ \A p \in Template :
                template'[p] # template[p] => template'[p].owner = req[c].user]_vars

\* tasks.py:108-118, schemas.py:166-173: "cron_expression must be a five-field
\* cron expression" and "cron_expression is only valid for cron schedules".
ScheduleIsConsistent ==
    \A t \in Task : TaskExists(t) =>
        ValidSchedule(task[t].schedule_type, task[t].cron_expression)
=============================================================================

# A TLA+ verification of Serv01

Serv01 is a FastAPI service that crawls configured pages. Users describe *tasks*;
starting a task creates a *run* and puts its job into a Redis queue; a separate worker
process takes the job, opens the pages one after the other and stores what it saw. API
threads and workers share one relational database and talk through nothing else but its
rows and the queue. No row is locked or versioned anywhere, so every request and every job is a
sequence of small transactions that others interleave with.

This directory models that interplay, the crawl of a page step by step, what a client reads
meanwhile, the configuration of tasks and templates under concurrent requests, and the
`robots.txt` policy. TLC checks the models on small instances; TLAPS proves every safety
property that holds, and that the service refines an abstract one, for every size. Source paths below are
relative to `src/src/serv01/`.

## 1. Inventory

| Component | State it keeps | Operations | Makes it correct |
| --- | --- | --- | --- |
| Run requests (`services.py`, `routers/tasks.py` start, pause, stop) | rows a request has read (its session) | `enqueue_task_run`, `latest_active_run`, `cancel_active_run` | one live run per task; a cancelled run is not queued; an enqueue that fails leaves nothing active |
| Worker (`worker.py`) | the run and the task it loaded, the page it is at | `process_task_run`, `_mark_failed` | pages in order, results that match them, every run ends, no run executed twice |
| Queue (`queueing.py`, Redis/RQ) | list of job ids | enqueue, cancel, dequeue | a job is in one place |
| Store (`models.py`, `domain.py`, `database.py`) | tasks, runs, pages, found sites, templates, users, logs | commits, cascades, unique indexes | references hold |
| Task configuration (`routers/tasks.py` create, PATCH, clone, delete; `schemas.py`) | columns of a task | validate, write changed columns | schedule and template rules; no edit while running |
| Templates (`routers/templates.py`) | template rows | create, PATCH, delete | tasks never refer to a template that is gone or another's |
| robots policy (`execution.py`, `robots_permits`) | groups of rules while reading a file | decide a path | the meaning of `robots.txt` |
| Crawl (`worker.py:98-156`; `execution.py`, `crawl_page`, `fetch_robots_text`) | a browser page, PNG files | fetch, redirect, capture | only allowed hosts, robots asked first, a file for every page, no browser left behind by a visit that counts |
| Web pages (`routers/web.py`) | none | the same functions behind forms | as the requests |
| History, screenshots, reports (`routers/runs.py`, `reports.py`) | none | one SELECT after the other | a list walked page by page misses nothing; a run agrees with its pages |
| Accounts (`routers/auth.py`, `dependencies.py`, `security.py`) | users, tokens | register, log in | one account per address |

How they interact: a request reads rows, maybe calls Redis, commits; the worker loads the
rows named by a job id and commits once per page; pausing and stopping reach a running worker
only through the column `cancel_requested`, which it reads before each page.

Hard behaviours, each listed at its line in `PROJECT.json` under `hazards`: checks that
another commit outdates (start, edit, delete, the schedule rule); rows that a session keeps
as loaded and writes back later (the worker's task, also after a `rollback()` that had
nothing to roll back); a stop between the enqueue and the storing of the job id, or between
the worker's check and its commit; Redis calls that raise although they took effect;
processes that die between two commits; commits and a `browser.close()` that raise when the work is done; a Redis that restarts empty; two runs of a task
that list the same site; rows deleted under a worker; sites that redirect and navigate while
they are being looked at; answers put together from SELECTs on different states.

## 2. Modules

| Module | Models | Extends |
| --- | --- | --- |
| `Store` | rows of tasks, runs with pages, found sites; insertion and cascading deletion | |
| `JobQueue` | the RQ list: `Push`, `Withdraw`, `Take`, `Forget` | `Store` |
| `TaskApi` | the request threads | `Store`, `JobQueue` |
| `Worker` | the worker processes | `Store`, `JobQueue` |
| `Serv01` | the composition, its properties, its fairness | `TaskApi`, `Worker` |
| `RunExecution` | abstract: a job is pending, executing, over | |
| `Crawl` | the loop over a run's addresses with allowlist, robots, browser, screenshot | instance of `Worker` |
| `ReadApi` | a client that lists tasks, opens a run and asks for sites while the service works | `Serv01` |
| `TaskConfig` | templates and the rules on a task's columns, several accounts | |
| `RobotsTxt` | `robots_permits`, and what `robots.txt` means | |
| `Serv01_invariant`, `Serv01_proofs` | the inductive invariant of `Serv01`; the lemmas on what threads and jobs remember, and the first theorems | `Serv01` |
| `Serv01_custody` | a job is in one place | `Serv01_proofs` |
| `Serv01_pages` | pages, results, cancellation, found sites | `Serv01_custody` |
| `Serv01_execution` | the refinement of `RunExecution`; no run is orphaned; one wanted run at a time | `Serv01_pages` |
| `ReadApi_proofs` | theorems of `ReadApi`, on top of those of `Serv01` | `ReadApi`, `Serv01_execution` |
| `Crawl_proofs` | theorems of `Crawl` | `Crawl` |
| `TaskConfig_proofs` | invariant, lemmas and theorems of `TaskConfig` | `TaskConfig` |
| `RobotsTxt_proofs` | invariant, lemmas and theorems of `RobotsTxt` | `RobotsTxt` |
| `MC*` | symmetry sets and inputs for TLC | |

### Store, JobQueue, TaskApi, Worker, Serv01

*State.* `task`, `run` and `site` are tables as functions from primary keys; a row that was
never inserted is "absent", a deleted one "deleted" (keys are UUIDs and not used again).
Run numbers are the order of `created_at`. `queue` is a sequence of run ids. `req[c]` is the
session of thread `c`: its step (`pc`) and the values it read that later code uses. `job[w]`
is the same for worker `w`, with the status of the task and the number of addresses as it
loaded them.

*One transaction, one action.* The session is created with `autoflush=False,
expire_on_commit=False` (`database.py:34-35`), so objects keep their values until a
`refresh` or an expiring rollback, and a commit writes only changed columns. An action is
therefore either a read (the values that matter go to `req` or `job`), an external call, or
a commit that assigns exactly the changed columns:

| Code | Actions |
| --- | --- |
| `start_task`, `enqueue_task_run` | `StartRead`, `StartCommit`, `Enqueue` / `EnqueueFails`, `RecordJob` / `RecordFails`, `RecoverRead`, `RecoverCommit` |
| `pause_task`, `stop_task`, `cancel_active_run` | `SuspendRead`, `FindActiveRun`, `Unqueue` / `UnqueueFails`, `SuspendCommit` |
| `update_task`, `delete_task`, `create_task`, `clone_task` | `UpdateRead`, `UpdateCommit`, `DeleteRead`, `DeleteCommit`, `CreateTask`, `CloneTask` |
| a commit that finds its row deleted | `RowGone`, `RunGone` |
| `process_task_run` to the loop | `Dequeue`, `Load`, `Begin` |
| the loop | `Refresh`, `Visit`, `StorePage` / `StoreConflict`, `PageError`, `Finish` |
| the exception handler | `Reload`, `MarkFailed` |
| faults | `ApiCrash`, `WorkerCrash`, `RedisRestart` |

One detail decides several results. SQLAlchemy's `rollback()` expires loaded objects only
if a transaction is open. After a failed `queue.enqueue` (`services.py:63`) and after an
exception during a page visit (`worker.py:178`) none is, so `session.get` returns the objects
as they were; after a failed flush or commit one is, and they are read again. The two
ways are different steps in the model (`RecoverCommit` straight from `EnqueueFails` or by way of
`RecoverRead`; the worker's "failing" and "rollback").

*Faults* are a constant, so that each run says which it allows: `redis` (a Redis call
raises, before or after it took effect), `database` (a commit that the code handles raises, before or after it was
applied; the worker's own commits of pages and results are among them, so a stored success may be turned into a failure), `api` (the process dies, or a commit raises where nothing handles it), `worker`
(likewise; RQ does not retry), `redis_restart` (the queue is lost: `compose.yaml:54` turns persistence
off).

*Left out:* timestamps except whether `finished_at` is set, logs, statistics, error texts,
titles and forms of pages. What a page leads to (allowlist, robots, browser) is here a choice
between `Visit`, with any final address, and `PageError`; `Crawl` takes it apart. Two SELECTs in a row without a
commit in between (`Load`, `RecoverRead`, `Reload`) are one step.

### Crawl

One run's loop with nothing else going on. `visit` is the visit in progress: its step, the text of
robots.txt, the address the browser is at, `final_url` once it is read, and whether an exception is on
its way. The rest is what the code leaves behind: `page` (rows of `site_pages`), `screenshot` (PNG
files), `browser` ("stuck" if it outlives `crawl_page`), `asked`, the hosts that the code and its handler let
pass, and `reached`, the hosts that got a request: the targets of redirects are in `reached` only.

| Code | Actions |
| --- | --- |
| `worker.py:99-119` | `Refresh`, `CheckHost`, `FetchRobots` / `FetchFails`, `Decide` |
| `crawl_page` | `Launch` / `LaunchFails`, `Load`, `Inspect`, `Shoot`, `Close` / `CloseFails`; `BrowserFails` at any call |
| `enforce_allowlist`, for whatever the page does | `PageRequests`; `StrayRequests` once the handler is gone |
| `worker.py:123-156` | `Recheck`, `Store` |
| `worker.py:177`: an exception in the worker's own code | `SessionFails` (refresh and commits, applied or not), `JobTimeout` |

A host answers robots.txt with any set of permitted paths, another one at each visit: how a text
becomes that set is `RobotsTxt`. An address is a host, a path, and whether `is_host_allowed` finds nothing
else to object to. The environment may redirect `goto` anywhere, since Playwright does not call the handler
for redirects, and may navigate at any time until the browser is closed, `MaxMoves` times in a visit. If `close()`
raises, or the job's timeout strikes before the `try`, the end of `sync_playwright` may still stop Chromium, or not: `browser`
becomes "closed" or "stuck", and the visit fails even if it had gone well.
`VisitsAsWorker` instantiates `Worker` with the rows and the job that a visit shows and says
that every step is a stutter or one of its `Refresh`, `Visit`, `PageError`, `StorePage` (with the answer of the commit lost or not), so `Serv01` may go on
treating a visit as one step.

### ReadApi

`Serv01` with a client. PostgreSQL's READ COMMITTED gives each SELECT its own state, so each is an action
and the service's steps come in between: `CountTasks` and `ListTasks` are the two of `list_tasks`, which
the client calls until `total` is reached; `ReadRun` and `ReadPages` those of `get_task_run` (the
page of a task loads the same rows in the same order); `ReadSites` is `list_sites`, with the `limit` that the client names
(`SiteLimits`) and any set of that many rows of the task, since the order by `discovered_at` is not in the model:
`SitesCoverDetail` speaks of answers shorter than their limit. `created` is the order of `created_at`
of all rows ever inserted, deleted ones among them:
the clock of the process that inserts is read before its commit, so a row may appear behind rows that were
committed earlier. A page is the rows of a range of ranks (`Rank`, `Slice`) among those that the filter lets through now. `WalkMissesNothing` excludes the two cases in which a page does lose a task, and
`Disturbs` names them: a task leaves the list during the walk, or joins it between the count and the items of one page
(`tasks.py:51-60`), where `total` does not yet count what the items are cut from. Without the second clause TLC
finds the walk ending a page early. The order is strict: rows with equal `created_at`, which `tasks.py:56` may give in
another order each time, are not in the model.

### TaskConfig

Accounts, templates, and of each task the template, the two schedule columns and whether it is
running. A request reads, validates (`ValidateTemplate`) and commits in separate steps;
`form` holds the columns about to be written, "unset" for the others, so that two PATCHes
that touch different columns both survive as in the database. Deleting a template has three
steps as in SQLAlchemy: read the template, load `template.tasks` in the flush, then update those
tasks and delete the row, upon which the foreign key's `ON DELETE SET NULL` clears what was
not loaded. `StatusChanges` stands for everything that starts or ends a run. PATCH of a template and
columns without rules are left out.

### RobotsTxt

The loop of `robots_permits` is a state machine that reads one line per step; since the loop may
end at any line, every state is the end of a file and `Permits` the function's answer. The
reference, `MeansPermitted`, does not use the groups: it says on the lines which rule governs
which agent, which rules are the product's own, and that each matching Disallow must be outdone. Patterns
and paths are sequences of characters; `Matches` is the meaning of the regular
expression the code builds. `Matches`, and that `*` and `$` do not add to a pattern's length, are the code's own on both
sides of the comparison: the reference is one for grouping, selection and precedence, not for the reading of one pattern
(RFC 9309 compares octets, the wildcard's among them). Comments, blanks and letter case are gone from a line before it
is modelled.

## 3. Runs

Every bound is a constant marked `BOUND` in its module. Deadlock is not checked
because rows are deleted for good and identifiers run out: the models may come to rest.

| Run | Instance | Shows |
| --- | --- | --- |
| `requests` | 2 threads, 1 worker, 1 run of a task edited between none and 2 addresses, faults `redis`, `database` | `TypeOK`, `SingleCustody`, `CancelledNotQueued`, `PagesInOrder`, `ResultMatchesPages`, `NoOrphanRun`; under fairness runs end (`RunsEnd`) and tasks leave "running" (`RunningEnds`); what a stored cancellation guarantees (`CancelStopsAfterOnePage`, `FailedInQueueNeverRuns`); `IInv` of the proofs |
| `workers` | 1 thread, 2 workers, 2 runs, 2 pages, 2 addresses, all faults | `SingleCustody`, `OneLiveRun`, `RunningTaskHasActiveRun`, `ResultMatchesPages`, `PagesAreListed`, and that `Serv01` implements `RunExecution` (`ExecutesAtMostOnce`) |
| `progress_workers` | 1 thread, 2 workers, 2 runs of one task; Redis and database faults | `NoOrphanRun`; under fairness `RunsEnd`, `RunningEnds` where an old run's ending meets a new run, and `JobsEnd` |
| `history` | a client, 1 thread, 1 worker, 3 tasks, 1 run of 2 pages, 2 addresses, page size 1, sites by 1 or 3, no or one filter, no faults | `WalkMissesNothing`, `DetailIsComplete`, `SitesCoverDetail`; `ReadTypeOK` |
| `crawl` | every list of 1 or 2 of 5 addresses on 3 hosts, 2 redirects or navigations per visit, with and without robots.txt | the properties of `Crawl` but `ContactsAllowedHostsOnly`, `VisitsAsWorker`, and that the loop ends |
| `templates` | 2 accounts, 2 threads, 2 tasks, 2 templates | `TemplateOfOwner`, `StaysInAccount`; `IInv` of the proofs |
| `robots_files` | 5 lines, 2 agents, 5 patterns, 3 paths | `PermitsAsRead`, `RulesPushOneWay`; `GroupsTellTheLines` of the proofs |

Why these bounds are enough to be worth it: every race in the list of hazards is between two
actors over one task, so two threads and a worker, or two workers and a thread, contain it; two runs
let an old run's ending meet a new run; two pages put a page before and a page after a
cancellation; two addresses let runs list the same site or different ones; none and two
configured addresses make an edit change what a run would do. Three tasks on pages of one let a task come in before,
between and behind those already seen. The five addresses are two paths of one host, so that robots.txt may tell them
apart, a second allowed host, one that is not allowed and one with a password; two moves are a redirect and a
navigation after it. Five lines hold
two groups with a rule each and an agent line to spare.

That another run listed a site first (`SitesCoverDetail`) needs a second run, for which `history` is too large; it is
covered by the theorem, and by `PagesAreListed` in `workers`.

Five runs expect a violation: something the repository states and the code does
not keep. `PROJECT.json` quotes the statement for each.

| Run | Property | What happens |
| --- | --- | --- |
| `terminal_run` | `TerminalRunIsFinal` | a run failed by a stop is set to running by the worker that had loaded it |
| `stale_failure` | `FailureKeepsSuspendedTask` | the guard of `worker.py:43` tests a stale status |
| `schedule_race` | `ScheduleIsConsistent` | two PATCHes, each legal on the row both had read, leave once with a cron expression |
| `redirects` | `ContactsAllowedHostsOnly` | the browser follows a redirect to a host that is not allowed; `final_url` is checked when that host has answered |
| `empty_disallow` | `RespectsRobots` | a dropped empty Disallow joins its agent to the next group |

The model shows the same pattern as `schedule_race` for the checks on a task's status: with two
threads, two starts that both read "draft" create two runs (`tasks.py:187`), and an edit
or a deletion that read the task before a start lands on the running task (`tasks.py:94`,
`tasks.py:136`). `OneLiveRun` is therefore a promise under `TakesTurns`: no two requests are at the same time between reading
the same task's status and the commit that relies on it. The code does not see to it. The run `workers` has one thread,
the theorem any number.

Three crashes leave a run that nothing repairs: between the commit and the enqueue (`services.py:57`), between the removal of
a job and the commit that fails its run (`services.py:110`), and of a worker or Redis with a job (`worker.py:93`,
`compose.yaml:54`). Safety is checked with these faults in `workers`; that such a run stays active for ever is
a fact of the code: with these faults `RunsEnd` does not hold.

A stop during a run's last page is another limit that the model shows: the worker looks at `cancel_requested` before
a page only (`worker.py:99`), so the run succeeds and the stopped task becomes completed. `CancelStopsAfterOnePage` is
what a stored cancellation does guarantee.

### Fairness

`FairSpec` assumes weak fairness of each thread finishing the request it serves
and of each worker going on with its job and taking the next. The code justifies it: database and Redis calls
return or raise, page loads and `fetch_robots_text` have `page_timeout_seconds`, jobs a
`job_timeout` (`queueing.py:28`), and the loop is over a finite list. Nothing is
assumed of users or of faults. Progress holds while no process dies and Redis does not restart:
the code has no reaper, so a run whose worker died stays running, and the progress runs
leave those three faults out. With Redis calls and handled commits failing at will, it holds.

`Crawl!FairSpec` is weak fairness of `Code`, the steps of the program without those of the sites: `httpx` and `page.goto`
have `page_timeout_seconds`, the other calls Playwright's own timeout, the job its `job_timeout`, so a call returns or
raises whatever a site does.

## 4. Theorems

All proofs are checked by `tlapm` to the last leaf. They assume only the named assumptions on
constants (`StoreAssumption` and `NullIsNoResult`: bounds are naturals, NULL is no key and no result;
`AddressAssumption`; `ConfigAssumption`; `ReadAssumption`; `RobotsAssumption`), so they hold for every
number of tasks, runs, pages, threads, workers, addresses, accounts, templates, lines of a file and rows on a page and,
unless the table says otherwise, every set of faults.

| Theorem | States |
| --- | --- |
| `Serv01_proofs!Inductive` | `Spec => []IInv`: the invariant below |
| `Serv01_proofs!TypeCorrect` | `Spec => []TypeOK` |
| `Serv01_proofs!CancelledStaysOutOfQueue` | `Spec => []CancelledNotQueued` |
| `Serv01_proofs!RunningTaskIsActive` | `Spec => []RunningTaskHasActiveRun` |
| `Serv01_custody!OneCustodian` | `Spec => []SingleCustody` |
| `Serv01_custody!FailedInQueueStaysUnstarted` | `Spec => FailedInQueueNeverRuns` |
| `Serv01_pages!StoredInOrder` | `Spec => []PagesInOrder` |
| `Serv01_pages!ResultsAreTrue` | `Spec => []ResultMatchesPages` |
| `Serv01_pages!CancelStops` | `Spec => CancelStopsAfterOnePage` |
| `Serv01_pages!StoredPagesListed` | `Spec => []PagesAreListed` |
| `Serv01_execution!ImplementsRunExecution` | `Spec => ExecutesAtMostOnce`: `Serv01` implements `RunExecution` |
| `Serv01_execution!NoRunOrphaned` | `Spec => []NoOrphanRun`, if no process dies and Redis does not restart (`Calm`) |
| `Serv01_execution!OneRunAtATime` | `Spec /\ []TakesTurns => []OneLiveRun`: if no two requests decide about one task at once; any number of threads, every fault |
| `Crawl_proofs!CrawlTypeCorrect` | `Spec => []TypeOK` |
| `Crawl_proofs!PagesAreAllowed` | `Spec => []StoredPagesAllowed` |
| `Crawl_proofs!RequestsAreChecked` | `Spec => []RequestsChecked` |
| `Crawl_proofs!BrowserComesLast` | `Spec => []BrowserOpensLast` |
| `Crawl_proofs!PagesHaveScreenshots` | `Spec => []ScreenshotsOnDisk` |
| `Crawl_proofs!LoopGoesOnWithoutBrowser` | `Spec => []LoopWithoutBrowser` |
| `Crawl_proofs!VisitIsOneStep` | `Spec => VisitsAsWorker` |
| `ReadApi_proofs!ReadTypeCorrect` | `ReadSpec => []ReadTypeOK` |
| `ReadApi_proofs!DetailsAreComplete` | `ReadSpec => []DetailIsComplete` |
| `ReadApi_proofs!SitesAreCovered` | `ReadSpec => []SitesCoverDetail` |
| `ReadApi_proofs!WalkSeesAll` | `ReadSpec => []WalkMissesNothing` |
| `TaskConfig_proofs!ConfigInvariant` | `Spec => []IInv` |
| `TaskConfig_proofs!ConfigTypeCorrect` | `Spec => []TypeOK` |
| `TaskConfig_proofs!TemplatesBelongToOwner` | `Spec => []TemplateOfOwner` |
| `TaskConfig_proofs!RequestsStayInAccount` | `Spec => StaysInAccount` |
| `RobotsTxt_proofs!GroupsAreTheLines` | `Spec => []GroupsTellTheLines` |
| `RobotsTxt_proofs!AnswersAsRead` | `Spec => []PermitsAsRead` |
| `RobotsTxt_proofs!RulesPush` | `Spec => RulesPushOneWay` |
| `RobotsTxt_proofs!OwnRulesAreSelected` | in a file without an empty Disallow the rules gone through are exactly those that the lines give the product |

*The argument for `Serv01`.* None of the invariants is inductive alone, since a commit may write what a
thread or a worker read long before. The invariant `IInv` adds what those memories are worth:
which run a request or a job refers to, that this run belongs to the task it will write, that
a request about to cancel a "queued" run will fail it in the same commit, and that a
commit that ends a run also writes the status of its task. `Serv01_invariant` states it; `Serv01_proofs` treats types, shows that every step keeps the memories linked to
the rows, and has one step per action for the rest and the theorems. Each
lemma is per action: the acting thread or worker, then the others, which keep what they had.

On `IInv` the later modules build a chain, each invariant resting on the one before it.
`Custody` adds `OnePlace`: a job is in the queue once, or with one worker, or with the thread about to enqueue it. It is
`SingleCustody` in a form that steps keep: a step takes a job from one place and puts it into the next (`ApiMoves`,
`WorkMoves`). `Told` adds what a worker's page number says of the rows: only the worker that holds a run's job stores its
pages, one after the other, so the pages before its page are exactly those stored, and a result says so.
Cancellation is a second, per-run invariant on top (`StoppingStep`): once the flag is stored, the worker is past its last
look at it for at most one page. `Listed` does the same for found sites, where the worker remembers whether the address was
new. The refinement needs the phase of each run before and after every step (`StepMoves`, `StepCaptures`): the phase moves
because a job moves, the count because `Told` says that the stored page is new.
`NoOrphanRun` needs `Attention`: what the threads that take responsibility for a run saw of it. The delicate case is the
recovery that saw its run failed and so leaves it alone: its run can be active again only in the hands of a worker (`ActiveAgain`).
`OneLiveRun` needs `OneHope`, which speaks of *hopeful* runs: not cancelled, and active or with a job still somewhere.
Hope is never regained (`HopeStep`), because a run becomes active again only through its job. A hopeful run is the
latest of its task, and its task cannot be started; no request that has read the task is about to start it, and if one is
suspending it, the run it found is that one (`HopeIsSeen`). So a new run is only created when no hopeful one is left.
`TakesTurns` is needed: without it TLC finds two requests that have both read the task as startable. It
leaves alone what requests do once they have committed their decision: a start that is still enqueueing meets pauses, stops
and further starts of the same task.

*The argument for `Crawl`.* `Evidence` says at each step of a visit which checks this visit has passed; the rows, the files
and `asked` follow from it. The refinement is by cases on the step; `Store` and a failing commit need it, for the address
that `Worker` remembers and for whether it is new.

*The argument for `TaskConfig`.* Owners are never assigned (`StepOwners`), so what a request looked up
for its account is still that account's when it commits, even if it is gone by then
(`RestingThread`, `ActingThread`); a reference that is written is checked by the foreign
key, and a template is deleted together with the references to it (`StepRows`).

*The argument for `ReadApi`.* The client changes nothing of the service (`ReadersOnlyRead`), so `Listed`, the last
invariant of the chain above, holds here too. Each promise is about answers read some steps ago, and each invariant says what
such an answer is still worth. A detail that shows a result shows one that no later step changes (`ResultFinal`), and by
`ResultMatchesPages` its pages were all stored when the run was read, so the second SELECT finds them: `DetailInv`. The
addresses of its pages were listed by then (`PagesAreListed`), and a found site goes only with its task: `SitesInv`. For the
walk, `created` may get a row at any place but never swaps two (`OrderKept`), so as long as nothing disturbs the walk a row
that was listed when it began keeps its rank or moves to a later one (`RankGrows`). `WalkInv` says that each such row with a
rank below the offset of the next page has been seen. When the walk ends, the offset has reached `total`, which still
counts the matching rows, and no rank is that large (`RankBounds`).

*The argument for `RobotsTxt`.* The parser keeps groups and forgets the lines; the meaning speaks of lines and knows no
groups. `GroupsTellTheLines` relates them after every line: the agents of the group being read are those of the
*open* agent lines, after which no agent follows a rule; its rules are empty until a rule follows an open one; and
an agent has been given exactly the rules that the lines give it. A new agent after a rule closes all open ones at once,
since a rule after one of them is after all (`RuleClosesAll`). The decision then has the same rules to choose from
(`MatchingIsOwn`), and "of the longest one allows" is "each Disallow is outdone" because a longest one exists (`LongestExists`).
That takes a bound on the lengths in the file, which each line may raise (`RulesBounded`), and the well-foundedness of the
naturals. Without an empty Disallow, the only line that the meaning counts and the parser does not, the groups selected hold
exactly the product's own rules (`OwnRulesAreSelected`): a statement in which the reading of patterns has no part.

*What stays with TLC:* liveness under fairness (`RunsEnd`, `RunningEnds`, `JobsEnd`, `LoopEnds`) and everything about
ENABLED, which `tlapm` does not reason about. Every invariant and every action property of a passing run is a theorem.

## 5. Not modelled

Lists of logs, submissions and statistics and the dashboard's counts (no rule reads them, and no code inserts a
submission), rendering, text validators, PATCH of a template, accounts, hashing and tokens, start-up. `PROJECT.json` gives
the reason for each.

## 6. Plan

1. Done: `Store`, `JobQueue`, `TaskApi`, `Worker`, `Serv01`, `RunExecution` and its refinement;
   `Crawl` and its refinement of a visit; `ReadApi`; `TaskConfig`; `RobotsTxt`; the theorems above.
2. `Crawl` with a page's text of robots.txt read by `RobotsTxt` instead of an answer of the environment.
3. The dashboard's counts, if the repository comes to promise anything of them.

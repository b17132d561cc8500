------------------------------- MODULE Crawl -------------------------------
(***************************************************************************)
(* The pages of one task run, as its worker visits them: the allowlist,    *)
(* robots.txt, the browser and the screenshot (serv01/execution.py, and    *)
(* serv01/worker.py:98-156).  Worker sees a visit as one step, Visit or    *)
(* PageError; here it is taken apart.                                      *)
(*                                                                         *)
(* The sites, the network and Chromium are the environment: they answer    *)
(* with anything, change their mind from one request to the next, redirect *)
(* and run scripts.  Playwright hands a page's requests to the handler     *)
(* that crawl_page installs, except those that follow a redirect: `asked`  *)
(* has the hosts that the code and its handler let pass, `reached` every   *)
(* host that got a request.                                                *)
(***************************************************************************)
EXTENDS Naturals, Sequences, FiniteSets

CONSTANTS
    Host,        \* hosts of the web
    AllowedHost, \* Settings.parsed_allowed_hosts
    Address,     \* addresses, [host, path, plain]; see AddressAssumption
    MaxPages,    \* BOUND: configured addresses
    MaxMoves,    \* BOUND: redirects and scripted navigations in one visit
    NULL

Paths == {a.path : a \in Address}

\* An address is plain if its scheme is http or https, it carries no user and
\* no password, and its port, if any, is in range.
ASSUME AddressAssumption ==
    /\ \A a \in Address : a.host \in Host /\ a.plain \in BOOLEAN
    /\ NULL \notin Address /\ NULL \notin Paths /\ NULL \notin Host
    /\ MaxPages \in Nat /\ MaxMoves \in Nat

VARIABLES
    urls,       \* task.urls, as loaded
    respect,    \* task.respect_robots_txt, as loaded
    visit,      \* the visit in progress
    browser,    \* the browser of crawl_page
    screenshot, \* the page numbers whose PNG is on disk, in the run's directory
    page,       \* site_pages of the run: the final address of every page
    asked,      \* hosts that the code has chosen to contact
    reached     \* hosts that were contacted

vars == <<urls, respect, visit, browser, screenshot, page, asked, reached>>

PageNo == 1..MaxPages

VisitStep ==
    {"refresh", "check", "fetch", "decide", "launch", "load", "inspect",
     "shoot", "close", "recheck", "store", "finish", "failed", "rollback"}

\* "stuck": crawl_page has ended and the process has not.
BrowserState == {"closed", "open", "stuck"}

\* What robots_permits would answer about the paths of a host, for the text
\* that the host sent.
Robots == [host : Host, permitted : SUBSET Paths]

NoRobots == [host |-> NULL, permitted |-> {}]

Visit ==
    [pc : VisitStep,
     number : PageNo,                 \* page_number
     robots : Robots \cup {NoRobots}, \* robots_text
     url : Address \cup {NULL},       \* page.url in the browser
     moves : 0..MaxMoves,
     final : Address \cup {NULL},     \* final_url
     raised : BOOLEAN]                \* is an exception on its way?

\* The fields have their types and the loop is at one of its addresses
\* (worker.py:98).
TypeOK ==
    /\ urls \in Seq(Address) /\ Len(urls) <= MaxPages
    /\ respect \in BOOLEAN
    /\ visit \in Visit /\ visit.number <= Len(urls)
    /\ browser \in BrowserState
    /\ screenshot \subseteq PageNo
    /\ page \in [PageNo -> Address \cup {NULL}]
    /\ asked \subseteq Host /\ reached \subseteq Host

FreshVisit(n) ==
    [pc |-> "refresh", number |-> n, robots |-> NoRobots, url |-> NULL,
     moves |-> 0, final |-> NULL, raised |-> FALSE]

\* normalize_task_urls keeps the first of equal addresses; a task without
\* addresses fails before the loop.
UrlLists ==
    {list \in UNION {[1..n -> Address] : n \in PageNo} :
        \A i, j \in DOMAIN list : list[i] = list[j] => i = j}

Init ==
    /\ urls \in UrlLists
    /\ respect \in BOOLEAN
    /\ visit = FreshVisit(1)
    /\ browser = "closed"
    /\ screenshot = {}
    /\ page = [n \in PageNo |-> NULL]
    /\ asked = {} /\ reached = {}

At(step) == visit.pc = step

Goto(step) == visit' = [visit EXCEPT !.pc = step]

\* The code asks a host for something, and an answer may lead to `others`.
Ask(host, others) ==
    /\ asked' = asked \cup {host}
    /\ reached' = reached \cup {host} \cup others

\* The address that is being visited.
Target == urls[visit.number]

\* Seeded fault: only the host is looked at.
HostOnly(a) == a.host \in AllowedHost

IsHostAllowed(a) == a.plain /\ a.host \in AllowedHost

-----------------------------------------------------------------------------
(* worker.py: before the browser.                                          *)

\* session.refresh and the commit of the page.started log.  Cancellation is
\* the subject of Worker.
Refresh ==
    /\ At("refresh")
    /\ Goto("check")
    /\ UNCHANGED <<urls, respect, browser, screenshot, page, asked, reached>>

\* Seeded fault: robots.txt is asked for once in a run.
AfterCheckOnce == IF respect /\ visit.number = 1 THEN "fetch" ELSE "launch"

AfterCheck == IF respect THEN "fetch" ELSE "launch"

\* Seeded fault: the check is left to the browser's handler.
Unchecked ==
    /\ At("check")
    /\ Goto(AfterCheck)
    /\ UNCHANGED <<urls, respect, browser, screenshot, page, asked, reached>>

\* blocked_by_allowlist, or on to robots.txt.
CheckHost ==
    /\ At("check")
    /\ Goto(IF IsHostAllowed(Target) THEN AfterCheck ELSE "failed")
    /\ UNCHANGED <<urls, respect, browser, screenshot, page, asked, reached>>

\* The texts a host may answer with: 404 counts as an empty one.
Texts == [host : {Target.host}, permitted : SUBSET Paths]

\* Seeded fault: robots.txt is followed wherever it has moved.
FollowsRedirects ==
    /\ At("fetch")
    /\ \E text \in Texts : visit' = [visit EXCEPT !.pc = "decide", !.robots = text]
    /\ \E h \in Host : Ask(Target.host, {h})
    /\ UNCHANGED <<urls, respect, browser, screenshot, page>>

\* follow_redirects=False.
FetchRobots ==
    /\ At("fetch")
    /\ \E text \in Texts : visit' = [visit EXCEPT !.pc = "decide", !.robots = text]
    /\ Ask(Target.host, {})
    /\ UNCHANGED <<urls, respect, browser, screenshot, page>>

\* A redirect, another error status, a timeout: ExecutionBlocked.
FetchFails ==
    /\ At("fetch")
    /\ Goto("failed")
    /\ Ask(Target.host, {})
    /\ UNCHANGED <<urls, respect, browser, screenshot, page>>

\* blocked_by_robots_txt, or on to the browser.
Decide ==
    /\ At("decide")
    /\ Goto(IF Target.path \in visit.robots.permitted THEN "launch" ELSE "failed")
    /\ UNCHANGED <<urls, respect, browser, screenshot, page, asked, reached>>

-----------------------------------------------------------------------------
(* crawl_page.                                                             *)

Launch ==
    /\ At("launch")
    /\ browser' = "open"
    /\ Goto("load")
    /\ UNCHANGED <<urls, respect, screenshot, page, asked, reached>>

\* mkdir or chromium.launch raises, or the job's timeout strikes before the
\* try: if a process has started, only the end of sync_playwright is left to
\* stop it.
LaunchFails ==
    /\ At("launch")
    /\ browser' \in {"closed", "stuck"}
    /\ Goto("failed")
    /\ UNCHANGED <<urls, respect, screenshot, page, asked, reached>>

\* page.goto: enforce_allowlist lets the request pass or aborts it, which
\* raises; the site answers, perhaps after a redirect to anywhere, which the
\* browser follows without asking.
Load ==
    /\ At("load")
    /\ IsHostAllowed(Target)
    /\ \E a \in Address :
          /\ visit' = [visit EXCEPT !.pc = "inspect", !.url = a,
                                   !.moves = IF a = Target THEN @ ELSE @ + 1]
          /\ a = Target \/ visit.moves < MaxMoves
          /\ Ask(Target.host, {a.host})
    /\ UNCHANGED <<urls, respect, browser, screenshot, page>>

\* While the page is open it may ask for something else, or navigate by script
\* or by a timed refresh; what is not allowed is aborted and changes nothing.
\* The answer may be a redirect to b.
PageRequests ==
    /\ browser = "open" /\ visit.url # NULL /\ visit.moves < MaxMoves
    /\ \E a, b \in Address :
          /\ IsHostAllowed(a)
          /\ Ask(a.host, {b.host})
          /\ \/ visit' = [visit EXCEPT !.moves = @ + 1]           \* a resource
             \/ visit' = [visit EXCEPT !.url = b, !.moves = @ + 1] \* a navigation
    /\ UNCHANGED <<urls, respect, browser, screenshot, page>>

\* A browser that outlives crawl_page has no handler any more, and perhaps
\* still a page.
StrayRequests ==
    /\ browser = "stuck" /\ visit.url # NULL /\ visit.moves < MaxMoves
    /\ \E h \in Host : reached' = reached \cup {h}
    /\ visit' = [visit EXCEPT !.moves = @ + 1]
    /\ UNCHANGED <<urls, respect, browser, screenshot, page, asked>>

\* final_url = page.url and its check.
Inspect ==
    /\ At("inspect")
    /\ visit' = [visit EXCEPT
          !.pc = IF IsHostAllowed(visit.url) THEN "shoot" ELSE "close",
          !.final = visit.url,
          !.raised = ~IsHostAllowed(visit.url)]
    /\ UNCHANGED <<urls, respect, browser, screenshot, page, asked, reached>>

\* The forms, the PNG, the title.
Shoot ==
    /\ At("shoot")
    /\ screenshot' = screenshot \cup {visit.number}
    /\ Goto("close")
    /\ UNCHANGED <<urls, respect, browser, page, asked, reached>>

\* Seeded fault: a failing screenshot is skipped.
ShotSkipped ==
    /\ At("shoot")
    /\ Goto("close")
    /\ UNCHANGED <<urls, respect, browser, screenshot, page, asked, reached>>

\* A call to the browser raises; the PNG may have been written already.
BrowserFails ==
    /\ visit.pc \in {"load", "inspect", "shoot"}
    /\ \/ UNCHANGED screenshot
       \/ At("shoot") /\ screenshot' = screenshot \cup {visit.number}
    /\ visit' = [visit EXCEPT !.pc = "close", !.raised = TRUE]
    /\ UNCHANGED <<urls, respect, browser, page, asked, reached>>

\* Seeded fault: a visit that failed is tried again.
CloseAndRetry ==
    /\ At("close")
    /\ browser' = "closed"
    /\ visit' = IF visit.raised THEN FreshVisit(visit.number)
                ELSE [visit EXCEPT !.pc = "recheck"]
    /\ UNCHANGED <<urls, respect, screenshot, page, asked, reached>>

\* finally: browser.close().
Close ==
    /\ At("close")
    /\ browser' = "closed"
    /\ Goto(IF visit.raised THEN "failed" ELSE "recheck")
    /\ UNCHANGED <<urls, respect, screenshot, page, asked, reached>>

\* Seeded fault: an error of close() is swallowed.
CloseErrorSwallowed ==
    /\ At("close")
    /\ browser' \in {"closed", "stuck"}
    /\ Goto(IF visit.raised THEN "failed" ELSE "recheck")
    /\ UNCHANGED <<urls, respect, screenshot, page, asked, reached>>

\* browser.close() raises, or the end of sync_playwright does: a visit that
\* went well fails, and the browser may be left behind.
CloseFails ==
    /\ At("close")
    /\ browser' \in {"closed", "stuck"}
    /\ Goto("failed")
    /\ UNCHANGED <<urls, respect, screenshot, page, asked, reached>>

-----------------------------------------------------------------------------
(* worker.py: after the browser.                                           *)

Recheck ==
    /\ At("recheck")
    /\ Goto(IF IsHostAllowed(visit.final) THEN "store" ELSE "failed")
    /\ UNCHANGED <<urls, respect, browser, screenshot, page, asked, reached>>

\* Seeded fault: the loop runs once too often.
OneVisitMore ==
    IF visit.number <= Len(urls)
    THEN FreshVisit(visit.number + 1)
    ELSE [FreshVisit(visit.number) EXCEPT !.pc = "finish"]

\* Where the loop goes once the page is stored.
NextVisit ==
    IF visit.number < Len(urls)
    THEN FreshVisit(visit.number + 1)
    ELSE [FreshVisit(visit.number) EXCEPT !.pc = "finish"]

\* Seeded fault: the configured address is stored.
StoreTarget ==
    /\ At("store")
    /\ page' = [page EXCEPT ![visit.number] = Target]
    /\ visit' = NextVisit
    /\ UNCHANGED <<urls, respect, browser, screenshot, asked, reached>>

\* The commit of the page; then the next address, or the end of the loop.
Store ==
    /\ At("store")
    /\ page' = [page EXCEPT ![visit.number] = visit.final]
    /\ visit' = NextVisit
    /\ UNCHANGED <<urls, respect, browser, screenshot, asked, reached>>

\* session.refresh or a commit raises.  The database may have applied the
\* commit of the page; so may the unique indexes refuse it, see Worker.
SessionFails ==
    /\ \/ visit.pc \in {"refresh", "store"} /\ page' = page
       \/ At("store") /\ page' = [page EXCEPT ![visit.number] = visit.final]
    /\ Goto("rollback")
    /\ UNCHANGED <<urls, respect, browser, screenshot, asked, reached>>

\* RQ's job timeout strikes in the worker's own code.
JobTimeout ==
    /\ visit.pc \in {"check", "decide", "recheck"}
    /\ Goto("failed")
    /\ UNCHANGED <<urls, respect, browser, screenshot, page, asked, reached>>

Code ==
    \/ Refresh
    \/ CheckHost
    \/ FetchRobots
    \/ FetchFails
    \/ Decide
    \/ Launch
    \/ LaunchFails
    \/ Load
    \/ Inspect
    \/ Shoot
    \/ BrowserFails
    \/ Close
    \/ CloseFails
    \/ Recheck
    \/ Store
    \/ SessionFails
    \/ JobTimeout

Next == Code \/ PageRequests \/ StrayRequests

Spec == Init /\ [][Next]_vars

\* Every call of the code returns or raises: httpx and page.goto have
\* page_timeout_seconds, other calls to the browser Playwright's timeout, and
\* the job its job_timeout.
FairSpec == Spec /\ WF_vars(Code)

-----------------------------------------------------------------------------
(* Safety                                                                  *)

\* Whatever a site redirects to and whatever its scripts do, every stored
\* address passes the allowlist, and so does the address that was configured
\* for that page (execution.py:25-39, 141-144; worker.py:112-114, 123-125).
StoredPagesAllowed ==
    \A n \in PageNo : page[n] # NULL =>
        \A a \in {page[n], urls[n]} : a.plain /\ a.host \in AllowedHost

\* What the code and its handler let pass goes to allowed hosts; and before the
\* run has opened a page in the browser nothing else is contacted, because
\* robots.txt is not followed elsewhere (worker.py:112-119, execution.py:93-106,
\* 115-119).  Redirects inside the browser are another matter, see below.
RequestsChecked ==
    /\ asked \subseteq AllowedHost
    /\ reached \subseteq AllowedHost \/ visit.url # NULL \/ page[1] # NULL

\* README.md:13 promises an exact allowlist before any network access, and
\* README.md:25-26 that redirects and page resources on other hosts are blocked
\* before loading: no other host is ever contacted.  The code does not keep
\* it: the handler is not called for the request that follows a redirect, and
\* final_url is compared with the allowlist after page.goto has loaded it
\* (execution.py:136-144).
ContactsAllowedHostsOnly == reached \subseteq AllowedHost

\* There is a browser only if the allowlist passes the configured address and,
\* when the task respects robots.txt, the text that this very visit fetched
\* from the address's own host permits its path (worker.py:112-119).
BrowserOpensLast ==
    browser # "closed" =>
        /\ IsHostAllowed(Target)
        /\ respect => /\ visit.robots.host = Target.host
                      /\ Target.path \in visit.robots.permitted

\* Every stored page has its PNG on disk: the file is written before the row,
\* so a crash in between leaves a file without a row and never the contrary,
\* which get_screenshot would answer with 404 (runs.py:84-86).
ScreenshotsOnDisk == \A n \in PageNo : page[n] # NULL => n \in screenshot

\* A browser that works is inside of crawl_page; one that could not be closed
\* has cost its visit: nothing is stored after it and the loop opens no second
\* one next to it (execution.py:123, 160-161, worker.py:177).
LoopWithoutBrowser ==
    /\ browser = "open" => visit.pc \in {"load", "inspect", "shoot", "close"}
    /\ browser = "stuck" => At("failed")

\* What Worker sees of all this: the rows of the task and its run, and its job.
TaskSeen == [status |-> "running", urls |-> Len(urls)]

RunSeen ==
    [task |-> "task", status |-> "running", queue_job_id |-> TRUE,
     cancel_requested |-> FALSE, finished_at |-> FALSE, result_json |-> NULL,
     pages |-> page]

SitesSeen == {page[n] : n \in PageNo} \ {NULL}

PhaseSeen ==
    IF visit.pc \in {"refresh", "store", "finish", "rollback"} THEN visit.pc
    ELSE IF At("failed") THEN "failing" ELSE "visit"

FreshSeen == At("store") /\ visit.final \notin SitesSeen

JobSeen ==
    [pc |-> PhaseSeen, run |-> 1, seenTask |-> "running", urls |-> Len(urls),
     page |-> visit.number,
     url |-> IF At("store") THEN visit.final ELSE NULL,
     fresh |-> FreshSeen]

Loop ==
    INSTANCE Worker WITH
        Task <- {"task"},
        Url <- Address,
        MaxRuns <- 1,
        UrlCounts <- 0..MaxPages,
        Faults <- {"database"},
        Process <- {"worker"},
        task <- [t \in {"task"} |-> TaskSeen],
        run <- [r \in {1} |-> RunSeen],
        site <- [t \in {"task"} |-> SitesSeen],
        queue <- <<>>,
        job <- [w \in {"worker"} |-> JobSeen]

\* A visit is what Worker takes it for: one Visit or one PageError, between the
\* check for cancellation and the commit, and only that commit touches rows,
\* even if its answer is lost.
VisitsAsWorker ==
    [][\/ Loop!Refresh("worker")
       \/ Loop!Visit("worker")
       \/ Loop!PageError("worker")
       \/ Loop!StorePage("worker")]_<<Loop!workVars>>

-----------------------------------------------------------------------------
(* Liveness                                                                *)

\* The loop comes to its end or to an exception, whatever the sites do.
LoopEnds == <>(visit.pc \in {"finish", "failed", "rollback"})
=============================================================================

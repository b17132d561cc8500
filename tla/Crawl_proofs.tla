---------------------------- MODULE Crawl_proofs ----------------------------
(***************************************************************************)
(* The safety properties of Crawl for every set of addresses, every        *)
(* allowlist and every number of pages and redirects.                      *)
(*                                                                         *)
(* Each of them looks at what the visit did some steps ago, so the         *)
(* invariant follows the visit: what has been established when it is at    *)
(* each of its steps.                                                      *)
(***************************************************************************)
EXTENDS Crawl, TLAPS

\* The steps with a browser.
InBrowser == {"load", "inspect", "shoot", "close"}

\* The steps from which a browser is opened or has been.
Browsing == InBrowser \cup {"launch"}

\* The allowlist has been passed before anything else, and robots.txt, when it
\* counts, before the browser.
Admitted ==
    /\ visit.pc \in {"fetch", "decide"} \cup Browsing => IsHostAllowed(Target)
    /\ At("decide") => visit.robots.host = Target.host
    /\ respect /\ visit.pc \in Browsing =>
          /\ visit.robots.host = Target.host
          /\ Target.path \in visit.robots.permitted

\* crawl_page is going to return, or has returned.
Succeeds == (At("close") /\ ~visit.raised) \/ visit.pc \in {"recheck", "store"}

Evidence ==
    /\ visit.pc \in {"inspect", "shoot"} => visit.url \in Address
    /\ At("shoot") \/ Succeeds => visit.final \in Address /\ IsHostAllowed(visit.final)
    /\ Succeeds => visit.number \in screenshot /\ IsHostAllowed(Target)
    /\ visit.pc \notin {"close", "failed"} => ~visit.raised

\* Every stored page lies behind the visit or was stored by it, and the visit
\* has left the first page behind once it is at another one.
Stored ==
    /\ visit.number > 1 => page[1] # NULL
    /\ \A n \in PageNo : page[n] # NULL =>
          /\ n <= Len(urls) /\ n \in screenshot
          /\ n < visit.number \/ visit.pc \in {"finish", "rollback"}
          /\ IsHostAllowed(page[n]) /\ IsHostAllowed(urls[n])

CrawlInv ==
    /\ TypeOK /\ LoopWithoutBrowser /\ BrowserOpensLast /\ RequestsChecked
    /\ Admitted /\ Evidence /\ Stored

-----------------------------------------------------------------------------
LEMMA InitCrawlInv == Init => CrawlInv
<1> SUFFICES ASSUME Init PROVE CrawlInv
  OBVIOUS
<1>1. PICK n \in PageNo : urls \in [1..n -> Address]
  BY DEF Init, UrlLists
<1>2. urls \in Seq(Address) /\ Len(urls) = n /\ n <= MaxPages /\ 1 \in PageNo /\ 1 <= n
  BY <1>1, AddressAssumption DEF PageNo
<1>3. FreshVisit(1) \in Visit
  BY <1>2, AddressAssumption DEF FreshVisit, Visit, VisitStep, NoRobots
<1> QED
  BY <1>2, <1>3 DEF Init, CrawlInv, TypeOK, LoopWithoutBrowser, BrowserOpensLast, RequestsChecked,
     BrowserState, Admitted, Evidence, Stored, FreshVisit, InBrowser, Browsing, Succeeds, At

\* One step per action; each establishes what the next one relies on.
LEMMA StepCrawlInv == CrawlInv /\ [Next]_vars => CrawlInv'
<1> SUFFICES ASSUME CrawlInv, [Next]_vars PROVE CrawlInv'
  OBVIOUS
<1>1. /\ urls \in Seq(Address) /\ Len(urls) \in Nat /\ Len(urls) <= MaxPages
      /\ visit \in Visit /\ visit.number \in 1..Len(urls) /\ visit.number \in PageNo
      /\ Target \in Address
  BY AddressAssumption DEF CrawlInv, TypeOK, Visit, PageNo, Target
<1> USE <1>1 DEF CrawlInv, TypeOK, LoopWithoutBrowser, BrowserOpensLast, RequestsChecked,
     BrowserState, Admitted, Evidence,
     Stored, InBrowser, Browsing, Succeeds, At, Goto, Target, Visit, VisitStep
<1>2. CASE Refresh
  BY <1>2, AddressAssumption DEF Refresh
<1>3. CASE CheckHost
  <2>1. PICK step \in {"fetch", "launch", "failed"} :
            visit' = [visit EXCEPT !.pc = step]
    BY <1>3 DEF CheckHost, AfterCheck
  <2>2. /\ visit' \in Visit /\ visit'.number = visit.number /\ visit'.pc = step
        /\ visit'.robots = visit.robots /\ visit'.raised = visit.raised
        /\ visit'.url = visit.url
    BY <2>1
  <2>3. step # "failed" => IsHostAllowed(Target)
    BY <1>3, <2>2 DEF CheckHost
  <2>4. respect => step # "launch"
    BY <1>3, <2>2 DEF CheckHost, AfterCheck
  <2> QED
    BY <1>3, <2>2, <2>3, <2>4 DEF CheckHost
<1>4. CASE FetchRobots
  <2>1. PICK text \in Texts : visit' = [visit EXCEPT !.pc = "decide", !.robots = text]
    BY <1>4 DEF FetchRobots
  <2>2. text \in Robots /\ text.host = Target.host /\ Target.host \in Host
    BY <2>1, AddressAssumption DEF Texts, Robots
  <2>3. /\ visit' \in Visit /\ visit'.number = visit.number /\ visit'.pc = "decide"
        /\ visit'.robots.host = Target.host /\ visit'.url = visit.url
        /\ visit'.raised = visit.raised
    BY <2>1, <2>2
  <2>4. IsHostAllowed(Target) /\ Target.host \in AllowedHost
    BY <1>4 DEF FetchRobots, IsHostAllowed
  <2>5. asked' = asked \cup {Target.host} /\ reached' = reached \cup {Target.host}
    BY <1>4 DEF FetchRobots, Ask
  <2>6. RequestsChecked'
    BY <1>4, <2>3, <2>4, <2>5 DEF FetchRobots
  <2> QED
    BY <1>4, <2>2, <2>3, <2>4, <2>5, <2>6 DEF FetchRobots
<1>5. CASE FetchFails
  BY <1>5, AddressAssumption DEF FetchFails, IsHostAllowed, Ask
<1>6. CASE Decide
  BY <1>6, AddressAssumption DEF Decide
<1>7. CASE Launch
  <2>1. /\ visit' \in Visit /\ visit'.number = visit.number /\ visit'.pc = "load"
        /\ visit'.robots = visit.robots /\ visit'.raised = visit.raised
    BY <1>7 DEF Launch
  <2> QED
    BY <1>7, <2>1 DEF Launch
<1>8. CASE LaunchFails
  BY <1>8, AddressAssumption DEF LaunchFails
<1>9. CASE Load
  <2>1. PICK a \in Address :
            /\ visit' = [visit EXCEPT !.pc = "inspect", !.url = a,
                                     !.moves = IF a = Target THEN @ ELSE @ + 1]
            /\ a = Target \/ visit.moves < MaxMoves
            /\ Ask(Target.host, {a.host})
    BY <1>9 DEF Load
  <2>2. PICK n \in 0..MaxMoves :
            visit' = [visit EXCEPT !.pc = "inspect", !.url = a, !.moves = n]
    <3>1. (IF a = Target THEN visit.moves ELSE visit.moves + 1) \in 0..MaxMoves
      BY <2>1, AddressAssumption
    <3> QED
      BY <2>1, <3>1
  <2>3. /\ visit' \in Visit /\ visit'.number = visit.number /\ visit'.pc = "inspect"
        /\ visit'.robots = visit.robots /\ visit'.raised = visit.raised
        /\ visit'.url \in Address
    BY <2>2
  <2>4. /\ asked' \subseteq Host /\ asked' \subseteq AllowedHost /\ reached' \subseteq Host
        /\ visit'.url # NULL
    BY <1>9, <2>1, <2>3, AddressAssumption DEF Load, IsHostAllowed, Ask
  <2> QED
    BY <1>9, <2>3, <2>4 DEF Load
<1>10. CASE Inspect
  BY <1>10, AddressAssumption DEF Inspect
<1>11. CASE Shoot
  BY <1>11, AddressAssumption DEF Shoot
<1>12. CASE BrowserFails
  BY <1>12, AddressAssumption DEF BrowserFails
<1>13. CASE Close
  BY <1>13, AddressAssumption DEF Close
<1>14. CASE Recheck
  BY <1>14, AddressAssumption DEF Recheck
<1>15. CASE Store
  <2>1. /\ visit' \in Visit /\ visit'.number <= Len(urls)
        /\ visit'.pc \in {"refresh", "finish"} /\ ~visit'.raised
        /\ visit.number < visit'.number \/ visit'.pc = "finish"
        /\ visit.number <= visit'.number
    <3>1. \A n \in PageNo : FreshVisit(n) \in Visit
      BY AddressAssumption DEF FreshVisit
    <3>2. CASE visit.number < Len(urls)
      <4>1. visit.number + 1 \in PageNo
        BY <3>2, AddressAssumption DEF PageNo
      <4> QED
        BY <1>15, <3>1, <3>2, <4>1 DEF Store, NextVisit, FreshVisit
    <3>3. CASE ~(visit.number < Len(urls))
      <4>1. visit' = [FreshVisit(visit.number) EXCEPT !.pc = "finish"]
        BY <1>15, <3>3 DEF Store, NextVisit
      <4>2. FreshVisit(visit.number).number = visit.number /\ ~FreshVisit(visit.number).raised
        BY DEF FreshVisit
      <4> QED
        BY <3>1, <4>1, <4>2
    <3> QED
      BY <3>2, <3>3
  <2>2. visit.final \in Address /\ IsHostAllowed(visit.final) /\ IsHostAllowed(Target)
    BY <1>15 DEF Store
  <2>3. page'[1] # NULL
    BY <1>15, <2>2, AddressAssumption DEF Store, PageNo
  <2>4. Stored'
    BY <1>15, <2>1, <2>2, <2>3 DEF Store, PageNo
  <2> QED
    BY <1>15, <2>1, <2>2, <2>3, <2>4 DEF Store
<1>16. CASE PageRequests
  <2>1. PICK a \in Address, b \in Address :
            /\ IsHostAllowed(a) /\ Ask(a.host, {b.host})
            /\ \/ visit' = [visit EXCEPT !.moves = @ + 1]
               \/ visit' = [visit EXCEPT !.url = b, !.moves = @ + 1]
    BY <1>16 DEF PageRequests
  <2>2. visit.moves + 1 \in 0..MaxMoves
    BY <1>16, AddressAssumption DEF PageRequests
  <2>3. /\ visit' \in Visit /\ visit'.number = visit.number /\ visit'.pc = visit.pc
        /\ visit'.robots = visit.robots /\ visit'.raised = visit.raised
        /\ visit'.final = visit.final /\ visit'.url \in {visit.url, b}
    BY <2>1, <2>2
  <2>4. /\ asked' \subseteq Host /\ asked' \subseteq AllowedHost /\ reached' \subseteq Host
        /\ visit'.url # NULL
    BY <1>16, <2>1, <2>3, AddressAssumption DEF PageRequests, IsHostAllowed, Ask
  <2> QED
    BY <1>16, <2>3, <2>4 DEF PageRequests
<1>17. CASE StrayRequests
  <2>1. visit.moves + 1 \in 0..MaxMoves /\ visit' = [visit EXCEPT !.moves = @ + 1]
    BY <1>17, AddressAssumption DEF StrayRequests
  <2>2. /\ visit' \in Visit /\ visit'.number = visit.number /\ visit'.pc = visit.pc
        /\ visit'.robots = visit.robots /\ visit'.raised = visit.raised
        /\ visit'.final = visit.final /\ visit'.url = visit.url
    BY <2>1
  <2> QED
    BY <1>17, <2>2 DEF StrayRequests
<1>18. CASE SessionFails
  <2>1. /\ visit' \in Visit /\ visit'.number = visit.number /\ visit'.pc = "rollback"
        /\ visit'.robots = visit.robots /\ visit'.raised = visit.raised
        /\ visit'.url = visit.url
    BY <1>18 DEF SessionFails
  <2>2. CASE page' = page
    BY <1>18, <2>1, <2>2 DEF SessionFails
  <2>3. CASE At("store") /\ page' = [page EXCEPT ![visit.number] = visit.final]
    <3>1. /\ visit.final \in Address /\ visit.final # NULL
          /\ IsHostAllowed(visit.final) /\ IsHostAllowed(Target)
      BY <2>3, AddressAssumption
    <3>2. Stored'
      BY <1>18, <2>1, <2>3, <3>1 DEF SessionFails, PageNo
    <3> QED
      BY <1>18, <2>1, <2>3, <3>1, <3>2 DEF SessionFails
  <2> QED
    BY <1>18, <2>2, <2>3 DEF SessionFails
<1>19. CASE CloseFails
  BY <1>19, AddressAssumption DEF CloseFails
<1>20. CASE JobTimeout
  BY <1>20, AddressAssumption DEF JobTimeout
<1>21. CASE UNCHANGED vars
  BY <1>21 DEF vars
<1> QED
  BY <1>2, <1>3, <1>4, <1>5, <1>6, <1>7, <1>8, <1>9, <1>10, <1>11, <1>12, <1>13, <1>14, <1>15, <1>16, <1>17, <1>18, <1>19, <1>20, <1>21
  DEF Next, Code

LEMMA CrawlInvariant == Spec => []CrawlInv
<1> QED
  BY InitCrawlInv, StepCrawlInv, PTL DEF Spec

-----------------------------------------------------------------------------
\* The fields of the visit keep their types and the loop stays within its list
\* of addresses (worker.py:98).
THEOREM CrawlTypeCorrect == Spec => []TypeOK
<1>1. CrawlInv => TypeOK
  BY DEF CrawlInv
<1> QED
  BY <1>1, CrawlInvariant, PTL

\* Whatever the sites redirect to and whatever their scripts do, a stored page
\* and the address it was configured with pass the allowlist
\* (execution.py:141-144, worker.py:112-114, 123-125).
THEOREM PagesAreAllowed == Spec => []StoredPagesAllowed
<1>1. CrawlInv => StoredPagesAllowed
  BY DEF CrawlInv, Stored, StoredPagesAllowed, IsHostAllowed
<1> QED
  BY <1>1, CrawlInvariant, PTL

\* What the code and its handler let pass goes to allowed hosts, and before a
\* page was opened in the browser nothing else is contacted.  Redirects in the
\* browser do lead elsewhere (worker.py:112-119, execution.py:93-106, 115-119).
THEOREM RequestsAreChecked == Spec => []RequestsChecked
<1>1. CrawlInv => RequestsChecked
  BY DEF CrawlInv
<1> QED
  BY <1>1, CrawlInvariant, PTL

\* The allowlist and, if it counts, the robots.txt of the address's own host
\* have passed the address before a browser opens (worker.py:112-122).
THEOREM BrowserComesLast == Spec => []BrowserOpensLast
<1>1. CrawlInv => BrowserOpensLast
  BY DEF CrawlInv
<1> QED
  BY <1>1, CrawlInvariant, PTL

\* A page is stored after its PNG (execution.py:153, worker.py:127-137).
THEOREM PagesHaveScreenshots == Spec => []ScreenshotsOnDisk
<1>1. CrawlInv => ScreenshotsOnDisk
  BY DEF CrawlInv, Stored, ScreenshotsOnDisk
<1> QED
  BY <1>1, CrawlInvariant, PTL

\* However a visit ends, and even if browser.close() raises, the loop goes on
\* without a browser only: one that is left behind has ended the run
\* (execution.py:123, 160-161, worker.py:177).
THEOREM LoopGoesOnWithoutBrowser == Spec => []LoopWithoutBrowser
<1>1. CrawlInv => LoopWithoutBrowser
  BY DEF CrawlInv
<1> QED
  BY <1>1, CrawlInvariant, PTL

-----------------------------------------------------------------------------
(* A visit implements the single step that Worker takes it for.            *)

\* What the worker's loop refers to, on the rows as Worker sees them.
LEMMA SeenRows ==
  ASSUME CrawlInv
  PROVE  /\ Loop!RunExists(1) /\ ~Loop!CancelSeen("worker")
         /\ Loop!TaskOf("worker") = "task"
BY DEF Loop!RunExists, Loop!TaskRunStatus, Loop!CancelSeen, Loop!TaskOf, JobSeen, RunSeen

\* The steps that Worker sees as the phase "visit".
Inside == {"check", "fetch", "decide", "launch", "load", "inspect", "shoot", "close", "recheck"}

\* A step within the visit, or after its failure, changes nothing that Worker
\* sees.
LEMMA HiddenStep ==
  ASSUME \/ visit.pc \in Inside /\ visit'.pc \in Inside
         \/ visit.pc = "failed" /\ visit'.pc = "failed",
         visit'.number = visit.number, UNCHANGED <<urls, page>>
  PROVE  UNCHANGED <<Loop!workVars>>
<1>1. PhaseSeen' = PhaseSeen /\ ~At("store") /\ ~At("store")'
  BY DEF PhaseSeen, At, Inside
<1>2. FreshSeen = FALSE /\ FreshSeen' = FALSE
  BY <1>1, Zenon DEF FreshSeen
<1>3. JobSeen' = JobSeen
  BY <1>1, <1>2 DEF JobSeen
<1> QED
  BY <1>3 DEF Loop!workVars, TaskSeen, RunSeen, SitesSeen

\* A visit that fails is a PageError.
LEMMA FailingStep ==
  ASSUME visit.pc \in Inside, visit'.pc = "failed", visit'.number = visit.number,
         UNCHANGED <<urls, page>>
  PROVE  Loop!PageError("worker")
<1>1. PhaseSeen = "visit" /\ PhaseSeen' = "failing" /\ ~At("store") /\ ~At("store")'
  BY DEF PhaseSeen, At, Inside
<1>2. FreshSeen = FALSE /\ FreshSeen' = FALSE
  BY <1>1, Zenon DEF FreshSeen
<1>3. JobSeen = [pc |-> "visit", run |-> 1, seenTask |-> "running", urls |-> Len(urls),
                 page |-> visit.number, url |-> NULL, fresh |-> FALSE]
  BY <1>1, <1>2 DEF JobSeen
<1>4. JobSeen' = [pc |-> "failing", run |-> 1, seenTask |-> "running", urls |-> Len(urls),
                  page |-> visit.number, url |-> NULL, fresh |-> FALSE]
  BY <1>1, <1>2 DEF JobSeen
<1> QED
  BY <1>3, <1>4 DEF Loop!PageError, Loop!Raise, Loop!Proceed, TaskSeen, RunSeen, SitesSeen

LEMMA StepSeen == CrawlInv /\ CrawlInv' /\ [Next]_vars =>
    [\/ Loop!Refresh("worker")
     \/ Loop!Visit("worker")
     \/ Loop!PageError("worker")
     \/ Loop!StorePage("worker")]_<<Loop!workVars>>
<1> SUFFICES ASSUME CrawlInv, CrawlInv', [Next]_vars
             PROVE  \/ Loop!Refresh("worker")
                    \/ Loop!Visit("worker")
                    \/ Loop!PageError("worker")
                    \/ Loop!StorePage("worker")
                    \/ UNCHANGED <<Loop!workVars>>
  OBVIOUS
<1>1. visit \in Visit /\ visit' \in Visit
  BY DEF CrawlInv, TypeOK
<1>2. CASE Refresh
  <2>1. /\ PhaseSeen = "refresh" /\ PhaseSeen' = "visit" /\ ~At("store") /\ ~At("store")'
        /\ visit'.number = visit.number
    BY <1>1, <1>2 DEF Refresh, PhaseSeen, At, Goto, Visit
  <2>2. FreshSeen = FALSE /\ FreshSeen' = FALSE
    BY <2>1, Zenon DEF FreshSeen
  <2>3. JobSeen = [pc |-> "refresh", run |-> 1, seenTask |-> "running", urls |-> Len(urls),
                   page |-> visit.number, url |-> NULL, fresh |-> FALSE]
    BY <2>1, <2>2 DEF JobSeen
  <2>4. JobSeen' = [pc |-> "visit", run |-> 1, seenTask |-> "running", urls |-> Len(urls),
                    page |-> visit.number, url |-> NULL, fresh |-> FALSE]
    BY <1>2, <2>1, <2>2 DEF JobSeen, Refresh
  <2> QED
    BY <1>2, <2>3, <2>4, SeenRows DEF Refresh, Loop!Refresh, Loop!Doing, Loop!Advance, Loop!Proceed,
       TaskSeen, RunSeen, SitesSeen
<1>3. CASE CheckHost \/ Decide \/ Launch \/ Shoot
  <2>1. /\ visit.pc \in Inside /\ visit'.pc \in Inside \cup {"failed"}
        /\ visit'.number = visit.number /\ UNCHANGED <<urls, page>>
    BY <1>1, <1>3 DEF CheckHost, AfterCheck, Decide, Launch, Shoot, At, Goto, Inside, Visit
  <2> QED
    BY <2>1, HiddenStep, FailingStep
<1>4. CASE FetchRobots \/ FetchFails \/ LaunchFails
  <2>1. /\ visit.pc \in Inside /\ visit'.pc \in Inside \cup {"failed"}
        /\ visit'.number = visit.number /\ UNCHANGED <<urls, page>>
    BY <1>1, <1>4 DEF FetchRobots, FetchFails, LaunchFails, At, Goto, Inside, Visit
  <2> QED
    BY <2>1, HiddenStep, FailingStep
<1>5. CASE Load \/ Inspect \/ BrowserFails \/ Close \/ CloseFails \/ JobTimeout
  <2>1. /\ visit.pc \in Inside /\ visit'.pc \in Inside \cup {"failed"}
        /\ visit'.number = visit.number /\ UNCHANGED <<urls, page>>
    BY <1>1, <1>5 DEF Load, Inspect, BrowserFails, Close, CloseFails, JobTimeout, At, Goto, Inside, Visit
  <2> QED
    BY <2>1, HiddenStep, FailingStep
<1>6. CASE PageRequests \/ StrayRequests
  <2>1. visit.pc \in Inside \cup {"failed"}
    BY <1>6 DEF PageRequests, StrayRequests, CrawlInv, LoopWithoutBrowser, Inside, At
  <2>2. /\ visit'.pc = visit.pc /\ visit'.number = visit.number /\ UNCHANGED <<urls, page>>
    BY <1>1, <1>6 DEF PageRequests, StrayRequests, Visit
  <2> QED
    BY <2>1, <2>2, HiddenStep
<1>7. CASE Recheck
  <2>1. CASE visit'.pc = "store"
    <3>1. /\ JobSeen.pc = "visit" /\ visit.final \in Address
          /\ UNCHANGED <<urls, page, visit.number, visit.final>>
      BY <1>1, <1>7 DEF Recheck, JobSeen, PhaseSeen, At, Goto, Visit, CrawlInv, Evidence, Succeeds
    <3>2. PhaseSeen' = "store" /\ At("store")' /\ SitesSeen' = SitesSeen
      BY <2>1, <3>1 DEF PhaseSeen, SitesSeen, At
    <3>3. FreshSeen' = (visit.final \notin SitesSeen)
      BY <3>1, <3>2, Zenon DEF FreshSeen
    <3>4. PhaseSeen = "visit" /\ ~At("store")
      BY <1>7 DEF Recheck, PhaseSeen, At
    <3>5. FreshSeen = FALSE
      BY <3>4, Zenon DEF FreshSeen
    <3>6. JobSeen = [pc |-> "visit", run |-> 1, seenTask |-> "running", urls |-> Len(urls),
                     page |-> visit.number, url |-> NULL, fresh |-> FALSE]
      BY <3>4, <3>5 DEF JobSeen
    <3>7. JobSeen' = [pc |-> "store", run |-> 1, seenTask |-> "running", urls |-> Len(urls),
                      page |-> visit.number, url |-> visit.final,
                      fresh |-> visit.final \notin SitesSeen]
      BY <3>1, <3>2, <3>3 DEF JobSeen
    <3>8. Loop!IsNewSite("worker", visit.final) = (visit.final \notin SitesSeen)
      BY SeenRows DEF Loop!IsNewSite, JobSeen
    <3> QED
      BY <3>1, <3>2, <3>6, <3>7, <3>8
      DEF Loop!Visit, Loop!Doing, Loop!Proceed, TaskSeen, RunSeen, SitesSeen
  <2>2. CASE visit'.pc # "store"
    <3>1. /\ visit.pc \in Inside /\ visit'.pc = "failed"
          /\ visit'.number = visit.number /\ UNCHANGED <<urls, page>>
      BY <1>1, <1>7, <2>2 DEF Recheck, At, Goto, Inside, Visit
    <3> QED
      BY <3>1, FailingStep
  <2> QED
    BY <2>1, <2>2
<1>8. CASE Store
  <2>1. /\ At("store") /\ visit.number \in PageNo /\ visit.number <= Len(urls)
        /\ Len(urls) \in Nat /\ visit.final \in Address /\ visit.final # NULL
        /\ page' = [page EXCEPT ![visit.number] = visit.final] /\ urls' = urls
        /\ page \in [PageNo -> Address \cup {NULL}]
    BY <1>1, <1>8, AddressAssumption
    DEF Store, CrawlInv, TypeOK, Evidence, Succeeds, At, Visit
  <2>2. page[visit.number] = NULL
    BY <2>1 DEF CrawlInv, Stored, PageNo, At
  <2>3. SitesSeen' = SitesSeen \cup {visit.final}
    BY <2>1, <2>2 DEF SitesSeen
  <2>4. FreshSeen = (visit.final \notin SitesSeen)
    BY <2>1, Zenon DEF FreshSeen
  <2>5. JobSeen = [pc |-> "store", run |-> 1, seenTask |-> "running", urls |-> Len(urls),
                   page |-> visit.number, url |-> visit.final,
                   fresh |-> visit.final \notin SitesSeen]
    BY <2>1, <2>4 DEF JobSeen, PhaseSeen, At
  <2>6. visit' = NextVisit
    BY <1>8 DEF Store
  <2>7. visit'.pc \in {"refresh", "finish"} /\ FreshSeen' = FALSE
    BY <2>6, Zenon DEF NextVisit, FreshVisit, FreshSeen, At
  <2>8. JobSeen' = Loop!AfterPage("worker")
    BY <2>1, <2>5, <2>6, <2>7
    DEF JobSeen, PhaseSeen, NextVisit, FreshVisit, At, Loop!AfterPage
  <2>9. ~Loop!Conflict("worker")
    BY <2>1, <2>2, <2>5, SeenRows DEF Loop!Conflict, Loop!Captured, RunSeen
  <2> QED
    BY <2>1, <2>3, <2>5, <2>8, <2>9, SeenRows
    DEF Loop!StorePage, Loop!Doing, Loop!Proceed, TaskSeen, RunSeen
<1>9. CASE SessionFails
  <2>1. /\ visit.pc \in {"refresh", "store"} /\ visit'.pc = "rollback" /\ urls' = urls
        /\ visit'.number = visit.number /\ PhaseSeen = visit.pc /\ PhaseSeen' = "rollback"
        /\ ~At("store")'
    BY <1>1, <1>9 DEF SessionFails, PhaseSeen, At, Goto, Visit
  <2>2. FreshSeen' = FALSE
    BY <2>1, Zenon DEF FreshSeen
  <2>3. JobSeen' = [pc |-> "rollback", run |-> 1, seenTask |-> "running", urls |-> Len(urls),
                    page |-> visit.number, url |-> NULL, fresh |-> FALSE]
    BY <2>1, <2>2 DEF JobSeen
  <2>4. CASE At("refresh")
    <3>1. ~At("store") /\ PhaseSeen = "refresh"
      BY <2>1, <2>4 DEF At
    <3>2. FreshSeen = FALSE
      BY <3>1, Zenon DEF FreshSeen
    <3>3. JobSeen = [pc |-> "refresh", run |-> 1, seenTask |-> "running",
                     urls |-> Len(urls), page |-> visit.number, url |-> NULL, fresh |-> FALSE]
      BY <3>1, <3>2 DEF JobSeen
    <3>4. page' = page
      BY <1>9, <3>1 DEF SessionFails
    <3> QED
      BY <2>1, <2>3, <3>3, <3>4
      DEF Loop!PageError, Loop!Raise, Loop!Proceed, TaskSeen, RunSeen, SitesSeen
  <2>5. CASE At("store")
    <3>1. FreshSeen = (visit.final \notin SitesSeen)
      BY <2>5, Zenon DEF FreshSeen
    <3>2. JobSeen = [pc |-> "store", run |-> 1, seenTask |-> "running", urls |-> Len(urls),
                     page |-> visit.number, url |-> visit.final,
                     fresh |-> visit.final \notin SitesSeen]
      BY <2>1, <2>5, <3>1 DEF JobSeen, At
    <3>3. Loop!Raise("worker")
      BY <2>3, <3>2 DEF Loop!Raise, Loop!Proceed
    <3>4. CASE page' = page
      BY <2>1, <3>2, <3>3, <3>4 DEF Loop!PageError, TaskSeen, RunSeen, SitesSeen
    <3>5. CASE page' = [page EXCEPT ![visit.number] = visit.final]
      <4>1. /\ visit.number \in PageNo /\ visit.final \in Address /\ visit.final # NULL
            /\ page \in [PageNo -> Address \cup {NULL}] /\ page[visit.number] = NULL
        BY <1>1, <2>5, AddressAssumption
        DEF CrawlInv, TypeOK, Evidence, Succeeds, Stored, PageNo, At, Visit
      <4>2. SitesSeen' = SitesSeen \cup {visit.final}
        BY <3>5, <4>1 DEF SitesSeen
      <4>3. ~Loop!Conflict("worker")
        BY <3>2, <4>1, SeenRows DEF Loop!Conflict, Loop!Captured, RunSeen
      <4>4. Loop!AnswerLost("worker")
        BY <3>3 DEF Loop!AnswerLost
      <4> QED
        BY <2>1, <3>2, <3>5, <4>1, <4>2, <4>3, <4>4, SeenRows
        DEF Loop!StorePage, Loop!Doing, TaskSeen, RunSeen
    <3> QED
      BY <1>9, <3>4, <3>5 DEF SessionFails
  <2> QED
    BY <2>1, <2>4, <2>5 DEF At
<1>10. CASE UNCHANGED vars
  <2>1. PhaseSeen' = PhaseSeen /\ FreshSeen' = FreshSeen /\ SitesSeen' = SitesSeen
        /\ At("store")' = At("store")
    BY <1>10, Zenon DEF vars, PhaseSeen, FreshSeen, SitesSeen, At
  <2>2. JobSeen' = JobSeen
    BY <1>10, <2>1 DEF vars, JobSeen
  <2> QED
    BY <1>10, <2>1, <2>2 DEF vars, Loop!workVars, TaskSeen, RunSeen
<1> QED
  BY <1>2, <1>3, <1>4, <1>5, <1>6, <1>7, <1>8, <1>9, <1>10
  DEF Next, Code

\* Whatever happens between the check for cancellation and the commit of a
\* page, Worker's single step stands for it: Visit if the page gets through, or
\* PageError; rows change in the commit only (worker.py:98-156).
THEOREM VisitIsOneStep == Spec => VisitsAsWorker
<1> QED
  BY StepSeen, CrawlInvariant, PTL DEF Spec, VisitsAsWorker
=============================================================================

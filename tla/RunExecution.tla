---------------------------- MODULE RunExecution ----------------------------
(***************************************************************************)
(* What the queue and the workers together promise about a task run, seen  *)
(* from outside: its job is submitted once and executed at most once, in   *)
(* one piece and by one worker; pages are captured one at a time and only  *)
(* during that execution; once it is over it never resumes and its pages   *)
(* stay as they are, unless the task is deleted.                           *)
(***************************************************************************)
EXTENDS Naturals

CONSTANTS
    Runs,     \* identifiers of task runs
    PageLimit \* BOUND: pages of one run

VARIABLES
    phase,  \* phase[r]: where the job of r is in its life
    pages   \* pages[r]: how many pages of r are stored

Phase == {"unused", "pending", "executing", "over"}

Init ==
    /\ phase = [r \in Runs |-> "unused"]
    /\ pages = [r \in Runs |-> 0]

Submit(r) ==
    /\ phase[r] = "unused"
    /\ phase' = [phase EXCEPT ![r] = "pending"]
    /\ UNCHANGED pages

Execute(r) ==
    /\ phase[r] = "pending"
    /\ phase' = [phase EXCEPT ![r] = "executing"]
    /\ UNCHANGED pages

Capture(r) ==
    /\ phase[r] = "executing"
    /\ pages[r] < PageLimit
    /\ pages' = [pages EXCEPT ![r] = @ + 1]
    /\ UNCHANGED phase

\* The job of r is done, cancelled or given up; or it is lost.
Retire(r) ==
    /\ phase[r] \in {"pending", "executing"}
    /\ phase' = [phase EXCEPT ![r] = "over"]
    /\ UNCHANGED pages

\* Redis forgets the jobs in S.
Lose(S) ==
    /\ \A r \in S : phase[r] = "pending"
    /\ phase' = [r \in Runs |-> IF r \in S THEN "over" ELSE phase[r]]
    /\ UNCHANGED pages

\* The rows of the runs in S are deleted.
Erase(S) ==
    /\ pages' = [r \in Runs |-> IF r \in S THEN 0 ELSE pages[r]]
    /\ UNCHANGED phase

Next ==
    \/ \E r \in Runs : Submit(r) \/ Execute(r) \/ Capture(r) \/ Retire(r)
    \/ \E S \in SUBSET Runs : Lose(S) \/ Erase(S)

Spec == Init /\ [][Next]_<<phase, pages>>
=============================================================================

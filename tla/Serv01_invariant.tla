-------------------------- MODULE Serv01_invariant --------------------------
(***************************************************************************)
(* The inductive invariant of Serv01; Serv01_proofs shows that it is one.  *)
(*                                                                         *)
(* TypeOK, CancelledNotQueued and RunningTaskHasActiveRun are not inductive*)
(* alone.  A commit writes through identifiers and statuses that a thread  *)
(* or worker remembered some steps earlier, so the inductive invariant     *)
(* ties what is remembered to what is stored.                              *)
(***************************************************************************)
EXTENDS Serv01

-----------------------------------------------------------------------------
(* The inductive invariant                                                 *)

\* Foreign keys hold: a run that exists belongs to a task that exists.
RowsLinked ==
    \A r \in Run :
        IF RunExists(r)
        THEN run[r].task \in Task /\ TaskExists(run[r].task)
        ELSE run[r].task = NULL

\* A waiting job carries a run that has been created.
QueueLinked == \A i \in DOMAIN queue : run[queue[i]].status # "absent"

\* What a thread remembers at each step, and that its run is its task's.
ReqLinked ==
    \A c \in Thread :
        /\ req[c].pc # "idle" =>
              req[c].task \in Task /\ task[req[c].task].status # "absent"
        /\ req[c].pc \in {"find", "unqueue", "suspend"} => req[c].to \in {"paused", "stopped"}
        /\ req[c].pc \in {"enqueue", "record", "recover", "recovering", "unqueue"} =>
              req[c].run # NULL
        /\ req[c].pc \in {"idle", "start", "find", "update", "delete"} =>
              req[c].run = NULL
        /\ req[c].run # NULL =>
              /\ run[req[c].run].status # "absent"
              /\ TaskExists(req[c].task) => run[req[c].run].task = req[c].task

\* What a worker remembers at each step.
JobLinked ==
    \A w \in Process :
        /\ job[w].pc = "idle" <=> job[w].run = NULL
        /\ job[w].run # NULL => run[job[w].run].status # "absent"
        /\ job[w].pc \in {"refresh", "visit", "store", "finish"} =>
              job[w].page \in 1..job[w].urls
        /\ job[w].pc = "store" => job[w].url # NULL

\* A pause or stop that saw its run executing will not find it queued.
SuspendSeen ==
    \A c \in Thread :
        /\ req[c].pc \in {"unqueue", "suspend"}
        /\ req[c].run # NULL
        /\ req[c].seenRun # "queued"
        => run[req[c].run].status # "queued"

\* r is active, and whoever will end it remembers its task as running, hence
\* will not leave the task as it is.
KeepsRunning(t, r) ==
    /\ run[r].task = t
    /\ IsActive(r)
    /\ \A w \in Process : Holds(w, r) /\ ~Doing(w, "load") => job[w].seenTask = "running"
    /\ \A c \in Thread : At(c, "recovering") /\ req[c].run = r => req[c].seenTask = "running"

RunningKept ==
    \A t \in Task : task[t].status = "running" => \E r \in Run : KeepsRunning(t, r)

Linked == RowsLinked /\ QueueLinked /\ ReqLinked /\ JobLinked

IInv ==
    /\ TypeOK
    /\ Linked
    /\ CancelledNotQueued /\ SuspendSeen
    /\ RunningKept
=============================================================================

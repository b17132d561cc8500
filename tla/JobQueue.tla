------------------------------ MODULE JobQueue ------------------------------
(***************************************************************************)
(* The Redis list behind RQ as serv01/queueing.py uses it: one job per     *)
(* task run, taken in order by whichever worker asks first.  A popped job  *)
(* is not put back: enqueue passes no retry policy.  RQ itself is a        *)
(* library, so these operators are modelled from the calls made to it.     *)
(***************************************************************************)
EXTENDS Store, Sequences, SequencesExt

VARIABLE queue  \* the waiting jobs, each named by the run it carries

QueueInit == queue = <<>>

QueueTypeOK == queue \in Seq(Run)

Waiting(j) == \E i \in DOMAIN queue : queue[i] = j

\* RQTaskQueue.enqueue: the job goes to the tail.
Push(j) == queue' = Append(queue, j)

\* RQTaskQueue.cancel: a waiting job leaves the list; NoSuchJobError and a
\* job that a worker has already taken change nothing.
Withdraw(j) ==
    \/ \E i \in DOMAIN queue : queue[i] = j /\ queue' = RemoveAt(queue, i)
    \/ ~Waiting(j) /\ queue' = queue

\* A worker takes the job at the head.
Take(j) ==
    /\ queue # <<>>
    /\ j = Head(queue)
    /\ queue' = Tail(queue)

\* compose.yaml runs redis without a volume or append-only file: a restart
\* forgets every waiting job.
Forget == queue # <<>> /\ queue' = <<>>
=============================================================================

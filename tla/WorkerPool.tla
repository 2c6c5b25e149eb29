----------------------------- MODULE WorkerPool -----------------------------
(***************************************************************************)
(* workerPoolDo: a feeder hands out the tasks in order, workers run them,  *)
(* and the caller collects the results, all over unbuffered channels, so   *)
(* that a task changes hands only when both sides are there.               *)
(***************************************************************************)
EXTENDS Integers, FiniteSets

CONSTANTS
    Workers,        \* job.workers goroutines
    Tasks           \* len(job.data)

ASSUME PoolAssumption == Workers /= {} /\ Tasks \in Nat

VARIABLES
    fed,        \* tasks handed out
    has,        \* worker -> [task, done], or nothing
    results,    \* index -> the task whose outcome is there, 0 for none
    queue,      \* tasksQueue: "open" or "closed"
    left        \* workers that have ended

poolVars == <<fed, has, results, queue, left>>

Nothing == [task |-> 0, done |-> FALSE]

PoolInit == /\ fed = 0
            /\ has = [w \in Workers |-> Nothing]
            /\ results = [i \in 1..Tasks |-> 0]
            /\ queue = "open"
            /\ left = {}

\* Without tasks nothing is started, a single one is run by the caller: both are
\* what the pool does with them, at once.
Feed(w) ==
    /\ fed < Tasks /\ queue = "open"
    /\ has[w] = Nothing /\ w \notin left
    /\ fed' = fed + 1
    /\ has' = [has EXCEPT ![w] = [task |-> fed + 1, done |-> FALSE]]
    /\ UNCHANGED <<results, queue, left>>

RunTask(w) ==
    /\ has[w] /= Nothing /\ ~has[w].done
    /\ has' = [has EXCEPT ![w].done = TRUE]
    /\ UNCHANGED <<fed, results, queue, left>>

\* The worker's send meets the caller's receive, which stores by index.
Index(t) == t.task

Collect(w) ==
    /\ has[w] /= Nothing /\ has[w].done
    /\ results' = [results EXCEPT ![Index(has[w])] = has[w].task]
    /\ has' = [has EXCEPT ![w] = Nothing]
    /\ UNCHANGED <<fed, queue, left>>

CloseQueue ==
    /\ fed = Tasks /\ queue = "open"
    /\ queue' = "closed"
    /\ UNCHANGED <<fed, has, results, left>>

WorkerEnds(w) ==
    /\ queue = "closed" /\ has[w] = Nothing /\ w \notin left
    /\ left' = left \union {w}
    /\ UNCHANGED <<fed, has, results, queue>>

\* A mutant: nobody waits for the workers.
ReturnedEarly == queue = "closed"

\* wg.Wait and close(resultsQueue): the caller returns.
Returned == left = Workers

PoolNext ==
    \/ \E w \in Workers : Feed(w) \/ RunTask(w) \/ Collect(w) \/ WorkerEnds(w)
    \/ CloseQueue

PoolSpec == PoolInit /\ [][PoolNext]_poolVars

--------------------------------------------------------------------------------

\* When the caller returns, every task has run and its outcome is at its index,
\* in whatever order the workers finished.
AllInPlace == Returned => \A i \in 1..Tasks : results[i] = i

\* The guards of PoolNext: somebody can go on.
GoesOn ==
    \/ \E w \in Workers \ left : has[w] /= Nothing \/ queue = "closed" \/ fed < Tasks
    \/ fed = Tasks /\ queue = "open"

\* The feeder, the workers and the caller never wait for each other in a circle,
\* and the caller gets everything.
PoolDelivers == AllInPlace /\ (Returned \/ GoesOn)
=============================================================================

------------------------------ MODULE ThreadPool ------------------------------
(***************************************************************************)
(* The thread pool (server/src/ThreadPool.cpp) with its condition variable:*)
(* a worker looks for a task under the lock, sleeps on the condition when  *)
(* there is none, runs tasks outside the lock, and is gone when the pool   *)
(* stops.  A caller pushes under the lock and notifies after releasing it, *)
(* so the two halves of enqueue() and of shutdown() are operators of their *)
(* own, which the threads of ServerLifecycle.tla call one after the other. *)
(***************************************************************************)
EXTENDS Integers, Sequences, FiniteSets

CONSTANTS
    Workers,        \* m_workers
    MaxChunks       \* tasks of one round are numbered 1 .. MaxChunks

ASSUME PoolAssumption ==
    /\ Workers # {} /\ IsFiniteSet(Workers)
    /\ MaxChunks \in Nat

VARIABLES
    tasks,          \* m_tasks
    worker,         \* what each worker does: "looks", "asleep", "runs", "gone"
    running,        \* the task it runs, or NoTask
    done,           \* tasks whose future is ready
    stopping        \* m_stopping

poolVars == <<tasks, worker, running, done, stopping>>

Tasks == 1 .. MaxChunks
NoTask == 0

Those(state) == {w \in Workers : worker[w] = state}

PoolInit ==
    /\ tasks = <<>> /\ done = {} /\ stopping = FALSE
    /\ worker = [w \in Workers |-> "looks"]
    /\ running = [w \in Workers |-> NoTask]

---------------------------------------------------------------------------
\* What callers do.

\* enqueue() up to the release of the lock.
Push(t) == tasks' = Append(tasks, t) /\ UNCHANGED <<worker, running, done, stopping>>

\* Mistaken variant: only the first task of an idle pool is announced.
NotifyFirst ==
    /\ IF Those("asleep") = {} \/ Len(tasks) > 1 THEN UNCHANGED worker
       ELSE \E w \in Those("asleep") : worker' = [worker EXCEPT ![w] = "looks"]
    /\ UNCHANGED <<tasks, running, done, stopping>>

\* notify_one: lost when nobody sleeps.
NotifyOne ==
    /\ IF Those("asleep") = {} THEN UNCHANGED worker
       ELSE \E w \in Those("asleep") : worker' = [worker EXCEPT ![w] = "looks"]
    /\ UNCHANGED <<tasks, running, done, stopping>>

\* shutdown() up to the release of the lock.
BeginShutdown == stopping' = TRUE /\ UNCHANGED <<tasks, worker, running, done>>

\* Mistaken variant: one worker is woken.
NotifyAllOnce == NotifyOne

NotifyAll ==
    /\ worker' = [w \in Workers |-> IF worker[w] = "asleep" THEN "looks" ELSE worker[w]]
    /\ UNCHANGED <<tasks, running, done, stopping>>

AllJoined == \A w \in Workers : worker[w] = "gone"

---------------------------------------------------------------------------
\* workerLoop.

\* The wait's predicate is evaluated under the lock, and a task taken.
Look(w) ==
    /\ worker[w] = "looks"
    /\ \/ /\ tasks # <<>>
          /\ worker' = [worker EXCEPT ![w] = "runs"]
          /\ running' = [running EXCEPT ![w] = Head(tasks)]
          /\ tasks' = Tail(tasks)
       \/ /\ tasks = <<>>
          /\ worker' = [worker EXCEPT ![w] = IF stopping THEN "gone" ELSE "asleep"]
          /\ UNCHANGED <<tasks, running>>
    /\ UNCHANGED <<done, stopping>>

\* Mistaken variant: a task's future is not made ready.
RunAndForget(w) ==
    /\ worker[w] = "runs"
    /\ worker' = [worker EXCEPT ![w] = "looks"]
    /\ running' = [running EXCEPT ![w] = NoTask]
    /\ UNCHANGED <<tasks, done, stopping>>

\* The task runs, which makes its future ready.
Run(w) ==
    /\ worker[w] = "runs"
    /\ done' = done \cup {running[w]}
    /\ worker' = [worker EXCEPT ![w] = "looks"]
    /\ running' = [running EXCEPT ![w] = NoTask]
    /\ UNCHANGED <<tasks, stopping>>

\* A wait may end without a notification; the predicate is looked at again.
WakeSpuriously(w) ==
    /\ worker[w] = "asleep"
    /\ worker' = [worker EXCEPT ![w] = "looks"]
    /\ UNCHANGED <<tasks, running, done, stopping>>

---------------------------------------------------------------------------
PoolTypeOK ==
    /\ tasks \in Seq(Tasks)
    /\ worker \in [Workers -> {"looks", "asleep", "runs", "gone"}]
    /\ running \in [Workers -> Tasks \cup {NoTask}]
    /\ done \subseteq Tasks
    /\ stopping \in BOOLEAN

PoolIsQuiet == tasks = <<>> /\ Those("runs") = {}
=============================================================================

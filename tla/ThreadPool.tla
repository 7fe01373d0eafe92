------------------------------ MODULE ThreadPool ------------------------------
(***************************************************************************)
(* The thread pool of 11_join_server (thread_pool.hpp) with its queue      *)
(* (thread_safe_queue.hpp); 09_async and 10_bulk_server have the same one  *)
(* in utils/thread_pool.hpp.                                               *)
(*                                                                         *)
(* TThreadSafeQueue touches its std::queue only under Mutex, and neither   *)
(* Push nor Pop leaves Mutex in the middle except to sleep on the          *)
(* condition variable, so one critical section is one action.  A worker    *)
(* thread is                                                               *)
(*   "ready"      about to run (or to re-run, once notified) the body of   *)
(*                Pop: the predicate is evaluated and the front is taken;  *)
(*   "asleep"     in ConditionVariable.wait;                               *)
(*   "executing"  between the Pop of a task and the end of its handler;    *)
(*   "returned"   out of its loop, joinable.                               *)
(***************************************************************************)
EXTENDS Naturals, Sequences, FiniteSets

CONSTANTS Capacity,     \* number of worker threads
          Tasks,        \* the tasks callers may hand to Enqueue
          Termination   \* the queue entry of kind EKind::Terminate

ASSUME CapacityAssumption == Capacity \in Nat \ {0}
ASSUME TerminationAssumption == Termination \notin Tasks

VARIABLES queue,        \* TThreadSafeQueue::Queue
          thread,       \* where each worker thread is
          task,         \* the loop variable `task` of each worker
          enqueued,     \* tasks for which Enqueue has returned a future
          fulfilled,    \* tasks whose promise has been set
          owner,        \* the thread that owns the pool: "alive", then in the
                        \* destructor "terminating", "joining", "destroyed"
          counter       \* the loop counter i of the destructor

vars == <<queue, thread, task, enqueued, fulfilled, owner, counter>>

Workers == 0 .. Capacity - 1

Init ==
    /\ queue = << >>
    /\ thread = [w \in Workers |-> "ready"]
    /\ task = [w \in Workers |-> Termination]
    /\ enqueued = {}
    /\ fulfilled = {}
    /\ owner = "alive"
    /\ counter = 0

-------------------------------------------------------------------------------
(* The queue *)

\* Mutant: notify only when the queue was empty, "somebody is awake already".
NotifyIfEmpty ==
    LET asleep == {w \in Workers : thread[w] = "asleep"}
    IN  IF asleep = {} \/ queue # << >>
        THEN UNCHANGED thread
        ELSE \E w \in asleep : thread' = [thread EXCEPT ![w] = "ready"]

\* notify_one: wakes one sleeping worker, whichever, or nobody if none sleeps.
NotifyOne ==
    LET asleep == {w \in Workers : thread[w] = "asleep"}
    IN  IF asleep = {} THEN UNCHANGED thread
                       ELSE \E w \in asleep : thread' = [thread EXCEPT ![w] = "ready"]

Push(item) ==
    /\ queue' = Append(queue, item)
    /\ NotifyOne

\* The predicate of wait is false: release the mutex and sleep.
Sleep(w) ==
    /\ thread[w] = "ready"
    /\ queue = << >>
    /\ thread' = [thread EXCEPT ![w] = "asleep"]
    /\ UNCHANGED <<queue, task, enqueued, fulfilled, owner, counter>>

\* wait may return without a notification; the predicate is evaluated again.
SpuriousWakeup(w) ==
    /\ thread[w] = "asleep"
    /\ thread' = [thread EXCEPT ![w] = "ready"]
    /\ UNCHANGED <<queue, task, enqueued, fulfilled, owner, counter>>

\* Mutant: the entry is read and not popped.
TakeFront(w) ==
    /\ thread[w] = "ready"
    /\ queue # << >>
    /\ task' = [task EXCEPT ![w] = Head(queue)]
    /\ thread' = [thread EXCEPT ![w] =
                    IF Head(queue) = Termination THEN "returned" ELSE "executing"]
    /\ UNCHANGED <<queue, enqueued, fulfilled, owner, counter>>

\* Mutant: the entries are taken from the other end.
TakeBack(w) ==
    LET last == queue[Len(queue)]
    IN  /\ thread[w] = "ready"
        /\ queue # << >>
        /\ queue' = SubSeq(queue, 1, Len(queue) - 1)
        /\ task' = [task EXCEPT ![w] = last]
        /\ thread' = [thread EXCEPT ![w] =
                        IF last = Termination THEN "returned" ELSE "executing"]
        /\ UNCHANGED <<enqueued, fulfilled, owner, counter>>

\* The rest of Pop, and the switch of the worker loop on the kind of the task.
Take(w) ==
    /\ thread[w] = "ready"
    /\ queue # << >>
    /\ queue' = Tail(queue)
    /\ task' = [task EXCEPT ![w] = Head(queue)]
    /\ thread' = [thread EXCEPT ![w] =
                    IF Head(queue) = Termination THEN "returned" ELSE "executing"]
    /\ UNCHANGED <<enqueued, fulfilled, owner, counter>>

\* The handler has returned: the promise is set and the loop goes on.
Fulfil(w) ==
    /\ thread[w] = "executing"
    /\ fulfilled' = fulfilled \union {task[w]}
    /\ thread' = [thread EXCEPT ![w] = "ready"]
    /\ UNCHANGED <<queue, task, enqueued, owner, counter>>

-------------------------------------------------------------------------------
(* The callers and the owner *)

Enqueue(t) ==
    /\ owner = "alive"
    /\ t \notin enqueued
    /\ enqueued' = enqueued \union {t}
    /\ Push(t)
    /\ UNCHANGED <<task, fulfilled, owner, counter>>

\* ~TThreadPool begins; no other thread may use the pool from here on.
BeginDestruction ==
    /\ owner = "alive"
    /\ owner' = "terminating"
    /\ UNCHANGED <<queue, thread, task, enqueued, fulfilled, counter>>

\* Mutant: the Terminations overtake the tasks that wait.
PushUrgentTermination ==
    /\ owner = "terminating"
    /\ counter < Capacity
    /\ queue' = <<Termination>> \o queue
    /\ NotifyOne
    /\ counter' = counter + 1
    /\ UNCHANGED <<task, enqueued, fulfilled, owner>>

\* First loop of the destructor: one Termination per thread.
PushTermination ==
    /\ owner = "terminating"
    /\ counter < Capacity
    /\ Push(Termination)
    /\ counter' = counter + 1
    /\ UNCHANGED <<task, enqueued, fulfilled, owner>>

EndTerminations ==
    /\ owner = "terminating"
    /\ counter = Capacity
    /\ owner' = "joining"
    /\ counter' = 0
    /\ UNCHANGED <<queue, thread, task, enqueued, fulfilled>>

\* Second loop: Threads[i].join() for i = 0, 1, ...
Join ==
    /\ owner = "joining"
    /\ counter < Capacity
    /\ thread[counter] = "returned"
    /\ counter' = counter + 1
    /\ UNCHANGED <<queue, thread, task, enqueued, fulfilled, owner>>

EndDestruction ==
    /\ owner = "joining"
    /\ counter = Capacity
    /\ owner' = "destroyed"
    /\ UNCHANGED <<queue, thread, task, enqueued, fulfilled, counter>>

Destructor == PushTermination \/ EndTerminations \/ Join \/ EndDestruction

Worker(w) == Sleep(w) \/ Take(w) \/ Fulfil(w)

Next ==
    \/ \E w \in Workers : Worker(w) \/ SpuriousWakeup(w)
    \/ \E t \in Tasks : Enqueue(t)
    \/ BeginDestruction
    \/ Destructor

\* Running threads are scheduled; that a caller enqueues anything, that the
\* pool is destroyed or that a spurious wake-up occurs is nowhere promised.
Fairness ==
    /\ \A w \in Workers : WF_vars(Worker(w))
    /\ WF_vars(Destructor)

Spec == Init /\ [][Next]_vars /\ Fairness

-------------------------------------------------------------------------------
(* Properties *)

ThreadStates == {"ready", "asleep", "executing", "returned"}
OwnerStates == {"alive", "terminating", "joining", "destroyed"}

TypeOK ==
    /\ queue \in Seq(Tasks \union {Termination})
    /\ thread \in [Workers -> ThreadStates]
    /\ task \in [Workers -> Tasks \union {Termination}]
    /\ enqueued \in SUBSET Tasks
    /\ fulfilled \in SUBSET Tasks
    /\ owner \in OwnerStates
    /\ counter \in 0 .. Capacity
    /\ \A w \in Workers : thread[w] = "executing" => task[w] # Termination

Asleep == {w \in Workers : thread[w] = "asleep"}
Ready == {w \in Workers : thread[w] = "ready"}
Executing == {task[w] : w \in {v \in Workers : thread[v] = "executing"}}
Queued == {queue[i] : i \in DOMAIN queue} \ {Termination}

\* No wake-up is lost: while some worker sleeps, there are at least as many
\* workers on their way to the queue as there are entries in it.  Push notifies
\* one thread only, so an entry pushed between the predicate and the sleep of a
\* worker, or a notification spent on a busy worker, would strand a task.
NoLostWakeup ==
    Asleep # {} => Len(queue) <= Cardinality(Ready)

\* A task that was enqueued is in exactly one of three places: once in the
\* queue, in the hands of one worker, or done.  It never runs twice.
TaskInOnePlace ==
    /\ enqueued = Queued \union Executing \union fulfilled
    /\ Queued \intersect Executing = {}
    /\ Queued \intersect fulfilled = {}
    /\ Executing \intersect fulfilled = {}
    /\ \A i, j \in DOMAIN queue :
          queue[i] = queue[j] /\ queue[i] # Termination => i = j
    /\ \A v, w \in Workers :
          thread[v] = "executing" /\ thread[w] = "executing" /\ task[v] = task[w] => v = w

\* The destructor drains: once it has joined the threads nothing it accepted is
\* left, even though it pushed its Terminations behind tasks still waiting.
DrainedWhenDestroyed ==
    owner = "destroyed" => queue = << >> /\ fulfilled = enqueued

\* The Terminations are the last entries of the queue, one for each thread that
\* has still to leave its loop, and a thread that has left it leaves no task
\* behind: the destructor may push them while tasks are still waiting.
Returned == {w \in Workers : thread[w] = "returned"}

TerminationsPushed ==
    IF owner = "alive" THEN 0
    ELSE IF owner = "terminating" THEN counter ELSE Capacity

TerminationsQueued == TerminationsPushed - Cardinality(Returned)

TerminationsLast ==
    /\ TerminationsQueued \in 0 .. Len(queue)
    /\ \A i \in DOMAIN queue :
          queue[i] = Termination <=> i > Len(queue) - TerminationsQueued
    /\ Returned # {} => Queued = {}

\* What the destructor has joined has returned; before it, counter is unused.
JoinedReturned ==
    /\ owner = "alive" => counter = 0
    /\ owner = "joining" => \A w \in Workers : w < counter => thread[w] = "returned"
    /\ owner = "destroyed" => \A w \in Workers : thread[w] = "returned"

\* The tasks some worker will come to are those in front of the first Termination.
TasksAhead ==
    CHOOSE n \in 0 .. Len(queue) : /\ \A i \in 1 .. n : queue[i] # Termination
                                  /\ n < Len(queue) => queue[n + 1] = Termination

Waiting == SubSeq(queue, 1, TasksAhead)

PoolPhase ==
    CASE owner = "alive" -> "open"
      [] owner \in {"terminating", "joining"} -> "closing"
      [] owner = "destroyed" -> "destroyed"

Pool == INSTANCE TaskPool WITH
            pending <- Waiting,
            running <- Executing,
            finished <- fulfilled,
            phase <- PoolPhase

\* The pool implements TaskPool: order of submission, bound on parallelism,
\* each task once, drained before it is destroyed, and, by the fairness of
\* TaskPool, every future becomes ready and the destructor returns.
ImplementsTaskPool == Pool!PoolSpec
===============================================================================

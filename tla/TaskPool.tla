------------------------------- MODULE TaskPool -------------------------------
(***************************************************************************)
(* What a thread pool promises to the code that uses it, with nothing of   *)
(* how it does so: tasks start in the order in which they were submitted,  *)
(* at most Capacity at a time, each of them once; a pool that has been     *)
(* destroyed has run every task it ever accepted.                          *)
(*                                                                         *)
(* ThreadPool implements this specification; Database uses it in place of  *)
(* the queue, the condition variable and the threads.                      *)
(***************************************************************************)
EXTENDS Naturals, Sequences, FiniteSets

CONSTANTS Tasks,     \* the tasks that may be submitted
          Capacity   \* how many of them run at the same time

VARIABLES pending,   \* sequence of tasks accepted and not yet started
          running,   \* set of tasks being executed
          finished,  \* set of tasks whose future is ready
          phase      \* "open", then "closing" (no more tasks), then "destroyed"

poolVars == <<pending, running, finished, phase>>

Accepted == {pending[i] : i \in DOMAIN pending} \union running \union finished

PoolInit ==
    /\ pending = << >>
    /\ running = {}
    /\ finished = {}
    /\ phase = "open"

Submit(t) ==
    /\ phase = "open"
    /\ t \notin Accepted
    /\ pending' = Append(pending, t)
    /\ UNCHANGED <<running, finished, phase>>

Start ==
    /\ pending # << >>
    /\ Cardinality(running) < Capacity
    /\ pending' = Tail(pending)
    /\ running' = running \union {Head(pending)}
    /\ UNCHANGED <<finished, phase>>

Finish(t) ==
    /\ t \in running
    /\ running' = running \ {t}
    /\ finished' = finished \union {t}
    /\ UNCHANGED <<pending, phase>>

Close ==
    /\ phase = "open"
    /\ phase' = "closing"
    /\ UNCHANGED <<pending, running, finished>>

Destroy ==
    /\ phase = "closing"
    /\ pending = << >>
    /\ running = {}
    /\ phase' = "destroyed"
    /\ UNCHANGED <<pending, running, finished>>

PoolNext ==
    \/ \E t \in Tasks : Submit(t) \/ Finish(t)
    \/ Start
    \/ Close
    \/ Destroy

PoolFairness ==
    /\ WF_poolVars(Start)
    /\ \A t \in Tasks : WF_poolVars(Finish(t))
    /\ WF_poolVars(Destroy)

PoolSafety == PoolInit /\ [][PoolNext]_poolVars

PoolSpec == PoolSafety /\ PoolFairness
===============================================================================

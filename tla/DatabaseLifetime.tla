--------------------------- MODULE DatabaseLifetime ---------------------------
(***************************************************************************)
(* Who keeps a TDatabase of 11_join_server alive, and which thread destroys*)
(* it (database.hpp, thread_pool.hpp).  Everything else is Database.       *)
(*                                                                         *)
(* The closure of a task holds `self`, a shared_ptr to the database, whose *)
(* pool holds the queue of closures.  A worker destroys the closure when   *)
(* its loop comes round, after the status has been pushed and the promise  *)
(* set.  Whoever drops the last reference runs ~TDatabase and with it      *)
(* ~TThreadPool, which joins all workers: a worker would join itself.      *)
(***************************************************************************)
EXTENDS Database

VARIABLES
    owner,      \* a shared_ptr outside the tasks is left (server, session, test)
    patient,    \* the owner has left when all it had asked for was answered
    returned,   \* tasks that have returned and whose closure still exists
    destroyer,  \* who runs ~TThreadPool: "nobody", "owner" or "worker"
    process     \* "up", or "terminated" by the exception of a self-join

lifetimeVars == <<owner, patient, returned, destroyer, process>>
allVars == <<vars, lifetimeVars>>

LifetimeInit ==
    /\ Init
    /\ owner = TRUE
    /\ patient = FALSE
    /\ returned = {}
    /\ destroyer = "nobody"
    /\ process = "up"

\* Mutant: the closures in the queue hold no reference.
StartedReferences == running \union returned

\* The tasks whose closure exists, each with a reference.
References == {pending[i] : i \in DOMAIN pending} \union running \union returned

\* HandleCommand is called through a reference.
Issue(r) ==
    /\ owner
    /\ HandleCommand(r)
    /\ UNCHANGED lifetimeVars

\* A thread takes the next task once it is rid of the closure of the last one.
Take ==
    /\ Cardinality(running \union returned) < PoolCapacity
    /\ StartTask
    /\ UNCHANGED lifetimeVars

Run(r) ==
    /\ Task(r)
    /\ returned' = IF pc'[r] = "done" THEN returned \union {r} ELSE returned
    /\ UNCHANGED <<owner, patient, destroyer, process>>

\* ~TDatabase, as far as the Terminates of ~TThreadPool, if the reference that
\* `who` drops is the last one.
DropReference(who, last) ==
    IF last
    THEN /\ Pool!Close
         /\ destroyer' = who
    ELSE UNCHANGED <<poolVars, destroyer>>

DropOwner ==
    /\ owner
    /\ owner' = FALSE
    /\ patient' = \A r \in Requests : pc[r] \in {"idle", "done"}
    /\ DropReference("owner", References = {})
    /\ UNCHANGED <<asserts, cmd, pc, tx, txCounter, created, versions, todo, pass, held, out,
                   aborted, before, returned, process>>

\* Mutant: the closure is kept until the worker takes another task.
DropTaskLate(r) ==
    /\ r \in returned
    /\ pending # << >>
    /\ returned' = returned \ {r}
    /\ DropReference("worker", ~owner /\ References = {r})
    /\ UNCHANGED <<asserts, cmd, pc, tx, txCounter, created, versions, todo, pass, held, out,
                   aborted, before, owner, patient, process>>

\* The end of an iteration of the worker: `task` goes out of scope.
DropTask(r) ==
    /\ r \in returned
    /\ returned' = returned \ {r}
    /\ DropReference("worker", ~owner /\ References = {r})
    /\ UNCHANGED <<asserts, cmd, pc, tx, txCounter, created, versions, todo, pass, held, out,
                   aborted, before, owner, patient, process>>

\* The joins of ~TThreadPool: the owner waits for the workers, which all come
\* to their Terminate; a worker comes to its own thread, join() throws
\* resource_deadlock_would_occur out of a destructor: std::terminate.
JoinThreads ==
    \/ /\ destroyer = "owner"
       /\ Pool!Destroy
       /\ UNCHANGED <<asserts, cmd, pc, tx, txCounter, created, versions, todo, pass, held,
                      out, aborted, before, lifetimeVars>>
    \/ /\ destroyer = "worker"
       /\ process = "up"
       /\ process' = "terminated"
       /\ UNCHANGED <<vars, owner, patient, returned, destroyer>>

\* The database is gone, or has answered what it was asked and is kept.
AtRest ==
    /\ \/ phase = "destroyed"
       \/ process = "terminated" \/ aborted
       \/ owner /\ returned = {} /\ \A r \in Requests : pc[r] = "done"
    /\ UNCHANGED allVars

LifetimeNext ==
    \/ /\ ~aborted
       /\ \/ \E r \in Requests : Issue(r) \/ Run(r) \/ DropTask(r)
          \/ Take
          \/ DropOwner
          \/ JoinThreads
    \/ AtRest

\* The workers and the thread in the destructor are scheduled; an owner need
\* not ask for anything, and need not leave.
LifetimeSpec ==
    /\ LifetimeInit
    /\ [][LifetimeNext]_allVars
    /\ WF_allVars(~aborted /\ Take)
    /\ WF_allVars(~aborted /\ JoinThreads)
    /\ \A r \in Requests : /\ WF_allVars(~aborted /\ Run(r))
                           /\ WF_allVars(~aborted /\ DropTask(r))

-------------------------------------------------------------------------------
(* Properties *)

\* Nobody destroys the database under a task that is queued or running (`self`
\* in the closures of database.cpp), nor under one that has only pushed its
\* status, however early the owner leaves.
NoTaskOutlivesDatabase ==
    phase # "open" => ~owner /\ References = {}

\* Closures hold the database and the database holds the queue of closures: the
\* cycle is always undone, and once the owner has left the database does not
\* stay for ever.
NothingLeaks ==
    ~owner ~> phase = "destroyed" \/ process = "terminated" \/ aborted

\* TEST(TDatabase, Test) (tests.cpp) lets its database go as soon as it has
\* popped "the final status of an operation", and expects to end.
PatientOwnerEnds == patient => process = "up"
===============================================================================

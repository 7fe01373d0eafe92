--------------------------- MODULE ThreadPoolProofs ---------------------------
(***************************************************************************)
(* Theorems about ThreadPool, for every number of worker threads and every *)
(* set of tasks.                                                           *)
(***************************************************************************)
EXTENDS ThreadPool, FiniteSetTheorems, SequenceTheorems, TLAPS

LEMMA WorkersFinite ==
    /\ IsFiniteSet(Workers)
    /\ Cardinality(Workers) = Capacity
    /\ Workers # {}
  <1>1. 0 \in Int /\ Capacity - 1 \in Int /\ 0 <= Capacity - 1
    BY CapacityAssumption
  <1>2. IsFiniteSet(Workers) /\ Cardinality(Workers) = Capacity
    BY <1>1, CapacityAssumption, FS_Interval DEF Workers
  <1>3. 0 \in Workers
    BY <1>1 DEF Workers
  <1> QED
    BY <1>2, <1>3

LEMMA ThreadSetsFinite ==
    /\ IsFiniteSet(Ready) /\ Cardinality(Ready) \in Nat
    /\ IsFiniteSet(Returned) /\ Cardinality(Returned) \in Nat
    /\ Cardinality(Returned) <= Capacity
  <1>1. Ready \in SUBSET Workers /\ Returned \in SUBSET Workers
    BY DEF Ready, Returned
  <1> QED
    BY <1>1, WorkersFinite, FS_Subset, FS_CardinalityType

-------------------------------------------------------------------------------
(* Type correctness *)

LEMMA TypeInit == Init => TypeOK
  BY EmptySeq, CapacityAssumption
  DEF Init, TypeOK, ThreadStates, OwnerStates

\* Push appends an entry and at most readies one sleeping worker.
LEMMA PushTypes ==
    ASSUME TypeOK, NEW item \in Tasks \union {Termination}, Push(item)
    PROVE  /\ queue' \in Seq(Tasks \union {Termination})
           /\ thread' \in [Workers -> ThreadStates]
  <1>1. queue' \in Seq(Tasks \union {Termination})
    BY AppendProperties DEF Push, TypeOK
  <1>2. thread' \in [Workers -> ThreadStates]
    BY DEF Push, NotifyOne, TypeOK, ThreadStates
  <1> QED
    BY <1>1, <1>2

LEMMA PushExecutes ==
    ASSUME TypeOK, NEW item, Push(item)
    PROVE  \A w \in Workers : thread'[w] = "executing" <=> thread[w] = "executing"
  BY DEF Push, NotifyOne, TypeOK

LEMMA TypeStep == TypeOK /\ [Next]_vars => TypeOK'
  <1> SUFFICES ASSUME TypeOK, [Next]_vars PROVE TypeOK'
    OBVIOUS
  <1>1. ASSUME NEW w \in Workers, Sleep(w) PROVE TypeOK'
    BY <1>1 DEF Sleep, TypeOK, ThreadStates
  <1>2. ASSUME NEW w \in Workers, SpuriousWakeup(w) PROVE TypeOK'
    BY <1>2 DEF SpuriousWakeup, TypeOK, ThreadStates
  <1>3. ASSUME NEW w \in Workers, Take(w) PROVE TypeOK'
    <2>1. /\ Head(queue) \in Tasks \union {Termination}
          /\ Tail(queue) \in Seq(Tasks \union {Termination})
      BY <1>3, HeadTailProperties DEF Take, TypeOK
    <2>2. /\ queue' \in Seq(Tasks \union {Termination})
          /\ task' \in [Workers -> Tasks \union {Termination}]
      BY <1>3, <2>1 DEF Take, TypeOK
    <2>3. thread' \in [Workers -> ThreadStates]
      BY <1>3 DEF Take, TypeOK, ThreadStates
    <2> QED
      BY <1>3, <2>2, <2>3 DEF Take, TypeOK
  <1>4. ASSUME NEW w \in Workers, Fulfil(w) PROVE TypeOK'
    BY <1>4 DEF Fulfil, TypeOK, ThreadStates
  <1>5. ASSUME NEW t \in Tasks, Enqueue(t) PROVE TypeOK'
    <2>1. Push(t)
      BY <1>5 DEF Enqueue
    <2> QED
      BY <1>5, <2>1, PushTypes, PushExecutes DEF Enqueue, TypeOK
  <1>6. CASE BeginDestruction
    BY <1>6 DEF BeginDestruction, TypeOK, OwnerStates
  <1>7. CASE PushTermination
    <2>1. Push(Termination)
      BY <1>7 DEF PushTermination
    <2>2. counter' \in 0 .. Capacity
      BY <1>7, CapacityAssumption DEF PushTermination, TypeOK
    <2> QED
      BY <1>7, <2>1, <2>2, PushTypes, PushExecutes DEF PushTermination, TypeOK
  <1>8. CASE EndTerminations
    BY <1>8, CapacityAssumption DEF EndTerminations, TypeOK, OwnerStates
  <1>9. CASE Join
    BY <1>9, CapacityAssumption DEF Join, TypeOK
  <1>10. CASE EndDestruction
    BY <1>10 DEF EndDestruction, TypeOK, OwnerStates
  <1>11. CASE UNCHANGED vars
    BY <1>11 DEF vars, TypeOK
  <1> QED
    BY <1>1, <1>2, <1>3, <1>4, <1>5, <1>6, <1>7, <1>8, <1>9, <1>10, <1>11
    DEF Next, Worker, Destructor

\* The program variables of the pool keep their types.
THEOREM TypeCorrect == Spec => []TypeOK
  BY TypeInit, TypeStep, PTL DEF Spec

-------------------------------------------------------------------------------
(* No wake-up is lost *)

LEMMA WakeupStep == TypeOK /\ NoLostWakeup /\ [Next]_vars => NoLostWakeup'
  <1> SUFFICES ASSUME TypeOK, NoLostWakeup, [Next]_vars, Asleep' # {}
               PROVE  Len(queue)' <= Cardinality(Ready)'
    BY DEF NoLostWakeup
  <1>0. /\ IsFiniteSet(Ready) /\ Cardinality(Ready) \in Nat
        /\ Len(queue) \in Nat
    BY ThreadSetsFinite, LenProperties DEF TypeOK
  <1>1. ASSUME NEW w \in Workers, Sleep(w)
        PROVE  Len(queue)' <= Cardinality(Ready)'
    <2>1. Len(queue)' = 0
      BY <1>1, EmptySeq DEF Sleep
    <2>2. Ready' = Ready \ {w}
      BY <1>1 DEF Sleep, TypeOK, Ready
    <2>3. Cardinality(Ready') \in Nat
      BY <1>0, <2>2, FS_RemoveElement, FS_CardinalityType
    <2> QED
      BY <2>1, <2>3
  <1>2. ASSUME NEW w \in Workers, SpuriousWakeup(w)
        PROVE  Len(queue)' <= Cardinality(Ready)'
    <2>1. w \in Asleep /\ w \notin Ready
      BY <1>2 DEF SpuriousWakeup, Asleep, Ready
    <2>2. Ready' = Ready \union {w}
      BY <1>2 DEF SpuriousWakeup, TypeOK, Ready
    <2>3. Cardinality(Ready') = Cardinality(Ready) + 1
      BY <1>0, <2>1, <2>2, FS_AddElement
    <2> QED
      BY <1>0, <1>2, <2>1, <2>3 DEF SpuriousWakeup, NoLostWakeup
  <1>3. ASSUME NEW w \in Workers, Take(w)
        PROVE  Len(queue)' <= Cardinality(Ready)'
    <2>1. Asleep' = Asleep /\ Ready' = Ready \ {w} /\ w \in Ready
      BY <1>3 DEF Take, TypeOK, Asleep, Ready
    <2>2. Cardinality(Ready') = Cardinality(Ready) - 1
      BY <1>0, <2>1, FS_RemoveElement
    <2>3. Len(queue') = Len(queue) - 1
      BY <1>3, HeadTailProperties DEF Take, TypeOK
    <2> QED
      BY <1>0, <2>1, <2>2, <2>3 DEF NoLostWakeup
  <1>4. ASSUME NEW w \in Workers, Fulfil(w)
        PROVE  Len(queue)' <= Cardinality(Ready)'
    <2>1. Asleep' = Asleep /\ Ready' = Ready \union {w} /\ w \notin Ready
      BY <1>4 DEF Fulfil, TypeOK, Asleep, Ready
    <2>2. Cardinality(Ready') = Cardinality(Ready) + 1
      BY <1>0, <2>1, FS_AddElement
    <2> QED
      BY <1>0, <1>4, <2>1, <2>2 DEF Fulfil, NoLostWakeup
  <1>5. ASSUME NEW item \in Tasks \union {Termination}, Push(item)
        PROVE  Len(queue)' <= Cardinality(Ready)'
    <2>1. Asleep # {}
      BY <1>5 DEF Push, NotifyOne, Asleep
    <2>2. PICK w \in Asleep : thread' = [thread EXCEPT ![w] = "ready"]
      BY <1>5, <2>1 DEF Push, NotifyOne, Asleep
    <2>3. Ready' = Ready \union {w} /\ w \notin Ready
      BY <2>2 DEF TypeOK, Asleep, Ready
    <2>4. Cardinality(Ready') = Cardinality(Ready) + 1
      BY <1>0, <2>3, FS_AddElement
    <2>5. Len(queue') = Len(queue) + 1
      BY <1>5, AppendProperties DEF Push, TypeOK
    <2> QED
      BY <1>0, <2>1, <2>4, <2>5 DEF NoLostWakeup
  <1>6. CASE UNCHANGED <<queue, thread>>
    <2>1. Asleep' = Asleep /\ Ready' = Ready
      BY <1>6 DEF Asleep, Ready
    <2> QED
      BY <1>6, <2>1 DEF NoLostWakeup
  <1> QED
    BY <1>1, <1>2, <1>3, <1>4, <1>5, <1>6
    DEF Next, Worker, Destructor, Enqueue, BeginDestruction, PushTermination,
        EndTerminations, Join, EndDestruction, vars

\* The workers on their way to the queue are enough for its entries whenever
\* some worker sleeps: notify_one under the mutex loses no wake-up.
THEOREM NoLostWakeupCorrect == Spec => []NoLostWakeup
  <1>1. Init => NoLostWakeup
    BY DEF Init, NoLostWakeup, Asleep
  <1> QED
    BY <1>1, TypeCorrect, WakeupStep, PTL DEF Spec

-------------------------------------------------------------------------------
(* The Terminations stay behind the tasks *)

\* A Push readies a worker that slept: nothing else changes about the threads.
LEMMA PushReturned ==
    ASSUME TypeOK, NEW item, Push(item)
    PROVE  Returned' = Returned
  BY DEF Push, NotifyOne, TypeOK, Returned

LEMMA TerminationsStep ==
    TypeOK /\ TerminationsLast /\ JoinedReturned /\ [Next]_vars => TerminationsLast'
  <1> SUFFICES ASSUME TypeOK, TerminationsLast, JoinedReturned, [Next]_vars
               PROVE  TerminationsLast'
    OBVIOUS
  <1> DEFINE N == TerminationsQueued
  <1>0. /\ IsFiniteSet(Returned) /\ Cardinality(Returned) \in Nat
        /\ Len(queue) \in Nat /\ DOMAIN queue = 1 .. Len(queue)
        /\ TerminationsPushed \in Int /\ N \in 0 .. Len(queue)
        /\ N = TerminationsPushed - Cardinality(Returned)
    BY ThreadSetsFinite, LenProperties, CapacityAssumption
    DEF TypeOK, OwnerStates, TerminationsPushed, TerminationsQueued, TerminationsLast
  <1>N. \A i \in 1 .. Len(queue) : queue[i] = Termination <=> i > Len(queue) - N
    BY <1>0 DEF TerminationsLast
  <1>1. ASSUME UNCHANGED queue, Returned' = Returned,
               TerminationsPushed' = TerminationsPushed
        PROVE  TerminationsLast'
    BY <1>1 DEF TerminationsLast, TerminationsQueued, Queued
  <1>2. ASSUME NEW w \in Workers, Sleep(w) \/ SpuriousWakeup(w) \/ Fulfil(w)
        PROVE  TerminationsLast'
    <2>1. Returned' = Returned
      BY <1>2 DEF Sleep, SpuriousWakeup, Fulfil, TypeOK, Returned
    <2>2. UNCHANGED <<queue, owner, counter>>
      BY <1>2 DEF Sleep, SpuriousWakeup, Fulfil
    <2> QED
      BY <1>1, <2>1, <2>2 DEF TerminationsPushed
  <1>3. ASSUME NEW w \in Workers, Take(w) PROVE TerminationsLast'
    <2>1. /\ Len(queue') = Len(queue) - 1
          /\ queue' \in Seq(Tasks \union {Termination})
          /\ \A i \in 1 .. Len(queue') : queue'[i] = queue[i + 1]
      BY <1>3, HeadTailProperties DEF Take, TypeOK
    <2>2. Len(queue') \in Nat /\ DOMAIN queue' = 1 .. Len(queue') /\ 1 \in DOMAIN queue
      BY <1>0, <2>1, LenProperties
    <2>3. Head(queue) = queue[1]
      BY <1>3 DEF Take
    <2>4. TerminationsPushed' = TerminationsPushed
      BY <1>3 DEF Take, TerminationsPushed
    <2>5. w \notin Returned
      BY <1>3 DEF Take, Returned
    <2>6. CASE Head(queue) = Termination
      <3>1. N = Len(queue)
        BY <1>0, <2>2, <2>3, <2>6 DEF TerminationsLast
      <3>2. Returned' = Returned \union {w}
        BY <1>3, <2>6 DEF Take, TypeOK, Returned
      <3>3. TerminationsQueued' = N - 1
        <4>1. Cardinality(Returned \union {w}) = Cardinality(Returned) + 1
          BY <1>0, <2>5, FS_AddElement
        <4> QED
          BY <1>0, <2>4, <3>2, <4>1 DEF TerminationsQueued
      <3>4. \A i \in DOMAIN queue' : queue'[i] = Termination
        BY <1>0, <1>N, <2>1, <2>2, <3>1
      <3>5. Queued' = {}
        BY <3>4 DEF Queued
      <3> QED
        BY <1>0, <2>1, <2>2, <3>1, <3>3, <3>4, <3>5 DEF TerminationsLast
    <2>7. CASE Head(queue) # Termination
      <3>1. Returned' = Returned
        BY <1>3, <2>7 DEF Take, TypeOK, Returned
      <3>2. TerminationsQueued' = N
        BY <2>4, <3>1 DEF TerminationsQueued
      <3>3. N <= Len(queue) - 1
        BY <1>0, <2>2, <2>3, <2>7 DEF TerminationsLast
      <3>4. \A i \in DOMAIN queue' :
               queue'[i] = Termination <=> i > Len(queue') - N
        <4> TAKE i \in DOMAIN queue'
        <4>1. i \in 1 .. Len(queue) - 1 /\ i + 1 \in 1 .. Len(queue)
          BY <1>0, <2>1, <2>2
        <4>2. queue'[i] = queue[i + 1]
          BY <2>1, <4>1
        <4>3. queue[i + 1] = Termination <=> i + 1 > Len(queue) - N
          BY <1>N, <4>1
        <4>4. i + 1 > Len(queue) - N <=> i > Len(queue') - N
          <5>1. i \in Int /\ N \in Int /\ Len(queue) \in Int /\ Len(queue') = Len(queue) - 1
            BY <1>0, <2>1, <4>1
          <5> QED
            BY <5>1
        <4> QED
          BY <4>2, <4>3, <4>4
      <3>5. Returned = {}
        BY <2>2, <2>3, <2>7 DEF TerminationsLast, Queued
      <3> QED
        BY <1>0, <2>1, <2>2, <3>1, <3>2, <3>3, <3>4, <3>5 DEF TerminationsLast
    <2> QED
      BY <2>6, <2>7
  <1>4. ASSUME NEW t \in Tasks, Enqueue(t) PROVE TerminationsLast'
    <2>1. Push(t) /\ owner = "alive" /\ owner' = "alive"
      BY <1>4 DEF Enqueue
    <2>2. TerminationsPushed = 0 /\ TerminationsPushed' = 0
      BY <2>1 DEF TerminationsPushed
    <2>3. N = 0 /\ Cardinality(Returned) = 0
      BY <1>0, <2>2
    <2>4. Returned = {} /\ Returned' = {}
      BY <1>0, <2>1, <2>3, FS_EmptySet, PushReturned
    <2>5. TerminationsQueued' = 0
      BY <2>2, <2>4, FS_EmptySet DEF TerminationsQueued
    <2>6. /\ Len(queue') = Len(queue) + 1
          /\ queue' \in Seq(Tasks \union {Termination})
          /\ \A i \in 1 .. Len(queue) : queue'[i] = queue[i]
          /\ queue'[Len(queue) + 1] = t
      BY <2>1, AppendProperties DEF Push, TypeOK
    <2>7. DOMAIN queue' = 1 .. Len(queue) + 1
      BY <2>6, LenProperties
    <2>8. \A i \in DOMAIN queue' : queue'[i] # Termination
      BY <1>0, <2>3, <2>6, <2>7, TerminationAssumption DEF TerminationsLast
    <2> QED
      BY <1>0, <2>4, <2>5, <2>6, <2>7, <2>8 DEF TerminationsLast
  <1>5. CASE BeginDestruction
    <2>1. counter = 0 => TerminationsPushed' = TerminationsPushed
      BY <1>5 DEF BeginDestruction, TerminationsPushed
    <2> QED
      BY <1>1, <1>5, <2>1 DEF BeginDestruction, Returned, JoinedReturned
  <1>6. CASE PushTermination
    <2>1. Push(Termination) /\ owner = "terminating" /\ UNCHANGED owner
      BY <1>6 DEF PushTermination
    <2>2. TerminationsPushed' = TerminationsPushed + 1
      BY <1>6, <2>1 DEF PushTermination, TerminationsPushed
    <2>3. Returned' = Returned
      BY <2>1, PushReturned
    <2>4. TerminationsQueued' = N + 1
      BY <1>0, <2>2, <2>3 DEF TerminationsQueued
    <2>5. /\ Len(queue') = Len(queue) + 1
          /\ queue' \in Seq(Tasks \union {Termination})
          /\ \A i \in 1 .. Len(queue) : queue'[i] = queue[i]
          /\ queue'[Len(queue) + 1] = Termination
      BY <2>1, AppendProperties DEF Push, TypeOK
    <2>6. DOMAIN queue' = 1 .. Len(queue) + 1
      BY <2>5, LenProperties
    <2>7. \A i \in DOMAIN queue' :
             queue'[i] = Termination <=> i > Len(queue') - TerminationsQueued'
      BY <1>0, <2>4, <2>5, <2>6 DEF TerminationsLast
    <2>8. Queued' = Queued
      BY <1>0, <2>5, <2>6 DEF Queued
    <2> QED
      BY <1>0, <2>3, <2>4, <2>5, <2>7, <2>8 DEF TerminationsLast
  <1>7. CASE EndTerminations \/ Join \/ EndDestruction \/ UNCHANGED vars
    <2>1. UNCHANGED <<queue, thread>>
      BY <1>7 DEF EndTerminations, Join, EndDestruction, vars
    <2>2. TerminationsPushed' = TerminationsPushed
      BY <1>7 DEF EndTerminations, Join, EndDestruction, vars, TerminationsPushed
    <2> QED
      BY <1>1, <2>1, <2>2 DEF Returned
  <1> QED
    BY <1>2, <1>3, <1>4, <1>5, <1>6, <1>7 DEF Next, Worker, Destructor

LEMMA JoinedStep == TypeOK /\ JoinedReturned /\ [Next]_vars => JoinedReturned'
  <1> SUFFICES ASSUME TypeOK, JoinedReturned, [Next]_vars PROVE JoinedReturned'
    OBVIOUS
  <1>1. ASSUME NEW w \in Workers, Worker(w) \/ SpuriousWakeup(w)
        PROVE  JoinedReturned'
    BY <1>1 DEF Worker, Sleep, Take, Fulfil, SpuriousWakeup, TypeOK, JoinedReturned
  <1>2. ASSUME NEW t \in Tasks, Enqueue(t) PROVE JoinedReturned'
    BY <1>2 DEF Enqueue, JoinedReturned
  <1>3. CASE BeginDestruction \/ PushTermination
    BY <1>3 DEF BeginDestruction, PushTermination, JoinedReturned
  <1>4. CASE EndTerminations
    BY <1>4, CapacityAssumption DEF EndTerminations, JoinedReturned, Workers
  <1>5. CASE Join
    <2> SUFFICES ASSUME NEW w \in Workers, w < counter + 1
                 PROVE  thread[w] = "returned"
      BY <1>5 DEF Join, JoinedReturned
    <2>1. CASE w = counter
      BY <1>5, <2>1 DEF Join
    <2>2. CASE w # counter
      BY <1>5, <2>2, CapacityAssumption DEF Join, JoinedReturned, TypeOK, Workers
    <2> QED
      BY <2>1, <2>2
  <1>6. CASE EndDestruction
    BY <1>6, CapacityAssumption DEF EndDestruction, JoinedReturned, Workers
  <1>7. CASE UNCHANGED vars
    BY <1>7 DEF vars, JoinedReturned
  <1> QED
    BY <1>1, <1>2, <1>3, <1>4, <1>5, <1>6, <1>7 DEF Next, Destructor

LEMMA TerminationsInit == Init => TerminationsLast /\ JoinedReturned
  <1> SUFFICES ASSUME Init PROVE TerminationsLast /\ JoinedReturned
    OBVIOUS
  <1>1. Returned = {} /\ TerminationsPushed = 0
    BY DEF Init, Returned, TerminationsPushed
  <1>2. TerminationsQueued = 0
    BY <1>1, FS_EmptySet DEF TerminationsQueued
  <1>3. Len(queue) = 0 /\ DOMAIN queue = {}
    BY EmptySeq, LenProperties DEF Init
  <1> QED
    BY <1>1, <1>2, <1>3 DEF Init, TerminationsLast, JoinedReturned

\* The Terminations are the last entries of the queue, one for each thread that
\* has still to return, at any moment of a destruction.
THEOREM TerminationsLastCorrect == Spec => [](TerminationsLast /\ JoinedReturned)
  <1>1. TypeOK /\ (TerminationsLast /\ JoinedReturned) /\ [Next]_vars
        => (TerminationsLast /\ JoinedReturned)'
    BY TerminationsStep, JoinedStep
  <1> QED
    BY <1>1, TypeCorrect, TerminationsInit, PTL DEF Spec

-------------------------------------------------------------------------------
(* Every task is in one place *)

\* What a Push leaves of the threads, as far as tasks are concerned.
LEMMA PushExecuting ==
    ASSUME TypeOK, NEW item, Push(item), UNCHANGED task
    PROVE  Executing' = Executing
  BY PushExecutes DEF Executing

LEMMA PushQueued ==
    ASSUME TypeOK, NEW item \in Tasks \union {Termination}, Push(item)
    PROVE  /\ Queued' = Queued \union ({item} \ {Termination})
           /\ DOMAIN queue = 1 .. Len(queue)
           /\ DOMAIN queue' = 1 .. Len(queue) + 1
           /\ Len(queue) \in Nat
           /\ \A i \in 1 .. Len(queue) : queue'[i] = queue[i]
           /\ queue'[Len(queue) + 1] = item
  <1>1. /\ queue' \in Seq(Tasks \union {Termination})
        /\ Len(queue') = Len(queue) + 1
        /\ \A i \in 1 .. Len(queue) : queue'[i] = queue[i]
        /\ queue'[Len(queue) + 1] = item
    BY AppendProperties DEF Push, TypeOK
  <1>2. /\ DOMAIN queue = 1 .. Len(queue)
        /\ DOMAIN queue' = 1 .. Len(queue) + 1
        /\ Len(queue) \in Nat
    BY <1>1, LenProperties DEF TypeOK
  <1>3. Queued' = Queued \union ({item} \ {Termination})
    <2>1. \A i \in DOMAIN queue' : i \in DOMAIN queue \/ i = Len(queue) + 1
      BY <1>2
    <2>2. \A i \in DOMAIN queue : i \in DOMAIN queue'
      BY <1>2
    <2>3. Len(queue) + 1 \in DOMAIN queue'
      BY <1>2
    <2> QED
      BY <1>1, <1>2, <2>1, <2>2, <2>3 DEF Queued
  <1> QED
    BY <1>1, <1>2, <1>3

LEMMA PlaceStep == TypeOK /\ TaskInOnePlace /\ [Next]_vars => TaskInOnePlace'
  <1> SUFFICES ASSUME TypeOK, TaskInOnePlace, [Next]_vars PROVE TaskInOnePlace'
    OBVIOUS
  <1>1. ASSUME UNCHANGED <<queue, task, enqueued, fulfilled>>,
               \A w \in Workers : thread'[w] = "executing" <=> thread[w] = "executing"
        PROVE  TaskInOnePlace'
    <2>1. Queued' = Queued /\ Executing' = Executing
      BY <1>1 DEF Queued, Executing
    <2> QED
      BY <1>1, <2>1 DEF TaskInOnePlace
  <1>2. ASSUME NEW w \in Workers, Sleep(w) \/ SpuriousWakeup(w)
        PROVE  TaskInOnePlace'
    BY <1>1, <1>2 DEF Sleep, SpuriousWakeup, TypeOK
  <1>3. ASSUME NEW w \in Workers, Take(w) PROVE TaskInOnePlace'
    <2>1. /\ queue' \in Seq(Tasks \union {Termination})
          /\ Len(queue') = Len(queue) - 1
          /\ \A i \in 1 .. Len(queue') : queue'[i] = queue[i + 1]
      BY <1>3, HeadTailProperties DEF Take, TypeOK
    <2>2. /\ DOMAIN queue = 1 .. Len(queue)
          /\ DOMAIN queue' = 1 .. Len(queue) - 1
          /\ Len(queue) \in Nat /\ Len(queue') \in Nat
          /\ Head(queue) = queue[1]
      BY <1>3, <2>1, LenProperties DEF Take, TypeOK
    <2>3. 1 \in DOMAIN queue
      BY <2>1, <2>2
    <2>4. \A i \in DOMAIN queue' :
             i + 1 \in DOMAIN queue /\ i + 1 # 1 /\ queue'[i] = queue[i + 1]
      BY <2>1, <2>2
    <2>5. \A i \in DOMAIN queue : i # 1 => i - 1 \in DOMAIN queue' /\ queue'[i - 1] = queue[i]
      BY <2>1, <2>2
    <2>6. \A i, j \in DOMAIN queue' :
             queue'[i] = queue'[j] /\ queue'[i] # Termination => i = j
      <3> TAKE i, j \in DOMAIN queue'
      <3> HAVE queue'[i] = queue'[j] /\ queue'[i] # Termination
      <3>1. i + 1 = j + 1
        BY <2>4 DEF TaskInOnePlace
      <3> QED
        BY <2>2, <3>1
    <2>7. Queued' = Queued \ {Head(queue)}
      <3>1. ASSUME NEW x \in Queued' PROVE x \in Queued \ {Head(queue)}
        BY <2>2, <2>3, <2>4 DEF Queued, TaskInOnePlace
      <3>2. ASSUME NEW x \in Queued \ {Head(queue)} PROVE x \in Queued'
        BY <2>2, <2>5 DEF Queued
      <3> QED
        BY <3>1, <3>2
    <2>8. CASE Head(queue) = Termination
      <3>1. \A v \in Workers : thread'[v] = "executing" <=> thread[v] = "executing"
        BY <1>3, <2>8 DEF Take, TypeOK
      <3>2. \A v \in Workers : thread'[v] = "executing" => task'[v] = task[v]
        BY <1>3, <2>8 DEF Take, TypeOK
      <3>3. Executing' = Executing
        BY <3>1, <3>2 DEF Executing
      <3>4. Queued' = Queued
        BY <2>7, <2>8 DEF Queued
      <3> QED
        BY <1>3, <2>6, <3>1, <3>2, <3>3, <3>4 DEF TaskInOnePlace, Take
    <2>9. CASE Head(queue) # Termination
      <3>1. Head(queue) \in Queued
        BY <2>2, <2>3, <2>9 DEF Queued
      <3>2. \A v \in Workers :
               thread'[v] = "executing" <=> v = w \/ thread[v] = "executing"
        BY <1>3, <2>9 DEF Take, TypeOK
      <3>3. /\ task'[w] = Head(queue)
            /\ \A v \in Workers : v # w => task'[v] = task[v]
            /\ thread[w] # "executing"
        BY <1>3 DEF Take, TypeOK
      <3>4. Executing' = Executing \union {Head(queue)}
        BY <3>2, <3>3 DEF Executing
      <3>5. Head(queue) \notin Executing /\ Head(queue) \notin fulfilled
        BY <3>1 DEF TaskInOnePlace
      <3>6. \A v \in Workers : thread[v] = "executing" => task[v] # Head(queue)
        BY <3>5 DEF Executing
      <3>7. \A u, v \in Workers :
               thread'[u] = "executing" /\ thread'[v] = "executing" /\ task'[u] = task'[v]
               => u = v
        BY <3>2, <3>3, <3>6 DEF TaskInOnePlace
      <3>8. UNCHANGED <<enqueued, fulfilled>>
        BY <1>3 DEF Take
      <3> QED
        BY <2>6, <2>7, <3>1, <3>4, <3>5, <3>7, <3>8 DEF TaskInOnePlace
    <2> QED
      BY <2>8, <2>9
  <1>4. ASSUME NEW w \in Workers, Fulfil(w) PROVE TaskInOnePlace'
    <2>1. \A v \in Workers : thread'[v] = "executing" <=> v # w /\ thread[v] = "executing"
      BY <1>4 DEF Fulfil, TypeOK
    <2>2. UNCHANGED <<queue, task, enqueued>> /\ thread[w] = "executing"
          /\ fulfilled' = fulfilled \union {task[w]}
      BY <1>4 DEF Fulfil
    <2>3. Queued' = Queued
      BY <2>2 DEF Queued
    <2>4. task[w] \in Executing
      BY <2>2 DEF Executing
    <2>5. Executing' = Executing \ {task[w]}
      BY <2>1, <2>2 DEF Executing, TaskInOnePlace
    <2> QED
      BY <2>1, <2>2, <2>3, <2>4, <2>5 DEF TaskInOnePlace
  <1>5. ASSUME NEW t \in Tasks, Enqueue(t) PROVE TaskInOnePlace'
    <2>1. Push(t) /\ t \notin enqueued /\ enqueued' = enqueued \union {t}
          /\ UNCHANGED <<task, fulfilled>>
      BY <1>5 DEF Enqueue
    <2>2. Executing' = Executing
      BY <2>1, PushExecuting
    <2>3. Queued' = Queued \union {t}
      BY <2>1, PushQueued, TerminationAssumption
    <2>4. t \notin Queued /\ t \notin Executing /\ t \notin fulfilled
      BY <2>1 DEF TaskInOnePlace
    <2>5. \A i \in 1 .. Len(queue) : queue[i] # t
      BY <2>1, <2>4, PushQueued, TerminationAssumption DEF Queued
    <2>6. \A i, j \in DOMAIN queue' :
             queue'[i] = queue'[j] /\ queue'[i] # Termination => i = j
      <3>1. \A i \in DOMAIN queue' : i \in 1 .. Len(queue) \/ i = Len(queue) + 1
        BY <2>1, PushQueued
      <3> QED
        BY <2>1, <2>5, <3>1, PushQueued DEF TaskInOnePlace
    <2>7. \A w \in Workers : thread'[w] = "executing" <=> thread[w] = "executing"
      BY <2>1, PushExecutes
    <2> QED
      BY <2>1, <2>2, <2>3, <2>4, <2>6, <2>7 DEF TaskInOnePlace
  <1>6. CASE PushTermination
    <2>1. Push(Termination) /\ UNCHANGED <<task, fulfilled, enqueued>>
      BY <1>6 DEF PushTermination
    <2>2. Executing' = Executing
      BY <2>1, PushExecuting
    <2>3. Queued' = Queued
      BY <2>1, PushQueued
    <2>4. \A i, j \in DOMAIN queue' :
             queue'[i] = queue'[j] /\ queue'[i] # Termination => i = j
      <3>1. \A i \in DOMAIN queue' : i \in 1 .. Len(queue) \/ i = Len(queue) + 1
        BY <2>1, PushQueued
      <3> QED
        BY <2>1, <3>1, PushQueued DEF TaskInOnePlace
    <2>5. \A w \in Workers : thread'[w] = "executing" <=> thread[w] = "executing"
      BY <2>1, PushExecutes
    <2> QED
      BY <2>1, <2>2, <2>3, <2>4, <2>5 DEF TaskInOnePlace
  <1>7. CASE BeginDestruction \/ EndTerminations \/ Join \/ EndDestruction \/ UNCHANGED vars
    BY <1>1, <1>7 DEF BeginDestruction, EndTerminations, Join, EndDestruction, vars
  <1> QED
    BY <1>2, <1>3, <1>4, <1>5, <1>6, <1>7 DEF Next, Worker, Destructor

\* An enqueued task waits once, or is executed by one thread, or is done.
THEOREM TaskInOnePlaceCorrect == Spec => []TaskInOnePlace
  <1>1. Init => TaskInOnePlace
    <2> SUFFICES ASSUME Init PROVE TaskInOnePlace
      OBVIOUS
    <2>1. DOMAIN queue = {}
      BY EmptySeq, LenProperties DEF Init
    <2>2. Queued = {} /\ Executing = {}
      BY <2>1 DEF Init, Queued, Executing
    <2> QED
      BY <2>1, <2>2 DEF Init, TaskInOnePlace
  <1> QED
    BY <1>1, TypeCorrect, PlaceStep, PTL DEF Spec

-------------------------------------------------------------------------------
(* The destructor drains the pool *)

\* When all threads have left their loops nothing is left to do.
LEMMA AllReturnedDrained ==
    ASSUME TypeOK, TaskInOnePlace, TerminationsLast,
           owner \in {"joining", "destroyed"},
           \A w \in Workers : thread[w] = "returned"
    PROVE  queue = << >> /\ Executing = {} /\ fulfilled = enqueued
  <1>1. Returned = Workers
    BY DEF Returned
  <1>2. TerminationsQueued = 0
    BY <1>1, WorkersFinite, CapacityAssumption
    DEF TerminationsQueued, TerminationsPushed
  <1>3. Queued = {}
    BY <1>1, WorkersFinite DEF TerminationsLast
  <1>4. DOMAIN queue = 1 .. Len(queue) /\ Len(queue) \in Nat
    BY LenProperties DEF TypeOK
  <1>5. \A i \in DOMAIN queue : queue[i] = Termination /\ queue[i] # Termination
    BY <1>2, <1>3, <1>4 DEF TerminationsLast, Queued
  <1>6. queue = << >>
    <2>1. Len(queue) = 0
      BY <1>4, <1>5
    <2> QED
      BY <2>1, EmptySeq DEF TypeOK
  <1>7. Executing = {}
    BY <1>1 DEF Executing, Returned
  <1> QED
    BY <1>3, <1>6, <1>7 DEF TaskInOnePlace

\* Once ~TThreadPool has returned, nothing it accepted is left undone.
THEOREM DrainedCorrect == Spec => []DrainedWhenDestroyed
  <1>1. TypeOK /\ TaskInOnePlace /\ (TerminationsLast /\ JoinedReturned)
        => DrainedWhenDestroyed
    BY AllReturnedDrained DEF DrainedWhenDestroyed, JoinedReturned
  <1> QED
    BY <1>1, TypeCorrect, TaskInOnePlaceCorrect, TerminationsLastCorrect, PTL
-------------------------------------------------------------------------------
(* The pool implements TaskPool *)

PoolInv == TypeOK /\ TaskInOnePlace /\ TerminationsLast /\ JoinedReturned

LEMMA PoolInvCorrect == Spec => []PoolInv
  <1>1. TypeOK /\ TaskInOnePlace /\ (TerminationsLast /\ JoinedReturned) => PoolInv
    BY DEF PoolInv
  <1> QED
    BY <1>1, TypeCorrect, TaskInOnePlaceCorrect, TerminationsLastCorrect, PTL

\* The tasks in front of the first Termination are all that wait, in the order
\* of the queue.
WaitingOK ==
    /\ Waiting \in Seq(Tasks)
    /\ Len(Waiting) = Len(queue) - TerminationsQueued
    /\ Len(Waiting) \in 0 .. Len(queue)
    /\ \A i \in 1 .. Len(Waiting) : Waiting[i] = queue[i]
    /\ {Waiting[i] : i \in DOMAIN Waiting} = Queued

LEMMA WaitingIsQueued == PoolInv => WaitingOK
  <1> SUFFICES ASSUME PoolInv PROVE WaitingOK
    OBVIOUS
  <1> DEFINE n == Len(queue) - TerminationsQueued
  <1>1. /\ Len(queue) \in Nat /\ DOMAIN queue = 1 .. Len(queue)
        /\ TerminationsQueued \in 0 .. Len(queue)
        /\ \A i \in 1 .. Len(queue) : queue[i] = Termination <=> i > n
    BY LenProperties DEF PoolInv, TypeOK, TerminationsLast
  <1>2. n \in 0 .. Len(queue) /\ n \in Nat
    BY <1>1
  <1>3. /\ \A i \in 1 .. n : queue[i] # Termination
        /\ n < Len(queue) => queue[n + 1] = Termination
    BY <1>1, <1>2
  <1>4. ASSUME NEW m \in 0 .. Len(queue),
               \A i \in 1 .. m : queue[i] # Termination,
               m < Len(queue) => queue[m + 1] = Termination
        PROVE  m = n
    <2> HIDE DEF n
    <2>1. CASE m < n
      <3>1. m + 1 \in 1 .. n /\ m < Len(queue)
        BY <1>1, <1>2, <2>1
      <3> QED
        BY <1>3, <1>4, <3>1
    <2>2. CASE n < m
      <3>1. n + 1 \in 1 .. m /\ n < Len(queue)
        BY <1>1, <1>2, <2>2
      <3> QED
        BY <1>3, <1>4, <3>1
    <2> QED
      BY <1>1, <1>2, <2>1, <2>2
  <1>5. TasksAhead = n
    <2> HIDE DEF n
    <2> QED
      BY <1>2, <1>3, <1>4 DEF TasksAhead
  <1>6. \A i \in 1 .. n : queue[i] \in Tasks
    BY <1>1, <1>2, <1>3, ElementOfSeq DEF PoolInv, TypeOK
  <1>7. /\ Waiting \in Seq(Tasks)
        /\ Len(Waiting) = n
        /\ \A i \in 1 .. n : Waiting[i] = queue[i]
    <2> HIDE DEF n
    <2>1. /\ SubSeq(queue, 1, n) \in Seq(Tasks)
          /\ Len(SubSeq(queue, 1, n)) = IF 1 <= n THEN n - 1 + 1 ELSE 0
          /\ \A i \in 1 .. n - 1 + 1 : SubSeq(queue, 1, n)[i] = queue[1 + i - 1]
      BY <1>2, <1>6, SubSeqProperties
    <2> QED
      BY <1>2, <1>5, <2>1 DEF Waiting
  <1>8. DOMAIN Waiting = 1 .. n
    BY <1>7, LenProperties
  <1>9. {Waiting[i] : i \in DOMAIN Waiting} = Queued
    BY <1>1, <1>2, <1>3, <1>7, <1>8 DEF Queued
  <1> QED
    BY <1>2, <1>7, <1>9 DEF WaitingOK

LEMMA WaitingIsQueuedNext == PoolInv' => WaitingOK'
  BY WaitingIsQueued, PTL

\* A worker that takes a task was executing none, so not all are busy.
LEMMA ExecutingBound ==
    ASSUME NEW w \in Workers, thread[w] # "executing"
    PROVE  Cardinality(Executing) < Capacity
  <1> DEFINE S == {v \in Workers : thread[v] = "executing"}
             f == [v \in S |-> task[v]]
  <1>1. S \in SUBSET (Workers \ {w})
    OBVIOUS
  <1>2. /\ IsFiniteSet(Workers \ {w})
        /\ Cardinality(Workers \ {w}) = Capacity - 1
    BY WorkersFinite, FS_RemoveElement
  <1>3. /\ IsFiniteSet(S)
        /\ Cardinality(S) <= Capacity - 1
        /\ Cardinality(S) \in Nat
    BY <1>1, <1>2, FS_Subset, FS_CardinalityType
  <1>4. f \in Surjection(S, Executing)
    BY DEF Surjection, Executing
  <1>5. /\ IsFiniteSet(Executing)
        /\ Cardinality(Executing) <= Cardinality(S)
    BY <1>3, <1>4, FS_Surjection
  <1> QED
    BY <1>3, <1>5, FS_CardinalityType, CapacityAssumption
\* Where the queue stays as it is, or grows by a Termination, or gives one to a
\* worker, the tasks that wait stay the same.
LEMMA WaitingUnchanged ==
    ASSUME WaitingOK, WaitingOK',
           Len(queue') - TerminationsQueued' = Len(queue) - TerminationsQueued,
           \A i \in 1 .. Len(Waiting) : queue'[i] = queue[i]
    PROVE  Waiting' = Waiting
  BY SeqEqual DEF WaitingOK

\* An initial state of the pool is one of TaskPool.
LEMMA PoolInitMaps == Init => Pool!PoolInit
  <1> SUFFICES ASSUME Init PROVE Pool!PoolInit
    OBVIOUS
  <1>1. Len(queue) = 0 /\ queue = << >>
    BY EmptySeq DEF Init
  <1>2. \A n \in 0 .. 0 : n = 0
    OBVIOUS
  <1>3. TasksAhead = 0
    BY <1>1, <1>2 DEF TasksAhead
  <1>4. Waiting = << >>
    BY <1>1, <1>3, SubSeqEmpty DEF Waiting
  <1>5. Executing = {}
    BY DEF Init, Executing
  <1> QED
    BY <1>4, <1>5 DEF Pool!PoolInit, Init, PoolPhase

\* What a Push does to the tasks that wait.
LEMMA PushWaiting ==
    ASSUME PoolInv, NEW item \in Tasks \union {Termination}, Push(item)
    PROVE  /\ Len(queue') = Len(queue) + 1
           /\ Len(queue) \in Nat
           /\ \A i \in 1 .. Len(queue) : queue'[i] = queue[i]
           /\ queue'[Len(queue) + 1] = item
           /\ Returned' = Returned
  BY AppendProperties, LenProperties, PushReturned DEF PoolInv, Push, TypeOK

\* Every step of the pool is a step of TaskPool or leaves its variables alone.
LEMMA PoolStepMaps ==
    PoolInv /\ PoolInv' /\ [Next]_vars => [Pool!PoolNext]_(Pool!poolVars)
  <1> SUFFICES ASSUME PoolInv, PoolInv', [Next]_vars
               PROVE  Pool!PoolNext \/ UNCHANGED Pool!poolVars
    OBVIOUS
  <1> DEFINE N == TerminationsQueued
  <1>0. /\ IsFiniteSet(Returned) /\ Cardinality(Returned) \in Nat
        /\ Len(queue) \in Nat /\ N \in 0 .. Len(queue)
        /\ TerminationsPushed \in Int
        /\ N = TerminationsPushed - Cardinality(Returned)
    BY ThreadSetsFinite, LenProperties, CapacityAssumption
    DEF PoolInv, TypeOK, OwnerStates, TerminationsPushed, TerminationsQueued, TerminationsLast
  <1>W. /\ Waiting \in Seq(Tasks)
        /\ Len(Waiting) = Len(queue) - N
        /\ Len(Waiting) \in 0 .. Len(queue)
        /\ \A i \in 1 .. Len(Waiting) : Waiting[i] = queue[i]
        /\ {Waiting[i] : i \in DOMAIN Waiting} = Queued
    BY WaitingIsQueued DEF WaitingOK, N
  <1>V. /\ Waiting' \in Seq(Tasks)
        /\ Len(Waiting') = Len(queue') - N'
        /\ \A i \in 1 .. Len(Waiting') : Waiting'[i] = queue'[i]
    BY WaitingIsQueuedNext DEF WaitingOK, N
  <1> HIDE DEF N
  <1>1. ASSUME UNCHANGED <<queue, task, fulfilled, PoolPhase>>,
               \A w \in Workers : thread'[w] = "executing" <=> thread[w] = "executing"
        PROVE  UNCHANGED Pool!poolVars
    <2>1. Waiting' = Waiting /\ Executing' = Executing
      BY <1>1 DEF Waiting, TasksAhead, Executing
    <2> QED
      BY <1>1, <2>1 DEF Pool!poolVars
  <1>2. ASSUME NEW w \in Workers, Sleep(w) \/ SpuriousWakeup(w)
        PROVE  UNCHANGED Pool!poolVars
    BY <1>1, <1>2 DEF Sleep, SpuriousWakeup, PoolInv, TypeOK, PoolPhase
  <1>3. ASSUME NEW w \in Workers, Take(w), Head(queue) = Termination
        PROVE  UNCHANGED Pool!poolVars
    <2>1. Len(queue) # 0 /\ queue[1] = Termination
      BY <1>3, EmptySeq DEF Take, PoolInv, TypeOK
    <2>2. Len(Waiting) = 0
      <3>1. 1 <= Len(Waiting) => queue[1] \in Tasks
        BY <1>0, <1>W, ElementOfSeq
      <3> QED
        BY <1>W, <2>1, <3>1, TerminationAssumption
    <2>3. Len(queue') = Len(queue) - 1
      BY <1>3, HeadTailProperties DEF Take, PoolInv, TypeOK
    <2>4. N' = N - 1
      <3>1. Returned' = Returned \union {w} /\ w \notin Returned
        BY <1>3 DEF Take, PoolInv, TypeOK, Returned
      <3>2. Cardinality(Returned') = Cardinality(Returned) + 1
        BY <1>0, <3>1, FS_AddElement
      <3>3. TerminationsPushed' = TerminationsPushed
        BY <1>3 DEF Take, TerminationsPushed
      <3> QED
        BY <1>0, <3>2, <3>3 DEF N, TerminationsQueued
    <2>5. Waiting' = Waiting
      <3>1. Len(Waiting') = Len(Waiting)
        BY <1>0, <1>W, <1>V, <2>3, <2>4
      <3> QED
        BY <1>W, <1>V, <2>2, <3>1, SeqEqual
    <2>6. Executing' = Executing
      BY <1>3 DEF Take, PoolInv, TypeOK, Executing
    <2> QED
      BY <1>3, <2>5, <2>6 DEF Take, Pool!poolVars, PoolPhase
  <1>4. ASSUME NEW w \in Workers, Take(w), Head(queue) # Termination
        PROVE  Pool!Start
    <2>1. Len(queue) # 0 /\ queue[1] = Head(queue)
      BY <1>3, <1>4, EmptySeq DEF Take, PoolInv, TypeOK
    <2>2. Len(Waiting) # 0
      BY <1>0, <1>4, <1>W, <2>1 DEF N, PoolInv, TerminationsLast
    <2>3. Waiting # << >> /\ Head(Waiting) = Head(queue)
      BY <1>W, <2>1, <2>2, EmptySeq
    <2>4. /\ Len(queue') = Len(queue) - 1
          /\ \A i \in 1 .. Len(queue') : queue'[i] = queue[i + 1]
      BY <1>4, HeadTailProperties DEF Take, PoolInv, TypeOK
    <2>5. N' = N
      BY <1>4 DEF N, TerminationsQueued, TerminationsPushed, Take, PoolInv, TypeOK, Returned
    <2>6. Waiting' = Tail(Waiting)
      <3>1. /\ Tail(Waiting) \in Seq(Tasks)
            /\ Len(Tail(Waiting)) = Len(Waiting) - 1
            /\ \A i \in 1 .. Len(Tail(Waiting)) : Tail(Waiting)[i] = Waiting[i + 1]
        BY <1>W, <2>3, HeadTailProperties
      <3>2. Len(Waiting') = Len(Waiting) - 1
        BY <1>0, <1>V, <1>W, <2>4, <2>5
      <3>3. \A i \in 1 .. Len(Waiting') : Waiting'[i] = Tail(Waiting)[i]
        <4> TAKE i \in 1 .. Len(Waiting')
        <4>1. i \in 1 .. Len(queue') /\ i + 1 \in 1 .. Len(Waiting)
          <5>1. i \in Int /\ 1 <= i /\ i <= Len(Waiting) - 1 /\ Len(Waiting) \in Nat
            BY <1>W, <3>2
          <5>2. Len(Waiting) <= Len(queue) /\ Len(queue) \in Nat /\ Len(queue') = Len(queue) - 1
            BY <1>0, <1>W, <2>4
          <5> QED
            BY <5>1, <5>2
        <4> QED
          BY <1>V, <1>W, <2>4, <3>1, <3>2, <4>1
      <3> QED
        BY <1>V, <3>1, <3>2, <3>3, SeqEqual
    <2>7. Executing' = Executing \union {Head(Waiting)}
      <3>1. \A v \in Workers :
               thread'[v] = "executing" <=> v = w \/ thread[v] = "executing"
        BY <1>4 DEF Take, PoolInv, TypeOK
      <3>2. /\ task'[w] = Head(queue)
            /\ \A v \in Workers : v # w => task'[v] = task[v]
            /\ thread[w] # "executing"
        BY <1>4 DEF Take, PoolInv, TypeOK
      <3> QED
        BY <2>3, <3>1, <3>2 DEF Executing
    <2>8. Pool!Cardinality(Executing) < Capacity
      <3>1. Pool!Cardinality(Executing) = Cardinality(Executing)
        BY DEF Pool!Cardinality, Cardinality
      <3> QED
        BY <1>4, <3>1, ExecutingBound DEF Take
    <2> QED
      BY <1>4, <2>3, <2>6, <2>7, <2>8 DEF Take, Pool!Start, PoolPhase
  <1>5. ASSUME NEW w \in Workers, Fulfil(w)
        PROVE  \E t \in Tasks : Pool!Finish(t)
    <2>1. task[w] \in Tasks /\ task[w] \in Executing
      BY <1>5 DEF Fulfil, PoolInv, TypeOK, Executing
    <2>2. Executing' = Executing \ {task[w]}
      <3>1. \A v \in Workers : thread'[v] = "executing" <=> v # w /\ thread[v] = "executing"
        BY <1>5 DEF Fulfil, PoolInv, TypeOK
      <3> QED
        BY <1>5, <3>1 DEF Fulfil, Executing, PoolInv, TaskInOnePlace
    <2>3. Waiting' = Waiting
      BY <1>5 DEF Fulfil, Waiting, TasksAhead
    <2> QED
      BY <1>5, <2>1, <2>2, <2>3 DEF Fulfil, Pool!Finish, PoolPhase
  <1>6. ASSUME NEW t \in Tasks, Enqueue(t)
        PROVE  Pool!Submit(t)
    <2>1. Push(t) /\ owner = "alive" /\ owner' = "alive"
      BY <1>6 DEF Enqueue
    <2>2. /\ Len(queue') = Len(queue) + 1
          /\ \A i \in 1 .. Len(queue) : queue'[i] = queue[i]
          /\ queue'[Len(queue) + 1] = t
          /\ Returned' = Returned
      BY <2>1, PushWaiting
    <2>3. N = 0 /\ N' = 0
      BY <1>0, <2>1, <2>2 DEF N, TerminationsQueued, TerminationsPushed
    <2>4. Waiting' = Append(Waiting, t)
      <3>1. /\ Append(Waiting, t) \in Seq(Tasks)
            /\ Len(Append(Waiting, t)) = Len(Waiting) + 1
            /\ \A i \in 1 .. Len(Waiting) : Append(Waiting, t)[i] = Waiting[i]
            /\ Append(Waiting, t)[Len(Waiting) + 1] = t
        BY <1>W, AppendProperties
      <3>2. Len(Waiting') = Len(queue) + 1 /\ Len(Waiting) = Len(queue)
        BY <1>0, <1>V, <1>W, <2>2, <2>3
      <3>3. \A i \in 1 .. Len(Waiting') : Waiting'[i] = Append(Waiting, t)[i]
        <4> TAKE i \in 1 .. Len(Waiting')
        <4>1. Waiting'[i] = queue'[i]
          BY <1>V
        <4>2. i \in 1 .. Len(queue) \/ i = Len(queue) + 1
          BY <1>0, <3>2
        <4> QED
          BY <1>W, <2>2, <3>1, <3>2, <4>1, <4>2
      <3> QED
        BY <1>V, <3>1, <3>2, <3>3, SeqEqual
    <2>5. t \notin Pool!Accepted
      BY <1>6, <1>W DEF Enqueue, Pool!Accepted, PoolInv, TaskInOnePlace
    <2>6. Executing' = Executing
      BY <1>6, <2>1, PushExecuting DEF Enqueue, PoolInv
    <2> QED
      BY <1>6, <2>1, <2>4, <2>5, <2>6 DEF Enqueue, Pool!Submit, PoolPhase
  <1>7. CASE BeginDestruction
    <2>1. Waiting' = Waiting /\ Executing' = Executing
      BY <1>7 DEF BeginDestruction, Waiting, TasksAhead, Executing
    <2> QED
      BY <1>7, <2>1 DEF BeginDestruction, Pool!PoolNext, Pool!Close, PoolPhase
  <1>8. CASE PushTermination
    <2>1. Push(Termination) /\ owner = "terminating" /\ owner' = "terminating"
      BY <1>8 DEF PushTermination
    <2>2. /\ Len(queue') = Len(queue) + 1
          /\ \A i \in 1 .. Len(queue) : queue'[i] = queue[i]
          /\ Returned' = Returned
      BY <2>1, PushWaiting
    <2>3. TerminationsPushed' = TerminationsPushed + 1
      BY <1>8, <2>1 DEF PushTermination, TerminationsPushed
    <2>4. N' = N + 1
      BY <1>0, <2>2, <2>3 DEF N, TerminationsQueued
    <2>5. Waiting' = Waiting
      <3>1. Len(queue') - N' = Len(queue) - N
        BY <1>0, <2>2, <2>4
      <3>2. \A i \in 1 .. Len(Waiting) : queue'[i] = queue[i]
        <4> TAKE i \in 1 .. Len(Waiting)
        <4>1. i \in 1 .. Len(queue)
          BY <1>0, <1>W
        <4> QED
          BY <2>2, <4>1, Zenon
      <3> QED
        BY <3>1, <3>2, WaitingIsQueued, WaitingIsQueuedNext, WaitingUnchanged DEF N
    <2>6. Executing' = Executing
      BY <1>8, <2>1, PushExecuting DEF PushTermination, PoolInv
    <2> QED
      BY <1>8, <2>1, <2>5, <2>6 DEF PushTermination, Pool!poolVars, PoolPhase
  <1>9. CASE EndTerminations \/ Join \/ UNCHANGED vars
    BY <1>1, <1>9 DEF EndTerminations, Join, vars, PoolPhase
  <1>10. CASE EndDestruction
    <2>1. \A w \in Workers : thread[w] = "returned"
      BY <1>10, CapacityAssumption DEF EndDestruction, PoolInv, JoinedReturned, Workers
    <2>2. queue = << >> /\ Executing = {}
      BY <1>10, <2>1, AllReturnedDrained DEF EndDestruction, PoolInv
    <2>3. Waiting = << >>
      BY <1>W, <2>2, EmptySeq
    <2>4. Waiting' = Waiting /\ Executing' = Executing
      BY <1>10 DEF EndDestruction, Waiting, TasksAhead, Executing
    <2> QED
      BY <1>10, <2>2, <2>3, <2>4 DEF EndDestruction, Pool!PoolNext, Pool!Destroy, PoolPhase
  <1> QED
    BY <1>2, <1>3, <1>4, <1>5, <1>6, <1>7, <1>8, <1>9, <1>10
    DEF Next, Worker, Destructor, Pool!PoolNext
\* The queue with its mutex and condition variable, the threads and the
\* destructor of thread_pool.hpp implement the safety part of TaskPool, on which
\* the models of the database and of the printers are built.
THEOREM ImplementsPoolSafety == Spec => Pool!PoolSafety
  <1>1. PoolInv /\ PoolInv' /\ [Next]_vars => [Pool!PoolNext]_(Pool!poolVars)
    BY PoolStepMaps
  <1> QED
    BY <1>1, PoolInitMaps, PoolInvCorrect, PTL DEF Spec, Pool!PoolSafety
===============================================================================

------------------------------- MODULE Container -------------------------------
(***************************************************************************)
(* What 03_allocator puts on top of a THeapAllocator: a TContainer         *)
(* (container.hpp, tests.cpp), or a std::map that asks for one node at a   *)
(* time (main.cpp).                                                        *)
(***************************************************************************)
EXTENDS Allocator

CONSTANTS
    Values,      \* what is pushed
    MaxElements  \* bound: elements of the container or nodes of the map

VARIABLES
    memory,    \* by address: the element written there last
    storage,   \* storage_: an address
    size,      \* size_ of the container, or the number of nodes
    capacity,  \* capacity_ of the container
    pushed     \* history: the values pushed

containerVars == <<pools, blocks, memory, storage, size, capacity, pushed>>

NoAddress == [pool |-> 0, offset |-> 0]

ContainerInit ==
    /\ AllocatorInit
    /\ memory = << >>
    /\ storage = NoAddress
    /\ size = 0
    /\ capacity = 0
    /\ pushed = << >>

-------------------------------------------------------------------------------

Address(block, i) == [pool |-> block.pool, offset |-> block.offset + Bytes(i)]

Write(cells) == [a \in DOMAIN memory \union DOMAIN cells |->
                    IF a \in DOMAIN cells THEN cells[a] ELSE memory[a]]

\* Mutant: the first element is copied to every place.
GrownFirst(new) == [a \in {Address(new, i) : i \in 0 .. size - 1} |-> memory[storage]]

\* The elements of the old storage, at their places in the new one.
Grown(new) ==
    [a \in {Address(new, i) : i \in 0 .. size - 1} |->
        memory[[pool |-> storage.pool, offset |-> storage.offset + a.offset - new.offset]]]

\* maybeGrow doubles the capacity when it is used up, and begins with one.
Push(v) ==
    LET new == Allocated(IF capacity = 0 THEN 1 ELSE capacity * 2)
        last(block) == Address(block, size)
    IN  /\ size = 0 \/ capacity > 0
        /\ size < MaxElements
        /\ IF size < capacity
           THEN /\ memory' = Write([a \in {last(storage)} |-> v])
                /\ UNCHANGED <<allocatorVars, storage, capacity>>
           ELSE /\ Allocate(IF capacity = 0 THEN 1 ELSE capacity * 2)
                /\ capacity' = (IF capacity = 0 THEN 1 ELSE capacity * 2)
                /\ storage' = [pool |-> new.pool, offset |-> new.offset]
                /\ memory' = Write([a \in DOMAIN Grown(new) \union {last(new)} |->
                                       IF a = last(new) THEN v ELSE Grown(new)[a]])
        /\ size' = size + 1
        /\ pushed' = Append(pushed, v)

\* A map takes one node for each key.
InsertNode(v) ==
    LET node == Allocated(1)
    IN  /\ capacity = 0
        /\ size < MaxElements
        /\ Allocate(1)
        /\ memory' = Write([a \in {Address(node, 0)} |-> v])
        /\ size' = size + 1
        /\ pushed' = Append(pushed, v)
        /\ UNCHANGED <<storage, capacity>>

Stopped == size = MaxElements /\ UNCHANGED containerVars

ContainerNext == (\E v \in Values : Push(v) \/ InsertNode(v)) \/ Stopped

ContainerSpec == ContainerInit /\ [][ContainerNext]_containerVars

\* operator[] of a const container; the other one throws from the capacity on.
At(i) == IF i >= size THEN "throws" ELSE memory[Address(storage, i)]

-------------------------------------------------------------------------------
(* Properties *)

\* operator[] returns what was pushed, for every index below the size, through
\* all the moves of the storage.
ContainerHolds ==
    capacity > 0 =>
        /\ size <= capacity
        /\ \A i \in 0 .. size - 1 : At(i) = pushed[i + 1]
===============================================================================

-------------------------------- MODULE Allocator ------------------------------
(***************************************************************************)
(* 03_allocator: THeapAllocator (allocator.hpp), which hands out the bytes *)
(* of a growing list of pools and takes nothing back: deallocate is empty. *)
(* An address is a pool and an offset in bytes.                            *)
(***************************************************************************)
EXTENDS Integers, Sequences

CONSTANTS
    N,           \* elements in the first pool
    ElementSize  \* sizeof(T)

ASSUME NAssumption == N \in Nat
ASSUME ElementSizeAssumption == ElementSize \in Nat \ {0}

VARIABLES
    pools,  \* by number: capacity and position of a TPool
    blocks  \* history: the blocks handed out, in order

allocatorVars == <<pools, blocks>>

Bytes(n) == n * ElementSize
Larger(m, n) == IF m > n THEN m ELSE n

AllocatorInit ==
    /\ pools = <<[capacity |-> Bytes(N), position |-> 0]>>
    /\ blocks = << >>

\* Mutant: room for one byte is enough.
HasSpaceForOne(pool, n) == pool.capacity > pool.position

HasSpaceFor(pool, n) == pool.capacity >= pool.position + Bytes(n)

\* addNewPool multiplies by the size of an element, and so does TPool.
NewPool(n) == [capacity |-> Bytes(Bytes(Larger(n, N))), position |-> 0]

WithSpace(n) ==
    IF HasSpaceFor(pools[Len(pools)], n) THEN pools ELSE Append(pools, NewPool(n))

\* The block is cut from the last pool.
Allocated(n) ==
    LET p == Len(WithSpace(n))
    IN  [pool |-> p, offset |-> WithSpace(n)[p].position, length |-> Bytes(n)]

Allocate(n) ==
    LET p == Len(WithSpace(n))
    IN  /\ pools' = [WithSpace(n) EXCEPT ![p].position = @ + Bytes(n)]
        /\ blocks' = Append(blocks, Allocated(n))

\* Whatever the program asks for.
AllocatorNext == \E n \in Nat : Allocate(n)

AllocatorSpec == AllocatorInit /\ [][AllocatorNext]_allocatorVars

-------------------------------------------------------------------------------
(* Properties *)

Overlap(a, b) == /\ a.pool = b.pool
                 /\ a.offset < b.offset + b.length
                 /\ b.offset < a.offset + a.length

\* Whatever is asked for, a block lies inside its pool and no two overlap, also
\* when the last pool is too small for the request.
BlocksApart ==
    /\ \A i \in DOMAIN blocks :
          /\ blocks[i].pool \in DOMAIN pools
          /\ blocks[i].offset + blocks[i].length <= pools[blocks[i].pool].capacity
    /\ \A i, j \in DOMAIN blocks : i # j => ~Overlap(blocks[i], blocks[j])
===============================================================================

-------------------------- MODULE SmallProgramsProofs --------------------------
(***************************************************************************)
(* The blocks that a THeapAllocator hands out are apart (Allocator), a     *)
(* TContainer keeps what was pushed (Container), a TMatrix and its loops   *)
(* are right wherever they are defined (Matrix), 07 bulk prints the blocks *)
(* of its input (BulkLocal), and timus 1022 prints parents first           *)
(* (TopologicalSort): for every size of pools, elements and bulks, all     *)
(* indices, values, lines and graphs, and whatever is asked for.           *)
(***************************************************************************)
EXTENDS SmallPrograms, BracesProofs, WellFoundedInduction

-------------------------------------------------------------------------------
(* 03 allocator *)

Pool == [capacity : Nat, position : Nat]
Block == [pool : Nat, offset : Nat, length : Nat]

PoolsSound ==
    /\ pools \in Seq(Pool)
    /\ pools # << >>
    /\ \A p \in 1 .. Len(pools) : pools[p].position <= pools[p].capacity

BlocksCut ==
    /\ blocks \in Seq(Block)
    /\ \A i \in 1 .. Len(blocks) :
          /\ blocks[i].pool \in 1 .. Len(pools)
          /\ blocks[i].offset + blocks[i].length <= pools[blocks[i].pool].position

Apart == \A i, j \in 1 .. Len(blocks) : i # j => ~Overlap(blocks[i], blocks[j])

\* What makes an allocation safe: every block of a pool ends at or before the
\* position of the pool.
AllocatorInv == PoolsSound /\ BlocksCut /\ Apart

-------------------------------------------------------------------------------

\* The size of a number of elements is a number, and not less than it.
LEMMA BytesNat ==
    ASSUME NEW n \in Nat
    PROVE  Bytes(n) \in Nat /\ n <= Bytes(n)
<1>1. PICK e \in Nat : ElementSize = e + 1
  BY ElementSizeAssumption
<1>2. n * e \in Nat
  OBVIOUS
<1>3. n * (e + 1) = n * e + n
  OBVIOUS
<1> QED
  BY <1>1, <1>2, <1>3 DEF Bytes

\* More elements need at least as many bytes.
LEMMA BytesMonotone ==
    ASSUME NEW m \in Nat, NEW n \in Nat, m <= n
    PROVE  Bytes(m) <= Bytes(n)
<1>1. PICK d \in Nat : n = m + d
  BY n - m \in Nat
<1>2. d * ElementSize \in Nat /\ m * ElementSize \in Nat
  BY ElementSizeAssumption
<1>3. (m + d) * ElementSize = m * ElementSize + d * ElementSize
  BY ElementSizeAssumption
<1> QED
  BY <1>1, <1>2, <1>3 DEF Bytes

\* A new pool (addNewPool) has room for the request it is made for.
LEMMA NewPoolHasSpace ==
    ASSUME NEW n \in Nat
    PROVE  /\ NewPool(n) \in Pool
           /\ NewPool(n).position = 0
           /\ Bytes(n) <= NewPool(n).capacity
<1> DEFINE m == Larger(n, N)
<1>1. m \in Nat /\ n <= m
  BY NAssumption DEF Larger
<1>2. Bytes(m) \in Nat /\ m <= Bytes(m)
  BY <1>1, BytesNat
<1>3. Bytes(Bytes(m)) \in Nat
  BY <1>2, BytesNat
<1>4. n <= Bytes(m)
  BY <1>1, <1>2
<1>5. Bytes(n) <= Bytes(Bytes(m))
  BY <1>2, <1>4, BytesMonotone
<1> QED
  BY <1>3, <1>5 DEF NewPool, Pool

\* The pools from whose last one a block is cut: those there were, or one more.
LEMMA WithSpaceSound ==
    ASSUME PoolsSound, NEW n \in Nat
    PROVE  /\ WithSpace(n) \in Seq(Pool)
           /\ Len(WithSpace(n)) \in Nat \ {0}
           /\ Len(pools) <= Len(WithSpace(n))
           /\ \A p \in 1 .. Len(pools) : WithSpace(n)[p] = pools[p]
           /\ \A p \in 1 .. Len(WithSpace(n)) :
                 WithSpace(n)[p].position <= WithSpace(n)[p].capacity
           /\ HasSpaceFor(WithSpace(n)[Len(WithSpace(n))], n)
<1>1. Len(pools) \in Nat \ {0} /\ pools \in Seq(Pool)
  BY DEF PoolsSound
<1>2. Bytes(n) \in Nat
  BY BytesNat
<1>3. CASE HasSpaceFor(pools[Len(pools)], n)
  BY <1>1, <1>3 DEF WithSpace, PoolsSound
<1>4. CASE ~HasSpaceFor(pools[Len(pools)], n)
  <2>1. WithSpace(n) = Append(pools, NewPool(n))
    BY <1>4 DEF WithSpace
  <2>2. NewPool(n) \in Pool /\ NewPool(n).position = 0 /\ Bytes(n) <= NewPool(n).capacity
    BY NewPoolHasSpace
  <2>3. HasSpaceFor(NewPool(n), n)
    BY <1>2, <2>2 DEF HasSpaceFor, Pool
  <2>4. NewPool(n).position <= NewPool(n).capacity
    BY <2>2 DEF Pool
  <2>5. /\ WithSpace(n) \in Seq(Pool)
        /\ Len(WithSpace(n)) = Len(pools) + 1
        /\ \A p \in 1 .. Len(pools) : WithSpace(n)[p] = pools[p]
        /\ WithSpace(n)[Len(pools) + 1] = NewPool(n)
    BY <1>1, <2>1, <2>2
  <2> QED
    BY <1>1, <2>3, <2>4, <2>5 DEF PoolsSound
<1> QED
  BY <1>3, <1>4

\* What allocate does to the pools and where the block lies.
LEMMA AllocateCuts ==
    ASSUME PoolsSound, NEW n \in Nat, Allocate(n)
    PROVE  /\ PoolsSound'
           /\ Allocated(n) \in Block
           /\ Len(pools) <= Len(pools')
           /\ \A p \in 1 .. Len(pools) : pools[p].position <= pools'[p].position
           /\ Allocated(n).pool \in 1 .. Len(pools')
           /\ Allocated(n).pool \in 1 .. Len(pools) =>
                 pools[Allocated(n).pool].position = Allocated(n).offset
           /\ Allocated(n).offset + Allocated(n).length
              <= pools'[Allocated(n).pool].position
<1> DEFINE W == WithSpace(n)
           P == Len(W)
<1>1. /\ W \in Seq(Pool)
      /\ P \in Nat \ {0}
      /\ Len(pools) <= P
      /\ \A p \in 1 .. Len(pools) : W[p] = pools[p]
      /\ \A p \in 1 .. P : W[p].position <= W[p].capacity
      /\ HasSpaceFor(W[P], n)
  BY WithSpaceSound
<1>2. Bytes(n) \in Nat
  BY BytesNat
<1>3. W[P] \in Pool /\ \A p \in 1 .. P : W[p] \in Pool
  BY <1>1
<1>4. pools' = [W EXCEPT ![P] = [W[P] EXCEPT !.position = W[P].position + Bytes(n)]]
  BY DEF Allocate
<1>5. Allocated(n) = [pool |-> P, offset |-> W[P].position, length |-> Bytes(n)]
  BY DEF Allocated
<1> HIDE DEF W, P
<1>6. [W[P] EXCEPT !.position = W[P].position + Bytes(n)] \in Pool
  BY <1>2, <1>3 DEF Pool
<1>7. /\ pools' \in Seq(Pool)
      /\ Len(pools') = Len(W)
      /\ pools'[P] = [W[P] EXCEPT !.position = W[P].position + Bytes(n)]
      /\ \A p \in 1 .. Len(W) : p # P => pools'[p] = W[p]
  BY <1>1, <1>4, <1>6 DEF P
<1>8. /\ pools'[P].position = W[P].position + Bytes(n)
      /\ pools'[P].capacity = W[P].capacity
  BY <1>3, <1>7 DEF Pool
<1>9. pools'[P].position <= pools'[P].capacity
  BY <1>1, <1>2, <1>3, <1>8 DEF HasSpaceFor, Pool
<1>10. Len(pools') = P
  BY <1>7 DEF P
<1>11. PoolsSound'
  <2>1. pools' # << >>
    BY <1>1, <1>7, <1>10
  <2>2. \A p \in 1 .. Len(pools') : pools'[p].position <= pools'[p].capacity
    BY <1>1, <1>7, <1>9, <1>10 DEF P
  <2> QED
    BY <1>7, <2>1, <2>2 DEF PoolsSound
<1>12. Allocated(n) \in Block
  BY <1>1, <1>2, <1>3, <1>5 DEF Block, Pool
<1>13. Len(pools) \in Nat /\ \A p \in 1 .. Len(pools) : pools[p] \in Pool
  BY DEF PoolsSound
<1>14. ASSUME NEW p \in 1 .. Len(pools)
       PROVE  pools[p].position <= pools'[p].position
  <2>1. p \in 1 .. P /\ W[p] = pools[p] /\ W[p].position \in Nat
    BY <1>1, <1>3, <1>13 DEF Pool
  <2>2. CASE p = P
    BY <1>2, <1>8, <2>1, <2>2
  <2>3. CASE p # P
    BY <1>7, <2>1, <2>3 DEF P
  <2> QED
    BY <2>2, <2>3
<1>15. /\ Allocated(n).pool = P
       /\ Allocated(n).offset = W[P].position
       /\ Allocated(n).length = Bytes(n)
  BY <1>5
<1>16. W[P].position + Bytes(n) <= pools'[P].position
  BY <1>2, <1>3, <1>8 DEF Pool
<1>17. Len(pools) <= Len(pools') /\ P \in 1 .. Len(pools')
  BY <1>1, <1>10
<1> QED
  BY <1>1, <1>11, <1>12, <1>14, <1>15, <1>16, <1>17

-------------------------------------------------------------------------------

LEMMA InitAllocatorInv == AllocatorInit => AllocatorInv
<1> SUFFICES ASSUME AllocatorInit PROVE AllocatorInv
  OBVIOUS
<1>1. Bytes(N) \in Nat
  BY NAssumption, BytesNat
<1>2. PoolsSound
  BY <1>1 DEF AllocatorInit, PoolsSound, Pool
<1>3. blocks = << >> /\ Len(blocks) = 0
  BY DEF AllocatorInit
<1> QED
  BY <1>2, <1>3 DEF AllocatorInv, BlocksCut, Apart

\* The new block begins where all others of its pool have ended.
LEMMA AllocatePreservesInv ==
    ASSUME AllocatorInv, NEW n \in Nat, Allocate(n)
    PROVE  AllocatorInv'
<1> DEFINE new == Allocated(n)
<1>1. PoolsSound /\ BlocksCut /\ Apart
  BY DEF AllocatorInv
<1>2. /\ PoolsSound'
      /\ new \in Block
      /\ Len(pools) <= Len(pools')
      /\ \A p \in 1 .. Len(pools) : pools[p].position <= pools'[p].position
      /\ new.pool \in 1 .. Len(pools')
      /\ new.pool \in 1 .. Len(pools) => pools[new.pool].position = new.offset
      /\ new.offset + new.length <= pools'[new.pool].position
  BY <1>1, AllocateCuts
<1>3. blocks' = Append(blocks, new)
  BY DEF Allocate
<1> HIDE DEF new
<1>4. blocks \in Seq(Block) /\ Len(blocks) \in Nat
  BY <1>1 DEF BlocksCut
<1>5. /\ blocks' \in Seq(Block)
      /\ Len(blocks') = Len(blocks) + 1
      /\ blocks'[Len(blocks) + 1] = new
      /\ \A i \in 1 .. Len(blocks) : blocks'[i] = blocks[i]
  BY <1>2, <1>3, <1>4
<1>6. /\ Len(pools) \in Nat /\ \A p \in 1 .. Len(pools) : pools[p] \in Pool
      /\ Len(pools') \in Nat /\ \A p \in 1 .. Len(pools') : pools'[p] \in Pool
  BY <1>1, <1>2 DEF PoolsSound
<1>7. \A i \in 1 .. Len(blocks) :
         /\ blocks[i] \in Block
         /\ blocks[i].pool \in 1 .. Len(pools)
         /\ blocks[i].offset + blocks[i].length <= pools[blocks[i].pool].position
  BY <1>1, <1>4 DEF BlocksCut
<1>8. BlocksCut'
  <2>1. SUFFICES ASSUME NEW i \in 1 .. Len(blocks')
                 PROVE  /\ blocks'[i].pool \in 1 .. Len(pools')
                        /\ blocks'[i].offset + blocks'[i].length
                           <= pools'[blocks'[i].pool].position
    BY <1>5 DEF BlocksCut
  <2>2. CASE i = Len(blocks) + 1
    BY <1>2, <1>5, <2>2
  <2>3. CASE i \in 1 .. Len(blocks)
    <3>1. blocks'[i] = blocks[i] /\ blocks[i].pool \in 1 .. Len(pools)
      BY <1>5, <1>7, <2>3
    <3>2. blocks[i].pool \in 1 .. Len(pools')
      BY <1>2, <1>6, <3>1
    <3>3. blocks[i].offset \in Nat /\ blocks[i].length \in Nat
      BY <1>7, <2>3 DEF Block
    <3>4. /\ pools[blocks[i].pool].position \in Nat
          /\ pools'[blocks[i].pool].position \in Nat
      BY <1>6, <3>1, <3>2 DEF Pool
    <3>5. /\ blocks[i].offset + blocks[i].length <= pools[blocks[i].pool].position
          /\ pools[blocks[i].pool].position <= pools'[blocks[i].pool].position
      BY <1>2, <1>7, <2>3, <3>1
    <3>6. blocks[i].offset + blocks[i].length <= pools'[blocks[i].pool].position
      BY <3>3, <3>4, <3>5
    <3> QED
      BY <3>1, <3>2, <3>6
  <2> QED
    BY <1>4, <1>5, <2>2, <2>3
<1>9. ASSUME NEW i \in 1 .. Len(blocks)
      PROVE  ~Overlap(blocks[i], new) /\ ~Overlap(new, blocks[i])
  <2>1. CASE blocks[i].pool # new.pool
    BY <2>1 DEF Overlap
  <2>2. CASE blocks[i].pool = new.pool
    <3>1. blocks[i].offset + blocks[i].length <= new.offset
      BY <1>2, <1>7, <2>2
    <3>2. /\ blocks[i].offset \in Nat /\ blocks[i].length \in Nat
          /\ new.offset \in Nat /\ new.length \in Nat
      BY <1>2, <1>7 DEF Block
    <3> QED
      BY <3>1, <3>2 DEF Overlap
  <2> QED
    BY <2>1, <2>2
<1>10. Apart'
  <2>1. SUFFICES ASSUME NEW i \in 1 .. Len(blocks'), NEW j \in 1 .. Len(blocks'), i # j
                 PROVE  ~Overlap(blocks'[i], blocks'[j])
    BY DEF Apart
  <2>2. CASE i \in 1 .. Len(blocks) /\ j \in 1 .. Len(blocks)
    BY <1>1, <1>5, <2>1, <2>2 DEF Apart
  <2>3. CASE i = Len(blocks) + 1 /\ j \in 1 .. Len(blocks)
    BY <1>5, <1>9, <2>3
  <2>4. CASE i \in 1 .. Len(blocks) /\ j = Len(blocks) + 1
    BY <1>5, <1>9, <2>4
  <2> QED
    BY <1>4, <1>5, <2>1, <2>2, <2>3, <2>4
<1> QED
  BY <1>2, <1>8, <1>10 DEF AllocatorInv

\* A step without an allocation changes nothing.
LEMMA StutterPreservesInv ==
    AllocatorInv /\ UNCHANGED allocatorVars => AllocatorInv'
BY DEF AllocatorInv, PoolsSound, BlocksCut, Apart, allocatorVars

LEMMA InvImpliesBlocksApart == AllocatorInv => BlocksApart
<1> SUFFICES ASSUME AllocatorInv PROVE BlocksApart
  OBVIOUS
<1>1. PoolsSound /\ BlocksCut /\ Apart
  BY DEF AllocatorInv
<1>2. DOMAIN blocks = 1 .. Len(blocks) /\ DOMAIN pools = 1 .. Len(pools)
  BY <1>1 DEF PoolsSound, BlocksCut
<1>3. ASSUME NEW i \in 1 .. Len(blocks)
      PROVE  /\ blocks[i].pool \in 1 .. Len(pools)
             /\ blocks[i].offset + blocks[i].length <= pools[blocks[i].pool].capacity
  <2>1. blocks[i] \in Block /\ blocks[i].pool \in 1 .. Len(pools)
    BY <1>1 DEF BlocksCut
  <2>2. pools[blocks[i].pool] \in Pool
    BY <1>1, <2>1 DEF PoolsSound
  <2>3. /\ blocks[i].offset + blocks[i].length <= pools[blocks[i].pool].position
        /\ pools[blocks[i].pool].position <= pools[blocks[i].pool].capacity
    BY <1>1, <2>1 DEF PoolsSound, BlocksCut
  <2>4. blocks[i].offset \in Nat /\ blocks[i].length \in Nat
    BY <2>1 DEF Block
  <2>5. /\ pools[blocks[i].pool].position \in Nat
        /\ pools[blocks[i].pool].capacity \in Nat
    BY <2>2 DEF Pool
  <2> QED
    BY <2>1, <2>3, <2>4, <2>5
<1> QED
  BY <1>1, <1>2, <1>3 DEF BlocksApart, Apart

\* Blocks never overlap and never leave their pool, for every N, every size of
\* an element and every sequence of requests (THeapAllocator::allocate).
THEOREM BlocksApartCorrect == AllocatorSpec => []BlocksApart
<1>1. AllocatorInv /\ [AllocatorNext]_allocatorVars => AllocatorInv'
  BY AllocatePreservesInv, StutterPreservesInv DEF AllocatorNext
<1> QED
  BY <1>1, InitAllocatorInv, InvImpliesBlocksApart, PTL DEF AllocatorSpec

-------------------------------------------------------------------------------
(* The container *)

\* The elements of the storage are those that were pushed.
Kept ==
    /\ storage.offset \in Nat
    /\ size <= capacity
    /\ \A i \in 0 .. size - 1 : /\ Address(storage, i) \in DOMAIN memory
                                /\ memory[Address(storage, i)] = pushed[i + 1]

ContainerInv ==
    /\ AllocatorInv
    /\ size \in Nat /\ capacity \in Nat
    /\ pushed \in Seq(Values) /\ Len(pushed) = size
    /\ capacity > 0 => Kept

LEMMA AddressesDiffer ==
    ASSUME NEW block, block.offset \in Nat, NEW i \in Nat, NEW j \in Nat, i < j
    PROVE  Address(block, i) # Address(block, j)
<1>1. PICK d \in Nat : j = i + (d + 1)
  BY j - i - 1 \in Nat
<1>2. (d + 1) * ElementSize \in Nat /\ i * ElementSize \in Nat /\ d + 1 <= (d + 1) * ElementSize
  BY BytesNat, d + 1 \in Nat, ElementSizeAssumption DEF Bytes
<1>3. (i + (d + 1)) * ElementSize = i * ElementSize + (d + 1) * ElementSize
  BY ElementSizeAssumption
<1>4. Bytes(i) < Bytes(j) /\ Bytes(i) \in Nat /\ Bytes(j) \in Nat
  BY <1>1, <1>2, <1>3, BytesNat DEF Bytes
<1> QED
  BY <1>4 DEF Address

LEMMA Written ==
    ASSUME NEW cells
    PROVE  /\ DOMAIN Write(cells) = DOMAIN memory \union DOMAIN cells
           /\ \A a \in DOMAIN cells : Write(cells)[a] = cells[a]
           /\ \A a \in DOMAIN memory : a \notin DOMAIN cells => Write(cells)[a] = memory[a]
BY DEF Write

\* Where the elements are copied to.
LEMMA GrownElements ==
    ASSUME NEW new, new.offset \in Nat, size \in Nat, storage.offset \in Nat
    PROVE  /\ DOMAIN Grown(new) = {Address(new, i) : i \in 0 .. size - 1}
           /\ \A i \in 0 .. size - 1 :
                 Grown(new)[Address(new, i)] = memory[Address(storage, i)]
<1>1. DOMAIN Grown(new) = {Address(new, i) : i \in 0 .. size - 1}
  BY DEF Grown
<1>2. ASSUME NEW i \in 0 .. size - 1
      PROVE  Grown(new)[Address(new, i)] = memory[Address(storage, i)]
  <2>1. Grown(new)[Address(new, i)]
          = memory[[pool |-> storage.pool,
                    offset |-> storage.offset + Address(new, i).offset - new.offset]]
    BY DEF Grown
  <2>2. Address(new, i).offset = new.offset + Bytes(i) /\ Bytes(i) \in Nat
    BY BytesNat DEF Address
  <2>3. storage.offset + Address(new, i).offset - new.offset = storage.offset + Bytes(i)
    BY <2>2
  <2> QED
    BY <2>1, <2>3 DEF Address
<1> QED
  BY <1>1, <1>2

\* An element is pushed where there is room.
LEMMA PushInPlace ==
    ASSUME ContainerInv, NEW v \in Values, Push(v), size < capacity
    PROVE  ContainerInv'
<1>1. /\ memory' = Write([a \in {Address(storage, size)} |-> v])
      /\ UNCHANGED <<pools, blocks, storage, capacity>>
      /\ size' = size + 1 /\ pushed' = Append(pushed, v)
  BY DEF Push, allocatorVars
<1>2. size \in Nat /\ capacity \in Nat /\ pushed \in Seq(Values) /\ Len(pushed) = size /\ Kept
  BY DEF ContainerInv
<1>3. AllocatorInv'
  BY <1>1, StutterPreservesInv DEF ContainerInv, allocatorVars
<1>4. /\ pushed' \in Seq(Values) /\ Len(pushed') = size' /\ pushed'[size + 1] = v
      /\ \A i \in 0 .. size - 1 : pushed'[i + 1] = pushed[i + 1]
  BY <1>1, <1>2
<1> DEFINE cells == [a \in {Address(storage, size)} |-> v]
<1>5. DOMAIN cells = {Address(storage, size)} /\ cells[Address(storage, size)] = v
  OBVIOUS
<1>6. memory' = Write(cells)
  BY <1>1
<1> HIDE DEF cells
<1>7. Address(storage, size) \in DOMAIN memory' /\ memory'[Address(storage, size)] = v
  BY <1>5, <1>6, Written
<1>8. ASSUME NEW i \in 0 .. size - 1
      PROVE  /\ Address(storage, i) \in DOMAIN memory'
             /\ memory'[Address(storage, i)] = memory[Address(storage, i)]
  <2>1. Address(storage, i) # Address(storage, size)
    <3>1. storage.offset \in Nat /\ size \in Nat /\ i \in Nat /\ i < size
      BY <1>2 DEF Kept
    <3> QED
      BY <3>1, AddressesDiffer
  <2>2. Address(storage, i) \in DOMAIN memory
    BY <1>2 DEF Kept
  <2> QED
    BY <1>5, <1>6, <2>1, <2>2, Written
<1>9. ASSUME NEW i \in 0 .. size
      PROVE  /\ Address(storage, i) \in DOMAIN memory'
             /\ memory'[Address(storage, i)] = pushed'[i + 1]
  <2>1. CASE i = size
    BY <1>4, <1>7, <2>1
  <2>2. CASE i # size
    <3>1. i \in 0 .. size - 1
      BY <1>2, <2>2
    <3> QED
      BY <1>2, <1>4, <1>8, <3>1 DEF Kept
  <2> QED
    BY <2>1, <2>2
<1>10. Kept'
  BY <1>1, <1>2, <1>9 DEF Kept, Address
<1> QED
  BY <1>1, <1>2, <1>3, <1>4, <1>10 DEF ContainerInv

\* The storage is full: its elements move to one twice as large.
LEMMA PushGrowing ==
    ASSUME ContainerInv, NEW v \in Values, Push(v), ~ (size < capacity)
    PROVE  ContainerInv'
<1> DEFINE more == IF capacity = 0 THEN 1 ELSE capacity * 2
           new == Allocated(more)
<1>1. /\ Allocate(more) /\ capacity' = more
      /\ storage' = [pool |-> new.pool, offset |-> new.offset]
      /\ memory' = Write([a \in DOMAIN Grown(new) \union {Address(new, size)} |->
                             IF a = Address(new, size) THEN v ELSE Grown(new)[a]])
      /\ size' = size + 1 /\ pushed' = Append(pushed, v)
      /\ size = 0 \/ capacity > 0
  BY DEF Push
<1>2. /\ size \in Nat /\ capacity \in Nat /\ pushed \in Seq(Values) /\ Len(pushed) = size
      /\ capacity > 0 => Kept
  BY DEF ContainerInv
<1>3. more \in Nat \ {0} /\ size + 1 <= more
  BY <1>1, <1>2 DEF Kept
<1>4. AllocatorInv'
  BY <1>1, <1>3, AllocatePreservesInv DEF ContainerInv
<1>5. new.offset \in Nat
  BY <1>1, <1>3, AllocateCuts DEF ContainerInv, AllocatorInv, Block
<1>6. \A i : Address(storage', i) = Address(new, i)
  BY <1>1 DEF Address
<1>7. /\ pushed' \in Seq(Values) /\ Len(pushed') = size' /\ pushed'[size + 1] = v
      /\ \A i \in 0 .. size - 1 : pushed'[i + 1] = pushed[i + 1]
  BY <1>1, <1>2
<1> HIDE DEF more, new
<1> DEFINE cells == [a \in DOMAIN Grown(new) \union {Address(new, size)} |->
                        IF a = Address(new, size) THEN v ELSE Grown(new)[a]]
<1>8. /\ DOMAIN cells = DOMAIN Grown(new) \union {Address(new, size)}
      /\ cells[Address(new, size)] = v
      /\ \A a \in DOMAIN Grown(new) : a # Address(new, size) => cells[a] = Grown(new)[a]
  OBVIOUS
<1>9. memory' = Write(cells)
  BY <1>1
<1> HIDE DEF cells
<1>10. Address(new, size) \in DOMAIN memory' /\ memory'[Address(new, size)] = v
  BY <1>8, <1>9, Written
<1>11. ASSUME NEW i \in 0 .. size - 1
       PROVE  /\ Address(new, i) \in DOMAIN memory'
              /\ memory'[Address(new, i)] = pushed[i + 1]
  <2>1. Address(new, i) # Address(new, size)
    BY <1>2, <1>5, AddressesDiffer
  <2>2. capacity > 0 /\ Kept
    BY <1>1, <1>2
  <2>3. /\ Address(new, i) \in DOMAIN Grown(new)
        /\ Grown(new)[Address(new, i)] = memory[Address(storage, i)]
    BY <1>2, <1>5, <2>2, GrownElements DEF Kept
  <2>4. memory[Address(storage, i)] = pushed[i + 1]
    BY <2>2 DEF Kept
  <2> QED
    BY <1>8, <1>9, <2>1, <2>3, <2>4, Written
<1>12. ASSUME NEW i \in 0 .. size
       PROVE  /\ Address(new, i) \in DOMAIN memory'
              /\ memory'[Address(new, i)] = pushed'[i + 1]
  <2>1. CASE i = size
    BY <1>7, <1>10, <2>1
  <2>2. CASE i # size
    <3>1. i \in 0 .. size - 1
      BY <1>2, <2>2
    <3> QED
      BY <1>7, <1>11, <3>1
  <2> QED
    BY <2>1, <2>2
<1>13. Kept'
  <2>1. storage'.offset \in Nat /\ size' <= capacity' /\ 0 .. size' - 1 = 0 .. size
    BY <1>1, <1>2, <1>3, <1>5
  <2>2. \A i \in 0 .. size' - 1 : Address(storage', i) = Address(new, i)
    BY <1>6
  <2> QED
    BY <1>12, <2>1, <2>2 DEF Kept, Address
<1> QED
  BY <1>1, <1>2, <1>3, <1>4, <1>7, <1>13 DEF ContainerInv

\* A map has no storage.
LEMMA InsertNodeStep ==
    ASSUME ContainerInv, NEW v \in Values, InsertNode(v)
    PROVE  ContainerInv'
<1>1. /\ capacity = 0 /\ UNCHANGED capacity /\ Allocate(1)
      /\ size' = size + 1 /\ pushed' = Append(pushed, v)
  BY DEF InsertNode
<1>2. AllocatorInv'
  BY <1>1, AllocatePreservesInv DEF ContainerInv
<1> QED
  BY <1>1, <1>2 DEF ContainerInv

\* A container returns what was pushed, for every size of pools and elements,
\* through all the moves of its storage (TContainer::push_back).
THEOREM ContainerHoldsCorrect == ContainerSpec => []ContainerHolds
<1>1. ContainerInit => ContainerInv
  BY InitAllocatorInv DEF ContainerInit, ContainerInv
<1>2. ContainerInv /\ [ContainerNext]_containerVars => ContainerInv'
  <2> SUFFICES ASSUME ContainerInv, [ContainerNext]_containerVars PROVE ContainerInv'
    OBVIOUS
  <2>1. CASE UNCHANGED containerVars
    <3>1. AllocatorInv'
      BY <2>1, StutterPreservesInv DEF containerVars, allocatorVars, ContainerInv
    <3>2. UNCHANGED <<memory, storage, size, capacity, pushed>>
      BY <2>1 DEF containerVars
    <3> QED
      BY <3>1, <3>2 DEF ContainerInv, Kept, Address
  <2>2. ASSUME NEW v \in Values, Push(v) PROVE ContainerInv'
    BY <2>2, PushInPlace, PushGrowing
  <2>3. ASSUME NEW v \in Values, InsertNode(v) PROVE ContainerInv'
    BY <2>3, InsertNodeStep
  <2> QED
    BY <2>1, <2>2, <2>3 DEF ContainerNext, Stopped
<1>3. ContainerInv => ContainerHolds
  BY DEF ContainerInv, Kept, ContainerHolds, At
<1> QED
  BY <1>1, <1>2, <1>3, PTL DEF ContainerSpec

-------------------------------------------------------------------------------
(* Sorted lists *)

Cell == [index : ColIds, value : Values \union {V}]
Row == [index : RowIds, cells : Seq(Cell)]

Sorted(list) == \A i, j \in 1 .. Len(list) : i < j => list[i].index < list[j].index

\* A sorted list of elements with an index.
List(list, T) == list \in Seq(T) /\ \A e \in T : e.index \in Nat

LEMMA LeastOf ==
    ASSUME NEW S \in SUBSET Nat, S # {}
    PROVE  \E i \in S : \A j \in S : i <= j
<1>1. PICK i \in S : \A j \in S : ~ (<<j, i>> \in OpToRel(<, Nat))
  BY NatLessThanWellFounded, WFMin
<1>2. \A j \in S : ~ (j < i)
  BY <1>1 DEF OpToRel
<1> QED
  BY <1>2

\* A set that contains with a number all smaller ones is an interval.
LEMMA InitialSegment ==
    ASSUME NEW n \in Nat, NEW S \in SUBSET (1 .. n), \A i \in S : \A j \in 1 .. i : j \in S
    PROVE  Cardinality(S) \in 0 .. n /\ S = 1 .. Cardinality(S)
<1>1. PICK k \in 1 .. n + 1 : k \notin S /\ \A j \in 1 .. n + 1 : j \notin S => k <= j
  <2>1. PICK T : T = {j \in 1 .. n + 1 : j \notin S}
    OBVIOUS
  <2>2. n + 1 \in T /\ T \in SUBSET Nat
    BY <2>1
  <2>3. PICK k \in T : \A j \in T : k <= j
    BY <2>2, LeastOf
  <2> QED
    BY <2>1, <2>3
<1>2. PICK m \in Nat : m = k - 1
  OBVIOUS
<1>3. \A j \in 1 .. m : j \in S
  BY <1>1, <1>2
<1>4. \A j \in S : j \in 1 .. m
  <2> TAKE j \in S
  <2>1. j \in 1 .. n /\ ~ (k \in 1 .. j)
    BY <1>1
  <2> QED
    BY <2>1, <1>1, <1>2
<1>5. S = 1 .. m
  BY <1>3, <1>4
<1>6. Cardinality(1 .. m) = m
  BY <1>2, FS_Interval
<1> QED
  BY <1>1, <1>2, <1>5, <1>6

\* lower_bound: the first element that is not less.
LEMMA LowerBoundIs ==
    ASSUME NEW T, NEW list, List(list, T), Sorted(list), NEW ix \in Nat
    PROVE  \E l \in 1 .. Len(list) + 1 :
              /\ SparseMatrix!LowerBound(list, ix) = l
              /\ \A i \in 1 .. Len(list) : i < l => list[i].index < ix
              /\ \A i \in 1 .. Len(list) : i >= l => list[i].index >= ix
<1>1. PICK n \in Nat : n = Len(list) /\ DOMAIN list = 1 .. n
  BY LenProperties DEF List
<1>2. \A i \in 1 .. n : list[i].index \in Nat
  BY <1>1, ElementOfSeq DEF List
<1> DEFINE S == {i \in DOMAIN list : list[i].index < ix}
<1>3. SparseMatrix!LowerBound(list, ix) = Cardinality(S) + 1
  <2>1. SparseMatrix!Cardinality(S) = Cardinality(S)
    BY DEF SparseMatrix!Cardinality, Cardinality
  <2> QED
    BY <2>1 DEF SparseMatrix!LowerBound
<1>4. S \in SUBSET (1 .. n)
  BY <1>1
<1>5. \A i \in S : \A j \in 1 .. i : j \in S
  <2> TAKE i \in S
  <2> TAKE j \in 1 .. i
  <2>1. i \in 1 .. n /\ j \in 1 .. n /\ list[i].index < ix
    BY <1>1
  <2>2. j = i \/ list[j].index < list[i].index
    BY <2>1, <1>1 DEF Sorted
  <2> QED
    BY <2>1, <2>2, <1>1, <1>2
<1>6. Cardinality(S) \in 0 .. n /\ S = 1 .. Cardinality(S)
  <2> HIDE DEF S
  <2> QED
    BY <1>1, <1>4, <1>5, InitialSegment
<1>7. PICK m \in 0 .. n : m = Cardinality(S) /\ S = 1 .. m
  BY <1>6
<1>8. SparseMatrix!LowerBound(list, ix) = m + 1
  BY <1>3, <1>7
<1>9. ASSUME NEW i \in 1 .. n
      PROVE  (i < m + 1 => list[i].index < ix) /\ (i >= m + 1 => list[i].index >= ix)
  <2>1. i \in S <=> i < m + 1
    <3> HIDE DEF S
    <3>1. i \in 1 .. m <=> i < m + 1
      BY <1>1, <1>7
    <3> QED
      BY <3>1, <1>7
  <2>2. i \in S <=> list[i].index < ix
    BY <1>1
  <2> QED
    <3> HIDE DEF S
    <3> QED
      BY <2>1, <2>2, <1>2
<1>10. PICK l \in 1 .. n + 1 : l = m + 1
  OBVIOUS
<1> QED
  BY <1>1, <1>8, <1>9, <1>10

\* What is in a list.
Has(list, e) == \E i \in 1 .. Len(list) : list[i] = e

\* list::insert before an element, or at the end.
InsertedAt(list, l, e, new) ==
    /\ Len(new) = Len(list) + 1
    /\ \A i \in 1 .. Len(list) + 1 :
          new[i] = IF i < l THEN list[i] ELSE IF i = l THEN e ELSE list[i - 1]

LEMMA Inserted ==
    ASSUME NEW T, NEW list, NEW l, NEW e, list \in Seq(T), l \in 1 .. Len(list) + 1, e \in T
    PROVE  /\ SparseMatrix!InsertAt(list, l, e) \in Seq(T)
           /\ InsertedAt(list, l, e, SparseMatrix!InsertAt(list, l, e))
<1>0. PICK n \in Nat : n = Len(list)
  BY LenProperties
<1>1. PICK m \in Nat : m = l - 1 /\ l = m + 1 /\ m <= n
  BY <1>0
<1>2. \A i \in 1 .. n : list[i] \in T
  BY <1>0, ElementOfSeq
<1>3. PICK front : front = SubSeq(list, 1, m)
  OBVIOUS
<1>4. PICK back : back = SubSeq(list, l, n)
  OBVIOUS
<1>5. front \in Seq(T) /\ Len(front) = m /\ \A i \in 1 .. m : front[i] = list[i]
  <2>1. \A i \in 1 .. m : list[i] \in T
    BY <1>1, <1>2
  <2>2. m - 1 + 1 = m /\ (1 <= m \/ m = 0) /\ \A i \in 1 .. m : 1 + i - 1 = i
    BY <1>1
  <2> QED
    BY <1>3, <2>1, <2>2, SubSeqProperties
<1>6. back \in Seq(T) /\ Len(back) = n - m /\ \A i \in 1 .. n - m : back[i] = list[m + i]
  <2>1. \A i \in l .. n : list[i] \in T
    BY <1>2
  <2>2. n - l + 1 = n - m /\ (l <= n \/ n - m = 0) /\ \A i \in 1 .. n - m : l + i - 1 = m + i
    BY <1>1
  <2> QED
    BY <1>4, <2>1, <2>2, SubSeqProperties
<1>7. PICK new : new = front \o <<e>> \o back
  OBVIOUS
<1>8. new = SparseMatrix!InsertAt(list, l, e)
  BY <1>0, <1>1, <1>3, <1>4, <1>7 DEF SparseMatrix!InsertAt
<1>9. PICK head : head = front \o <<e>>
  OBVIOUS
<1>10. /\ head \in Seq(T) /\ Len(head) = m + 1
       /\ \A i \in 1 .. m + 1 : head[i] = IF i <= m THEN front[i] ELSE e
  <2>1. <<e>> \in Seq(T) /\ Len(<<e>>) = 1 /\ <<e>>[1] = e
    OBVIOUS
  <2>2. /\ head \in Seq(T) /\ Len(head) = m + 1
        /\ \A i \in 1 .. m + 1 : head[i] = IF i <= m THEN front[i] ELSE <<e>>[i - m]
    BY <1>5, <1>9, <2>1, ConcatProperties
  <2>3. \A i \in 1 .. m + 1 : i <= m \/ i - m = 1
    BY <1>1
  <2> QED
    BY <2>1, <2>2, <2>3
<1>11. /\ new \in Seq(T) /\ Len(new) = (m + 1) + (n - m)
       /\ \A i \in 1 .. (m + 1) + (n - m) :
             new[i] = IF i <= m + 1 THEN head[i] ELSE back[i - (m + 1)]
  <2>1. new = head \o back
    BY <1>7, <1>9
  <2>2. /\ new \in Seq(T) /\ Len(new) = Len(head) + Len(back)
        /\ \A i \in 1 .. Len(head) + Len(back) :
              new[i] = IF i <= Len(head) THEN head[i] ELSE back[i - Len(head)]
    BY <1>6, <1>10, <2>1, ConcatProperties
  <2> QED
    BY <1>6, <1>10, <2>2
<1>12. (m + 1) + (n - m) = n + 1
  BY <1>1
<1>13. ASSUME NEW i \in 1 .. n + 1
       PROVE  new[i] = IF i < l THEN list[i] ELSE IF i = l THEN e ELSE list[i - 1]
  <2>1. CASE i <= m
    <3>1. i \in 1 .. m /\ i \in 1 .. m + 1 /\ i <= m + 1 /\ i < l
      BY <1>1, <2>1
    <3> QED
      BY <2>1, <3>1, <1>5, <1>10, <1>11, <1>12
  <2>2. CASE i = m + 1
    <3>1. i \in 1 .. m + 1 /\ ~ (i <= m) /\ i = l
      BY <1>1, <2>2
    <3> QED
      BY <2>2, <3>1, <1>10, <1>11, <1>12
  <2>3. CASE i > m + 1
    <3>1. i - (m + 1) \in 1 .. n - m /\ m + (i - (m + 1)) = i - 1 /\ ~ (i < l) /\ i # l
      BY <1>1, <2>3
    <3> QED
      BY <2>3, <3>1, <1>6, <1>11, <1>12
  <2> QED
    BY <1>1, <2>1, <2>2, <2>3
<1> QED
  BY <1>0, <1>8, <1>11, <1>12, <1>13 DEF InsertedAt

\* Elements after an insertion.
LEMMA InsertedHas ==
    ASSUME NEW T, NEW list, NEW l, NEW e, list \in Seq(T), l \in 1 .. Len(list) + 1, e \in T,
           NEW x
    PROVE  Has(SparseMatrix!InsertAt(list, l, e), x) <=> x = e \/ Has(list, x)
<1>0. PICK n \in Nat : n = Len(list)
  BY LenProperties
<1>1. PICK new : /\ new = SparseMatrix!InsertAt(list, l, e) /\ Len(new) = n + 1 /\ l \in 1 .. n + 1
                 /\ \A i \in 1 .. n + 1 :
                       new[i] = IF i < l THEN list[i] ELSE IF i = l THEN e ELSE list[i - 1]
  BY <1>0, Inserted DEF InsertedAt
<1>2. ASSUME NEW i \in 1 .. n + 1, new[i] = x PROVE x = e \/ Has(list, x)
  <2>1. CASE i < l
    <3>1. i \in 1 .. n /\ list[i] = x
      BY <1>1, <1>2, <2>1
    <3> QED
      BY <3>1, <1>0 DEF Has
  <2>2. CASE i = l
    BY <1>1, <1>2, <2>2
  <2>3. CASE i > l
    <3>1. i - 1 \in 1 .. n /\ list[i - 1] = x
      BY <1>1, <1>2, <2>3
    <3> QED
      BY <3>1, <1>0 DEF Has
  <2> QED
    BY <2>1, <2>2, <2>3, <1>1
<1>3. ASSUME NEW i \in 1 .. n, list[i] = x PROVE Has(new, x)
  <2>1. CASE i < l
    <3>1. i \in 1 .. n + 1 /\ new[i] = x
      BY <1>1, <1>3, <2>1
    <3> QED
      BY <3>1, <1>1 DEF Has
  <2>2. CASE ~ (i < l)
    <3>1. PICK j \in 1 .. n + 1 : j = i + 1
      OBVIOUS
    <3>2. new[j] = x
      BY <1>1, <1>3, <2>2, <3>1
    <3> QED
      BY <3>2, <1>1 DEF Has
  <2> QED
    BY <2>1, <2>2
<1>4. x = e => Has(new, x)
  <2>1. l \in 1 .. n + 1 /\ new[l] = e
    BY <1>1
  <2> QED
    BY <2>1, <1>1 DEF Has
<1> QED
  BY <1>0, <1>1, <1>2, <1>3, <1>4 DEF Has

\* A cell and a row with their index.
CellOf(c, v) == [index |-> c, value |-> v]
RowOf(r, cells) == [index |-> r, cells |-> cells]

LEMMA AssignIs ==
    ASSUME NEW cells \in Seq(Cell), Sorted(cells), NEW c \in ColIds, NEW v \in Values \union {V}
    PROVE  \E new \in Seq(Cell) :
              /\ new = SparseMatrix!Assign(cells, c, v)
              /\ Sorted(new) /\ Len(new) \in Nat \ {0}
              /\ \A e : Has(new, e) <=> e = CellOf(c, v) \/ (Has(cells, e) /\ e.index # c)
<1>1. PICK n \in Nat : n = Len(cells)
  BY LenProperties
<1>2. c \in Nat /\ \A e \in Cell : e.index \in Nat
  BY IndicesAssumption DEF Cell
<1>3. List(cells, Cell) /\ \A i \in 1 .. n : cells[i] \in Cell /\ cells[i].index \in Nat
  BY <1>1, <1>2, ElementOfSeq DEF List
<1>4. PICK l \in 1 .. n + 1 :
         /\ SparseMatrix!LowerBound(cells, c) = l
         /\ \A i \in 1 .. n : i < l => cells[i].index < c
         /\ \A i \in 1 .. n : i >= l => cells[i].index >= c
  BY <1>1, <1>2, <1>3, LowerBoundIs
<1>5. PICK cell \in Cell : cell = CellOf(c, v)
  BY DEF Cell, CellOf
<1>6. cell.index = c /\ cell.value = v
  BY <1>5 DEF CellOf
<1>7. CASE l <= n /\ cells[l].index = c
  <2>1. PICK new : new = [cells EXCEPT ![l].value = v]
    OBVIOUS
  <2>2. new = SparseMatrix!Assign(cells, c, v)
    BY <1>1, <1>4, <1>7, <2>1 DEF SparseMatrix!Assign
  <2>3. l \in 1 .. n /\ cells[l] \in Cell
    BY <1>3, <1>7
  <2>4. [cells[l] EXCEPT !.value = v] = cell
    BY <1>7, <2>3, <1>5 DEF Cell, CellOf
  <2>5. new = [cells EXCEPT ![l] = cell]
    BY <2>1, <2>4
  <2>6. /\ new \in Seq(Cell) /\ Len(new) = n
        /\ \A i \in 1 .. n : new[i] = IF i = l THEN cell ELSE cells[i]
    BY <1>1, <2>3, <2>5, ExceptSeq
  <2>7. \A i \in 1 .. n : new[i].index = cells[i].index
    BY <1>6, <1>7, <2>6
  <2>8. Sorted(new)
    BY <1>1, <2>6, <2>7 DEF Sorted
  <2>9. \A i \in 1 .. n : cells[i].index = c <=> i = l
    BY <1>1, <1>3, <1>7, <2>3 DEF Sorted
  <2>10. ASSUME NEW e
         PROVE  Has(new, e) <=> e = cell \/ (Has(cells, e) /\ e.index # c)
    BY <1>1, <1>6, <2>3, <2>6, <2>9 DEF Has
  <2> QED
    BY <1>5, <1>7, <2>2, <2>6, <2>8, <2>10
<1>8. CASE ~ (l <= n /\ cells[l].index = c)
  <2>1. PICK new \in Seq(Cell) :
           /\ new = SparseMatrix!InsertAt(cells, l, cell) /\ Len(new) = n + 1
           /\ \A i \in 1 .. n + 1 :
                 new[i] = IF i < l THEN cells[i] ELSE IF i = l THEN cell ELSE cells[i - 1]
    <3>1. /\ SparseMatrix!InsertAt(cells, l, cell) \in Seq(Cell)
          /\ InsertedAt(cells, l, cell, SparseMatrix!InsertAt(cells, l, cell))
      BY <1>1, Inserted
    <3> QED
      BY <3>1, <1>1 DEF InsertedAt
  <2>2. new = SparseMatrix!Assign(cells, c, v)
    BY <1>1, <1>4, <1>5, <1>8, <2>1 DEF SparseMatrix!Assign, CellOf
  <2>3. \A i \in 1 .. n : i >= l => cells[i].index > c
    <3> TAKE i \in 1 .. n
    <3>1. i > l => cells[l].index < cells[i].index
      BY <1>1 DEF Sorted
    <3>2. i > l => l \in 1 .. n /\ cells[l].index \in Nat /\ cells[l].index >= c
      BY <1>3, <1>4
    <3>3. i = l => cells[i].index >= c /\ cells[i].index # c
      BY <1>4, <1>8
    <3> QED
      BY <3>1, <3>2, <3>3, <1>2, <1>3
  <2>4. Sorted(new)
    <3> SUFFICES ASSUME NEW i \in 1 .. n + 1, NEW j \in 1 .. n + 1, i < j
                 PROVE  new[i].index < new[j].index
      BY <2>1 DEF Sorted
    <3>1. CASE j < l
      <4>1. i \in 1 .. n /\ j \in 1 .. n /\ i < l
        BY <3>1
      <4> QED
        BY <4>1, <3>1, <1>1, <2>1 DEF Sorted
    <3>2. CASE j = l
      <4>1. i \in 1 .. n /\ i < l
        BY <3>2
      <4> QED
        BY <4>1, <3>2, <1>4, <1>6, <2>1
    <3>3. CASE j > l
      <4>1. PICK k \in 1 .. n : k = j - 1 /\ k >= l
        BY <3>3
      <4>2. new[j] = cells[k] /\ cells[k].index > c
        BY <4>1, <3>3, <2>1, <2>3
      <4>3. CASE i < l
        <5>1. i \in 1 .. n /\ i < k
          BY <4>1, <4>3
        <5> QED
          BY <5>1, <4>2, <4>3, <1>1, <2>1 DEF Sorted
      <4>4. CASE i = l
        BY <4>2, <4>4, <1>6, <2>1
      <4>5. CASE i > l
        <5>1. i - 1 \in 1 .. n /\ i - 1 < k
          BY <4>1, <4>5
        <5>2. cells[i - 1].index < cells[k].index
          BY <5>1, <1>1 DEF Sorted
        <5>3. new[i] = cells[i - 1]
          BY <4>5, <2>1
        <5> QED
          BY <5>2, <5>3, <4>2
      <4> QED
        BY <4>3, <4>4, <4>5
    <3> QED
      BY <3>1, <3>2, <3>3
  <2>5. \A i \in 1 .. n : cells[i].index # c
    BY <1>2, <1>3, <1>4, <2>3
  <2>6. ASSUME NEW e
        PROVE  Has(new, e) <=> e = cell \/ (Has(cells, e) /\ e.index # c)
    <3>1. Has(new, e) <=> e = cell \/ Has(cells, e)
      BY <1>1, <2>1, InsertedHas
    <3>2. Has(cells, e) => e.index # c
      BY <1>1, <2>5 DEF Has
    <3> QED
      BY <3>1, <3>2
  <2> QED
    BY <1>5, <2>1, <2>2, <2>4, <2>6
<1> QED
  BY <1>7, <1>8

-------------------------------------------------------------------------------
(* The matrix *)

RowsOK(list) ==
    /\ list \in Seq(Row) /\ Sorted(list)
    /\ \A i \in 1 .. Len(list) : Sorted(list[i].cells) /\ Len(list[i].cells) \in Nat \ {0}

\* What is in a list of rows.
Holds(list, r, c, v) == \E cells : Has(list, RowOf(r, cells)) /\ Has(cells, CellOf(c, v))

LEMMA RowsTypes ==
    ASSUME NEW list, RowsOK(list)
    PROVE  /\ Len(list) \in Nat /\ DOMAIN list = 1 .. Len(list) /\ List(list, Row)
           /\ \A i \in 1 .. Len(list) :
                 /\ list[i] \in Row /\ list[i].index \in RowIds /\ list[i].index \in Nat
                 /\ list[i].cells \in Seq(Cell) /\ list[i] = RowOf(list[i].index, list[i].cells)
                 /\ Sorted(list[i].cells) /\ Len(list[i].cells) \in Nat \ {0}
<1>1. Len(list) \in Nat /\ DOMAIN list = 1 .. Len(list) /\ list \in Seq(Row)
  BY LenProperties DEF RowsOK
<1>2. \A row \in Row : /\ row.index \in RowIds /\ row.index \in Nat /\ row.cells \in Seq(Cell)
                       /\ row = RowOf(row.index, row.cells)
  <2> TAKE row \in Row
  <2>1. row.index \in RowIds /\ row.cells \in Seq(Cell)
    BY DEF Row
  <2>2. row = [index |-> row.index, cells |-> row.cells]
    BY DEF Row
  <2> QED
    BY <2>1, <2>2, IndicesAssumption DEF RowOf
<1>3. \A i \in 1 .. Len(list) : list[i] \in Row
  BY <1>1, ElementOfSeq
<1>4. List(list, Row)
  BY <1>1, <1>2 DEF List
<1> QED
  BY <1>1, <1>2, <1>3, <1>4 DEF RowsOK

\* A row of a sorted list is where its index is.
LEMMA OneRow ==
    ASSUME NEW list, RowsOK(list), NEW i \in 1 .. Len(list), NEW j \in 1 .. Len(list),
           list[i].index = list[j].index
    PROVE  i = j
  BY RowsTypes DEF RowsOK, Sorted

LEMMA OneRowHas ==
    ASSUME NEW list, RowsOK(list), NEW r, NEW a, NEW b, Has(list, RowOf(r, a)), Has(list, RowOf(r, b))
    PROVE  a = b
<1>1. PICK i \in 1 .. Len(list) : list[i] = RowOf(r, a)
  BY DEF Has
<1>2. PICK j \in 1 .. Len(list) : list[j] = RowOf(r, b)
  BY DEF Has
<1>3. list[i].index = r /\ list[j].index = r /\ list[i].cells = a /\ list[j].cells = b
  BY <1>1, <1>2 DEF RowOf
<1>4. i = j
  BY <1>3, OneRow
<1> QED
  BY <1>3, <1>4

LEMMA EmptyCells == << >> \in Seq(Cell) /\ Sorted(<< >>) /\ \A e : ~ Has(<< >>, e)
<1>1. << >> \in Seq(Cell) /\ Len(<< >>) = 0
  OBVIOUS
<1> QED
  BY <1>1 DEF Sorted, Has

\* What m[r][c] = v makes of the rows.
RowSet(old, new, r, c, v) ==
    \E before \in Seq(Cell) : \E after \in Seq(Cell) :
        /\ Has(old, RowOf(r, before)) \/ (before = << >> /\ \A cells : ~ Has(old, RowOf(r, cells)))
        /\ \A e : Has(after, e) <=> e = CellOf(c, v) \/ (Has(before, e) /\ e.index # c)
        /\ \A q, cells : Has(new, RowOf(q, cells)) <=>
                            \/ q = r /\ cells = after
                            \/ q # r /\ Has(old, RowOf(q, cells))

LEMMA HoldsAfter ==
    ASSUME NEW old, NEW new, RowsOK(old), NEW r, NEW c, NEW v, RowSet(old, new, r, c, v),
           NEW q, NEW d, NEW w
    PROVE  Holds(new, q, d, w) <=> IF q = r /\ d = c THEN w = v ELSE Holds(old, q, d, w)
<1>1. PICK before \in Seq(Cell), after \in Seq(Cell) :
        /\ Has(old, RowOf(r, before)) \/ (before = << >> /\ \A cells : ~ Has(old, RowOf(r, cells)))
        /\ \A e : Has(after, e) <=> e = CellOf(c, v) \/ (Has(before, e) /\ e.index # c)
        /\ \A p, cells : Has(new, RowOf(p, cells)) <=>
                            \/ p = r /\ cells = after
                            \/ p # r /\ Has(old, RowOf(p, cells))
  BY DEF RowSet
<1>2. CASE q # r
  BY <1>1, <1>2 DEF Holds
<1>3. CASE q = r
  <2>1. Holds(new, r, d, w) <=> Has(after, CellOf(d, w))
    BY <1>1 DEF Holds
  <2>2. Holds(old, r, d, w) <=> Has(before, CellOf(d, w))
    BY <1>1, OneRowHas, EmptyCells DEF Holds
  <2>3. CellOf(d, w).index = d /\ (CellOf(d, w) = CellOf(c, v) <=> d = c /\ w = v)
    BY DEF CellOf
  <2> QED
    BY <1>1, <1>3, <2>1, <2>2, <2>3
<1> QED
  BY <1>2, <1>3

LEMMA RowWritten ==
    ASSUME RowsOK(rows), NEW r \in RowIds, NEW c \in ColIds, NEW v \in Values \union {V},
           SparseMatrix!WriteRow(r, c, v)
    PROVE  RowsOK(rows') /\ RowSet(rows, rows', r, c, v) /\ Len(rows') = Len(rows)
           /\ \A i \in 1 .. Len(rows) : rows'[i].index = rows[i].index
<1>1. PICK n \in Nat : n = Len(rows) /\ DOMAIN rows = 1 .. n
  BY RowsTypes
<1>2. PICK l : l = SparseMatrix!LowerBound(rows, r)
  OBVIOUS
<1>3. l \in 1 .. n + 1
  BY <1>1, <1>2, RowsTypes, LowerBoundIs, IndicesAssumption DEF RowsOK
<1>4. /\ l <= n /\ rows[l].index = r
      /\ rows' = [rows EXCEPT ![l].cells = SparseMatrix!Assign(@, c, v)]
  BY <1>1, <1>2 DEF SparseMatrix!WriteRow
<1>5. l \in 1 .. n
  BY <1>3, <1>4
<1>6. PICK before : before = rows[l].cells
  OBVIOUS
<1>7. /\ before \in Seq(Cell) /\ Sorted(before) /\ rows[l] = RowOf(r, before) /\ rows[l] \in Row
      /\ rows \in Seq(Row)
  BY <1>1, <1>4, <1>5, <1>6, RowsTypes DEF RowsOK
<1>8. PICK after \in Seq(Cell) :
        /\ after = SparseMatrix!Assign(before, c, v)
        /\ Sorted(after) /\ Len(after) \in Nat \ {0}
        /\ \A e : Has(after, e) <=> e = CellOf(c, v) \/ (Has(before, e) /\ e.index # c)
  BY <1>7, AssignIs
<1>9. PICK row \in Row : row = RowOf(r, after)
  BY DEF RowOf, Row
<1>10. [rows[l] EXCEPT !.cells = after] = row
  BY <1>7, <1>9 DEF RowOf
<1>11. rows' = [rows EXCEPT ![l] = row]
  BY <1>4, <1>6, <1>8, <1>10
<1>12. /\ rows' \in Seq(Row) /\ Len(rows') = n
       /\ \A i \in 1 .. n : rows'[i] = IF i = l THEN row ELSE rows[i]
  BY <1>1, <1>5, <1>7, <1>11, ExceptSeq
<1>13. row.index = r /\ row.cells = after
  BY <1>9 DEF RowOf
<1>14. \A i \in 1 .. n : rows'[i].index = rows[i].index
  BY <1>4, <1>12, <1>13
<1>15. RowsOK(rows')
  <2>1. Sorted(rows')
    BY <1>1, <1>12, <1>14 DEF RowsOK, Sorted
  <2>2. \A i \in 1 .. n : Sorted(rows'[i].cells) /\ Len(rows'[i].cells) \in Nat \ {0}
    BY <1>1, <1>8, <1>12, <1>13 DEF RowsOK
  <2> QED
    BY <1>12, <2>1, <2>2 DEF RowsOK
<1>16. \A i \in 1 .. n : rows[i].index = r <=> i = l
  BY <1>1, <1>4, <1>5, OneRow
<1>17. ASSUME NEW q, NEW cells
       PROVE  Has(rows', RowOf(q, cells)) <=>
                  \/ q = r /\ cells = after
                  \/ q # r /\ Has(rows, RowOf(q, cells))
  <2>1. RowOf(q, cells).index = q /\ RowOf(q, cells).cells = cells
    BY DEF RowOf
  <2>2. PICK x : x = RowOf(q, cells)
    OBVIOUS
  <2>3. Has(rows', x) <=> \E i \in 1 .. n : rows'[i] = x
    BY <1>12 DEF Has
  <2>4. Has(rows, x) <=> \E i \in 1 .. n : rows[i] = x
    BY <1>1 DEF Has
  <2>5. CASE q = r
    <3>1. Has(rows', x) <=> row = x
      BY <1>5, <1>12, <1>14, <1>16, <2>1, <2>2, <2>3, <2>5
    <3>2. row = x <=> cells = after
      BY <1>9, <1>13, <2>1, <2>2, <2>5
    <3> QED
      BY <2>2, <2>5, <3>1, <3>2
  <2>6. CASE q # r
    BY <1>12, <1>13, <1>16, <2>1, <2>2, <2>3, <2>4, <2>6
  <2> QED
    BY <2>5, <2>6
<1>18. Has(rows, RowOf(r, before))
  BY <1>1, <1>5, <1>7 DEF Has
<1>19. RowSet(rows, rows', r, c, v)
  BY <1>7, <1>8, <1>17, <1>18 DEF RowSet
<1> QED
  BY <1>1, <1>12, <1>14, <1>15, <1>19

LEMMA RowAppended ==
    ASSUME RowsOK(rows), NEW r \in RowIds, NEW c \in ColIds, NEW v \in Values \union {V},
           SparseMatrix!AppendRow(r, c, v)
    PROVE  /\ RowsOK(rows') /\ RowSet(rows, rows', r, c, v) /\ Len(rows') = Len(rows) + 1
           /\ \A i \in 1 .. Len(rows) : rows'[i] = rows[i] /\ rows[i].index < r
           /\ rows'[Len(rows) + 1].index = r
<1>1. PICK n \in Nat : n = Len(rows)
  BY RowsTypes
<1>2. \A i \in 1 .. n : rows[i].index < r
  <2>1. PICK l \in 1 .. n + 1 :
           /\ SparseMatrix!LowerBound(rows, r) = l
           /\ \A i \in 1 .. n : i < l => rows[i].index < r
    BY <1>1, RowsTypes, LowerBoundIs, IndicesAssumption DEF RowsOK
  <2>2. l = n + 1
    BY <1>1, <2>1 DEF SparseMatrix!AppendRow
  <2> QED
    BY <2>1, <2>2
<1>3. PICK after \in Seq(Cell) :
        /\ after = SparseMatrix!Assign(<< >>, c, v)
        /\ Sorted(after) /\ Len(after) \in Nat \ {0}
        /\ \A e : Has(after, e) <=> e = CellOf(c, v) \/ (Has(<< >>, e) /\ e.index # c)
  BY EmptyCells, AssignIs
<1>4. PICK row \in Row : row = RowOf(r, after) /\ row.index = r /\ row.cells = after
  <2>1. RowOf(r, after) \in Row /\ RowOf(r, after).index = r /\ RowOf(r, after).cells = after
    BY DEF RowOf, Row
  <2> QED
    BY <2>1
<1>5. rows' = Append(rows, row)
  BY <1>3, <1>4 DEF SparseMatrix!AppendRow, RowOf
<1>6. /\ rows' \in Seq(Row) /\ Len(rows') = n + 1 /\ rows'[n + 1] = row
      /\ \A i \in 1 .. n : rows'[i] = rows[i]
  BY <1>1, <1>5, AppendProperties DEF RowsOK
<1>7. \A i \in 1 .. n + 1 : i \in 1 .. n \/ i = n + 1
  BY <1>1
<1>8. RowsOK(rows')
  <2>1. Sorted(rows')
    <3> SUFFICES ASSUME NEW i \in 1 .. n + 1, NEW j \in 1 .. n + 1, i < j
                 PROVE  rows'[i].index < rows'[j].index
      BY <1>6 DEF Sorted
    <3>1. i \in 1 .. n
      BY <1>1
    <3>2. CASE j = n + 1
      BY <3>1, <3>2, <1>2, <1>4, <1>6
    <3>3. CASE j # n + 1
      <4>1. j \in 1 .. n
        BY <3>3, <1>7
      <4> QED
        BY <3>1, <4>1, <1>1, <1>6 DEF RowsOK, Sorted
    <3> QED
      BY <3>2, <3>3
  <2>2. \A i \in 1 .. n + 1 : Sorted(rows'[i].cells) /\ Len(rows'[i].cells) \in Nat \ {0}
    BY <1>1, <1>3, <1>4, <1>6, <1>7 DEF RowsOK
  <2> QED
    BY <1>6, <2>1, <2>2 DEF RowsOK
<1>9. \A cells : ~ Has(rows, RowOf(r, cells))
  <2>1. r \in Nat /\ \A cells : RowOf(r, cells).index = r
    BY IndicesAssumption DEF RowOf
  <2> QED
    BY <2>1, <1>1, <1>2 DEF Has
<1>10. ASSUME NEW q, NEW cells
       PROVE  Has(rows', RowOf(q, cells)) <=>
                  \/ q = r /\ cells = after
                  \/ q # r /\ Has(rows, RowOf(q, cells))
  <2>1. PICK x : x = RowOf(q, cells) /\ x.index = q /\ x.cells = cells
    <3>1. RowOf(q, cells).index = q /\ RowOf(q, cells).cells = cells
      BY DEF RowOf
    <3> QED
      BY <3>1
  <2>2. Has(rows', x) <=> row = x \/ Has(rows, x)
    <3>1. Has(rows', x) <=> \E i \in 1 .. n + 1 : rows'[i] = x
      BY <1>6 DEF Has
    <3>2. Has(rows, x) <=> \E i \in 1 .. n : rows[i] = x
      BY <1>1 DEF Has
    <3>3. n + 1 \in 1 .. n + 1 /\ \A i \in 1 .. n : i \in 1 .. n + 1
      BY <1>1
    <3> QED
      BY <3>1, <3>2, <3>3, <1>6, <1>7
  <2>3. row = x <=> q = r /\ cells = after
    BY <2>1, <1>4
  <2> QED
    BY <2>1, <2>2, <2>3, <1>9
<1>11. RowSet(rows, rows', r, c, v)
  BY <1>3, <1>9, <1>10, EmptyCells DEF RowSet
<1> QED
  BY <1>1, <1>2, <1>4, <1>6, <1>8, <1>11

\* A row before others that has none: operator[] dereferences null.
LEMMA RowInserted ==
    ASSUME RowsOK(rows), NEW r \in RowIds, NEW c \in ColIds, NEW v,
           SparseMatrix!InsertRow(r, c, v)
    PROVE  /\ \A i \in 1 .. Len(rows) : rows[i].index # r
           /\ \E i \in 1 .. Len(rows) : rows[i].index > r
<1>1. PICK n \in Nat : n = Len(rows) /\ r \in Nat
  BY RowsTypes, IndicesAssumption
<1>2. PICK l \in 1 .. n + 1 :
         /\ SparseMatrix!LowerBound(rows, r) = l
         /\ \A i \in 1 .. n : i < l => rows[i].index < r
         /\ \A i \in 1 .. n : i >= l => rows[i].index >= r
  BY <1>1, RowsTypes, LowerBoundIs DEF RowsOK
<1>3. l \in 1 .. n /\ rows[l].index # r
  BY <1>1, <1>2 DEF SparseMatrix!InsertRow
<1>4. \A i \in 1 .. n : rows[i].index \in Nat
  BY <1>1, RowsTypes
<1>5. rows[l].index > r
  BY <1>1, <1>2, <1>3, <1>4
<1>6. ASSUME NEW i \in 1 .. n
      PROVE  rows[i].index # r
  <2>1. CASE i < l
    BY <2>1, <1>1, <1>2, <1>4
  <2>2. CASE i = l
    BY <2>2, <1>3
  <2>3. CASE i > l
    <3>1. rows[l].index < rows[i].index
      BY <2>3, <1>1, <1>3 DEF RowsOK, Sorted
    <3> QED
      BY <3>1, <1>1, <1>3, <1>4, <1>5
  <2> QED
    BY <2>1, <2>2, <2>3
<1> QED
  BY <1>1, <1>3, <1>5, <1>6

LEMMA PositionsAre ==
    ASSUME NEW list, NEW n, DOMAIN list = 1 .. n, NEW ix
    PROVE  SparseMatrix!Positions(list, ix) = {} <=> \A i \in 1 .. n : list[i].index # ix
  BY DEF SparseMatrix!Positions

\* What is found by an index.
LEMMA ItemIs ==
    ASSUME NEW list, NEW n \in Nat, DOMAIN list = 1 .. n, NEW i \in 1 .. n,
           \A j \in 1 .. n : list[j].index = list[i].index => j = i
    PROVE  SparseMatrix!Item(list, list[i].index) = list[i]
<1>1. PICK k : k = CHOOSE j \in DOMAIN list : list[j].index = list[i].index
  OBVIOUS
<1>2. k \in 1 .. n /\ list[k].index = list[i].index
  BY <1>1
<1>3. k = i
  BY <1>2
<1> QED
  BY <1>1, <1>3 DEF SparseMatrix!Item

LEMMA CellsAre ==
    ASSUME RowsOK(rows), NEW i \in 1 .. Len(rows)
    PROVE  SparseMatrix!Cells(rows[i].index) = rows[i].cells
<1>1. Len(rows) \in Nat /\ DOMAIN rows = 1 .. Len(rows)
  BY RowsTypes
<1>2. \A j \in 1 .. Len(rows) : rows[j].index = rows[i].index => j = i
  BY OneRow
<1>3. SparseMatrix!Item(rows, rows[i].index) = rows[i]
  BY <1>1, <1>2, ItemIs
<1> QED
  BY <1>3 DEF SparseMatrix!Cells

-------------------------------------------------------------------------------
(* The invariant *)

\* A row is in the list from its first access on.
OpenedOK == \A r : Has(opened, r) <=> \E i \in 1 .. Len(rows) : rows[i].index = r

\* The lists have what was written, and nothing else was written.
ContentOK ==
    /\ written \in [RowIds \X ColIds -> Values \union {V}]
    /\ \A r \in RowIds, c \in ColIds :
          /\ \A v : Holds(rows, r, c, v) => written[<<r, c>>] = v
          /\ (\A v : ~ Holds(rows, r, c, v)) => written[<<r, c>>] = V

\* An iterator is at a cell that exists, and if no row was added, it waits for the end
\* of the row that is still the last one.
LoopOK ==
    it # NoLoop =>
        /\ it \in [row : RowIds, cell : ColIds, last : RowIds]
        /\ \E v : Holds(rows, it.row, it.cell, v)
        /\ ~grown => Len(rows) > 0 /\ rows[Len(rows)].index = it.last

OrderInv ==
    /\ RowsOK(rows)
    /\ opened \in Seq(RowIds)
    /\ SparseMatrix!DefinedInOrder
    /\ ~undefined => OpenedOK /\ ContentOK /\ LoopOK

LEMMA OpenedTypes ==
    ASSUME opened \in Seq(RowIds), NEW r \in RowIds
    PROVE  /\ Append(opened, r) \in Seq(RowIds)
           /\ \A q : Has(Append(opened, r), q) <=> q = r \/ Has(opened, q)
<1>1. PICK n \in Nat : n = Len(opened)
  BY LenProperties
<1>2. /\ Append(opened, r) \in Seq(RowIds) /\ Len(Append(opened, r)) = n + 1
      /\ Append(opened, r)[n + 1] = r /\ \A i \in 1 .. n : Append(opened, r)[i] = opened[i]
  BY <1>1, AppendProperties
<1>3. n + 1 \in 1 .. n + 1 /\ \A i \in 1 .. n + 1 : i \in 1 .. n \/ i = n + 1
  BY <1>1
<1>4. \A i \in 1 .. n : i \in 1 .. n + 1
  BY <1>1
<1> QED
  BY <1>1, <1>2, <1>3, <1>4 DEF Has

LEMMA WrittenContent ==
    ASSUME RowsOK(rows), ContentOK, NEW r \in RowIds, NEW c \in ColIds, NEW v \in Values,
           RowSet(rows, rows', r, c, v), SparseMatrix!Record(r, c, v)
    PROVE  ContentOK'
<1>1. written' = [written EXCEPT ![<<r, c>>] = v]
  BY DEF SparseMatrix!Record
<1>2. written \in [RowIds \X ColIds -> Values \union {V}]
  BY DEF ContentOK
<1>3. written' \in [RowIds \X ColIds -> Values \union {V}]
  BY <1>1, <1>2
<1>4. ASSUME NEW q \in RowIds, NEW d \in ColIds
      PROVE  /\ \A w : Holds(rows', q, d, w) => written'[<<q, d>>] = w
             /\ (\A w : ~ Holds(rows', q, d, w)) => written'[<<q, d>>] = V
  <2>1. \A w : Holds(rows', q, d, w) <=> IF q = r /\ d = c THEN w = v ELSE Holds(rows, q, d, w)
    BY HoldsAfter
  <2>2. written'[<<q, d>>] = IF q = r /\ d = c THEN v ELSE written[<<q, d>>]
    BY <1>1, <1>2
  <2>3. CASE q = r /\ d = c
    BY <2>1, <2>2, <2>3
  <2>4. CASE ~ (q = r /\ d = c)
    BY <2>1, <2>2, <2>4 DEF ContentOK
  <2> QED
    BY <2>3, <2>4
<1> QED
  BY <1>3, <1>4 DEF ContentOK, Holds, Has

LEMMA WritePreservesOrder ==
    ASSUME OrderInv, ~undefined, NEW r \in RowIds, NEW c \in ColIds, NEW v \in Values,
           SparseMatrix!Write(r, c, v)
    PROVE  OrderInv'
<1>1. PICK n \in Nat : n = Len(rows) /\ DOMAIN rows = 1 .. n /\ RowsOK(rows)
  BY RowsTypes DEF OrderInv
<1>2. /\ opened \in Seq(RowIds) /\ OpenedOK /\ ContentOK /\ LoopOK
  BY DEF OrderInv
<1>3. SparseMatrix!Record(r, c, v)
  BY DEF SparseMatrix!Write, SparseMatrix!WriteRow, SparseMatrix!AppendRow, SparseMatrix!InsertRow
<1>4. SparseMatrix!Positions(rows, r) = {} <=> \A i \in 1 .. n : rows[i].index # r
  BY <1>1, PositionsAre
<1>5. /\ (\A i \in 1 .. n : rows[i].index # r) => opened' = Append(opened, r)
      /\ (\E i \in 1 .. n : rows[i].index = r) => opened' = opened
      /\ grown' = (grown \/ (it # NoLoop /\ SparseMatrix!Positions(rows, r) = {}))
  BY <1>3, <1>4 DEF SparseMatrix!Record
<1>6. opened' \in Seq(RowIds)
  BY <1>2, <1>5, OpenedTypes
<1>7. CASE SparseMatrix!WriteRow(r, c, v)
  <2>1. /\ RowsOK(rows') /\ RowSet(rows, rows', r, c, v) /\ Len(rows') = n
        /\ \A i \in 1 .. n : rows'[i].index = rows[i].index
    BY <1>1, <1>7, RowWritten
  <2>2. PICK l \in 1 .. n : rows[l].index = r
    <3>1. SparseMatrix!LowerBound(rows, r) \in 1 .. n + 1
      BY <1>1, RowsTypes, LowerBoundIs, IndicesAssumption DEF RowsOK
    <3>2. SparseMatrix!LowerBound(rows, r) <= n /\ rows[SparseMatrix!LowerBound(rows, r)].index = r
      BY <1>1, <1>7 DEF SparseMatrix!WriteRow
    <3> QED
      BY <3>1, <3>2
  <2>3. UNCHANGED <<it, undefined>> /\ opened' = opened
    BY <1>5, <1>7, <2>2 DEF SparseMatrix!WriteRow
  <2>4. SparseMatrix!Positions(rows, r) # {}
    BY <1>4, <2>2
  <2>5. grown' <=> grown
    BY <1>5, <2>4
  <2>6. OpenedOK'
    BY <1>1, <1>2, <2>1, <2>3 DEF OpenedOK
  <2>7. ContentOK'
    BY <1>1, <1>2, <1>3, <2>1, WrittenContent
  <2>8. \A q, d, w : Holds(rows', q, d, w) <=> IF q = r /\ d = c THEN w = v ELSE Holds(rows, q, d, w)
    BY <1>1, <2>1, HoldsAfter
  <2>9. LoopOK'
    <3> SUFFICES ASSUME it # NoLoop
                 PROVE  /\ it' \in [row : RowIds, cell : ColIds, last : RowIds]
                        /\ \E w : Holds(rows', it'.row, it'.cell, w)
                        /\ ~grown' => Len(rows') > 0 /\ rows'[Len(rows')].index = it'.last
      BY <2>3 DEF LoopOK, Holds, Has
    <3>1. it' \in [row : RowIds, cell : ColIds, last : RowIds]
      BY <1>2, <2>3 DEF LoopOK
    <3>2. \E w : Holds(rows', it'.row, it'.cell, w)
      BY <1>2, <2>3, <2>8 DEF LoopOK
    <3>3. ~grown => n > 0 /\ rows[n].index = it.last
      BY <1>1, <1>2 DEF LoopOK
    <3> QED
      BY <2>1, <2>3, <2>5, <3>1, <3>2, <3>3
  <2> QED
    BY <1>6, <2>1, <2>3, <2>6, <2>7, <2>9 DEF OrderInv, SparseMatrix!DefinedInOrder
<1>8. CASE SparseMatrix!AppendRow(r, c, v)
  <2>1. /\ RowsOK(rows') /\ RowSet(rows, rows', r, c, v) /\ Len(rows') = n + 1
        /\ \A i \in 1 .. n : rows'[i] = rows[i] /\ rows[i].index < r
        /\ rows'[n + 1].index = r
    BY <1>1, <1>8, RowAppended
  <2>2. \A i \in 1 .. n : rows[i].index # r
    <3>1. r \in Nat
      BY IndicesAssumption
    <3> QED
      BY <2>1, <3>1
  <2>3. UNCHANGED <<it, undefined>> /\ opened' = Append(opened, r)
    BY <1>5, <1>8, <2>2 DEF SparseMatrix!AppendRow
  <2>4. it # NoLoop => grown'
    BY <1>4, <1>5, <2>2
  <2>5. OpenedOK'
    <3>1. \A i \in 1 .. n + 1 : i \in 1 .. n \/ i = n + 1
      OBVIOUS
    <3>2. n + 1 \in 1 .. n + 1 /\ \A i \in 1 .. n : i \in 1 .. n + 1
      OBVIOUS
    <3>3. \A q : Has(opened', q) <=> q = r \/ Has(opened, q)
      BY <1>2, <2>3, OpenedTypes
    <3>4. \A q : (\E i \in 1 .. n + 1 : rows'[i].index = q) <=> q = r \/ \E i \in 1 .. n : rows[i].index = q
      BY <2>1, <3>1, <3>2
    <3>5. \A q : Has(opened, q) <=> \E i \in 1 .. n : rows[i].index = q
      BY <1>1, <1>2 DEF OpenedOK
    <3>6. \A q : Has(opened', q) <=> \E i \in 1 .. Len(rows') : rows'[i].index = q
      BY <2>1, <3>3, <3>4, <3>5
    <3> QED
      BY <3>6 DEF OpenedOK, Has
  <2>6. ContentOK'
    BY <1>1, <1>2, <1>3, <2>1, WrittenContent
  <2>7. \A q, d, w : Holds(rows', q, d, w) <=> IF q = r /\ d = c THEN w = v ELSE Holds(rows, q, d, w)
    BY <1>1, <2>1, HoldsAfter
  <2>8. LoopOK'
    <3> SUFFICES ASSUME it # NoLoop
                 PROVE  /\ it' \in [row : RowIds, cell : ColIds, last : RowIds]
                        /\ \E w : Holds(rows', it'.row, it'.cell, w)
      BY <2>3, <2>4 DEF LoopOK, Holds, Has
    <3> QED
      BY <1>2, <2>3, <2>7 DEF LoopOK
  <2> QED
    BY <1>6, <2>1, <2>3, <2>5, <2>6, <2>8 DEF OrderInv, SparseMatrix!DefinedInOrder
<1>9. CASE SparseMatrix!InsertRow(r, c, v)
  <2>1. /\ \A i \in 1 .. n : rows[i].index # r
        /\ \E i \in 1 .. n : rows[i].index > r
    BY <1>1, <1>9, RowInserted
  <2>2. opened' = Append(opened, r) /\ rows' = rows /\ undefined' = TRUE
    BY <1>5, <1>9, <2>1 DEF SparseMatrix!InsertRow
  <2>3. PICK m \in Nat : m = Len(opened)
    BY <1>2, LenProperties
  <2>4. PICK k \in 1 .. m : opened[k] > r
    <3>1. PICK i \in 1 .. n : rows[i].index > r
      BY <2>1
    <3>2. Has(opened, rows[i].index)
      BY <1>1, <1>2, <3>1 DEF OpenedOK
    <3> QED
      BY <2>3, <3>1, <3>2 DEF Has
  <2>5. /\ Len(opened') = m + 1 /\ opened'[m + 1] = r /\ \A i \in 1 .. m : opened'[i] = opened[i]
        /\ DOMAIN opened' = 1 .. m + 1
    BY <1>2, <1>6, <2>2, <2>3, AppendProperties, LenProperties
  <2>6. k \in 1 .. m + 1 /\ m + 1 \in 1 .. m + 1 /\ k < m + 1 /\ opened'[k] > opened'[m + 1]
    BY <2>4, <2>5
  <2>7. \E i, j \in DOMAIN opened' : i < j /\ opened'[i] > opened'[j]
    BY <2>5, <2>6
  <2> QED
    BY <1>1, <1>6, <2>2, <2>7 DEF OrderInv, SparseMatrix!DefinedInOrder
<1> QED
  BY <1>7, <1>8, <1>9 DEF SparseMatrix!Write

Iterator == [row : RowIds, cell : ColIds, last : RowIds]

\* An iterator at the first cell of a row.
LEMMA AtRow ==
    ASSUME RowsOK(rows), NEW i \in 1 .. Len(rows), NEW last \in RowIds
    PROVE  \E at \in Iterator :
              /\ at = SparseMatrix!At(rows[i].index, last)
              /\ at.row = rows[i].index /\ at.last = last
              /\ at.cell = rows[i].cells[1].index
              /\ \E v : Holds(rows, at.row, at.cell, v)
<1>1. PICK cells \in Seq(Cell) :
         /\ cells = rows[i].cells /\ Len(cells) \in Nat \ {0}
         /\ rows[i].index \in RowIds /\ rows[i] = RowOf(rows[i].index, cells)
  BY RowsTypes
<1>2. cells[1] \in Cell
  BY <1>1, ElementOfSeq
<1>3. Head(cells) = cells[1]
  BY <1>1, HeadTailProperties
<1>4. PICK at \in Iterator :
         at = [row |-> rows[i].index, cell |-> cells[1].index, last |-> last]
  BY <1>1, <1>2 DEF Iterator, Cell
<1>5. at = SparseMatrix!At(rows[i].index, last)
  BY <1>1, <1>3, <1>4, CellsAre DEF SparseMatrix!At
<1>6. at.row = rows[i].index /\ at.cell = cells[1].index /\ at.last = last
  BY <1>4
<1>7. cells[1] = CellOf(at.cell, cells[1].value)
  BY <1>2, <1>6 DEF Cell, CellOf
<1>8. Has(cells, CellOf(at.cell, cells[1].value))
  BY <1>1, <1>7 DEF Has
<1>9. Has(rows, RowOf(at.row, cells))
  BY <1>1, <1>6 DEF Has
<1> QED
  BY <1>1, <1>5, <1>6, <1>8, <1>9 DEF Holds

LEMMA BeginPreservesOrder ==
    ASSUME OrderInv, ~undefined, SparseMatrix!Begin
    PROVE  OrderInv'
<1>1. PICK n \in Nat : n = Len(rows) /\ DOMAIN rows = 1 .. n /\ RowsOK(rows)
  BY RowsTypes DEF OrderInv
<1>2. opened \in Seq(RowIds) /\ OpenedOK /\ ContentOK
  BY DEF OrderInv
<1>3. UNCHANGED <<rows, written, opened>> /\ grown' = FALSE
  BY DEF SparseMatrix!Begin
<1>4. RowsOK(rows') /\ opened' \in Seq(RowIds)
  BY <1>1, <1>2, <1>3
<1>5. CASE rows = << >>
  <2>1. undefined' = TRUE
    BY <1>5 DEF SparseMatrix!Begin
  <2>2. opened = << >>
    <3>1. \A q : ~ Has(opened, q)
      BY <1>5, <1>2 DEF OpenedOK
    <3>2. Len(opened) \in Nat /\ (Len(opened) > 0 => Has(opened, opened[1]))
      BY <1>2, LenProperties DEF Has
    <3> QED
      BY <3>1, <3>2, <1>2, EmptySeq
  <2> QED
    BY <1>3, <1>4, <2>1, <2>2 DEF OrderInv, SparseMatrix!DefinedInOrder
<1>6. CASE rows # << >>
  <2>1. n \in Nat \ {0} /\ 1 \in 1 .. n /\ n \in 1 .. n
    BY <1>1, <1>6, EmptySeq DEF RowsOK
  <2>2. Head(rows) = rows[1] /\ SparseMatrix!Last(rows) = rows[n] /\ rows[n].index \in RowIds
    BY <1>1, <1>6, <2>1, HeadTailProperties, RowsTypes DEF RowsOK, SparseMatrix!Last
  <2>3. it' = SparseMatrix!At(rows[1].index, rows[n].index) /\ undefined' = undefined
    BY <1>6, <2>2 DEF SparseMatrix!Begin
  <2>4. PICK at \in Iterator :
           it' = at /\ at.last = rows[n].index /\ \E v : Holds(rows, at.row, at.cell, v)
    BY <1>1, <2>1, <2>2, <2>3, AtRow
  <2>5. LoopOK'
    BY <1>1, <1>3, <2>1, <2>4 DEF LoopOK, Iterator, Holds, Has
  <2>6. OpenedOK'
    BY <1>2, <1>3 DEF OpenedOK, Has
  <2>7. ContentOK'
    BY <1>2, <1>3 DEF ContentOK, Holds, Has
  <2> QED
    BY <1>4, <2>3, <2>5, <2>6, <2>7 DEF OrderInv, SparseMatrix!DefinedInOrder
<1> QED
  BY <1>5, <1>6

LEMMA LeastIs ==
    ASSUME NEW S \in SUBSET Nat, S # {}
    PROVE  SparseMatrix!Least(S) \in S /\ \A j \in S : SparseMatrix!Least(S) <= j
<1>1. \E i \in S : \A j \in S : i <= j
  BY LeastOf
<1> QED
  BY <1>1 DEF SparseMatrix!Least

\* The row a loop is in.
LEMMA LoopRow ==
    ASSUME RowsOK(rows), LoopOK, it # NoLoop
    PROVE  \E i \in 1 .. Len(rows), cells \in Seq(Cell) :
              /\ rows[i].index = it.row /\ rows[i] = RowOf(it.row, cells)
              /\ Sorted(cells) /\ SparseMatrix!Cells(it.row) = cells
              /\ Len(cells) \in Nat /\ DOMAIN cells = 1 .. Len(cells)
              /\ \E v : Has(cells, CellOf(it.cell, v))
<1>1. PICK v, cells : Has(rows, RowOf(it.row, cells)) /\ Has(cells, CellOf(it.cell, v))
  BY DEF LoopOK, Holds
<1>2. PICK i \in 1 .. Len(rows) : rows[i] = RowOf(it.row, cells)
  BY <1>1 DEF Has
<1>3. rows[i].index = it.row /\ rows[i].cells = cells
  BY <1>2 DEF RowOf
<1>4. cells \in Seq(Cell) /\ Sorted(cells)
  BY <1>3, RowsTypes
<1>5. SparseMatrix!Cells(it.row) = cells
  BY <1>3, CellsAre
<1>6. Len(cells) \in Nat /\ DOMAIN cells = 1 .. Len(cells)
  BY <1>4, LenProperties
<1> QED
  BY <1>1, <1>2, <1>3, <1>4, <1>5, <1>6

\* operator++ within a row.
LEMMA NextInRowIs ==
    ASSUME RowsOK(rows), LoopOK, it # NoLoop, SparseMatrix!NextInRow
    PROVE  \E at \in Iterator :
              /\ it' = at /\ at.row = it.row /\ at.last = it.last
              /\ \E v : v # V /\ Holds(rows, at.row, at.cell, v)
              /\ at.cell > it.cell
              /\ \A c, v : Holds(rows, it.row, c, v) /\ v # V /\ c > it.cell => at.cell <= c
<1>1. PICK i \in 1 .. Len(rows), cells \in Seq(Cell) :
         /\ rows[i].index = it.row /\ rows[i] = RowOf(it.row, cells)
         /\ Sorted(cells) /\ SparseMatrix!Cells(it.row) = cells
         /\ Len(cells) \in Nat /\ DOMAIN cells = 1 .. Len(cells)
  BY LoopRow
<1>2. PICK next : next = SparseMatrix!NextCells
  OBVIOUS
<1>3. \A k : k \in next <=> k \in 1 .. Len(cells) /\ cells[k].index > it.cell /\ cells[k].value # V
  BY <1>1, <1>2 DEF SparseMatrix!NextCells
<1>4. next \in SUBSET Nat /\ next # {}
  BY <1>1, <1>2, <1>3 DEF SparseMatrix!NextInRow
<1>5. PICK k : k = SparseMatrix!Least(next) /\ k \in next /\ \A j \in next : k <= j
  BY <1>4, LeastIs
<1>6. k \in 1 .. Len(cells) /\ cells[k].index > it.cell /\ cells[k].value # V
  BY <1>3, <1>5
<1>7. cells[k] \in Cell
  BY <1>6, ElementOfSeq
<1>8. it \in Iterator
  BY DEF LoopOK, Iterator
<1>9. PICK at \in Iterator : at = [it EXCEPT !.cell = cells[k].index]
  BY <1>7, <1>8 DEF Cell, Iterator
<1>10. it' = at
  BY <1>1, <1>2, <1>5, <1>9 DEF SparseMatrix!NextInRow
<1>11. at.row = it.row /\ at.last = it.last /\ at.cell = cells[k].index
  BY <1>8, <1>9 DEF Iterator
<1>12. cells[k] = CellOf(at.cell, cells[k].value)
  BY <1>7, <1>11 DEF Cell, CellOf
<1>13. Has(cells, CellOf(at.cell, cells[k].value)) /\ Has(rows, RowOf(at.row, cells))
  BY <1>1, <1>6, <1>11, <1>12 DEF Has
<1>14. ASSUME NEW c, NEW v, Holds(rows, it.row, c, v), v # V, c > it.cell
       PROVE  at.cell <= c
  <2>1. PICK others : Has(rows, RowOf(it.row, others)) /\ Has(others, CellOf(c, v))
    BY <1>14 DEF Holds
  <2>2. others = cells
    <3>1. Has(rows, RowOf(it.row, cells))
      BY <1>1 DEF Has
    <3> QED
      BY <2>1, <3>1, OneRowHas
  <2>3. PICK j \in 1 .. Len(cells) : cells[j] = CellOf(c, v)
    BY <2>1, <2>2 DEF Has
  <2>4. cells[j].index = c /\ cells[j].value = v
    BY <2>3 DEF CellOf
  <2>5. j \in next
    BY <1>3, <1>14, <2>4
  <2>6. k = j \/ cells[k].index < cells[j].index
    <3>1. k \in Nat /\ j \in Nat /\ (k = j \/ k < j)
      BY <1>1, <1>4, <1>5, <1>6, <2>5
    <3> QED
      BY <1>1, <1>6, <3>1 DEF Sorted
  <2>7. cells[j] \in Cell
    BY ElementOfSeq
  <2>8. cells[j].index \in Nat /\ cells[k].index \in Nat
    BY <1>7, <2>7, IndicesAssumption DEF Cell
  <2> QED
    BY <1>11, <2>4, <2>6, <2>8
<1> QED
  BY <1>6, <1>10, <1>11, <1>13, <1>14 DEF Holds

\* operator++ to the next row.
LEMMA NextRowIs ==
    ASSUME RowsOK(rows), LoopOK, it # NoLoop, SparseMatrix!NextRow
    PROVE  \E at \in Iterator, i \in 1 .. Len(rows) :
              /\ it' = at /\ at.row = rows[i].index /\ at.last = it.last
              /\ at.cell = rows[i].cells[1].index
              /\ \E v : Holds(rows, at.row, at.cell, v)
              /\ at.row > it.row
              /\ \A j \in 1 .. Len(rows) : rows[j].index > it.row => i <= j
<1>1. Len(rows) \in Nat /\ DOMAIN rows = 1 .. Len(rows)
  BY RowsTypes
<1>2. PICK next : next = SparseMatrix!NextRows
  OBVIOUS
<1>3. \A k : k \in next <=> k \in 1 .. Len(rows) /\ rows[k].index > it.row
  BY <1>1, <1>2 DEF SparseMatrix!NextRows
<1>4. next \in SUBSET Nat /\ next # {}
  BY <1>1, <1>2, <1>3 DEF SparseMatrix!NextRow
<1>5. PICK i : i = SparseMatrix!Least(next) /\ i \in next /\ \A j \in next : i <= j
  BY <1>4, LeastIs
<1>6. i \in 1 .. Len(rows) /\ rows[i].index > it.row
  BY <1>3, <1>5
<1>7. it.last \in RowIds
  BY DEF LoopOK
<1>8. it' = SparseMatrix!At(rows[i].index, it.last)
  BY <1>2, <1>5 DEF SparseMatrix!NextRow
<1>9. PICK at \in Iterator :
         /\ at = it'
         /\ at.row = rows[i].index /\ at.last = it.last /\ at.cell = rows[i].cells[1].index
         /\ \E v : Holds(rows, at.row, at.cell, v)
  BY <1>6, <1>7, <1>8, AtRow
<1> QED
  BY <1>3, <1>5, <1>6, <1>9

LEMMA IncrementPreservesOrder ==
    ASSUME OrderInv, ~undefined, SparseMatrix!Increment
    PROVE  OrderInv'
<1>1. PICK n \in Nat : n = Len(rows) /\ DOMAIN rows = 1 .. n /\ RowsOK(rows)
  BY RowsTypes DEF OrderInv
<1>2. opened \in Seq(RowIds) /\ OpenedOK /\ ContentOK /\ LoopOK
  BY DEF OrderInv
<1>3. UNCHANGED <<rows, written, opened, steady, grown>> /\ it # NoLoop
  BY DEF SparseMatrix!Increment
<1>4. RowsOK(rows') /\ opened' \in Seq(RowIds) /\ OpenedOK' /\ ContentOK'
  <2>1. RowsOK(rows') /\ opened' \in Seq(RowIds)
    BY <1>1, <1>2, <1>3
  <2>2. OpenedOK => OpenedOK'
    BY <1>3 DEF OpenedOK, Has
  <2>3. ContentOK => ContentOK'
    BY <1>3 DEF ContentOK, Has, Holds
  <2> QED
    BY <1>2, <2>1, <2>2, <2>3
<1>5. ASSUME NEW at \in Iterator, it' = at, at.last = it.last,
             \E v : Holds(rows, at.row, at.cell, v), undefined' = undefined
      PROVE  OrderInv'
  <2>1. LoopOK'
    <3>1. at # NoLoop
      BY NoLoopAssumption DEF Iterator
    <3>2. ~grown => Len(rows) > 0 /\ rows[Len(rows)].index = at.last
      BY <1>2, <1>3, <1>5 DEF LoopOK
    <3> QED
      BY <1>3, <1>5, <3>2 DEF LoopOK, Iterator, Holds, Has
  <2> QED
    BY <1>4, <1>5, <2>1 DEF OrderInv, SparseMatrix!DefinedInOrder
<1>6. CASE SparseMatrix!NextInRow
  <2>1. \E at \in Iterator : it' = at /\ at.last = it.last /\ \E v : Holds(rows, at.row, at.cell, v)
    BY <1>1, <1>2, <1>3, <1>6, NextInRowIs
  <2> QED
    BY <1>5, <1>6, <2>1 DEF SparseMatrix!NextInRow
<1>7. CASE SparseMatrix!NextRow
  <2>1. \E at \in Iterator : it' = at /\ at.last = it.last /\ \E v : Holds(rows, at.row, at.cell, v)
    BY <1>1, <1>2, <1>3, <1>7, NextRowIs
  <2> QED
    BY <1>5, <1>7, <2>1 DEF SparseMatrix!NextRow
<1>8. CASE SparseMatrix!NextEnd
  <2>1. CASE it.row = it.last
    <3>1. it' = NoLoop /\ undefined' = undefined
      BY <1>8, <2>1 DEF SparseMatrix!NextEnd
    <3> QED
      BY <1>4, <3>1 DEF OrderInv, LoopOK, SparseMatrix!DefinedInOrder
  <2>2. CASE it.row # it.last
    <3>1. undefined' = TRUE /\ SparseMatrix!NextRows = {}
      BY <1>8, <2>2 DEF SparseMatrix!NextEnd
    <3>2. grown
      <4> SUFFICES ASSUME ~grown PROVE FALSE
        OBVIOUS
      <4>1. n \in 1 .. n /\ rows[n].index = it.last
        BY <1>1, <1>2, <1>3 DEF LoopOK
      <4>2. PICK i \in 1 .. n : rows[i].index = it.row
        BY <1>1, <1>2, <1>3, LoopRow
      <4>3. i < n
        BY <4>1, <4>2, <2>2
      <4>4. rows[n].index > it.row
        <5>1. rows[i].index \in Nat /\ rows[n].index \in Nat /\ rows[i].index < rows[n].index
          BY <1>1, <4>1, <4>3, RowsTypes DEF RowsOK, Sorted
        <5> QED
          BY <4>2, <5>1
      <4> QED
        BY <1>1, <3>1, <4>1, <4>4 DEF SparseMatrix!NextRows
    <3> QED
      BY <1>3, <1>4, <3>1, <3>2 DEF OrderInv, SparseMatrix!DefinedInOrder
  <2> QED
    BY <2>1, <2>2
<1> QED
  BY <1>6, <1>7, <1>8 DEF SparseMatrix!Increment

LEMMA MatrixStep ==
    ASSUME OrderInv, SparseMatrix!Next \/ UNCHANGED matrixVars
    PROVE  OrderInv'
<1>1. CASE UNCHANGED matrixVars
  <2>1. UNCHANGED <<rows, it, undefined, written, opened, grown>>
    BY <1>1 DEF matrixVars
  <2>2. RowsOK(rows') /\ opened' \in Seq(RowIds) /\ SparseMatrix!DefinedInOrder'
    BY <2>1 DEF OrderInv, SparseMatrix!DefinedInOrder
  <2>3. OpenedOK => OpenedOK'
    BY <2>1 DEF OpenedOK, Has
  <2>4. ContentOK => ContentOK'
    BY <2>1 DEF ContentOK, Holds, Has
  <2>5. LoopOK => LoopOK'
    BY <2>1 DEF LoopOK, Holds, Has
  <2> QED
    BY <2>1, <2>2, <2>3, <2>4, <2>5 DEF OrderInv
<1>2. CASE SparseMatrix!Stopped
  <2>1. UNCHANGED matrixVars
    BY <1>2 DEF SparseMatrix!Stopped, SparseMatrix!vars, SparseMatrix!history, matrixVars
  <2> QED
    BY <1>1, <2>1
<1> QED
  BY <1>1, <1>2, WritePreservesOrder, BeginPreservesOrder, IncrementPreservesOrder
     DEF SparseMatrix!Next

-------------------------------------------------------------------------------
(* What is read *)

LEMMA RowHolds ==
    ASSUME RowsOK(rows), NEW i \in 1 .. Len(rows), NEW c, NEW v
    PROVE  Holds(rows, rows[i].index, c, v) <=> Has(rows[i].cells, CellOf(c, v))
<1>1. PICK r : r = rows[i].index
  OBVIOUS
<1>2. PICK cells : cells = rows[i].cells /\ rows[i] = RowOf(r, cells)
  BY <1>1, RowsTypes
<1>3. Has(rows, RowOf(r, cells))
  BY <1>2 DEF Has
<1>4. \A others : Has(rows, RowOf(r, others)) => others = cells
  BY <1>3, OneRowHas
<1> QED
  BY <1>1, <1>2, <1>3, <1>4 DEF Holds

LEMMA CellItem ==
    ASSUME NEW cells \in Seq(Cell), Sorted(cells), NEW j \in 1 .. Len(cells)
    PROVE  SparseMatrix!Item(cells, cells[j].index) = cells[j]
<1>1. Len(cells) \in Nat /\ DOMAIN cells = 1 .. Len(cells)
  BY LenProperties
<1>2. \A k \in 1 .. Len(cells) : cells[k].index \in Nat
  <2>1. \A k \in 1 .. Len(cells) : cells[k] \in Cell
    BY <1>1, ElementOfSeq
  <2> QED
    BY <2>1, IndicesAssumption DEF Cell
<1>3. \A k \in 1 .. Len(cells) : cells[k].index = cells[j].index => k = j
  BY <1>1, <1>2 DEF Sorted
<1> QED
  BY <1>1, <1>3, ItemIs

\* A cell that is looked for in a row has what was written.
LEMMA CellRead ==
    ASSUME RowsOK(rows), ContentOK, NEW i \in 1 .. Len(rows), NEW c \in ColIds
    PROVE  (IF SparseMatrix!Positions(rows[i].cells, c) = {} THEN V
            ELSE SparseMatrix!Item(rows[i].cells, c).value) = written[<<rows[i].index, c>>]
<1>1. PICK cells \in Seq(Cell) : cells = rows[i].cells /\ Sorted(cells)
  BY RowsTypes
<1>2. PICK r \in RowIds : r = rows[i].index
  BY RowsTypes
<1>3. PICK n \in Nat : n = Len(cells) /\ DOMAIN cells = 1 .. n
  BY LenProperties
<1>4. SparseMatrix!Positions(cells, c) = {} <=> \A j \in 1 .. n : cells[j].index # c
  BY <1>3, PositionsAre
<1>5. CASE \A j \in 1 .. n : cells[j].index # c
  <2>1. ASSUME NEW v PROVE ~ Holds(rows, r, c, v)
    <3>1. CellOf(c, v).index = c
      BY DEF CellOf
    <3>2. ~ Has(cells, CellOf(c, v))
      BY <1>3, <1>5, <3>1 DEF Has
    <3> QED
      BY <1>1, <1>2, <3>2, RowHolds
  <2>2. written[<<r, c>>] = V
    BY <2>1 DEF ContentOK
  <2> QED
    BY <1>1, <1>2, <1>4, <1>5, <2>2
<1>6. CASE \E j \in 1 .. n : cells[j].index = c
  <2>1. PICK j \in 1 .. n : cells[j].index = c
    BY <1>6
  <2>2. SparseMatrix!Item(cells, c) = cells[j]
    BY <1>1, <1>3, <2>1, CellItem
  <2>3. cells[j] = CellOf(c, cells[j].value)
    <3>1. cells[j] \in Cell
      BY <1>3, ElementOfSeq
    <3> QED
      BY <2>1, <3>1 DEF Cell, CellOf
  <2>4. Has(cells, CellOf(c, cells[j].value))
    BY <1>3, <2>3 DEF Has
  <2>5. Holds(rows, r, c, cells[j].value)
    BY <1>1, <1>2, <2>4, RowHolds
  <2>6. written[<<r, c>>] = cells[j].value
    BY <2>5 DEF ContentOK
  <2> QED
    BY <1>1, <1>2, <1>4, <2>1, <2>2, <2>6
<1> QED
  BY <1>5, <1>6

LEMMA AbsentRow ==
    ASSUME RowsOK(rows), ContentOK, NEW r \in RowIds, \A i \in 1 .. Len(rows) : rows[i].index # r,
           NEW c \in ColIds
    PROVE  written[<<r, c>>] = V
<1>1. \A cells : RowOf(r, cells).index = r
  BY DEF RowOf
<1>2. \A v : ~ Holds(rows, r, c, v)
  BY <1>1 DEF Holds, Has
<1> QED
  BY <1>2 DEF ContentOK

LEMMA GetIs ==
    ASSUME RowsOK(rows), ContentOK, NEW r \in RowIds, NEW c \in ColIds
    PROVE  SparseMatrix!Get(r, c) = written[<<r, c>>]
<1>1. PICK n \in Nat : n = Len(rows) /\ DOMAIN rows = 1 .. n
  BY RowsTypes
<1>2. SparseMatrix!Positions(rows, r) = {} <=> \A i \in 1 .. n : rows[i].index # r
  BY <1>1, PositionsAre
<1>3. CASE \A i \in 1 .. n : rows[i].index # r
  <2>1. SparseMatrix!Get(r, c) = V
    BY <1>2, <1>3 DEF SparseMatrix!Get
  <2> QED
    BY <1>1, <1>3, <2>1, AbsentRow
<1>4. CASE \E i \in 1 .. n : rows[i].index = r
  <2>1. PICK i \in 1 .. n : rows[i].index = r
    BY <1>4
  <2>2. SparseMatrix!Cells(r) = rows[i].cells
    BY <1>1, <2>1, CellsAre
  <2>3. SparseMatrix!Get(r, c) = IF SparseMatrix!Positions(rows[i].cells, c) = {} THEN V
                                 ELSE SparseMatrix!Item(rows[i].cells, c).value
    BY <1>2, <2>1, <2>2 DEF SparseMatrix!Get
  <2> QED
    BY <1>1, <2>1, <2>3, CellRead
<1> QED
  BY <1>3, <1>4

\* A cell other than the default is in the lists.
LEMMA OccupiedHolds ==
    ASSUME ContentOK, NEW r \in RowIds, NEW c \in ColIds, written[<<r, c>>] # V
    PROVE  Holds(rows, r, c, written[<<r, c>>])
<1>1. PICK v : Holds(rows, r, c, v)
  BY DEF ContentOK
<1>2. written[<<r, c>>] = v
  BY <1>1 DEF ContentOK
<1> QED
  BY <1>1, <1>2

-------------------------------------------------------------------------------
(* Loops *)

Keys == RowIds \X ColIds

PathOK ==
    /\ path \in Seq(Keys)
    /\ \A i, j \in 1 .. Len(path) : i < j => SparseMatrix!Before(path[i], path[j])

\* The iterator is where the path ends; what stays occupied is on the path or comes
\* later, and is on it when the loop is over.
SteadyOK ==
    /\ steady \subseteq Keys
    /\ \A k \in steady : written[k] # V
    /\ it # NoLoop =>
          /\ Len(path) > 0 /\ path[Len(path)] = <<it.row, it.cell>>
          /\ \A k \in steady : Has(path, k) \/ SparseMatrix!Before(<<it.row, it.cell>>, k)
    /\ it = NoLoop /\ Len(path) > 0 => \A k \in steady : Has(path, k)

\* A cell without a value is the only one on the path that is in its row.
BlankOK ==
    blank => \A i \in 1 .. Len(path) : i < Len(path) => path[i][1] # path[Len(path)][1]

IterationInv == OrderInv /\ PathOK /\ BlankOK /\ (~undefined => SteadyOK)

LEMMA KeyTypes ==
    ASSUME NEW k \in Keys
    PROVE  k = <<k[1], k[2]>> /\ k[1] \in RowIds /\ k[2] \in ColIds /\ k[1] \in Nat /\ k[2] \in Nat
<1>1. PICK r \in RowIds, c \in ColIds : k = <<r, c>>
  BY DEF Keys
<1>2. k[1] = r /\ k[2] = c
  BY <1>1
<1>3. r \in Nat /\ c \in Nat
  BY IndicesAssumption
<1> QED
  BY <1>1, <1>2, <1>3

\* The path is extended by a cell after its end.
LEMMA PathAppended ==
    ASSUME PathOK, NEW k \in Keys,
           Len(path) > 0 => SparseMatrix!Before(path[Len(path)], k)
    PROVE  /\ Append(path, k) \in Seq(Keys) /\ Len(Append(path, k)) = Len(path) + 1
           /\ Append(path, k)[Len(path) + 1] = k
           /\ \A i, j \in 1 .. Len(path) + 1 :
                 i < j => SparseMatrix!Before(Append(path, k)[i], Append(path, k)[j])
           /\ \A x : Has(Append(path, k), x) <=> x = k \/ Has(path, x)
<1>1. PICK n \in Nat : n = Len(path)
  BY LenProperties DEF PathOK
<1>2. PICK new : new = Append(path, k)
  OBVIOUS
<1>3. new \in Seq(Keys) /\ Len(new) = n + 1 /\ new[n + 1] = k /\ \A i \in 1 .. n : new[i] = path[i]
  BY <1>1, <1>2, AppendProperties DEF PathOK
<1>4. \A i \in 1 .. n + 1 : i \in 1 .. n \/ i = n + 1
  BY <1>1
<1>5. n + 1 \in 1 .. n + 1 /\ \A i \in 1 .. n : i \in 1 .. n + 1
  BY <1>1
<1>6. \A i \in 1 .. n : path[i] \in Keys
  BY <1>1, ElementOfSeq DEF PathOK
<1>7. ASSUME NEW i \in 1 .. n
      PROVE  SparseMatrix!Before(path[i], k)
  <2>1. n \in 1 .. n /\ SparseMatrix!Before(path[n], k)
    BY <1>1
  <2>2. i = n \/ SparseMatrix!Before(path[i], path[n])
    <3>1. i = n \/ i < n
      BY <1>1
    <3> QED
      BY <1>1, <2>1, <3>1 DEF PathOK
  <2>3. PICK a \in Keys, b \in Keys : a = path[i] /\ b = path[n]
    BY <1>6, <2>1
  <2>4. /\ a[1] \in Nat /\ a[2] \in Nat /\ b[1] \in Nat /\ b[2] \in Nat
        /\ k[1] \in Nat /\ k[2] \in Nat
    BY KeyTypes
  <2>5. SparseMatrix!Before(b, k) /\ (a = b \/ SparseMatrix!Before(a, b))
    BY <2>1, <2>2, <2>3
  <2>6. SparseMatrix!Before(a, k)
    BY <2>4, <2>5 DEF SparseMatrix!Before
  <2> QED
    BY <2>3, <2>6
<1>8. ASSUME NEW i \in 1 .. n + 1, NEW j \in 1 .. n + 1, i < j
      PROVE  SparseMatrix!Before(new[i], new[j])
  <2>1. i \in 1 .. n
    BY <1>1, <1>8
  <2>2. CASE j = n + 1
    BY <1>3, <1>7, <2>1, <2>2
  <2>3. CASE j \in 1 .. n
    BY <1>1, <1>3, <1>8, <2>1, <2>3 DEF PathOK
  <2> QED
    BY <1>4, <2>2, <2>3
<1>9. \A x : Has(new, x) <=> x = k \/ Has(path, x)
  BY <1>1, <1>3, <1>4, <1>5 DEF Has
<1> QED
  BY <1>1, <1>2, <1>3, <1>8, <1>9

\* The end of the path comes after everything else on it.
LEMMA PathEnds ==
    ASSUME PathOK, NEW n \in Nat, n = Len(path), n > 0, NEW x, Has(path, x)
    PROVE  x \in Keys /\ path[n] \in Keys /\ (x = path[n] \/ SparseMatrix!Before(x, path[n]))
<1>1. PICK i \in 1 .. n : path[i] = x
  BY DEF Has
<1>2. n \in 1 .. n
  OBVIOUS
<1>3. \A j \in 1 .. n : path[j] \in Keys
  BY ElementOfSeq DEF PathOK
<1>4. i = n \/ i < n
  BY <1>1
<1> QED
  BY <1>1, <1>2, <1>3, <1>4 DEF PathOK

\* The cell that the loop goes on with may be without a value if it is in another row.
LEMMA BlankGoesOn ==
    ASSUME PathOK, NEW n \in Nat, n = Len(path), n > 0, NEW here \in Keys,
           NEW longer \in Seq(Keys), path' = longer, Len(longer) = n + 1, longer[n + 1] = here,
           \A i, j \in 1 .. n + 1 : i < j => SparseMatrix!Before(longer[i], longer[j]),
           \A x : Has(longer, x) => x = here \/ Has(path, x),
           blank' => path[n][1] < here[1]
    PROVE  BlankOK'
<1> SUFFICES ASSUME blank', NEW i \in 1 .. n + 1, i < n + 1
             PROVE  longer[i][1] # here[1]
  BY DEF BlankOK
<1>1. PICK x : x = longer[i]
  OBVIOUS
<1>2. here[1] \in Nat /\ here[2] \in Nat
  BY KeyTypes
<1>3. SparseMatrix!Before(x, here) /\ Has(longer, x)
  <2>1. n + 1 \in 1 .. n + 1
    OBVIOUS
  <2> QED
    BY <1>1, <2>1 DEF Has
<1>4. x # here
  BY <1>2, <1>3 DEF SparseMatrix!Before
<1>5. PICK end \in Keys : end = path[n] /\ x \in Keys /\ (x = end \/ SparseMatrix!Before(x, end))
  BY <1>3, <1>4, PathEnds
<1>6. x[1] \in Nat /\ end[1] \in Nat
  BY <1>5, KeyTypes
<1>7. x[1] <= end[1]
  BY <1>5, <1>6 DEF SparseMatrix!Before
<1> QED
  BY <1>1, <1>2, <1>5, <1>6, <1>7

\* The loop goes on at a cell after its iterator: what is occupied is not between them.
LEMMA PathGoesOn ==
    ASSUME IterationInv, ~undefined, it # NoLoop, NEW at \in Iterator, it' = at,
           path' = Append(path, <<at.row, at.cell>>),
           UNCHANGED <<undefined, written, steady>>,
           blank' => it.row < at.row,
           SparseMatrix!Before(<<it.row, it.cell>>, <<at.row, at.cell>>),
           \A k \in steady : SparseMatrix!Before(<<it.row, it.cell>>, k) =>
                                 k = <<at.row, at.cell>> \/ SparseMatrix!Before(<<at.row, at.cell>>, k)
    PROVE  PathOK' /\ BlankOK' /\ SteadyOK'
<1>1. PICK here \in Keys : here = <<at.row, at.cell>>
  BY DEF Iterator, Keys
<1>2. PICK n \in Nat : n = Len(path)
  BY LenProperties DEF IterationInv, PathOK
<1>3. /\ n > 0 /\ path[n] = <<it.row, it.cell>>
      /\ \A k \in steady : Has(path, k) \/ SparseMatrix!Before(<<it.row, it.cell>>, k)
      /\ steady \subseteq Keys /\ \A k \in steady : written[k] # V
  BY <1>2 DEF IterationInv, SteadyOK
<1>4. /\ path' \in Seq(Keys) /\ Len(path') = n + 1 /\ path'[n + 1] = here
      /\ \A i, j \in 1 .. n + 1 : i < j => SparseMatrix!Before(path'[i], path'[j])
      /\ \A x : Has(path', x) <=> x = here \/ Has(path, x)
  <2>1. Len(path) > 0 => SparseMatrix!Before(path[Len(path)], here)
    BY <1>1, <1>2, <1>3
  <2>2. PathOK /\ path' = Append(path, here)
    BY <1>1 DEF IterationInv
  <2>3. PICK new : new = Append(path, here)
    OBVIOUS
  <2>4. /\ new \in Seq(Keys) /\ Len(new) = n + 1 /\ new[n + 1] = here
        /\ \A i, j \in 1 .. n + 1 : i < j => SparseMatrix!Before(new[i], new[j])
        /\ \A x : Has(new, x) <=> x = here \/ Has(path, x)
    BY <1>2, <2>1, <2>2, <2>3, PathAppended
  <2> QED
    BY <2>2, <2>3, <2>4
<1>5. PathOK'
  BY <1>4 DEF PathOK, SparseMatrix!Before
<1>6. it' # NoLoop
  BY NoLoopAssumption DEF Iterator
<1>7. \A k \in steady : Has(path', k) \/ SparseMatrix!Before(here, k)
  BY <1>1, <1>3, <1>4
<1>8. n + 1 > 0
  BY <1>2
<1>9. SteadyOK'
  <2>1. steady' \subseteq Keys /\ \A k \in steady' : written'[k] # V
    BY <1>3
  <2>2. Len(path') > 0 /\ path'[Len(path')] = <<it'.row, it'.cell>>
    BY <1>1, <1>4, <1>8
  <2>3. \A k \in steady' : Has(path', k) \/ SparseMatrix!Before(<<it'.row, it'.cell>>, k)
    BY <1>1, <1>7
  <2> QED
    BY <1>6, <2>1, <2>2, <2>3 DEF SteadyOK, Has, SparseMatrix!Before
<1>10. BlankOK'
  <2>1. path[n][1] = it.row /\ here[1] = at.row
    BY <1>1, <1>3
  <2> QED
    BY <1>2, <1>3, <1>4, <2>1, BlankGoesOn DEF IterationInv
<1> QED
  BY <1>5, <1>9, <1>10

LEMMA WritePreservesIteration ==
    ASSUME IterationInv, ~undefined, NEW r \in RowIds, NEW c \in ColIds, NEW v \in Values,
           SparseMatrix!Write(r, c, v)
    PROVE  IterationInv'
<1>1. OrderInv'
  BY WritePreservesOrder DEF IterationInv
<1>2. SparseMatrix!Record(r, c, v) /\ it' = it
  BY DEF SparseMatrix!Write, SparseMatrix!WriteRow, SparseMatrix!AppendRow, SparseMatrix!InsertRow
<1>3. /\ path' = path /\ blank' = blank
      /\ written' = [written EXCEPT ![<<r, c>>] = v]
      /\ steady' = IF v = V THEN steady \ {<<r, c>>} ELSE steady
  BY <1>2 DEF SparseMatrix!Record
<1>4. PathOK' /\ BlankOK'
  BY <1>3 DEF IterationInv, PathOK, BlankOK, SparseMatrix!Before
<1>5. SteadyOK /\ written \in [Keys -> Values \union {V}]
  BY DEF IterationInv, OrderInv, ContentOK, Keys
<1>6. steady' \subseteq steady /\ steady' \subseteq Keys
  BY <1>3, <1>5 DEF SteadyOK
<1>7. ASSUME NEW k \in steady'
      PROVE  written'[k] # V
  <2>1. k \in Keys /\ written[k] # V
    BY <1>5, <1>6 DEF SteadyOK
  <2>2. CASE k = <<r, c>>
    BY <1>3, <1>5, <2>1, <2>2
  <2>3. CASE k # <<r, c>>
    BY <1>3, <1>5, <2>1, <2>3
  <2> QED
    BY <2>2, <2>3
<1>8. SteadyOK'
  BY <1>2, <1>3, <1>5, <1>6, <1>7 DEF SteadyOK, Has, SparseMatrix!Before
<1> QED
  BY <1>1, <1>4, <1>8 DEF IterationInv

\* Nothing that is occupied is before the first cell of the first row.
LEMMA FirstCell ==
    ASSUME RowsOK(rows), ContentOK, NEW i \in 1 .. Len(rows), NEW k \in Keys, written[k] # V,
           \A j \in 1 .. Len(rows) : rows[j].index = k[1] => i <= j
    PROVE  \/ k = <<rows[i].index, rows[i].cells[1].index>>
           \/ SparseMatrix!Before(<<rows[i].index, rows[i].cells[1].index>>, k)
<1>1. PICK r \in RowIds, c \in ColIds : k = <<r, c>> /\ k[1] = r /\ k[2] = c /\ r \in Nat /\ c \in Nat
  BY KeyTypes
<1>2. PICK v : Holds(rows, r, c, v)
  BY <1>1, OccupiedHolds
<1>3. PICK j \in 1 .. Len(rows) : rows[j].index = r
  <2>1. PICK cells : Has(rows, RowOf(r, cells))
    BY <1>2 DEF Holds
  <2>2. RowOf(r, cells).index = r
    BY DEF RowOf
  <2> QED
    BY <2>1, <2>2 DEF Has
<1>4. PICK a \in Nat : a = rows[i].index
  BY RowsTypes
<1>5. PICK cells \in Seq(Cell) : cells = rows[i].cells /\ Sorted(cells) /\ Len(cells) \in Nat \ {0}
  BY RowsTypes
<1>6. \A m \in 1 .. Len(cells) : cells[m].index \in Nat
  <2>1. \A m \in 1 .. Len(cells) : cells[m] \in Cell
    BY <1>5, ElementOfSeq
  <2> QED
    BY <2>1, IndicesAssumption DEF Cell
<1>7. PICK b \in Nat : b = cells[1].index
  BY <1>5, <1>6
<1>8. CASE j = i
  <2>1. Has(cells, CellOf(c, v)) /\ a = r
    BY <1>2, <1>3, <1>4, <1>5, <1>8, RowHolds
  <2>2. PICK m \in 1 .. Len(cells) : cells[m] = CellOf(c, v)
    BY <2>1 DEF Has
  <2>3. cells[m].index = c
    BY <2>2 DEF CellOf
  <2>4. 1 = m \/ cells[1].index < cells[m].index
    BY <1>5 DEF Sorted
  <2>5. b <= c
    <3>1. 1 = m => b = c
      BY <1>7, <2>3
    <3>2. cells[1].index < cells[m].index => b < c
      BY <1>7, <2>3
    <3> QED
      BY <1>1, <1>7, <2>4, <3>1, <3>2
  <2>6. a = r /\ (b = c \/ b < c)
    BY <2>1, <2>5, <1>1
  <2>7. k = <<a, b>> \/ SparseMatrix!Before(<<a, b>>, k)
    <3>1. b = c => k = <<a, b>>
      BY <1>1, <2>6
    <3>2. b < c => SparseMatrix!Before(<<a, b>>, k)
      BY <1>1, <2>6 DEF SparseMatrix!Before
    <3> QED
      BY <2>6, <3>1, <3>2
  <2> QED
    BY <1>4, <1>5, <1>7, <2>7
<1>9. CASE j # i
  <2>1. i <= j
    BY <1>1, <1>3
  <2>2. Len(rows) \in Nat
    BY RowsTypes
  <2>3. i < j
    BY <1>9, <2>1, <2>2
  <2>4. a < r
    BY <1>3, <1>4, <2>3 DEF RowsOK, Sorted
  <2>5. SparseMatrix!Before(<<a, b>>, k)
    BY <1>1, <2>4 DEF SparseMatrix!Before
  <2> QED
    BY <1>4, <1>5, <1>7, <2>5
<1> QED
  BY <1>8, <1>9

LEMMA BeginPreservesIteration ==
    ASSUME IterationInv, ~undefined, SparseMatrix!Begin
    PROVE  IterationInv'
<1>1. OrderInv'
  BY BeginPreservesOrder DEF IterationInv
<1>2. PICK n \in Nat : n = Len(rows) /\ RowsOK(rows) /\ ContentOK
  BY RowsTypes DEF IterationInv, OrderInv
<1>3. CASE rows = << >>
  <2>1. undefined' = TRUE /\ path' = path /\ blank' = blank
    BY <1>3 DEF SparseMatrix!Begin
  <2> QED
    BY <1>1, <2>1 DEF IterationInv, PathOK, BlankOK, SparseMatrix!Before
<1>4. CASE rows # << >>
  <2>1. n \in Nat \ {0} /\ 1 \in 1 .. n /\ n \in 1 .. n
    BY <1>2, <1>4, EmptySeq DEF RowsOK
  <2>2. Head(rows) = rows[1] /\ SparseMatrix!Last(rows) = rows[n] /\ rows[n].index \in RowIds
    BY <1>2, <1>4, <2>1, HeadTailProperties, RowsTypes DEF RowsOK, SparseMatrix!Last
  <2>3. PICK at \in Iterator :
           it' = at /\ at.row = rows[1].index /\ at.cell = rows[1].cells[1].index
    BY <1>2, <1>4, <2>1, <2>2, AtRow DEF SparseMatrix!Begin
  <2>4. PICK here \in Keys : here = <<at.row, at.cell>> /\ here = <<it'.row, it'.cell>>
    BY <2>3 DEF Iterator, Keys
  <2>5. path' = <<here>> /\ steady' = SparseMatrix!Occupied /\ written' = written
    BY <1>4, <2>4 DEF SparseMatrix!Begin
  <2>6. PICK one \in Seq(Keys) : one = <<here>> /\ Len(one) = 1 /\ one[1] = here
    <3>1. <<here>> \in Seq(Keys) /\ Len(<<here>>) = 1 /\ <<here>>[1] = here
      OBVIOUS
    <3> QED
      BY <3>1
  <2>7. PathOK'
    <3>1. \A i, j \in 1 .. Len(one) : ~ (i < j)
      BY <2>6
    <3>2. path' = one
      BY <2>5, <2>6
    <3> QED
      BY <3>1, <3>2 DEF PathOK, SparseMatrix!Before
  <2>8. ASSUME NEW k \in steady'
        PROVE  k \in Keys /\ written[k] # V
    <3>1. k \in Keys /\ SparseMatrix!Get(k[1], k[2]) # V
      BY <2>5 DEF SparseMatrix!Occupied, Keys
    <3>2. k = <<k[1], k[2]>> /\ k[1] \in RowIds /\ k[2] \in ColIds
      BY <3>1, KeyTypes
    <3> QED
      BY <1>2, <3>1, <3>2, GetIs
  <2>9. ASSUME NEW k \in steady'
        PROVE  k = here \/ SparseMatrix!Before(here, k)
    <3>1. \A j \in 1 .. n : 1 <= j
      OBVIOUS
    <3> QED
      BY <1>2, <2>1, <2>3, <2>4, <2>8, <3>1, FirstCell
  <2>10. SteadyOK'
    <3>1. it' # NoLoop
      BY <2>3, NoLoopAssumption DEF Iterator
    <3>2. Len(path') > 0 /\ path'[Len(path')] = <<it'.row, it'.cell>>
      BY <2>4, <2>5, <2>6
    <3>3. Has(path', here)
      BY <2>5, <2>6 DEF Has
    <3>4. \A k \in steady' : Has(path', k) \/ SparseMatrix!Before(<<it'.row, it'.cell>>, k)
      BY <2>4, <2>9, <3>3
    <3>5. steady' \subseteq Keys /\ \A k \in steady' : written'[k] # V
      BY <2>5, <2>8
    <3> QED
      BY <3>1, <3>2, <3>4, <3>5 DEF SteadyOK, Has, SparseMatrix!Before
  <2>11. BlankOK'
    <3>1. \A i \in 1 .. Len(one) : ~ (i < Len(one))
      BY <2>6
    <3> QED
      BY <2>5, <2>6, <3>1 DEF BlankOK
  <2> QED
    BY <1>1, <2>7, <2>10, <2>11 DEF IterationInv
<1> QED
  BY <1>3, <1>4

\* In a row, what is occupied after the iterator is where operator++ may stop.
LEMMA RowLeft ==
    ASSUME IterationInv, ~undefined, it # NoLoop, SparseMatrix!NextCells = {},
           NEW k \in steady, SparseMatrix!Before(<<it.row, it.cell>>, k)
    PROVE  k[1] > it.row
<1>1. PICK r \in RowIds, c \in ColIds :
         k = <<r, c>> /\ k[1] = r /\ k[2] = c /\ r \in Nat /\ c \in Nat /\ written[k] # V
  BY KeyTypes DEF IterationInv, SteadyOK
<1>2. r > it.row \/ (r = it.row /\ c > it.cell)
  BY <1>1, IndicesAssumption DEF SparseMatrix!Before, IterationInv, OrderInv, LoopOK
<1>3. ASSUME r = it.row, c > it.cell PROVE FALSE
  <2>1. RowsOK(rows) /\ LoopOK /\ ContentOK
    BY DEF IterationInv, OrderInv
  <2>2. PICK i \in 1 .. Len(rows), cells \in Seq(Cell) :
           /\ rows[i].index = it.row /\ rows[i] = RowOf(it.row, cells)
           /\ SparseMatrix!Cells(it.row) = cells
           /\ Len(cells) \in Nat /\ DOMAIN cells = 1 .. Len(cells)
    BY <2>1, LoopRow
  <2>3. Holds(rows, r, c, written[<<r, c>>])
    BY <1>1, <2>1, OccupiedHolds
  <2>4. PICK v : v # V /\ Has(cells, CellOf(c, v))
    <3>1. rows[i].cells = cells
      BY <2>2 DEF RowOf
    <3> QED
      BY <1>1, <1>3, <2>1, <2>2, <2>3, <3>1, RowHolds
  <2>5. PICK j \in 1 .. Len(cells) : cells[j] = CellOf(c, v)
    BY <2>4 DEF Has
  <2>6. cells[j].index = c /\ cells[j].value = v
    BY <2>5 DEF CellOf
  <2>7. j \in SparseMatrix!NextCells
    BY <1>3, <2>2, <2>4, <2>6 DEF SparseMatrix!NextCells
  <2> QED
    BY <2>7
<1> QED
  BY <1>1, <1>2, <1>3

LEMMA RowThere ==
    ASSUME IterationInv, ~undefined, NEW k \in steady
    PROVE  \E j \in 1 .. Len(rows) : rows[j].index = k[1]
<1>1. PICK r \in RowIds, c \in ColIds : k = <<r, c>> /\ k[1] = r /\ written[k] # V
  BY KeyTypes DEF IterationInv, SteadyOK
<1>2. PICK v : Holds(rows, r, c, v)
  BY <1>1, OccupiedHolds DEF IterationInv, OrderInv
<1>3. PICK cells : Has(rows, RowOf(r, cells))
  BY <1>2 DEF Holds
<1>4. RowOf(r, cells).index = r
  BY DEF RowOf
<1> QED
  BY <1>1, <1>3, <1>4 DEF Has

LEMMA IncrementPreservesIteration ==
    ASSUME IterationInv, ~undefined, SparseMatrix!Increment
    PROVE  IterationInv'
<1>1. OrderInv'
  BY IncrementPreservesOrder DEF IterationInv
<1>2. /\ RowsOK(rows) /\ ContentOK /\ LoopOK /\ it # NoLoop
      /\ SteadyOK /\ PathOK /\ BlankOK
  BY DEF IterationInv, OrderInv, SparseMatrix!Increment
<1>3. UNCHANGED <<rows, written, steady>>
  BY DEF SparseMatrix!Increment
<1>4. it.row \in Nat /\ it.cell \in Nat /\ it.row \in RowIds
  BY <1>2, IndicesAssumption DEF LoopOK
<1>5. CASE SparseMatrix!NextInRow
  <2>1. PICK at \in Iterator :
           /\ it' = at /\ at.row = it.row /\ at.cell > it.cell
           /\ \E v : v # V /\ Holds(rows, at.row, at.cell, v)
           /\ \A c, v : Holds(rows, it.row, c, v) /\ v # V /\ c > it.cell => at.cell <= c
    BY <1>2, <1>5, NextInRowIs
  <2>2. path' = Append(path, <<at.row, at.cell>>) /\ undefined' = undefined
    BY <1>5, <2>1 DEF SparseMatrix!NextInRow, SparseMatrix!Visit
  <2>3. at.row \in Nat /\ at.cell \in Nat
    BY IndicesAssumption DEF Iterator
  <2>4. SparseMatrix!Before(<<it.row, it.cell>>, <<at.row, at.cell>>)
    BY <1>4, <2>1, <2>3 DEF SparseMatrix!Before
  <2>5. ASSUME NEW k \in steady, SparseMatrix!Before(<<it.row, it.cell>>, k)
        PROVE  k = <<at.row, at.cell>> \/ SparseMatrix!Before(<<at.row, at.cell>>, k)
    <3>1. PICK r \in RowIds, c \in ColIds :
             k = <<r, c>> /\ k[1] = r /\ k[2] = c /\ r \in Nat /\ c \in Nat /\ written[k] # V
      BY <1>2, KeyTypes DEF SteadyOK
    <3>2. it.row < r \/ (it.row = r /\ it.cell < c)
      BY <2>5, <3>1 DEF SparseMatrix!Before
    <3>3. CASE it.row < r
      BY <2>1, <3>1, <3>3 DEF SparseMatrix!Before
    <3>4. CASE it.row = r /\ it.cell < c
      <4>1. Holds(rows, r, c, written[<<r, c>>])
        BY <1>2, <3>1, OccupiedHolds
      <4>2. at.cell <= c
        BY <1>4, <2>1, <3>1, <3>4, <4>1
      <4>3. at.cell = c \/ at.cell < c
        BY <2>3, <3>1, <4>2
      <4>4. at.cell = c => k = <<at.row, at.cell>>
        BY <2>1, <3>1, <3>4
      <4>5. at.cell < c => SparseMatrix!Before(<<at.row, at.cell>>, k)
        BY <2>1, <3>1, <3>4 DEF SparseMatrix!Before
      <4> QED
        BY <4>3, <4>4, <4>5
    <3> QED
      BY <3>2, <3>3, <3>4
  <2>6. blank' = FALSE
    <3>1. at.row \in RowIds /\ at.cell \in ColIds
      BY DEF Iterator
    <3>2. SparseMatrix!Get(at.row, at.cell) # V
      BY <1>2, <2>1, <3>1, GetIs DEF ContentOK
    <3> QED
      BY <1>5, <2>1, <3>2 DEF SparseMatrix!NextInRow, SparseMatrix!Visit
  <2>7. PathOK' /\ BlankOK' /\ SteadyOK'
    BY <1>2, <1>3, <2>1, <2>2, <2>4, <2>5, <2>6, PathGoesOn
  <2> QED
    BY <1>1, <2>7 DEF IterationInv
<1>6. CASE SparseMatrix!NextRow
  <2>1. PICK at \in Iterator, i \in 1 .. Len(rows) :
           /\ it' = at /\ at.row = rows[i].index /\ at.cell = rows[i].cells[1].index
           /\ at.row > it.row
           /\ \A j \in 1 .. Len(rows) : rows[j].index > it.row => i <= j
    BY <1>2, <1>6, NextRowIs
  <2>2. /\ path' = Append(path, <<at.row, at.cell>>) /\ undefined' = undefined
        /\ SparseMatrix!NextCells = {}
    BY <1>6, <2>1 DEF SparseMatrix!NextRow, SparseMatrix!Visit
  <2>3. at.row \in Nat /\ at.cell \in Nat
    BY IndicesAssumption DEF Iterator
  <2>4. SparseMatrix!Before(<<it.row, it.cell>>, <<at.row, at.cell>>)
    BY <1>4, <2>1, <2>3 DEF SparseMatrix!Before
  <2>5. ASSUME NEW k \in steady, SparseMatrix!Before(<<it.row, it.cell>>, k)
        PROVE  k = <<at.row, at.cell>> \/ SparseMatrix!Before(<<at.row, at.cell>>, k)
    <3>1. k \in Keys /\ written[k] # V
      BY <1>2 DEF SteadyOK
    <3>2. k[1] > it.row
      BY <1>2, <2>2, <2>5, RowLeft
    <3>3. \A j \in 1 .. Len(rows) : rows[j].index = k[1] => i <= j
      BY <2>1, <3>2
    <3>4. \/ k = <<rows[i].index, rows[i].cells[1].index>>
          \/ SparseMatrix!Before(<<rows[i].index, rows[i].cells[1].index>>, k)
      BY <1>2, <3>1, <3>3, FirstCell
    <3> QED
      BY <2>1, <3>4
  <2>6. it.row < at.row
    BY <1>4, <2>1, <2>3
  <2>7. PathOK' /\ BlankOK' /\ SteadyOK'
    BY <1>2, <1>3, <2>1, <2>2, <2>4, <2>5, <2>6, PathGoesOn
  <2> QED
    BY <1>1, <2>7 DEF IterationInv
<1>7. CASE SparseMatrix!NextEnd
  <2>1. path' = path /\ blank' = FALSE /\ SparseMatrix!NextCells = {} /\ SparseMatrix!NextRows = {}
    BY <1>7 DEF SparseMatrix!NextEnd
  <2>2. PathOK' /\ BlankOK'
    BY <1>2, <2>1 DEF PathOK, BlankOK, SparseMatrix!Before
  <2>3. CASE it.row # it.last
    <3>1. undefined' = TRUE
      BY <1>7, <2>3 DEF SparseMatrix!NextEnd
    <3> QED
      BY <1>1, <2>2, <3>1 DEF IterationInv
  <2>4. CASE it.row = it.last
    <3>1. it' = NoLoop
      BY <1>7, <2>4 DEF SparseMatrix!NextEnd
    <3>2. ASSUME NEW k \in steady PROVE Has(path, k)
      <4> SUFFICES ASSUME SparseMatrix!Before(<<it.row, it.cell>>, k) PROVE FALSE
        BY <1>2 DEF SteadyOK
      <4>1. k[1] > it.row
        BY <1>2, <2>1, RowLeft
      <4>2. PICK j \in 1 .. Len(rows) : rows[j].index = k[1]
        BY RowThere
      <4>3. DOMAIN rows = 1 .. Len(rows)
        BY <1>2, RowsTypes
      <4> QED
        BY <2>1, <4>1, <4>2, <4>3 DEF SparseMatrix!NextRows
    <3>3. SteadyOK'
      BY <1>2, <1>3, <2>1, <3>1, <3>2 DEF SteadyOK, Has
    <3> QED
      BY <1>1, <2>2, <3>3 DEF IterationInv
  <2> QED
    BY <2>3, <2>4
<1> QED
  BY <1>5, <1>6, <1>7 DEF SparseMatrix!Increment

LEMMA MatrixIteration ==
    ASSUME IterationInv, SparseMatrix!Next \/ UNCHANGED matrixVars
    PROVE  IterationInv'
<1>1. CASE UNCHANGED matrixVars
  <2>1. OrderInv'
    BY <1>1, MatrixStep DEF IterationInv
  <2>2. UNCHANGED <<it, undefined, written, path, blank, steady>>
    BY <1>1 DEF matrixVars
  <2>3. (PathOK => PathOK') /\ (BlankOK => BlankOK')
    BY <2>2 DEF PathOK, BlankOK, SparseMatrix!Before
  <2>4. SteadyOK => SteadyOK'
    BY <2>2 DEF SteadyOK, Has, SparseMatrix!Before
  <2> QED
    BY <2>1, <2>2, <2>3, <2>4 DEF IterationInv
<1>2. CASE SparseMatrix!Stopped
  <2>1. UNCHANGED matrixVars
    BY <1>2 DEF SparseMatrix!Stopped, SparseMatrix!vars, SparseMatrix!history, matrixVars
  <2> QED
    BY <1>1, <2>1
<1> QED
  BY <1>1, <1>2, WritePreservesIteration, BeginPreservesIteration, IncrementPreservesIteration
     DEF SparseMatrix!Next

LEMMA MatrixInit ==
    ASSUME SparseMatrix!Init
    PROVE  IterationInv
<1>1. /\ rows = << >> /\ it = NoLoop /\ undefined = FALSE /\ opened = << >> /\ path = << >>
      /\ blank = FALSE /\ steady = {} /\ written = [k \in Keys |-> V]
  BY DEF SparseMatrix!Init, Keys
<1>2. \A x : ~ Has(<< >>, x)
  BY EmptyCells
<1>3. RowsOK(rows) /\ opened \in Seq(RowIds) /\ PathOK
  BY <1>1 DEF RowsOK, Sorted, PathOK
<1>4. OpenedOK
  BY <1>1, <1>2 DEF OpenedOK
<1>5. ContentOK
  <2>1. \A q \in RowIds, d \in ColIds : written[<<q, d>>] = V
    BY <1>1 DEF Keys
  <2>2. \A q, d, v : ~ Holds(rows, q, d, v)
    BY <1>1, <1>2 DEF Holds
  <2>3. written \in [RowIds \X ColIds -> Values \union {V}]
    BY <1>1 DEF Keys
  <2> QED
    BY <2>1, <2>2, <2>3 DEF ContentOK
<1>6. LoopOK /\ SteadyOK /\ BlankOK
  BY <1>1 DEF LoopOK, SteadyOK, BlankOK
<1> QED
  BY <1>1, <1>3, <1>4, <1>5, <1>6 DEF IterationInv, OrderInv, SparseMatrix!DefinedInOrder

LEMMA IterationInvImplies ==
    ASSUME IterationInv
    PROVE  SparseMatrix!IterationComplete /\ SparseMatrix!DefinedInOrder
<1>1. PICK n \in Nat : n = Len(path) /\ DOMAIN path = 1 .. n /\ path \in Seq(Keys)
  BY LenProperties DEF IterationInv, PathOK
<1>2. \A i, j \in DOMAIN path : i < j => SparseMatrix!Before(path[i], path[j])
  BY <1>1 DEF IterationInv, PathOK
<1>3. it = NoLoop /\ path # << >> /\ ~undefined => steady \subseteq {path[i] : i \in DOMAIN path}
  <2> SUFFICES ASSUME it = NoLoop, path # << >>, ~undefined, NEW k \in steady
               PROVE  \E i \in DOMAIN path : path[i] = k
    OBVIOUS
  <2>1. n > 0
    BY <1>1, EmptySeq
  <2>2. Has(path, k)
    BY <1>1, <2>1 DEF IterationInv, SteadyOK
  <2> QED
    BY <1>1, <2>2 DEF Has
<1>4. blank => \A i \in DOMAIN path : i < Len(path) => path[i][1] # path[Len(path)][1]
  BY <1>1 DEF IterationInv, BlankOK
<1> QED
  BY <1>2, <1>3, <1>4 DEF SparseMatrix!IterationComplete, IterationInv, OrderInv

-------------------------------------------------------------------------------
(* Dump *)

\* The cells of a row, of which the last one is at an index, have what was written.
RowRead(r, cells, none, last) ==
    /\ last = IF cells = << >> THEN none ELSE SparseMatrix!Last(cells).index
    /\ \A c \in ColIds : c > last => written[<<r, c>>] = V
    /\ \A c \in ColIds : (IF SparseMatrix!Positions(cells, c) = {} THEN V
                          ELSE SparseMatrix!Item(cells, c).value) = written[<<r, c>>]

\* A row is printed as the cells up to its last one and the default behind it.
LEMMA RowDumpIs ==
    ASSUME ContentOK, NEW r \in RowIds, NEW cells, NEW lo \in ColIds, NEW hi \in ColIds,
           NEW last \in lo - 1 .. hi, lo <= hi, RowRead(r, cells, lo - 1, last)
    PROVE  SparseMatrix!RowDump(cells, lo, hi)
               = [j \in 1 .. hi - lo + 1 |-> written[<<r, lo + j - 1>>]]
<1>1. lo \in Nat /\ hi \in Nat /\ \A c \in lo .. hi : c \in ColIds
  BY IndicesAssumption
<1>2. PICK m \in Nat : m = last - lo + 1
  BY <1>1
<1>3. PICK k \in Nat : k = hi - last
  BY <1>1
<1>4. last \in Int /\ lo \in Int /\ hi \in Int /\ m + k = hi - lo + 1
  <2>1. last \in Int /\ lo \in Int /\ hi \in Int
    BY <1>1
  <2>2. (last - lo + 1) + (hi - last) = hi - lo + 1
    BY <2>1
  <2>3. m + k = (last - lo + 1) + (hi - last)
    BY <1>2, <1>3
  <2> QED
    BY <2>1, <2>2, <2>3
<1> DEFINE T == Values \union {V}
           value(c) == IF SparseMatrix!Positions(cells, c) = {} THEN V
                       ELSE SparseMatrix!Item(cells, c).value
<1>5. PICK f : f = [i \in 1 .. m |-> value(lo + i - 1)]
  OBVIOUS
<1>6. PICK g : g = [i \in 1 .. k |-> V]
  OBVIOUS
<1>7. SparseMatrix!RowDump(cells, lo, hi) = f \o g
  BY <1>2, <1>3, <1>5, <1>6 DEF SparseMatrix!RowDump, RowRead
<1>8. \A c \in ColIds : written[<<r, c>>] \in T
  BY DEF ContentOK
<1>9. \A i \in 1 .. m : lo + i - 1 \in ColIds /\ f[i] = written[<<r, lo + i - 1>>]
  <2>1. \A i \in 1 .. m : lo + i - 1 \in lo .. hi
    BY <1>1, <1>2
  <2>2. \A i \in 1 .. m : lo + i - 1 \in ColIds
    BY <1>1, <2>1
  <2>3. \A i \in 1 .. m : f[i] = value(lo + i - 1)
    BY <1>5
  <2>4. \A c \in ColIds : value(c) = written[<<r, c>>]
    BY DEF RowRead
  <2> HIDE DEF value
  <2> QED
    BY <2>2, <2>3, <2>4
<1>10. f \in Seq(T) /\ Len(f) = m
  <2>1. \A i \in 1 .. m : f[i] \in T
    BY <1>8, <1>9
  <2>2. f \in [1 .. m -> T]
    BY <1>5, <2>1
  <2> QED
    BY <2>2
<1>11. g \in Seq(T) /\ Len(g) = k
  <2>1. g \in [1 .. k -> T]
    BY <1>6
  <2> QED
    BY <2>1
<1>12. PICK all : all = f \o g
  OBVIOUS
<1>13. /\ all \in Seq(T) /\ Len(all) = m + k
       /\ \A i \in 1 .. m + k : all[i] = IF i <= m THEN f[i] ELSE g[i - m]
  BY <1>10, <1>11, <1>12, ConcatProperties
<1>14. ASSUME NEW i \in 1 .. m + k
       PROVE  all[i] = written[<<r, lo + i - 1>>]
  <2>1. CASE i <= m
    <3>1. i \in 1 .. m
      BY <2>1
    <3> QED
      BY <1>9, <1>13, <2>1, <3>1
  <2>2. CASE i > m
    <3>1. i - m \in 1 .. k /\ lo + i - 1 \in lo .. hi /\ lo + i - 1 > last /\ ~ (i <= m)
      <4>1. i \in Int /\ i - m \in 1 .. k /\ ~ (i <= m)
        BY <2>2
      <4>2. lo + i - 1 > last
        BY <4>1, <1>2, <1>4
      <4>3. lo + i - 1 \in lo .. hi
        BY <4>1, <1>1, <1>4
      <4> QED
        BY <4>1, <4>2, <4>3
    <3>2. g[i - m] = V
      BY <1>6, <3>1
    <3>3. written[<<r, lo + i - 1>>] = V
      BY <1>1, <3>1 DEF RowRead
    <3> QED
      BY <1>13, <3>1, <3>2, <3>3
  <2> QED
    BY <2>1, <2>2
<1>15. all = [j \in 1 .. m + k |-> written[<<r, lo + j - 1>>]]
  <2>1. all = [j \in 1 .. m + k |-> all[j]]
    BY <1>13
  <2> QED
    BY <1>14, <2>1
<1> QED
  BY <1>4, <1>7, <1>12, <1>15

\* Behind the last cell of a row there is none.
LEMMA BehindRow ==
    ASSUME RowsOK(rows), ContentOK, NEW i \in 1 .. Len(rows)
    PROVE  \E last \in Nat :
              /\ rows[i].cells # << >> /\ SparseMatrix!Last(rows[i].cells).index = last
              /\ \A c \in ColIds : c > last => written[<<rows[i].index, c>>] = V
<1>1. PICK cells \in Seq(Cell) : cells = rows[i].cells /\ Sorted(cells) /\ Len(cells) \in Nat \ {0}
  BY RowsTypes
<1>2. PICK n \in Nat \ {0} : n = Len(cells) /\ DOMAIN cells = 1 .. n
  BY <1>1, LenProperties
<1>3. \A j \in 1 .. n : cells[j].index \in Nat
  <2>1. \A j \in 1 .. n : cells[j] \in Cell
    BY <1>2, ElementOfSeq
  <2> QED
    BY <2>1, IndicesAssumption DEF Cell
<1>4. PICK last \in Nat : last = cells[n].index
  BY <1>3
<1>5. SparseMatrix!Last(cells).index = last
  BY <1>2, <1>4 DEF SparseMatrix!Last
<1>6. cells # << >>
  BY <1>2
<1>7. ASSUME NEW c \in ColIds, c > last
      PROVE  written[<<rows[i].index, c>>] = V
  <2>1. ASSUME NEW j \in 1 .. n PROVE cells[j].index # c
    <3>1. j = n \/ j < n
      OBVIOUS
    <3>2. j < n => cells[j].index < cells[n].index
      BY <1>1, <1>2 DEF Sorted
    <3>3. cells[j].index \in Nat /\ c \in Nat
      BY <1>3, IndicesAssumption
    <3> QED
      BY <3>1, <3>2, <3>3, <1>4, <1>7
  <2>2. SparseMatrix!Positions(cells, c) = {}
    BY <1>2, <2>1, PositionsAre
  <2> QED
    BY <1>1, <2>2, CellRead
<1> QED
  BY <1>1, <1>5, <1>6, <1>7

LEMMA RowPrinted ==
    ASSUME RowsOK(rows), ContentOK, NEW r \in RowIds, NEW lo \in ColIds, NEW hi \in ColIds, lo <= hi,
           \A i \in 1 .. Len(rows) :
               rows[i].index = r => SparseMatrix!Last(rows[i].cells).index \in lo - 1 .. hi
    PROVE  (IF SparseMatrix!Positions(rows, r) = {} THEN SparseMatrix!RowDump(<< >>, lo, hi)
            ELSE SparseMatrix!RowDump(SparseMatrix!Cells(r), lo, hi))
               = [j \in 1 .. hi - lo + 1 |-> written[<<r, lo + j - 1>>]]
<1>1. PICK n \in Nat : n = Len(rows) /\ DOMAIN rows = 1 .. n
  BY RowsTypes
<1>2. SparseMatrix!Positions(rows, r) = {} <=> \A i \in 1 .. n : rows[i].index # r
  BY <1>1, PositionsAre
<1>3. CASE \A i \in 1 .. n : rows[i].index # r
  <2>1. \A c \in ColIds : written[<<r, c>>] = V
    BY <1>1, <1>3, AbsentRow
  <2>2. \A c \in ColIds : SparseMatrix!Positions(<< >>, c) = {}
    BY DEF SparseMatrix!Positions
  <2>3. PICK none : none = << >>
    OBVIOUS
  <2>4. PICK last \in lo - 1 .. hi : last = lo - 1
    BY IndicesAssumption
  <2>5. \A c \in ColIds : (IF SparseMatrix!Positions(none, c) = {} THEN V
                           ELSE SparseMatrix!Item(none, c).value) = written[<<r, c>>]
    BY <2>1, <2>2, <2>3
  <2>6. last = IF none = << >> THEN lo - 1 ELSE SparseMatrix!Last(none).index
    BY <2>3, <2>4
  <2>7. RowRead(r, none, lo - 1, last)
    BY <2>1, <2>5, <2>6 DEF RowRead
  <2>8. SparseMatrix!RowDump(none, lo, hi) = [j \in 1 .. hi - lo + 1 |-> written[<<r, lo + j - 1>>]]
    BY <2>7, RowDumpIs
  <2> QED
    BY <1>2, <1>3, <2>3, <2>8
<1>4. CASE \E i \in 1 .. n : rows[i].index = r
  <2>1. PICK i \in 1 .. n : rows[i].index = r
    BY <1>4
  <2>2. PICK cells : cells = rows[i].cells /\ SparseMatrix!Cells(r) = cells
    BY <1>1, <2>1, CellsAre
  <2>3. PICK last \in Nat :
           /\ cells # << >> /\ SparseMatrix!Last(cells).index = last
           /\ \A c \in ColIds : c > last => written[<<r, c>>] = V
    BY <1>1, <2>1, <2>2, BehindRow
  <2>4. last \in lo - 1 .. hi
    BY <1>1, <2>1, <2>2, <2>3
  <2>5. \A c \in ColIds : (IF SparseMatrix!Positions(cells, c) = {} THEN V
                           ELSE SparseMatrix!Item(cells, c).value) = written[<<r, c>>]
    BY <1>1, <2>1, <2>2, CellRead
  <2>6. RowRead(r, cells, lo - 1, last)
    BY <2>3, <2>5 DEF RowRead
  <2>7. SparseMatrix!RowDump(cells, lo, hi) = [j \in 1 .. hi - lo + 1 |-> written[<<r, lo + j - 1>>]]
    BY <2>4, <2>6, RowDumpIs
  <2> QED
    BY <1>2, <2>1, <2>2, <2>7
<1> QED
  BY <1>3, <1>4

\* A set of numbers up to a bound has a greatest one.
LEMMA GreatestOf ==
    ASSUME NEW n \in Nat, NEW S \in SUBSET (1 .. n), S # {}
    PROVE  \E i \in S : \A j \in S : i >= j
<1> DEFINE Distance(i) == n - i
<1>1. PICK D : D = {Distance(i) : i \in S}
  OBVIOUS
<1>2. D \in SUBSET Nat /\ D # {}
  <2>1. \A i \in S : Distance(i) \in Nat
    OBVIOUS
  <2> HIDE DEF Distance
  <2> QED
    BY <1>1, <2>1
<1>3. PICK d \in D : \A e \in D : d <= e
  BY <1>2, LeastOf
<1>4. PICK i \in S : d = Distance(i)
  BY <1>1, <1>3
<1>5. \A j \in S : n - i <= n - j
  BY <1>1, <1>3, <1>4
<1> QED
  BY <1>5

LEMMA WindowIs ==
    ASSUME RowsOK(rows), ContentOK, NEW top \in RowIds, NEW bottom \in RowIds,
           NEW lo \in ColIds, NEW hi \in ColIds, lo <= hi
    PROVE  SparseMatrix!WindowRight(top, bottom, lo, hi)
<1>1. PICK n \in Nat : n = Len(rows) /\ DOMAIN rows = 1 .. n
  BY RowsTypes
<1> DEFINE fits == \A i \in DOMAIN rows :
                      rows[i].index \in top .. bottom =>
                          SparseMatrix!Last(rows[i].cells).index \in lo - 1 .. hi
           shown == {i \in DOMAIN rows : rows[i].index \in top .. bottom}
           line(r) == IF SparseMatrix!Positions(rows, r) = {} THEN SparseMatrix!RowDump(<< >>, lo, hi)
                      ELSE SparseMatrix!RowDump(SparseMatrix!Cells(r), lo, hi)
<1> DEFINE high == IF shown = {} THEN 0
                   ELSE rows[CHOOSE i \in shown : \A j \in shown : i >= j].index - top + 1
<1>2. PICK height : height = high
  <2> HIDE DEF high
  <2> QED
    OBVIOUS
<1>3. PICK window : window = [i \in 1 .. height |-> line(top + i - 1)]
  <2> HIDE DEF line
  <2> QED
    OBVIOUS
<1>4. SparseMatrix!Dump(top, bottom, lo, hi) = window
  <2>1. SparseMatrix!Dump(top, bottom, lo, hi) = [i \in 1 .. high |-> line(top + i - 1)]
    BY DEF SparseMatrix!Dump
  <2> HIDE DEF high, line
  <2> QED
    BY <1>2, <1>3, <2>1
<1>5. top \in Nat /\ bottom \in Nat /\ \A r \in top .. bottom : r \in RowIds
  BY IndicesAssumption
<1>6. height \in Nat /\ (height > 0 => top + height - 1 <= bottom)
  <2>1. CASE shown = {}
    BY <1>2, <2>1
  <2>2. CASE shown # {}
    <3>1. PICK m : m = CHOOSE i \in shown : \A j \in shown : i >= j
      OBVIOUS
    <3>2. \E i \in shown : \A j \in shown : i >= j
      <4>1. shown \in SUBSET (1 .. n)
        BY <1>1
      <4> HIDE DEF shown
      <4> QED
        BY <2>2, <4>1, GreatestOf
    <3>3. m \in shown
      <4> HIDE DEF shown
      <4> QED
        BY <3>1, <3>2
    <3>4. rows[m].index \in top .. bottom
      BY <3>3
    <3>5. height = rows[m].index - top + 1
      BY <1>2, <2>2, <3>1
    <3> QED
      BY <1>5, <3>4, <3>5
  <2> QED
    BY <2>1, <2>2
<1>7. ASSUME fits, NEW i \in 1 .. height
      PROVE  window[i] = [j \in 1 .. hi - lo + 1 |-> written[<<top + i - 1, lo + j - 1>>]]
  <2>1. PICK r \in RowIds : r = top + i - 1 /\ r \in top .. bottom
    <3>1. top + i - 1 \in top .. bottom
      BY <1>5, <1>6
    <3> QED
      BY <1>5, <3>1
  <2>2. \A k \in 1 .. n : rows[k].index = r => SparseMatrix!Last(rows[k].cells).index \in lo - 1 .. hi
    BY <1>1, <1>7, <2>1
  <2>3. line(r) = [j \in 1 .. hi - lo + 1 |-> written[<<r, lo + j - 1>>]]
    BY <1>1, <2>2, RowPrinted
  <2>4. window[i] = line(r)
    BY <1>3, <2>1
  <2> QED
    BY <2>1, <2>3, <2>4
<1>8. DOMAIN window = 1 .. height
  BY <1>3
<1>9. fits => \A i \in DOMAIN window :
                 window[i] = [j \in 1 .. hi - lo + 1 |-> written[<<top + i - 1, lo + j - 1>>]]
  BY <1>7, <1>8
<1> QED
  BY <1>4, <1>9 DEF SparseMatrix!WindowRight

LEMMA OrderInvReads ==
    ASSUME OrderInv
    PROVE  SparseMatrix!ReadsLastWritten
<1> SUFFICES ASSUME ~undefined
             PROVE  /\ \A k \in Keys : SparseMatrix!Get(k[1], k[2]) = written[k]
                    /\ \A top, bottom \in RowIds, lo, hi \in ColIds :
                          top <= bottom /\ lo <= hi => SparseMatrix!WindowRight(top, bottom, lo, hi)
  BY DEF SparseMatrix!ReadsLastWritten, SparseMatrix!Keys, Keys
<1>1. RowsOK(rows) /\ ContentOK
  BY DEF OrderInv
<1>2. ASSUME NEW k \in Keys PROVE SparseMatrix!Get(k[1], k[2]) = written[k]
  <2>1. k = <<k[1], k[2]>> /\ k[1] \in RowIds /\ k[2] \in ColIds
    BY KeyTypes
  <2>2. SparseMatrix!Get(k[1], k[2]) = written[<<k[1], k[2]>>]
    BY <1>1, <2>1, GetIs
  <2> QED
    BY <2>1, <2>2
<1> QED
  BY <1>1, <1>2, WindowIs

LEMMA MatrixInvariant == SparseMatrix!Spec => []IterationInv
<1>1. SparseMatrix!Init => IterationInv
  BY MatrixInit
<1>2. IterationInv /\ [SparseMatrix!Next]_SparseMatrix!vars => IterationInv'
  <2>1. UNCHANGED SparseMatrix!vars => UNCHANGED matrixVars
    BY DEF SparseMatrix!vars, SparseMatrix!history, matrixVars
  <2> QED
    BY <2>1, MatrixIteration
<1> QED
  BY <1>1, <1>2, PTL DEF SparseMatrix!Spec

\* A cell has what was last assigned to it, for all indices, values and orders of
\* accesses, whether it is read by operator[] or printed by Dump (TMatrix, TRow).
THEOREM ReadsLastWrittenCorrect == SparseMatrix!Spec => []ReadsLastWritten
<1>1. IterationInv => ReadsLastWritten
  BY OrderInvReads DEF IterationInv, ReadsLastWritten
<1> QED
  BY <1>1, MatrixInvariant, PTL

\* A loop visits what stays occupied, once and in order, whatever its body writes
\* around the iterator (TIterator::operator++).
THEOREM IterationCompleteCorrect == SparseMatrix!Spec => []IterationComplete
<1>1. IterationInv => IterationComplete
  BY IterationInvImplies DEF IterationComplete
<1> QED
  BY <1>1, MatrixInvariant, PTL

\* Rows first accessed in rising order, no loop on an empty matrix and no row added
\* during one leave nothing undefined (TMatrix::operator[], begin, operator++).
THEOREM DefinedInOrderCorrect == SparseMatrix!Spec => []DefinedInOrder
<1>1. IterationInv => DefinedInOrder
  BY IterationInvImplies DEF DefinedInOrder
<1> QED
  BY <1>1, MatrixInvariant, PTL

-------------------------------------------------------------------------------
(* 07 bulk: its output *)

Entry == [n : Nat, second : Nat]

\* A block has the commands from first to last.
Run(block, first, last) ==
    /\ block \in Seq(Entry) /\ Len(block) = last - first + 1
    /\ \A i \in 1 .. Len(block) : block[i].n = first + i - 1

Blocks(s) == {s[i] : i \in DOMAIN s} \ {<< >>}
Shown(s) == {Numbers(b) : b \in Blocks(s)}

InOrder(s) ==
    \A i, j \in DOMAIN s : \A m \in Numbers(s[i]), n \in Numbers(s[j]) : i < j => m < n

InFiles(s, f) ==
    \A b \in Blocks(s) :
        /\ b[1].second \in DOMAIN f
        /\ f[b[1].second] = b \/ \E d \in Blocks(s) : d[1].second = b[1].second /\ d[1].n > b[1].n

\* What was printed has the commands before first.
PrintedOK(s, f, first) ==
    /\ s \in Seq(Seq(Entry))
    /\ \A i \in DOMAIN s : \A n \in Numbers(s[i]) : n < first
    /\ InOrder(s)
    /\ InFiles(s, f)

LEMMA RunNumbers ==
    ASSUME NEW first \in Nat \ {0}, NEW last \in Nat, first <= last + 1,
           NEW block, Run(block, first, last)
    PROVE  Numbers(block) = first .. last /\ (first <= last <=> block # << >>)
<1>1. PICK k \in Nat : k = last - first + 1 /\ last = first + k - 1
  OBVIOUS
<1>2. block \in Seq(Entry) /\ Len(block) = k /\ DOMAIN block = 1 .. k
  BY <1>1, LenProperties DEF Run
<1>3. \A i \in 1 .. k : block[i].n = first + i - 1
  BY <1>2 DEF Run
<1>4. Numbers(block) = {block[i].n : i \in 1 .. k}
  BY <1>2 DEF Numbers
<1>5. ASSUME NEW n \in first .. last PROVE n \in Numbers(block)
  <2>1. PICK i \in 1 .. k : i = n - first + 1
    BY <1>1
  <2>2. block[i].n = n
    BY <1>3, <2>1
  <2> QED
    BY <1>4, <2>1, <2>2
<1>6. ASSUME NEW n \in Numbers(block) PROVE n \in first .. last
  <2>1. PICK i \in 1 .. k : n = block[i].n
    BY <1>4
  <2>2. n = first + i - 1
    BY <1>3, <2>1
  <2> QED
    BY <1>1, <2>2
<1>7. k > 0 <=> block # << >>
  BY <1>2, EmptySeq
<1>8. Numbers(block) = first .. last
  <2>1. \A x : x \in Numbers(block) <=> x \in first .. last
    BY <1>5, <1>6
  <2> QED
    BY <2>1
<1>9. first <= last <=> k > 0
  BY <1>1
<1> QED
  BY <1>7, <1>8, <1>9

LEMMA RunExtended ==
    ASSUME NEW first \in Nat \ {0}, NEW last \in Nat, first <= last + 1,
           NEW block, Run(block, first, last), NEW e \in Entry, e.n = last + 1
    PROVE  Run(Append(block, e), first, last + 1)
<1>1. PICK k \in Nat : k = last - first + 1 /\ last + 1 = first + (k + 1) - 1
  OBVIOUS
<1>2. block \in Seq(Entry) /\ Len(block) = k /\ \A i \in 1 .. k : block[i].n = first + i - 1
  BY <1>1 DEF Run
<1>3. PICK new : new = Append(block, e)
  OBVIOUS
<1>4. /\ new \in Seq(Entry) /\ Len(new) = k + 1 /\ new[k + 1] = e
      /\ \A i \in 1 .. k : new[i] = block[i]
  BY <1>2, <1>3, AppendProperties
<1>5. ASSUME NEW i \in 1 .. k + 1 PROVE new[i].n = first + i - 1
  <2>1. CASE i = k + 1
    BY <1>1, <1>4, <2>1
  <2>2. CASE i # k + 1
    <3>1. i \in 1 .. k
      BY <2>2
    <3> QED
      BY <1>2, <1>4, <3>1
  <2> QED
    BY <2>1, <2>2
<1>6. Len(new) = last + 1 - first + 1
  BY <1>1, <1>4
<1>7. \A i \in 1 .. Len(new) : new[i].n = first + i - 1
  BY <1>4, <1>5
<1> QED
  BY <1>3, <1>4, <1>6, <1>7 DEF Run

\* A block is printed.
LEMMA BlockShown ==
    ASSUME NEW s, NEW block, s \in Seq(Seq(Entry)), block \in Seq(Entry)
    PROVE  /\ Append(s, block) \in Seq(Seq(Entry)) /\ Len(s) \in Nat
           /\ DOMAIN s = 1 .. Len(s) /\ DOMAIN Append(s, block) = 1 .. Len(s) + 1
           /\ Append(s, block)[Len(s) + 1] = block
           /\ \A i \in 1 .. Len(s) : Append(s, block)[i] = s[i]
           /\ Blocks(Append(s, block)) = Blocks(s) \union ({block} \ {<< >>})
           /\ Shown(Append(s, block)) = Shown(s) \union (IF block = << >> THEN {} ELSE {Numbers(block)})
<1>1. PICK k \in Nat : k = Len(s) /\ DOMAIN s = 1 .. k
  BY LenProperties
<1>2. PICK t : t = Append(s, block)
  OBVIOUS
<1>3. /\ t \in Seq(Seq(Entry)) /\ Len(t) = k + 1 /\ t[k + 1] = block
      /\ \A i \in 1 .. k : t[i] = s[i]
  BY <1>1, <1>2, AppendProperties
<1>4. DOMAIN t = 1 .. k + 1
  BY <1>3, LenProperties
<1>5. \A b : (\E i \in 1 .. k + 1 : t[i] = b) <=> (b = block \/ \E i \in 1 .. k : s[i] = b)
  <2>1. k + 1 \in 1 .. k + 1 /\ \A i \in 1 .. k + 1 : i = k + 1 \/ i \in 1 .. k
    OBVIOUS
  <2>2. \A i \in 1 .. k : i \in 1 .. k + 1
    OBVIOUS
  <2> QED
    BY <1>3, <2>1, <2>2
<1>6. Blocks(t) = Blocks(s) \union ({block} \ {<< >>})
  <2>1. {t[i] : i \in DOMAIN t} = {s[i] : i \in DOMAIN s} \union {block}
    BY <1>1, <1>4, <1>5
  <2> QED
    BY <2>1 DEF Blocks
<1>7. Shown(t) = Shown(s) \union (IF block = << >> THEN {} ELSE {Numbers(block)})
  <2>1. CASE block = << >>
    <3>1. Blocks(t) = Blocks(s)
      BY <1>6, <2>1
    <3> QED
      BY <2>1, <3>1 DEF Shown
  <2>2. CASE block # << >>
    <3>1. Blocks(t) = Blocks(s) \union {block}
      BY <1>6, <2>2
    <3> QED
      BY <2>2, <3>1 DEF Shown
  <2> QED
    BY <2>1, <2>2
<1> QED
  BY <1>1, <1>2, <1>3, <1>4, <1>6, <1>7

\* What follows in the order of its commands keeps the order.
LEMMA OrderExtended ==
    ASSUME NEW s, NEW block, s \in Seq(Seq(Entry)), block \in Seq(Entry), InOrder(s),
           NEW first \in Nat, NEW next \in Nat, first <= next,
           \A i \in DOMAIN s : \A n \in Numbers(s[i]) : n < first,
           \A n \in Numbers(block) : n >= first /\ n < next
    PROVE  /\ InOrder(Append(s, block))
           /\ \A i \in DOMAIN Append(s, block) : \A n \in Numbers(Append(s, block)[i]) : n < next
<1>1. PICK k \in Nat : k = Len(s) /\ DOMAIN s = 1 .. k
  BY BlockShown
<1>2. PICK t : /\ t = Append(s, block) /\ DOMAIN t = 1 .. k + 1
               /\ t[k + 1] = block /\ \A i \in 1 .. k : t[i] = s[i]
  <2>1. PICK t : t = Append(s, block)
    OBVIOUS
  <2>2. /\ DOMAIN t = 1 .. Len(s) + 1 /\ t[Len(s) + 1] = block
        /\ \A i \in 1 .. Len(s) : t[i] = s[i]
    BY <2>1, BlockShown
  <2> QED
    BY <1>1, <2>1, <2>2
<1>3. \A b \in Seq(Entry) : \A n \in Numbers(b) : n \in Nat
  <2> TAKE b \in Seq(Entry)
  <2> TAKE n \in Numbers(b)
  <2>1. PICK i \in DOMAIN b : n = b[i].n
    BY DEF Numbers
  <2>2. b[i] \in Entry
    BY <2>1, LenProperties, ElementOfSeq
  <2> QED
    BY <2>1, <2>2 DEF Entry
<1>4. \A i \in 1 .. k : s[i] \in Seq(Entry)
  BY <1>1, ElementOfSeq
<1>5. ASSUME NEW i \in 1 .. k + 1, NEW j \in 1 .. k + 1, i < j,
             NEW m \in Numbers(t[i]), NEW n \in Numbers(t[j])
      PROVE  m < n
  <2>1. i \in 1 .. k /\ t[i] = s[i] /\ m \in Nat
    BY <1>1, <1>2, <1>3, <1>4, <1>5
  <2>2. CASE j = k + 1
    <3>1. m < first /\ n >= first /\ n \in Nat
      BY <1>1, <1>2, <1>3, <1>5, <2>1, <2>2
    <3> QED
      BY <2>1, <3>1
  <2>3. CASE j # k + 1
    <3>1. j \in 1 .. k /\ t[j] = s[j]
      BY <1>2, <2>3
    <3> QED
      BY <1>1, <1>5, <2>1, <3>1 DEF InOrder
  <2> QED
    BY <2>2, <2>3
<1>6. ASSUME NEW i \in 1 .. k + 1, NEW n \in Numbers(t[i])
      PROVE  n < next
  <2>1. CASE i = k + 1
    BY <1>2, <1>6, <2>1
  <2>2. CASE i # k + 1
    <3>1. i \in 1 .. k /\ t[i] = s[i]
      BY <1>2, <2>2
    <3>2. n \in Nat /\ n < first
      BY <1>1, <1>3, <1>4, <1>6, <3>1
    <3> QED
      BY <3>2
  <2> QED
    BY <2>1, <2>2
<1> QED
  BY <1>2, <1>5, <1>6 DEF InOrder

\* What TFilePrinter makes of the files.
FilesWith(f, block) ==
    [q \in DOMAIN f \union {block[1].second} |-> IF q = block[1].second THEN block ELSE f[q]]

\* The last block of a second is in the file of that name.
LEMMA FileWritten ==
    ASSUME NEW s, NEW block, s \in Seq(Seq(Entry)), block \in Seq(Entry), block # << >>,
           NEW f, InFiles(s, f),
           \A b \in Blocks(s) : b[1].n < block[1].n
    PROVE  InFiles(Append(s, block), FilesWith(f, block))
<1>1. PICK t : t = Append(s, block) /\ Blocks(t) = Blocks(s) \union {block}
  <2>1. Blocks(Append(s, block)) = Blocks(s) \union ({block} \ {<< >>})
    BY BlockShown
  <2>2. {block} \ {<< >>} = {block}
    OBVIOUS
  <2> QED
    BY <2>1, <2>2
<1>2. PICK x : x = block[1].second
  OBVIOUS
<1>3. PICK g : /\ g = FilesWith(f, block)
               /\ DOMAIN g = DOMAIN f \union {x} /\ g[x] = block
               /\ \A q \in DOMAIN f : q # x => g[q] = f[q]
  <2>1. PICK g : g = FilesWith(f, block)
    OBVIOUS
  <2>2. g = [q \in DOMAIN f \union {x} |-> IF q = x THEN block ELSE f[q]]
    BY <1>2, <2>1 DEF FilesWith
  <2>3. /\ DOMAIN g = DOMAIN f \union {x} /\ g[x] = block
        /\ \A q \in DOMAIN f : q # x => g[q] = f[q]
    BY <2>2
  <2> QED
    BY <2>1, <2>3
<1>4. ASSUME NEW b \in Blocks(t)
      PROVE  /\ b[1].second \in DOMAIN g
             /\ g[b[1].second] = b \/ \E d \in Blocks(t) : d[1].second = b[1].second /\ d[1].n > b[1].n
  <2>1. CASE b = block
    BY <1>2, <1>3, <2>1
  <2>2. CASE b \in Blocks(s) /\ b[1].second = x
    BY <1>1, <1>2, <1>3, <2>2
  <2>3. CASE b \in Blocks(s) /\ b[1].second # x
    BY <1>1, <1>3, <2>3 DEF InFiles
  <2> QED
    BY <1>1, <2>1, <2>2, <2>3
<1> QED
  BY <1>1, <1>3, <1>4 DEF InFiles

LEMMA Printed ==
    ASSUME NEW first \in Nat \ {0}, NEW last \in Nat, first <= last,
           NEW s, NEW f, PrintedOK(s, f, first),
           NEW block, Run(block, first, last)
    PROVE  /\ PrintedOK(Append(s, block), FilesWith(f, block), last + 1)
           /\ Shown(Append(s, block)) = Shown(s) \union {first .. last}
<1>1. block \in Seq(Entry) /\ s \in Seq(Seq(Entry)) /\ InOrder(s) /\ InFiles(s, f)
  BY DEF Run, PrintedOK
<1>2. Numbers(block) = first .. last /\ block # << >>
  BY RunNumbers
<1>3. Append(s, block) \in Seq(Seq(Entry)) /\ Shown(Append(s, block)) = Shown(s) \union {first .. last}
  BY <1>1, <1>2, BlockShown
<1>4. /\ InOrder(Append(s, block))
      /\ \A i \in DOMAIN Append(s, block) : \A n \in Numbers(Append(s, block)[i]) : n < last + 1
  <2>1. PICK next \in Nat : next = last + 1
    OBVIOUS
  <2>2. first <= next /\ \A n \in first .. last : n >= first /\ n < next
    BY <2>1
  <2>3. \A i \in DOMAIN s : \A n \in Numbers(s[i]) : n < first
    BY DEF PrintedOK
  <2> QED
    BY <1>1, <1>2, <2>1, <2>2, <2>3, OrderExtended
<1>5. \A b \in Blocks(s) : b[1].n < block[1].n
  <2> TAKE b \in Blocks(s)
  <2>1. PICK i \in DOMAIN s : b = s[i] /\ b # << >>
    BY DEF Blocks
  <2>2. b \in Seq(Entry)
    BY <1>1, <2>1, LenProperties, ElementOfSeq
  <2>3. 1 \in DOMAIN b
    BY <2>1, <2>2, LenProperties, EmptySeq
  <2>4. b[1].n < first
    BY <2>1, <2>3 DEF PrintedOK, Numbers
  <2>5. block[1].n = first
    <3>1. 1 \in 1 .. Len(block) /\ first + 1 - 1 = first
      BY <1>1, <1>2, LenProperties, EmptySeq
    <3> QED
      BY <3>1 DEF Run
  <2> QED
    BY <2>4, <2>5
<1>6. InFiles(Append(s, block), FilesWith(f, block))
  BY <1>1, <1>2, <1>5, FileWritten
<1> QED
  BY <1>3, <1>4, <1>6 DEF PrintedOK

\* An empty block is shown and no more.
LEMMA NothingPrinted ==
    ASSUME NEW first \in Nat \ {0}, NEW s, NEW f, PrintedOK(s, f, first),
           NEW block \in Seq(Entry), Len(block) = 0
    PROVE  PrintedOK(Append(s, block), f, first) /\ Shown(Append(s, block)) = Shown(s)
<1>1. {block} \ {<< >>} = {}
  BY EmptySeq
<1>2. s \in Seq(Seq(Entry)) /\ InOrder(s) /\ InFiles(s, f)
  BY DEF PrintedOK
<1>3. Append(s, block) \in Seq(Seq(Entry))
  BY <1>2, BlockShown
<1>4. Blocks(Append(s, block)) = Blocks(s)
  <2>1. Blocks(Append(s, block)) = Blocks(s) \union ({block} \ {<< >>})
    BY <1>2, BlockShown
  <2> QED
    BY <1>1, <2>1
<1>5. /\ InOrder(Append(s, block))
      /\ \A i \in DOMAIN Append(s, block) : \A n \in Numbers(Append(s, block)[i]) : n < first
  <2>1. \A i \in DOMAIN s : \A n \in Numbers(s[i]) : n < first
    BY DEF PrintedOK
  <2>2. DOMAIN block = {}
    BY LenProperties
  <2>3. \A n \in Numbers(block) : n >= first /\ n < first
    BY <2>2 DEF Numbers
  <2>4. first \in Nat /\ first <= first
    OBVIOUS
  <2> QED
    BY <1>2, <2>1, <2>3, <2>4, OrderExtended
<1>6. InFiles(Append(s, block), f)
  BY <1>2, <1>4 DEF InFiles
<1>7. Shown(Append(s, block)) = Shown(s)
  BY <1>4 DEF Shown
<1> QED
  BY <1>3, <1>5, <1>6, <1>7 DEF PrintedOK

\* Every pair of braces has a command in it.
AllFilled(list) == \A p \in OuterPairs(list) : Between(list, p) # {}

LEMMA FilledKept ==
    ASSUME NEW list \in Seq(LineKinds), NEW line \in LineKinds,
           line # "close" \/ Depth(list, Len(list)) # 1
    PROVE  AllFilled(Append(list, line)) <=> AllFilled(list)
<1>1. OuterPairs(Append(list, line)) = OuterPairs(list)
  BY PairsAdded
<1>2. \A p \in OuterPairs(list) : Between(Append(list, line), p) = Between(list, p)
  BY PairsAdded
<1> QED
  BY <1>1, <1>2 DEF AllFilled

LEMMA FilledClosed ==
    ASSUME NEW list \in Seq(LineKinds), Depth(list, Len(list)) = 1, NEW o, IsOpen(list, o)
    PROVE  AllFilled(Append(list, "close"))
             <=> AllFilled(list) /\ Count(list, o, "command") < Total(list)
<1> DEFINE longer == Append(list, "close")
           end == Len(list)
<1>0. "close" \in LineKinds /\ end \in Nat /\ DOMAIN list = 1 .. end
  BY LenProperties DEF LineKinds
<1>1. o \in DOMAIN list
  BY OneOpen
<1>2. <<o, end + 1>> \in OuterPairs(longer)
  BY <1>0, PairsAdded DEF IsOpen
<1>3. \A p \in OuterPairs(longer) \ OuterPairs(list) : p = <<o, end + 1>>
  <2> TAKE p \in OuterPairs(longer) \ OuterPairs(list)
  <2>1. p = <<p[1], end + 1>> /\ IsOpen(list, p[1])
    BY <1>0, PairsAdded DEF IsOpen
  <2>2. p[1] = o
    BY <2>1, OneOpen
  <2> QED
    BY <2>1, <2>2
<1>4. /\ OuterPairs(list) \subseteq OuterPairs(longer)
      /\ \A p \in OuterPairs(list) : Between(longer, p) = Between(list, p)
  BY <1>0, PairsAdded
<1>5. Between(longer, <<o, end + 1>>) # {} <=> Count(list, o, "command") < Total(list)
  <2>1. o \in 0 .. end /\ o \in Nat
    BY <1>0, <1>1
  <2>2. Count(longer, o, "command") = Count(list, o, "command")
    BY <1>0, <2>1, LinesKept
  <2>3. Count(longer, end + 1, "command") = Total(list)
    BY <1>0, LineCounts DEF Total
  <2>4. Count(list, o, "command") \in Nat /\ Total(list) \in Nat
    BY <1>0, <2>1, CountType, TotalType
  <2>5. \A m, n \in Nat : m + 1 .. n # {} <=> m < n
    <3> SUFFICES ASSUME NEW m \in Nat, NEW n \in Nat PROVE m + 1 .. n # {} <=> m < n
      OBVIOUS
    <3>1. m < n => n \in m + 1 .. n
      OBVIOUS
    <3>2. m < n \/ m + 1 .. n = {}
      OBVIOUS
    <3>3. m < n => m + 1 .. n # {}
      BY <3>1
    <3>4. m + 1 .. n # {} => m < n
      BY <3>2
    <3> QED
      BY <3>3, <3>4
  <2>6. Between(longer, <<o, end + 1>>) = Count(list, o, "command") + 1 .. Total(list)
    BY <2>2, <2>3 DEF Between
  <2> QED
    BY <2>4, <2>5, <2>6
<1> HIDE DEF longer, end
<1>6. AllFilled(longer) <=> AllFilled(list) /\ Between(longer, <<o, end + 1>>) # {}
  BY <1>2, <1>3, <1>4 DEF AllFilled
<1> QED
  BY <1>5, <1>6 DEF longer

\* The open block began with command first.
OpenedAt(list, first) ==
    Depth(list, Len(list)) > 0 => \E o : IsOpen(list, o) /\ Count(list, o, "command") + 1 = first

LEMMA OpenedKept ==
    ASSUME NEW list \in Seq(LineKinds), NEW line \in LineKinds, NEW first, OpenedAt(list, first),
           Depth(list, Len(list)) > 0 \/ Depth(Append(list, line), Len(list) + 1) <= 0,
           Depth(Append(list, line), Len(list) + 1) \in Int
    PROVE  OpenedAt(Append(list, line), first)
<1> DEFINE longer == Append(list, line)
<1>1. Len(longer) = Len(list) + 1
  BY AppendProperties
<1>2. ASSUME Depth(longer, Len(list) + 1) > 0
      PROVE  \E o : IsOpen(longer, o) /\ Count(longer, o, "command") + 1 = first
  <2>1. PICK o : IsOpen(list, o) /\ Count(list, o, "command") + 1 = first
    BY <1>2 DEF OpenedAt
  <2>2. IsOpen(longer, o) /\ Count(longer, o, "command") = Count(list, o, "command")
    BY <1>2, <2>1, StillOpen
  <2> QED
    BY <2>1, <2>2
<1> HIDE DEF longer
<1> QED
  BY <1>1, <1>2 DEF OpenedAt, longer

LEMMA OpenedNow ==
    ASSUME NEW list \in Seq(LineKinds), Depth(list, Len(list)) = 0
    PROVE  OpenedAt(Append(list, "open"), Total(list) + 1)
<1> DEFINE longer == Append(list, "open")
           o == Len(list) + 1
<1>1. "open" \in LineKinds
  BY DEF LineKinds
<1>2. IsOpen(longer, o)
  BY OpensNow
<1>3. Count(longer, o, "command") = Total(list)
  BY <1>1, LineCounts DEF Total
<1> HIDE DEF longer, o
<1> QED
  BY <1>2, <1>3 DEF OpenedAt, longer, o

-------------------------------------------------------------------------------
(* The parser: what it has read, collected and printed *)

ReadFrom(list, most, held, s, f, first) ==
    /\ Grouped(list, most, first)
    /\ Run(held, first, Total(list))
    /\ PrintedOK(s, f, first)
    /\ Shown(s) = BulksSoFar(list, most)
    /\ OpenedAt(list, first)
    /\ AllFilled(list)

ReadSoFar(list, most, held, s, f) == \E first : ReadFrom(list, most, held, s, f, first)

\* What is left when the program ends.
Left(how, list, most, s, f) ==
    /\ InOrder(s) /\ InFiles(s, f)
    /\ Shown(s) = Bulks(list, most, how = "eof")
    /\ how = "crashed" <=> ~ AllFilled(list)

LEMMA ReadType ==
    ASSUME NEW list, NEW most \in Nat, NEW held, NEW s, NEW f, NEW first,
           ReadFrom(list, most, held, s, f, first)
    PROVE  /\ list \in Seq(LineKinds) /\ Len(list) \in Nat /\ Total(list) \in Nat
           /\ first \in Nat \ {0} /\ first <= Total(list) + 1
           /\ Depth(list, Len(list)) \in Nat /\ LinesFound(list)
           /\ held \in Seq(Entry) /\ Len(held) = Total(list) - first + 1
           /\ first <= Total(list) <=> held # << >>
           /\ s \in Seq(Seq(Entry))
<1>1. Grouped(list, most, first) /\ Run(held, first, Total(list)) /\ PrintedOK(s, f, first)
  BY DEF ReadFrom
<1>2. Shaped(list, most, first)
  BY <1>1, GroupedType
<1>3. /\ list \in Seq(LineKinds) /\ Len(list) \in Nat /\ Total(list) \in Nat
      /\ first \in Nat \ {0} /\ first <= Total(list) + 1 /\ Depth(list, Len(list)) \in Nat
  BY <1>2, ShapedType
<1>4. first <= Total(list) <=> held # << >>
  BY <1>1, <1>3, RunNumbers
<1> QED
  BY <1>1, <1>2, <1>3, <1>4 DEF Run, PrintedOK, Shaped

LEMMA NothingHeld ==
    ASSUME NEW first \in Nat, NEW last \in Nat, first = last + 1
    PROVE  Run(<< >>, first, last)
BY DEF Run

\* A command is collected ...
LEMMA CommandCollected ==
    ASSUME NEW list, NEW most \in Nat, NEW held, NEW s, NEW f, ReadSoFar(list, most, held, s, f),
           NEW e \in Entry, e.n = Total(list) + 1,
           Depth(list, Len(list)) = 0 => Len(Append(held, e)) # most
    PROVE  ReadSoFar(Append(list, "command"), most, Append(held, e), s, f)
<1> DEFINE longer == Append(list, "command")
<1>0. "command" \in LineKinds
  BY DEF LineKinds
<1>1. PICK first : ReadFrom(list, most, held, s, f, first)
  BY DEF ReadSoFar
<1>2. /\ list \in Seq(LineKinds) /\ Total(list) \in Nat /\ first \in Nat \ {0}
      /\ first <= Total(list) + 1 /\ Depth(list, Len(list)) \in Nat
      /\ held \in Seq(Entry) /\ Len(held) = Total(list) - first + 1
  BY <1>1, ReadType
<1>3. /\ Grouped(list, most, first) /\ Run(held, first, Total(list)) /\ PrintedOK(s, f, first)
      /\ Shown(s) = BulksSoFar(list, most) /\ OpenedAt(list, first) /\ AllFilled(list)
  BY <1>1 DEF ReadFrom
<1>4. Len(Append(held, e)) = Total(list) + 2 - first
  <2>1. Len(Append(held, e)) = Len(held) + 1
    BY <1>2, AppendProperties
  <2> QED
    BY <1>2, <2>1
<1>5. /\ Grouped(longer, most, first) /\ BulksSoFar(longer, most) = BulksSoFar(list, most)
      /\ Total(longer) = Total(list) + 1
  BY <1>3, <1>4, GroupedCommand
<1>6. Run(Append(held, e), first, Total(list) + 1)
  BY <1>2, <1>3, RunExtended
<1>7. OpenedAt(longer, first)
  <2>1. Depth(longer, Len(list) + 1) = Depth(list, Len(list))
    BY <1>2, LineCounts
  <2>2. Depth(list, Len(list)) > 0 \/ Depth(longer, Len(list) + 1) <= 0
    BY <1>2, <2>1
  <2>3. Depth(longer, Len(list) + 1) \in Int
    BY <1>2, <2>1
  <2> QED
    BY <1>0, <1>2, <1>3, <2>2, <2>3, OpenedKept
<1>8. AllFilled(longer)
  BY <1>0, <1>2, <1>3, FilledKept
<1> HIDE DEF longer
<1>9. ReadFrom(longer, most, Append(held, e), s, f, first)
  BY <1>3, <1>5, <1>6, <1>7, <1>8 DEF ReadFrom
<1> QED
  BY <1>9 DEF ReadSoFar, longer

\* ... or completes the block.
LEMMA CommandPrints ==
    ASSUME NEW list, NEW most \in Nat, NEW held, NEW s, NEW f, ReadSoFar(list, most, held, s, f),
           NEW e \in Entry, e.n = Total(list) + 1,
           Depth(list, Len(list)) = 0, Len(Append(held, e)) = most
    PROVE  ReadSoFar(Append(list, "command"), most, << >>,
                     Append(s, Append(held, e)), FilesWith(f, Append(held, e)))
<1> DEFINE longer == Append(list, "command")
<1>0. "command" \in LineKinds
  BY DEF LineKinds
<1>1. PICK first : ReadFrom(list, most, held, s, f, first)
  BY DEF ReadSoFar
<1>2. /\ list \in Seq(LineKinds) /\ Total(list) \in Nat /\ first \in Nat \ {0}
      /\ first <= Total(list) + 1
      /\ held \in Seq(Entry) /\ Len(held) = Total(list) - first + 1
  BY <1>1, ReadType
<1>3. /\ Grouped(list, most, first) /\ Run(held, first, Total(list)) /\ PrintedOK(s, f, first)
      /\ Shown(s) = BulksSoFar(list, most) /\ AllFilled(list)
  BY <1>1 DEF ReadFrom
<1>4. Total(list) + 2 - first = most
  <2>1. Len(Append(held, e)) = Len(held) + 1
    BY <1>2, AppendProperties
  <2> QED
    BY <1>2, <2>1
<1>5. /\ Grouped(longer, most, Total(list) + 2)
      /\ BulksSoFar(longer, most) = BulksSoFar(list, most) \union {first .. Total(list) + 1}
      /\ Total(longer) = Total(list) + 1
  BY <1>3, <1>4, GroupedFull
<1>6. PICK last \in Nat : last = Total(list) + 1 /\ first <= last /\ last + 1 = Total(list) + 2
  BY <1>2
<1>7. PICK block : block = Append(held, e) /\ Run(block, first, last)
  BY <1>2, <1>3, <1>6, RunExtended
<1>8. PICK g : g = FilesWith(f, block)
  OBVIOUS
<1>9. /\ PrintedOK(Append(s, block), g, last + 1)
      /\ Shown(Append(s, block)) = Shown(s) \union {first .. last}
  BY <1>2, <1>3, <1>6, <1>7, <1>8, Printed
<1>10. Run(<< >>, last + 1, last)
  BY <1>6, NothingHeld
<1>11. OpenedAt(longer, last + 1) /\ AllFilled(longer)
  <2>1. Depth(longer, Len(longer)) = 0
    <3>1. Len(longer) = Len(list) + 1
      BY <1>2, AppendProperties
    <3> QED
      BY <1>2, <3>1, LineCounts
  <2> HIDE DEF longer
  <2>2. OpenedAt(longer, last + 1)
    BY <2>1 DEF OpenedAt
  <2>3. AllFilled(longer)
    BY <1>0, <1>2, <1>3, FilledKept DEF longer
  <2> QED
    BY <2>2, <2>3
<1> HIDE DEF longer
<1>12. ReadFrom(longer, most, << >>, Append(s, block), g, last + 1)
  BY <1>3, <1>5, <1>6, <1>9, <1>10, <1>11 DEF ReadFrom
<1>13. ReadSoFar(longer, most, << >>, Append(s, block), g)
  BY <1>12 DEF ReadSoFar
<1> QED
  BY <1>7, <1>8, <1>13 DEF longer

\* A brace inside braces that leaves some open changes nothing.
LEMMA BraceInside ==
    ASSUME NEW list, NEW most \in Nat, NEW held, NEW s, NEW f, ReadSoFar(list, most, held, s, f),
           NEW line \in {"open", "close"}, Depth(list, Len(list)) > 0,
           Depth(Append(list, line), Len(list) + 1) > 0
    PROVE  ReadSoFar(Append(list, line), most, held, s, f)
<1> DEFINE longer == Append(list, line)
<1>0. line \in LineKinds
  BY DEF LineKinds
<1>1. PICK first : ReadFrom(list, most, held, s, f, first)
  BY DEF ReadSoFar
<1>2. list \in Seq(LineKinds) /\ Depth(list, Len(list)) \in Nat
  BY <1>1, ReadType
<1>3. /\ Grouped(list, most, first) /\ Run(held, first, Total(list)) /\ PrintedOK(s, f, first)
      /\ Shown(s) = BulksSoFar(list, most) /\ OpenedAt(list, first) /\ AllFilled(list)
  BY <1>1 DEF ReadFrom
<1>4. /\ Grouped(longer, most, first) /\ BulksSoFar(longer, most) = BulksSoFar(list, most)
      /\ Total(longer) = Total(list)
  BY <1>3, GroupedNested
<1>5. Depth(longer, Len(list) + 1) \in Int /\ (line = "close" => Depth(list, Len(list)) # 1)
  <2>1. CASE line = "open"
    <3>1. Depth(longer, Len(list) + 1) = Depth(list, Len(list)) + 1
      BY <1>2, <2>1, LineCounts
    <3> QED
      BY <1>2, <2>1, <3>1
  <2>2. CASE line = "close"
    <3>1. Depth(longer, Len(list) + 1) = Depth(list, Len(list)) - 1
      BY <1>2, <2>2, LineCounts
    <3> QED
      BY <1>2, <2>2, <3>1
  <2> QED
    BY <2>1, <2>2
<1>6. OpenedAt(longer, first) /\ AllFilled(longer)
  BY <1>0, <1>2, <1>3, <1>5, OpenedKept, FilledKept
<1> HIDE DEF longer
<1>7. ReadFrom(longer, most, held, s, f, first)
  BY <1>3, <1>4, <1>6 DEF ReadFrom
<1> QED
  BY <1>7 DEF ReadSoFar, longer

\* The outermost brace prints what is collected.
LEMMA BracePrints ==
    ASSUME NEW list, NEW most \in Nat, NEW held, NEW s, NEW f, ReadSoFar(list, most, held, s, f),
           NEW line \in {"open", "close"},
           line = "open" => Depth(list, Len(list)) = 0,
           line = "close" => Depth(list, Len(list)) = 1,
           held # << >>
    PROVE  ReadSoFar(Append(list, line), most, << >>, Append(s, held), FilesWith(f, held))
<1> DEFINE longer == Append(list, line)
<1>0. line \in LineKinds
  BY DEF LineKinds
<1>1. PICK first : ReadFrom(list, most, held, s, f, first)
  BY DEF ReadSoFar
<1>2. /\ list \in Seq(LineKinds) /\ Len(list) \in Nat /\ Total(list) \in Nat
      /\ first \in Nat \ {0} /\ first <= Total(list)
  BY <1>1, ReadType
<1>3. /\ Grouped(list, most, first) /\ Run(held, first, Total(list)) /\ PrintedOK(s, f, first)
      /\ Shown(s) = BulksSoFar(list, most) /\ OpenedAt(list, first) /\ AllFilled(list)
  BY <1>1 DEF ReadFrom
<1>4. /\ Grouped(longer, most, Total(list) + 1)
      /\ BulksSoFar(longer, most) = BulksSoFar(list, most) \union {first .. Total(list)}
      /\ Total(longer) = Total(list)
  BY <1>2, <1>3, GroupedBrace
<1>5. PICK last \in Nat : last = Total(list) /\ first <= last
  BY <1>2
<1>6. PICK g : g = FilesWith(f, held)
  OBVIOUS
<1>7. /\ PrintedOK(Append(s, held), g, last + 1)
      /\ Shown(Append(s, held)) = Shown(s) \union {first .. last}
  BY <1>2, <1>3, <1>5, <1>6, Printed
<1>8. Run(<< >>, last + 1, last)
  BY <1>5, NothingHeld
<1>9. OpenedAt(longer, last + 1) /\ AllFilled(longer)
  <2>1. CASE line = "open"
    <3>1. OpenedAt(longer, Total(list) + 1)
      BY <1>2, <2>1, OpenedNow
    <3> QED
      BY <1>0, <1>2, <1>3, <1>5, <2>1, <3>1, FilledKept
  <2>2. CASE line = "close"
    <3>1. Depth(list, Len(list)) = 1 /\ 1 > 0
      BY <2>2
    <3>2. PICK o : IsOpen(list, o) /\ Count(list, o, "command") + 1 = first
      BY <1>3, <3>1 DEF OpenedAt
    <3>3. Count(list, o, "command") < Total(list)
      <4>1. o \in Nat
        BY <1>2, <3>2, OneOpen, LenProperties
      <4>2. Count(list, o, "command") \in Nat
        BY <4>1, CountType
      <4> QED
        BY <1>2, <3>2, <4>2
    <3>4. AllFilled(longer)
      BY <1>2, <1>3, <2>2, <3>1, <3>2, <3>3, FilledClosed
    <3>5. Depth(longer, Len(longer)) = 0
      <4>1. Len(longer) = Len(list) + 1
        BY <1>2, AppendProperties
      <4>2. Depth(longer, Len(list) + 1) = Depth(list, Len(list)) - 1
        BY <1>2, <2>2, LineCounts
      <4> QED
        BY <3>1, <4>1, <4>2
    <3> HIDE DEF longer
    <3>6. OpenedAt(longer, last + 1)
      BY <3>5 DEF OpenedAt
    <3> QED
      BY <3>4, <3>6
  <2> QED
    BY <2>1, <2>2
<1> HIDE DEF longer
<1>10. ReadFrom(longer, most, << >>, Append(s, held), g, last + 1)
  BY <1>3, <1>4, <1>5, <1>7, <1>8, <1>9 DEF ReadFrom
<1>11. ReadSoFar(longer, most, << >>, Append(s, held), g)
  BY <1>10 DEF ReadSoFar
<1> QED
  BY <1>6, <1>11 DEF longer

\* If nothing is, an opening brace prints nothing, ...
LEMMA OpenWithNothing ==
    ASSUME NEW list, NEW most \in Nat, NEW held, NEW s, NEW f, ReadSoFar(list, most, held, s, f),
           Depth(list, Len(list)) = 0, held = << >>
    PROVE  ReadSoFar(Append(list, "open"), most, held, s, f)
<1> DEFINE longer == Append(list, "open")
<1>0. "open" \in LineKinds /\ "open" \in {"open", "close"}
  BY DEF LineKinds
<1>1. PICK first : ReadFrom(list, most, held, s, f, first)
  BY DEF ReadSoFar
<1>2. /\ list \in Seq(LineKinds) /\ Total(list) \in Nat /\ first \in Nat \ {0}
      /\ first = Total(list) + 1
  BY <1>1, ReadType
<1>3. /\ Grouped(list, most, first) /\ Run(held, first, Total(list)) /\ PrintedOK(s, f, first)
      /\ Shown(s) = BulksSoFar(list, most) /\ AllFilled(list)
  BY <1>1 DEF ReadFrom
<1>4. /\ Grouped(longer, most, Total(list) + 1)
      /\ BulksSoFar(longer, most) = BulksSoFar(list, most)
      /\ Total(longer) = Total(list)
  BY <1>0, <1>2, <1>3, GroupedBrace
<1>5. OpenedAt(longer, Total(list) + 1) /\ AllFilled(longer)
  BY <1>0, <1>2, <1>3, OpenedNow, FilledKept
<1> HIDE DEF longer
<1>6. ReadFrom(longer, most, held, s, f, first)
  BY <1>2, <1>3, <1>4, <1>5 DEF ReadFrom
<1> QED
  BY <1>6 DEF ReadSoFar, longer

\* ... and the closing one ends the program.
LEMMA CloseWithNothing ==
    ASSUME NEW list, NEW most \in Nat, NEW held, NEW s, NEW f, ReadSoFar(list, most, held, s, f),
           Depth(list, Len(list)) = 1, held = << >>
    PROVE  Left("crashed", Append(list, "close"), most, Append(s, held), f)
<1> DEFINE longer == Append(list, "close")
<1>0. "close" \in LineKinds /\ "close" \in {"open", "close"}
  BY DEF LineKinds
<1>1. PICK first : ReadFrom(list, most, held, s, f, first)
  BY DEF ReadSoFar
<1>2. /\ list \in Seq(LineKinds) /\ Total(list) \in Nat /\ first \in Nat \ {0}
      /\ first = Total(list) + 1 /\ held \in Seq(Entry) /\ Len(held) = 0
  BY <1>1, ReadType
<1>3. /\ Grouped(list, most, first) /\ PrintedOK(s, f, first)
      /\ Shown(s) = BulksSoFar(list, most) /\ OpenedAt(list, first)
  BY <1>1 DEF ReadFrom
<1>4. BulksSoFar(longer, most) = BulksSoFar(list, most)
  BY <1>0, <1>2, <1>3, GroupedBrace
<1>5. PrintedOK(Append(s, held), f, first) /\ Shown(Append(s, held)) = Shown(s)
  <2>1. PrintedOK(s, f, first) /\ held \in Seq(Entry) /\ Len(held) = 0 /\ first \in Nat \ {0}
    BY <1>2, <1>3
  <2> QED
    BY <2>1, NothingPrinted
<1>6. ~ AllFilled(longer)
  <2>1. PICK o : IsOpen(list, o) /\ Count(list, o, "command") + 1 = first
    BY <1>3 DEF OpenedAt
  <2>2. ~ (Count(list, o, "command") < Total(list))
    <3>1. o \in Nat
      BY <1>2, <2>1, OneOpen, LenProperties
    <3>2. Count(list, o, "command") \in Nat
      BY <3>1, CountType
    <3> QED
      BY <1>2, <2>1, <3>2
  <2> QED
    BY <1>2, <2>1, <2>2, FilledClosed
<1> HIDE DEF longer
<1>7. Bulks(longer, most, "crashed" = "eof") = BulksSoFar(longer, most)
  BY DEF BulksSoFar
<1> QED
  BY <1>3, <1>4, <1>5, <1>6, <1>7 DEF Left, PrintedOK, longer

\* A line that is refused changes nothing.
LEMMA BadLine ==
    ASSUME NEW list, NEW most \in Nat, NEW held, NEW s, NEW f, ReadSoFar(list, most, held, s, f),
           NEW line \in LineKinds, line # "command", line # "open",
           line = "close" => Depth(list, Len(list)) = 0
    PROVE  Left("thrown", Append(list, line), most, s, f)
<1> DEFINE longer == Append(list, line)
           end == Len(list)
<1>1. PICK first : ReadFrom(list, most, held, s, f, first)
  BY DEF ReadSoFar
<1>2. /\ list \in Seq(LineKinds) /\ end \in Nat /\ Total(list) \in Nat /\ LinesFound(list)
      /\ Depth(list, end) \in Nat /\ Commands(list) = 1 .. Total(list)
  BY <1>1, ReadType, TotalType
<1>3. /\ PrintedOK(s, f, first) /\ Shown(s) = BulksSoFar(list, most) /\ AllFilled(list)
  BY <1>1 DEF ReadFrom
<1>4. AllFilled(longer)
  <2>1. line # "close" \/ Depth(list, Len(list)) # 1
    <3>1. Depth(list, Len(list)) = 0 => Depth(list, Len(list)) # 1
      BY <1>2
    <3> QED
      BY <3>1
  <2> QED
    BY <1>2, <1>3, <2>1, FilledKept
<1>5. /\ Depth(longer, end + 1) = Depth(list, end) + IF line = "close" THEN -1 ELSE 0
      /\ Len(longer) = end + 1
      /\ Count(longer, end + 1, "command") = Count(list, end, "command") + 0
  BY <1>2, LineAdded
<1>50. PICK d \in Nat : d = Depth(list, end)
  BY <1>2
<1>51. Depth(longer, end + 1) = 0 => d = 0
  <2>1. CASE line # "close"
    <3>1. Depth(longer, end + 1) = d + 0
      BY <1>5, <1>50, <2>1
    <3> QED
      BY <3>1
  <2>2. CASE line = "close"
    <3>1. d = 0
      BY <1>50, <2>2
    <3> QED
      BY <3>1
  <2> QED
    BY <2>1, <2>2
<1>6. Commands(longer) = Commands(list)
  <2>1. Count(longer, end + 1, "command") = Total(list)
    <3>1. PICK k \in Nat : k = Total(list)
      BY <1>2
    <3>2. k = Count(list, end, "command")
      BY <3>1 DEF Total
    <3>3. Count(longer, end + 1, "command") = Count(list, end, "command") + 0
      BY <1>5
    <3> QED
      BY <3>1, <3>2, <3>3
  <2> HIDE DEF longer
  <2> QED
    BY <1>2, <1>5, <2>1 DEF Commands
<1>7. \A m \in Commands(list) : IsDue(longer, most, m) <=> IsDue(list, most, m)
  <2> TAKE m \in Commands(list)
  <2>1. Bulk(longer, most, m) = Bulk(list, most, m)
    BY <1>2, BulkKept
  <2>2. InBraces(longer, m) <=> InBraces(list, m)
    BY <1>2, CommandsKept
  <2>3. /\ ClosedLater(longer, m) <=> ClosedLater(list, m) \/ Depth(longer, end + 1) = 0
        /\ OpenedLater(longer, m) <=> OpenedLater(list, m)
    BY <1>2, LaterAdded
  <2>4. InBraces(list, m) /\ Depth(longer, end + 1) = 0 => ClosedLater(list, m)
    <3> SUFFICES ASSUME InBraces(list, m), Depth(longer, end + 1) = 0 PROVE ClosedLater(list, m)
      OBVIOUS
    <3>1. Depth(list, end) = 0
      BY <1>50, <1>51
    <3>2. LineOf(list, m) \in 1 .. end
      BY <1>2, LineOfCommand
    <3>3. LineOf(list, m) # end
      <4> SUFFICES ASSUME LineOf(list, m) = end PROVE FALSE
        OBVIOUS
      <4>1. Depth(list, end) > 0
        BY DEF InBraces
      <4>2. ~ (0 > 0)
        OBVIOUS
      <4> QED
        BY <3>1, <4>1, <4>2
    <3>4. end \in DOMAIN list /\ end > LineOf(list, m)
      <4>1. DOMAIN list = 1 .. end
        BY <1>2, LenProperties
      <4>2. PICK i \in 1 .. end : i = LineOf(list, m)
        BY <3>2
      <4>3. i # end
        BY <3>3, <4>2
      <4>4. end \in 1 .. end /\ end > i
        BY <1>2, <4>3
      <4> QED
        BY <4>1, <4>2, <4>4
    <3> QED
      BY <3>1, <3>4 DEF ClosedLater
  <2> HIDE DEF longer, end
  <2>5. CASE InBraces(list, m)
    BY <2>2, <2>3, <2>4, <2>5, DueIs
  <2>6. CASE ~ InBraces(list, m)
    BY <2>1, <2>2, <2>3, <2>6, DueIs
  <2> QED
    BY <2>5, <2>6
<1>8. DueNow(longer, most) = DueNow(list, most)
  <2> HIDE DEF longer
  <2> QED
    BY <1>6, <1>7 DEF DueNow
<1>9. \A m \in DueNow(list, most) : Bulk(longer, most, m) = Bulk(list, most, m)
  <2>1. \A m \in Commands(list) : Bulk(longer, most, m) = Bulk(list, most, m)
    BY <1>2, BulkKept
  <2> QED
    BY <2>1 DEF DueNow
<1> HIDE DEF longer
<1>10. BulksSoFar(longer, most) = BulksSoFar(list, most)
  BY <1>8, <1>9, BulksSame
<1>11. Bulks(longer, most, "thrown" = "eof") = BulksSoFar(longer, most)
  BY DEF BulksSoFar
<1> QED
  BY <1>3, <1>4, <1>10, <1>11 DEF Left, PrintedOK, longer

\* The end of the input prints what is collected outside braces.
LEMMA EndPrints ==
    ASSUME NEW list, NEW most \in Nat, NEW held, NEW s, NEW f, ReadSoFar(list, most, held, s, f),
           Depth(list, Len(list)) = 0, held # << >>
    PROVE  Left("eof", list, most, Append(s, held), FilesWith(f, held))
<1>1. PICK first : ReadFrom(list, most, held, s, f, first)
  BY DEF ReadSoFar
<1>2. /\ Total(list) \in Nat /\ first \in Nat \ {0} /\ first <= Total(list)
  BY <1>1, ReadType
<1>3. /\ Grouped(list, most, first) /\ Run(held, first, Total(list)) /\ PrintedOK(s, f, first)
      /\ Shown(s) = BulksSoFar(list, most) /\ AllFilled(list)
  BY <1>1 DEF ReadFrom
<1>4. Bulks(list, most, TRUE) = BulksSoFar(list, most) \union {first .. Total(list)}
  BY <1>2, <1>3, GroupedEnd
<1>5. PICK g : g = FilesWith(f, held)
  OBVIOUS
<1>6. /\ PrintedOK(Append(s, held), g, Total(list) + 1)
      /\ Shown(Append(s, held)) = Shown(s) \union {first .. Total(list)}
  BY <1>2, <1>3, <1>5, Printed
<1>7. Bulks(list, most, "eof" = "eof") = Bulks(list, most, TRUE)
  OBVIOUS
<1> QED
  BY <1>3, <1>4, <1>5, <1>6, <1>7 DEF Left, PrintedOK

LEMMA EndWithNothing ==
    ASSUME NEW list, NEW most \in Nat, NEW held, NEW s, NEW f, ReadSoFar(list, most, held, s, f),
           Depth(list, Len(list)) # 0 \/ held = << >>
    PROVE  Left("eof", list, most, s, f)
<1>1. PICK first : ReadFrom(list, most, held, s, f, first)
  BY DEF ReadSoFar
<1>2. ~ (Depth(list, Len(list)) = 0 /\ first <= Total(list))
  BY <1>1, ReadType
<1>3. /\ Grouped(list, most, first) /\ PrintedOK(s, f, first)
      /\ Shown(s) = BulksSoFar(list, most) /\ AllFilled(list)
  BY <1>1 DEF ReadFrom
<1>4. Bulks(list, most, TRUE) = BulksSoFar(list, most)
  BY <1>2, <1>3, GroupedEnd
<1>5. Bulks(list, most, "eof" = "eof") = Bulks(list, most, TRUE)
  OBVIOUS
<1> QED
  BY <1>3, <1>4, <1>5 DEF Left, PrintedOK

\* At first nothing is read.
LEMMA NothingRead ==
    ASSUME NEW most \in Nat, NEW f
    PROVE  ReadSoFar(<< >>, most, << >>, << >>, f) /\ Depth(<< >>, Len(<< >>)) = 0
<1>1. Grouped(<< >>, most, 1) /\ BulksSoFar(<< >>, most) = {} /\ Total(<< >>) = 0
  BY GroupedNothing
<1>2. PICK list : list = << >>
  OBVIOUS
<1>3. list \in Seq(LineKinds) /\ Len(list) = 0 /\ DOMAIN list = {}
  BY <1>2
<1>4. list \in Seq(Entry) /\ list \in Seq(Seq(Entry))
  BY <1>2
<1>5. Count(list, 0, "open") = 0 /\ Count(list, 0, "close") = 0
  BY CountStep
<1>6. Depth(list, 0) = 0
  BY <1>5 DEF Depth
<1>7. Grouped(list, most, 1) /\ BulksSoFar(list, most) = {} /\ Total(list) = 0
  BY <1>1, <1>2
<1> HIDE <1>2
<1>8. Run(list, 1, 0)
  BY <1>3, <1>4 DEF Run
<1>9. Blocks(list) = {}
  BY <1>3 DEF Blocks
<1>10. Shown(list) = {} /\ PrintedOK(list, f, 1)
  BY <1>3, <1>4, <1>9 DEF Shown, PrintedOK, InOrder, InFiles
<1>11. OpenedAt(list, 1)
  BY <1>3, <1>6 DEF OpenedAt
<1>12. AllFilled(list)
  BY <1>3 DEF AllFilled, OuterPairs
<1>13. ReadFrom(list, most, list, list, f, 1)
  BY <1>7, <1>8, <1>10, <1>11, <1>12 DEF ReadFrom
<1> QED
  BY <1>2, <1>3, <1>6, <1>13 DEF ReadSoFar

-------------------------------------------------------------------------------
(* The steps of the program *)

BulkInv ==
    /\ blockSize \in Nat
    /\ seconds \in Nat
    /\ ended = "no" => /\ level = Depth(input, Len(input))
                       /\ ReadSoFar(input, blockSize, commands, screen, files)
    /\ ended # "no" => Left(ended, input, blockSize, screen, files)

LEMMA Emitted ==
    ASSUME NEW block, Emit(block)
    PROVE  screen' = Append(screen, block) /\ commands' = << >> /\ files' = FilesWith(files, block)
BY DEF Emit, FilesWith

LEMMA Handled ==
    ASSUME NEW block, HandleBlock(block), block # << >>
    PROVE  /\ screen' = Append(screen, block) /\ commands' = << >>
           /\ files' = FilesWith(files, block) /\ ended' = ended
<1>1. Emit(block) /\ UNCHANGED ended
  BY DEF HandleBlock
<1> QED
  BY <1>1, Emitted

\* What a line finds.
LEMMA Finds ==
    ASSUME BulkInv, ended = "no"
    PROVE  /\ blockSize \in Nat /\ seconds \in Nat
           /\ level = Depth(input, Len(input)) /\ level \in Nat
           /\ ReadSoFar(input, blockSize, commands, screen, files)
           /\ input \in Seq(LineKinds) /\ commands \in Seq(Entry)
<1>1. /\ blockSize \in Nat /\ seconds \in Nat /\ level = Depth(input, Len(input))
      /\ ReadSoFar(input, blockSize, commands, screen, files)
  BY DEF BulkInv
<1>2. PICK first : ReadFrom(input, blockSize, commands, screen, files, first)
  BY <1>1 DEF ReadSoFar
<1>3. input \in Seq(LineKinds) /\ commands \in Seq(Entry) /\ Depth(input, Len(input)) \in Nat
  BY <1>1, <1>2, ReadType
<1> QED
  BY <1>1, <1>3

\* What it leaves.
LEMMA Leaves ==
    ASSUME blockSize' \in Nat, seconds' \in Nat,
           ended' = "no" => /\ level' = Depth(input', Len(input'))
                            /\ ReadSoFar(input', blockSize', commands', screen', files'),
           ended' # "no" => Left(ended', input', blockSize', screen', files')
    PROVE  BulkInv'
BY DEF BulkInv

Got(line) == input' = Append(input, line) /\ UNCHANGED <<blockSize, seconds>>

LEMMA CommandStep ==
    ASSUME BulkInv, ended = "no", Got("command"), Command
    PROVE  BulkInv'
<1>0. "command" \in LineKinds
  BY DEF LineKinds
<1>1. /\ blockSize \in Nat /\ seconds \in Nat /\ level = Depth(input, Len(input)) /\ level \in Nat
      /\ ReadSoFar(input, blockSize, commands, screen, files)
      /\ input \in Seq(LineKinds) /\ commands \in Seq(Entry)
  BY Finds
<1>2. input' = Append(input, "command") /\ blockSize' = blockSize /\ seconds' = seconds
      /\ level' = level
  BY DEF Got, Command
<1>3. PICK longer : longer = Append(input, "command")
  OBVIOUS
<1>4. Depth(longer, Len(longer)) = level /\ Count(longer, Len(longer), "command") = Total(input) + 1
      /\ Total(input) \in Nat
  <2>1. Len(longer) = Len(input) + 1
    BY <1>0, <1>1, <1>3, LineAdded
  <2> QED
    BY <1>1, <1>3, <2>1, LineCounts, TotalType DEF Total
<1>5. PICK e : e = [n |-> Total(input) + 1, second |-> seconds]
  OBVIOUS
<1>6. e \in Entry /\ e.n = Total(input) + 1
  BY <1>1, <1>4, <1>5 DEF Entry
<1>7. Collected = Append(commands, e)
  BY <1>2, <1>3, <1>4, <1>5 DEF Collected
<1>8. CASE level = 0 /\ Len(Append(commands, e)) = blockSize
  <2>1. HandleBlock(Append(commands, e))
    BY <1>7, <1>8 DEF Command
  <2>2. Append(commands, e) # << >>
    BY <1>1, <1>6, AppendProperties, EmptySeq
  <2>3. /\ screen' = Append(screen, Append(commands, e)) /\ commands' = << >>
        /\ files' = FilesWith(files, Append(commands, e)) /\ ended' = "no"
    BY <2>1, <2>2, Handled
  <2>4. ReadSoFar(longer, blockSize, << >>, Append(screen, Append(commands, e)),
                  FilesWith(files, Append(commands, e)))
    BY <1>1, <1>3, <1>6, <1>8, CommandPrints
  <2> QED
    BY <1>1, <1>2, <1>3, <1>4, <2>3, <2>4, Leaves
<1>9. CASE ~ (level = 0 /\ Len(Append(commands, e)) = blockSize)
  <2>1. commands' = Append(commands, e) /\ screen' = screen /\ files' = files /\ ended' = "no"
    BY <1>7, <1>9 DEF Command
  <2>2. ReadSoFar(longer, blockSize, Append(commands, e), screen, files)
    BY <1>1, <1>3, <1>6, <1>9, CommandCollected
  <2> QED
    BY <1>1, <1>2, <1>3, <1>4, <2>1, <2>2, Leaves
<1> QED
  BY <1>8, <1>9

LEMMA BlockStartStep ==
    ASSUME BulkInv, ended = "no", Got("open"), BlockStart
    PROVE  BulkInv'
<1>0. "open" \in LineKinds /\ "open" \in {"open", "close"}
  BY DEF LineKinds
<1>1. /\ blockSize \in Nat /\ seconds \in Nat /\ level = Depth(input, Len(input)) /\ level \in Nat
      /\ ReadSoFar(input, blockSize, commands, screen, files)
      /\ input \in Seq(LineKinds)
  BY Finds
<1>2. input' = Append(input, "open") /\ blockSize' = blockSize /\ seconds' = seconds
      /\ level' = level + 1
  BY DEF Got, BlockStart
<1>3. PICK longer : longer = Append(input, "open")
  OBVIOUS
<1>4. Depth(longer, Len(longer)) = level + 1 /\ Depth(longer, Len(input) + 1) = level + 1
  BY <1>0, <1>1, <1>3, LineAdded, LineCounts
<1>5. CASE level # 0
  <2>1. screen' = screen /\ commands' = commands /\ files' = files /\ ended' = "no"
    BY <1>5 DEF BlockStart
  <2>2. level > 0 /\ level + 1 > 0
    BY <1>1, <1>5
  <2>3. ReadSoFar(longer, blockSize, commands, screen, files)
    BY <1>0, <1>1, <1>3, <1>4, <2>2, BraceInside
  <2> QED
    BY <1>1, <1>2, <1>3, <1>4, <2>1, <2>3, Leaves
<1>6. CASE level = 0 /\ commands = << >>
  <2>1. screen' = screen /\ commands' = commands /\ files' = files /\ ended' = "no"
    BY <1>6 DEF BlockStart, HandleIfAny
  <2>2. ReadSoFar(longer, blockSize, commands, screen, files)
    BY <1>1, <1>3, <1>6, OpenWithNothing
  <2> QED
    BY <1>1, <1>2, <1>3, <1>4, <2>1, <2>2, Leaves
<1>7. CASE level = 0 /\ commands # << >>
  <2>1. HandleBlock(commands)
    BY <1>7 DEF BlockStart, HandleIfAny
  <2>2. /\ screen' = Append(screen, commands) /\ commands' = << >>
        /\ files' = FilesWith(files, commands) /\ ended' = "no"
    BY <1>7, <2>1, Handled
  <2>3. ReadSoFar(longer, blockSize, << >>, Append(screen, commands), FilesWith(files, commands))
    BY <1>0, <1>1, <1>3, <1>7, BracePrints
  <2> QED
    BY <1>1, <1>2, <1>3, <1>4, <2>2, <2>3, Leaves
<1> QED
  BY <1>5, <1>6, <1>7

LEMMA BlockEndStep ==
    ASSUME BulkInv, ended = "no", Got("close"), BlockEnd
    PROVE  BulkInv'
<1>0. "close" \in LineKinds /\ "close" \in {"open", "close"}
  BY DEF LineKinds
<1>1. /\ blockSize \in Nat /\ seconds \in Nat /\ level = Depth(input, Len(input)) /\ level \in Nat
      /\ ReadSoFar(input, blockSize, commands, screen, files)
      /\ input \in Seq(LineKinds)
  BY Finds
<1>2. input' = Append(input, "close") /\ blockSize' = blockSize /\ seconds' = seconds
      /\ level > 0 /\ level' = level - 1
  BY DEF Got, BlockEnd
<1>3. PICK longer : longer = Append(input, "close")
  OBVIOUS
<1>4. Depth(longer, Len(longer)) = level - 1 /\ Depth(longer, Len(input) + 1) = level - 1
  BY <1>0, <1>1, <1>3, LineAdded, LineCounts
<1>5. CASE level # 1
  <2>1. screen' = screen /\ commands' = commands /\ files' = files /\ ended' = "no"
    BY <1>5 DEF BlockEnd
  <2>2. level > 0 /\ level - 1 > 0
    BY <1>1, <1>2, <1>5
  <2>3. ReadSoFar(longer, blockSize, commands, screen, files)
    BY <1>0, <1>1, <1>3, <1>4, <2>2, BraceInside
  <2> QED
    BY <1>1, <1>2, <1>3, <1>4, <2>1, <2>3, Leaves
<1>6. CASE level = 1 /\ commands = << >>
  <2>1. screen' = Append(screen, commands) /\ ended' = "crashed" /\ files' = files
    BY <1>6 DEF BlockEnd, HandleBlock
  <2>2. Left("crashed", longer, blockSize, Append(screen, commands), files)
    BY <1>1, <1>3, <1>6, CloseWithNothing
  <2> QED
    BY <1>1, <1>2, <1>3, <2>1, <2>2, Leaves
<1>7. CASE level = 1 /\ commands # << >>
  <2>1. HandleBlock(commands)
    BY <1>7 DEF BlockEnd
  <2>2. /\ screen' = Append(screen, commands) /\ commands' = << >>
        /\ files' = FilesWith(files, commands) /\ ended' = "no"
    BY <1>7, <2>1, Handled
  <2>3. ReadSoFar(longer, blockSize, << >>, Append(screen, commands), FilesWith(files, commands))
    BY <1>0, <1>1, <1>3, <1>7, BracePrints
  <2> QED
    BY <1>1, <1>2, <1>3, <1>4, <2>2, <2>3, Leaves
<1> QED
  BY <1>5, <1>6, <1>7

LEMMA ThrowStep ==
    ASSUME BulkInv, ended = "no", NEW line \in LineKinds, Got(line), Throw,
           line # "command", line # "open", line = "close" => level = 0
    PROVE  BulkInv'
<1>1. /\ blockSize \in Nat /\ seconds \in Nat /\ level = Depth(input, Len(input))
      /\ ReadSoFar(input, blockSize, commands, screen, files)
  BY Finds
<1>2. /\ input' = Append(input, line) /\ blockSize' = blockSize /\ seconds' = seconds
      /\ ended' = "thrown" /\ screen' = screen /\ files' = files
  BY DEF Got, Throw
<1>3. Left("thrown", Append(input, line), blockSize, screen, files)
  BY <1>1, BadLine
<1> QED
  BY <1>1, <1>2, <1>3, Leaves

LEMMA EndStep ==
    ASSUME BulkInv, EndOfFile
    PROVE  BulkInv'
<1>1. /\ blockSize \in Nat /\ seconds \in Nat /\ level = Depth(input, Len(input))
      /\ ReadSoFar(input, blockSize, commands, screen, files)
  BY Finds DEF EndOfFile
<1>2. input' = input /\ blockSize' = blockSize /\ seconds' = seconds /\ ended' = "eof"
  BY DEF EndOfFile
<1>3. CASE level = 0 /\ commands # << >>
  <2>1. Emit(commands)
    BY <1>3 DEF EndOfFile
  <2>2. screen' = Append(screen, commands) /\ files' = FilesWith(files, commands)
    BY <2>1, Emitted
  <2>3. Left("eof", input, blockSize, Append(screen, commands), FilesWith(files, commands))
    BY <1>1, <1>3, EndPrints
  <2> QED
    BY <1>1, <1>2, <2>2, <2>3, Leaves
<1>4. CASE ~ (level = 0 /\ commands # << >>)
  <2>1. screen' = screen /\ files' = files
    BY <1>4 DEF EndOfFile
  <2>2. Left("eof", input, blockSize, screen, files)
    BY <1>1, <1>4, EndWithNothing
  <2> QED
    BY <1>1, <1>2, <2>1, <2>2, Leaves
<1> QED
  BY <1>3, <1>4

LEMMA BulkStep ==
    ASSUME BulkInv, [BulkNext]_bulkVars
    PROVE  BulkInv'
<1>1. CASE UNCHANGED bulkVars
  BY <1>1 DEF BulkInv, bulkVars
<1>2. ASSUME NEW line \in LineKinds, HandleLine(line) PROVE BulkInv'
  <2>1. /\ ended = "no" /\ Got(line)
        /\ \/ line = "command" /\ Command
           \/ line = "open" /\ BlockStart
           \/ line = "close" /\ BlockEnd
           \/ line = "" /\ Throw
           \/ line = "close" /\ level = 0 /\ Throw
    BY <1>2 DEF HandleLine, Got
  <2>2. CASE line = "command" /\ Command
    BY <2>1, <2>2, CommandStep
  <2>3. CASE line = "open" /\ BlockStart
    BY <2>1, <2>3, BlockStartStep
  <2>4. CASE line = "close" /\ BlockEnd
    BY <2>1, <2>4, BlockEndStep
  <2>5. CASE line = "" /\ Throw
    <3>1. line # "command" /\ line # "open" /\ line # "close"
      BY <2>5
    <3> QED
      BY <2>1, <2>5, <3>1, ThrowStep
  <2>6. CASE line = "close" /\ level = 0 /\ Throw
    <3>1. line # "command" /\ line # "open"
      BY <2>6
    <3> QED
      BY <2>1, <2>6, <3>1, ThrowStep
  <2> QED
    BY <2>1, <2>2, <2>3, <2>4, <2>5, <2>6
<1>3. CASE Tick
  <2>1. seconds' \in Nat
    BY <1>3 DEF Tick, BulkInv
  <2>2. UNCHANGED <<blockSize, input, level, commands, screen, files, ended>>
    BY <1>3 DEF Tick
  <2> QED
    BY <2>1, <2>2 DEF BulkInv
<1>4. CASE BulkStopped
  BY <1>1, <1>4 DEF BulkStopped
<1> QED
  BY <1>1, <1>2, <1>3, <1>4, EndStep DEF BulkNext

LEMMA BulkInvImpliesBlocksPrinted == BulkInv => BlocksPrinted
<1> SUFFICES ASSUME BulkInv PROVE BlocksPrinted
  OBVIOUS
<1>1. /\ InOrder(screen) /\ InFiles(screen, files)
      /\ Shown(screen) = Bulks(input, blockSize, ended = "eof")
      /\ ended = "crashed" <=> ~ AllFilled(input)
  <2>1. CASE ended # "no"
    BY <2>1 DEF BulkInv, Left
  <2>2. CASE ended = "no"
    <3>1. PICK first : ReadFrom(input, blockSize, commands, screen, files, first)
      BY <2>2 DEF BulkInv, ReadSoFar
    <3>2. Bulks(input, blockSize, ended = "eof") = BulksSoFar(input, blockSize)
      BY <2>2 DEF BulksSoFar
    <3> QED
      BY <2>2, <3>1, <3>2 DEF ReadFrom, PrintedOK
  <2> QED
    BY <2>1, <2>2
<1>2. Shown(screen) = {Numbers(b) : b \in {screen[i] : i \in DOMAIN screen} \ {<< >>}}
  BY DEF Shown, Blocks
<1>3. ended = "crashed" <=> \E p \in OuterPairs(input) : Between(input, p) = {}
  BY <1>1 DEF AllFilled
<1> QED
  BY <1>1, <1>2, <1>3 DEF BlocksPrinted, InOrder, InFiles, Blocks

\* The screen and the files of 07 bulk hold the blocks of the input, whatever
\* that is (parser.cpp, state.cpp, printer.cpp).
THEOREM BlocksPrintedCorrect == BulkSpec => []BlocksPrinted
<1>1. BulkInit => BulkInv
  <2> SUFFICES ASSUME BulkInit PROVE BulkInv
    OBVIOUS
  <2>1. /\ blockSize \in Nat /\ seconds = 0 /\ input = << >> /\ level = 0 /\ commands = << >>
        /\ screen = << >> /\ ended = "no"
    BY BulkSizesAssumption DEF BulkInit
  <2>2. ReadSoFar(<< >>, blockSize, << >>, << >>, files) /\ Depth(<< >>, Len(<< >>)) = 0
    BY <2>1, NothingRead
  <2> QED
    BY <2>1, <2>2 DEF BulkInv
<1>2. BulkInv /\ [BulkNext]_bulkVars => BulkInv'
  BY BulkStep
<1> QED
  BY <1>1, <1>2, BulkInvImpliesBlocksPrinted, PTL DEF BulkSpec

-------------------------------------------------------------------------------
(* timus 1022 *)

Ids == 1 .. NodeCount
Graphs == [Ids -> [Ids -> Nat]]

\* One for each time child c is named by a node of H.
Tokens(kids, c, H) == {t \in H \X Nat : 1 <= t[2] /\ t[2] <= kids[t[1]][c]}

LEMMA TokenIs ==
    ASSUME NEW kids, NEW c, NEW H, NEW q, NEW k
    PROVE  <<q, k>> \in Tokens(kids, c, H) <=> q \in H /\ k \in Nat /\ 1 <= k /\ k <= kids[q][c]
BY DEF Tokens

LEMMA NumbersUpTo ==
    ASSUME NEW n \in Nat
    PROVE  IsFiniteSet(1 .. n) /\ Cardinality(1 .. n) = n
<1>1. IsFiniteSet(1 .. n) /\ Cardinality(1 .. n) = IF 1 > n THEN 0 ELSE n - 1 + 1
  BY FS_Interval
<1> QED
  BY <1>1

\* The tokens that a node gives are as many as the times it names c.
LEMMA TokensWithout ==
    ASSUME NEW kids, NEW c, NEW H, NEW p \in H, kids[p][c] \in Nat,
           IsFiniteSet(Tokens(kids, c, H))
    PROVE  /\ IsFiniteSet(Tokens(kids, c, H \ {p}))
           /\ Cardinality(Tokens(kids, c, H \ {p})) = Cardinality(Tokens(kids, c, H)) - kids[p][c]
<1>0. PICK n \in Nat : n = kids[p][c]
  OBVIOUS
<1> DEFINE column == {p} \X (1 .. n)
<1>1. IsFiniteSet({p}) /\ Cardinality({p}) = 1 /\ IsFiniteSet(1 .. n) /\ Cardinality(1 .. n) = n
  <2>1. IsFiniteSet({p}) /\ Cardinality({p}) = 1
    BY FS_Singleton
  <2>2. IsFiniteSet(1 .. n) /\ Cardinality(1 .. n) = n
    BY <1>0, NumbersUpTo
  <2> QED
    BY <2>1, <2>2
<1>2. Cardinality(column) = n
  <2>1. Cardinality({p} \X (1 .. n)) = Cardinality({p}) * Cardinality(1 .. n)
    BY <1>1, FS_Product
  <2> QED
    BY <1>1, <2>1
<1>3. Tokens(kids, c, H \ {p}) = Tokens(kids, c, H) \ column
  BY <1>0 DEF Tokens
<1>4. Tokens(kids, c, H) \intersect column = column
  BY <1>0 DEF Tokens
<1> HIDE DEF column
<1>5. PICK all : all = Tokens(kids, c, H)
  OBVIOUS
<1>6. IsFiniteSet(all \ column) /\ Cardinality(all \ column) = Cardinality(all) - Cardinality(all \intersect column)
  BY <1>5, FS_Difference
<1> QED
  BY <1>0, <1>2, <1>3, <1>4, <1>5, <1>6

\* A node has no token if and only if no node of H names it.
LEMMA NoTokens ==
    ASSUME NEW kids, NEW c \in Ids, NEW H, H \subseteq Ids, kids \in Graphs,
           IsFiniteSet(Tokens(kids, c, H))
    PROVE  Cardinality(Tokens(kids, c, H)) > 0 <=> \E q \in H : kids[q][c] > 0
<1>1. \A q \in H : kids[q][c] \in Nat
  BY DEF Graphs
<1>2. ASSUME NEW q \in H, kids[q][c] > 0 PROVE <<q, 1>> \in Tokens(kids, c, H)
  <2>1. 1 <= kids[q][c]
    BY <1>1, <1>2
  <2> QED
    BY <2>1, TokenIs
<1>3. ASSUME NEW t \in Tokens(kids, c, H) PROVE t[1] \in H /\ kids[t[1]][c] > 0
  <2>1. t[1] \in H /\ t[2] \in Nat /\ 1 <= t[2] /\ t[2] <= kids[t[1]][c]
    BY DEF Tokens
  <2> QED
    BY <1>1, <2>1
<1>4. (\E q \in H : kids[q][c] > 0) <=> Tokens(kids, c, H) # {}
  BY <1>2, <1>3
<1>5. Cardinality(Tokens(kids, c, H)) \in Nat
  BY FS_CardinalityType
<1>6. Cardinality(Tokens(kids, c, H)) = 0 <=> Tokens(kids, c, H) = {}
  BY FS_EmptySet
<1> QED
  BY <1>4, <1>5, <1>6

\* A child more.
OneMore(kids, p, d) == [kids EXCEPT ![p][d] = @ + 1]

LEMMA TokenAdded ==
    ASSUME NEW kids \in Graphs, NEW p \in Ids, NEW d \in Ids, NEW c \in Ids,
           IsFiniteSet(Tokens(kids, c, Ids))
    PROVE  /\ OneMore(kids, p, d) \in Graphs
           /\ IsFiniteSet(Tokens(OneMore(kids, p, d), c, Ids))
           /\ Cardinality(Tokens(OneMore(kids, p, d), c, Ids))
                = Cardinality(Tokens(kids, c, Ids)) + IF c = d THEN 1 ELSE 0
<1>0. PICK more : more = OneMore(kids, p, d)
  OBVIOUS
<1>1. PICK n \in Nat : n = kids[p][d]
  BY DEF Graphs
<1>2. /\ more \in Graphs /\ more[p][d] = n + 1
      /\ \A q, e \in Ids : q # p \/ e # d => more[q][e] = kids[q][e]
  BY <1>0, <1>1 DEF Graphs, OneMore
<1>3. CASE c # d
  <2>1. Tokens(more, c, Ids) = Tokens(kids, c, Ids)
    BY <1>2, <1>3 DEF Tokens
  <2>2. Cardinality(Tokens(kids, c, Ids)) \in Nat
    BY FS_CardinalityType
  <2> QED
    BY <1>0, <1>2, <1>3, <2>1, <2>2
<1>4. CASE c = d
  <2>1. Tokens(more, c, Ids) = Tokens(kids, c, Ids) \union {<<p, n + 1>>}
    <3>1. \A t \in Tokens(more, c, Ids) : t \in Tokens(kids, c, Ids) \/ t = <<p, n + 1>>
      <4> TAKE t \in Tokens(more, c, Ids)
      <4>1. t = <<t[1], t[2]>> /\ t[1] \in Ids /\ t[2] \in Nat /\ 1 <= t[2] /\ t[2] <= more[t[1]][c]
        BY DEF Tokens
      <4>2. CASE t[1] # p
        BY <1>2, <1>4, <4>1, <4>2, TokenIs
      <4>3. CASE t[1] = p
        <5>1. t[2] <= n + 1
          BY <1>2, <1>4, <4>1, <4>3
        <5>2. t[2] = n + 1 \/ t[2] <= n
          BY <4>1, <5>1
        <5> QED
          BY <1>1, <1>4, <4>1, <4>3, <5>2, TokenIs
      <4> QED
        BY <4>2, <4>3
    <3>2. \A t \in Tokens(kids, c, Ids) : t \in Tokens(more, c, Ids)
      <4> TAKE t \in Tokens(kids, c, Ids)
      <4>1. t = <<t[1], t[2]>> /\ t[1] \in Ids /\ t[2] \in Nat /\ 1 <= t[2] /\ t[2] <= kids[t[1]][c]
        BY DEF Tokens
      <4>2. PICK q \in Ids, m \in Nat : t = <<q, m>> /\ 1 <= m /\ m <= kids[q][c]
        BY <4>1
      <4>3. m <= more[q][c]
        <5>1. CASE q # p
          BY <1>2, <4>2, <5>1
        <5>2. CASE q = p
          <6>1. m <= n
            BY <1>1, <1>4, <4>2, <5>2
          <6>2. m <= n + 1
            BY <6>1
          <6> QED
            BY <1>2, <1>4, <5>2, <6>2
        <5> QED
          BY <5>1, <5>2
      <4>4. <<q, m>> \in Tokens(more, c, Ids)
        BY <4>2, <4>3, TokenIs
      <4> QED
        BY <4>2, <4>4
    <3>3. <<p, n + 1>> \in Tokens(more, c, Ids)
      <4>1. PICK m \in Nat : m = n + 1 /\ 1 <= m
        OBVIOUS
      <4>2. m <= more[p][c]
        BY <1>2, <1>4, <4>1
      <4>3. <<p, m>> \in Tokens(more, c, Ids)
        BY <4>1, <4>2, TokenIs
      <4> QED
        BY <4>1, <4>3
    <3> QED
      BY <3>1, <3>2, <3>3
  <2>2. <<p, n + 1>> \notin Tokens(kids, c, Ids)
    <3>1. ~ (n + 1 <= kids[p][c])
      BY <1>1, <1>4
    <3> QED
      BY <3>1, TokenIs
  <2>3. PICK S : S = Tokens(kids, c, Ids)
    OBVIOUS
  <2>4. PICK x : x = <<p, n + 1>>
    OBVIOUS
  <2>5. IsFiniteSet(S \union {x}) /\ Cardinality(S \union {x}) = Cardinality(S) + 1
    BY <2>2, <2>3, <2>4, FS_AddElement
  <2>6. Cardinality(Tokens(kids, c, Ids)) \in Nat
    BY FS_CardinalityType
  <2> QED
    BY <1>0, <1>2, <1>4, <2>1, <2>3, <2>4, <2>5, <2>6
<1> QED
  BY <1>0, <1>3, <1>4

-------------------------------------------------------------------------------
(* The order of the results *)

\* Node x is among the first m - 1 of the list.
Earlier(list, m, x) == \E j \in 1 .. m - 1 : list[j] = x

Knotted(kids) == UNION {S \in SUBSET Ids : \A n \in S : \E q \in S : kids[q][n] > 0}

Placed(kids, list, m) ==
    IF list[m] \in Knotted(kids)
    THEN \A x \in Ids \ Knotted(kids) : Earlier(list, m, x)
    ELSE \A q \in Ids : kids[q][list[m]] > 0 => Earlier(list, m, q)

Ordered(kids, list, rest) ==
    /\ list \in Seq(Ids)
    /\ \A x \in Ids : x \notin rest <=> Earlier(list, Len(list) + 1, x)
    /\ Len(list) = Cardinality(Ids \ rest)
    /\ \A m \in 1 .. Len(list) : Placed(kids, list, m)

LEMMA KnottedIs ==
    ASSUME NEW kids, NEW x
    PROVE  /\ \A S \in SUBSET Ids : (\A n \in S : \E q \in S : kids[q][n] > 0) => S \subseteq Knotted(kids)
           /\ x \in Knotted(kids) => x \in Ids /\ \E q \in Knotted(kids) : kids[q][x] > 0
<1>1. \A S \in SUBSET Ids : (\A n \in S : \E q \in S : kids[q][n] > 0) => S \subseteq Knotted(kids)
  BY DEF Knotted
<1>2. ASSUME x \in Knotted(kids) PROVE x \in Ids /\ \E q \in Knotted(kids) : kids[q][x] > 0
  <2>1. PICK S \in SUBSET Ids : x \in S /\ \A n \in S : \E q \in S : kids[q][n] > 0
    BY <1>2 DEF Knotted
  <2>2. S \subseteq Knotted(kids)
    BY <1>1, <2>1
  <2> QED
    BY <2>1, <2>2
<1> QED
  BY <1>1, <1>2

\* A node is added that no node left names, or when each of those left is named
\* by another one.
LEMMA Taken ==
    ASSUME NEW kids, NEW list, NEW rest, rest \subseteq Ids, Ordered(kids, list, rest),
           NEW p \in rest,
           \/ \A q \in rest : ~ (kids[q][p] > 0)
           \/ \A c \in rest : \E q \in rest : kids[q][c] > 0
    PROVE  Ordered(kids, Append(list, p), rest \ {p})
<1>1. PICK k \in Nat : k = Len(list) /\ DOMAIN list = 1 .. k
  BY LenProperties DEF Ordered
<1>2. PICK more : more = Append(list, p)
  OBVIOUS
<1>3. /\ more \in Seq(Ids) /\ Len(more) = k + 1 /\ more[k + 1] = p
      /\ \A j \in 1 .. k : more[j] = list[j]
  <2>1. list \in Seq(Ids) /\ p \in Ids
    BY DEF Ordered
  <2> QED
    BY <1>1, <1>2, <2>1, AppendProperties
<1>4. \A m \in 1 .. k + 1 : \A x : Earlier(more, m, x) <=> Earlier(list, m, x)
  <2>1. \A m \in 1 .. k + 1 : \A j \in 1 .. m - 1 : j \in 1 .. k
    OBVIOUS
  <2> QED
    BY <1>3, <2>1 DEF Earlier
<1>5. \A x \in Ids : x \notin rest <=> Earlier(list, k + 1, x)
  BY <1>1 DEF Ordered
<1>6. \A x \in Ids : x \notin rest \ {p} <=> Earlier(more, Len(more) + 1, x)
  <2> TAKE x \in Ids
  <2>1. \A j : j \in 1 .. k + 1 <=> j \in 1 .. k \/ j = k + 1
    OBVIOUS
  <2>2. (k + 1) + 1 - 1 = k + 1 /\ (k + 1) - 1 = k
    OBVIOUS
  <2>3. Earlier(more, Len(more) + 1, x) <=> \E j \in 1 .. k + 1 : more[j] = x
    BY <1>3, <2>2 DEF Earlier
  <2>4. Earlier(list, k + 1, x) <=> \E j \in 1 .. k : list[j] = x
    BY <2>2 DEF Earlier
  <2>5. Earlier(more, Len(more) + 1, x) <=> Earlier(list, k + 1, x) \/ x = p
    BY <1>3, <2>1, <2>3, <2>4
  <2> QED
    BY <1>5, <2>5
<1>7. Len(more) = Cardinality(Ids \ (rest \ {p}))
  <2>1. PICK done : done = Ids \ rest
    OBVIOUS
  <2>2. Ids \ (rest \ {p}) = done \union {p} /\ p \notin done
    BY <2>1
  <2>3. IsFiniteSet(done)
    <3>1. IsFiniteSet(Ids)
      BY NodeCountAssumption, FS_Interval DEF Ids
    <3> QED
      BY <2>1, <3>1, FS_Subset
  <2>4. Cardinality(done \union {p}) = Cardinality(done) + 1
    BY <2>2, <2>3, FS_AddElement
  <2>5. Cardinality(done) = k
    BY <1>1, <2>1 DEF Ordered
  <2> QED
    BY <1>3, <2>2, <2>4, <2>5
<1>8. ASSUME NEW m \in 1 .. k + 1 PROVE Placed(kids, more, m)
  <2>1. CASE m # k + 1
    <3>1. m \in 1 .. k /\ more[m] = list[m]
      BY <1>3, <2>1
    <3>2. Placed(kids, list, m)
      BY <1>1, <3>1 DEF Ordered
    <3> QED
      BY <1>4, <3>1, <3>2 DEF Placed
  <2>2. CASE m = k + 1
    <3>1. \A x \in Ids : x \notin rest => Earlier(more, m, x)
      BY <1>4, <1>5, <2>2
    <3>2. CASE \A q \in rest : ~ (kids[q][p] > 0)
      <4>1. \A q \in Ids : kids[q][p] > 0 => q \notin rest
        BY <3>2
      <4>2. CASE p \notin Knotted(kids)
        BY <1>3, <2>2, <3>1, <4>1, <4>2 DEF Placed
      <4>3. CASE p \in Knotted(kids)
        <5>1. PICK q \in Knotted(kids) : kids[q][p] > 0
          BY <4>3, KnottedIs
        <5>2. q \in Ids
          BY KnottedIs
        <5>3. Earlier(list, k + 1, q)
          BY <1>5, <4>1, <5>1, <5>2
        <5>4. PICK j \in 1 .. k : list[j] = q
          <6>1. (k + 1) - 1 = k
            OBVIOUS
          <6> QED
            BY <5>3, <6>1 DEF Earlier
        <5>5. \A x \in Ids \ Knotted(kids) : Earlier(list, j, x)
          BY <1>1, <5>1, <5>4 DEF Ordered, Placed
        <5>6. \A x : Earlier(list, j, x) => Earlier(list, k + 1, x)
          <6>1. \A i \in 1 .. j - 1 : i \in 1 .. (k + 1) - 1
            OBVIOUS
          <6> QED
            BY <6>1 DEF Earlier
        <5>7. \A x \in Ids \ Knotted(kids) : Earlier(more, m, x)
          BY <1>4, <2>2, <5>5, <5>6
        <5> QED
          BY <1>3, <2>2, <4>3, <5>7 DEF Placed
      <4> QED
        BY <4>2, <4>3
    <3>3. CASE \A c \in rest : \E q \in rest : kids[q][c] > 0
      <4>1. rest \subseteq Knotted(kids)
        BY <3>3, KnottedIs
      <4>2. \A x \in Ids \ Knotted(kids) : Earlier(more, m, x)
        BY <3>1, <4>1
      <4> QED
        BY <1>3, <2>2, <4>1, <4>2 DEF Placed
    <3> QED
      BY <3>2, <3>3
  <2> QED
    BY <2>1, <2>2
<1> QED
  BY <1>2, <1>3, <1>6, <1>7, <1>8 DEF Ordered

LEMMA NothingTaken ==
    ASSUME NEW kids
    PROVE  Ordered(kids, << >>, Ids)
<1>1. PICK list : list = << >>
  OBVIOUS
<1>2. list \in Seq(Ids) /\ Len(list) = 0
  BY <1>1
<1> HIDE <1>1
<1>3. Ids \ Ids = {} /\ Cardinality({}) = 0
  BY FS_EmptySet
<1>4. \A x : ~ Earlier(list, Len(list) + 1, x)
  BY <1>2 DEF Earlier
<1>5. Ordered(kids, list, Ids)
  <2>1. 1 .. Len(list) = {} /\ Len(list) = Cardinality(Ids \ Ids)
    BY <1>2, <1>3
  <2> QED
    BY <1>2, <1>4, <2>1 DEF Ordered
<1> QED
  BY <1>1, <1>5

-------------------------------------------------------------------------------

\* incoming has the number of times that a node of H names c.
Counted(c, H) ==
    /\ IsFiniteSet(Tokens(children, c, H))
    /\ incoming[c] = Cardinality(Tokens(children, c, H))

SortTyped ==
    /\ parentID \in Nat \ {0}
    /\ children \in Graphs
    /\ incoming \in [Ids -> Int]
    /\ heap \subseteq Ids

Reading ==
    parentID <= NodeCount =>
        /\ heap = {} /\ results = << >>
        /\ \A c \in Ids : Counted(c, Ids)

Sorting ==
    parentID > NodeCount =>
        /\ \A c \in heap : Counted(c, heap)
        /\ Ordered(children, results, heap)

SortInv == SortTyped /\ Reading /\ Sorting

LEMMA SortInit == Sort!Init => SortInv
<1> SUFFICES ASSUME Sort!Init PROVE SortInv
  OBVIOUS
<1> USE DEF Sort!Init, Sort!Ids
<1>1. SortTyped
  BY DEF SortTyped, Graphs, Ids
<1>2. ASSUME NEW c \in Ids PROVE Counted(c, Ids)
  <2>1. \A q \in Ids : children[q][c] = 0
    BY DEF Ids
  <2>2. Tokens(children, c, Ids) = {}
    <3>1. ASSUME NEW t \in Tokens(children, c, Ids) PROVE FALSE
      <4>1. t[1] \in Ids /\ t[2] \in Nat /\ 1 <= t[2] /\ t[2] <= children[t[1]][c]
        BY DEF Tokens
      <4> QED
        <5>1. children[t[1]][c] = 0
          BY <2>1, <4>1
        <5> QED
          BY <4>1, <5>1
    <3> QED
      BY <3>1
  <2>3. incoming[c] = 0
    BY DEF Ids
  <2> QED
    BY <2>2, <2>3, FS_EmptySet DEF Counted
<1>3. Reading
  BY <1>2 DEF Reading
<1>4. Sorting
  <2> SUFFICES ASSUME parentID > NodeCount PROVE heap = Ids /\ Ordered(children, results, Ids)
    BY <1>2 DEF Sorting
  <2>1. NodeCount = 0
    BY NodeCountAssumption
  <2>2. Ids = {}
    BY <2>1 DEF Ids
  <2> QED
    BY <2>2, NothingTaken
<1> QED
  BY <1>1, <1>3, <1>4 DEF SortInv

LEMMA AddChildKeepsCounts ==
    ASSUME SortInv, NEW d \in Ids, Sort!AddChild(d)
    PROVE  SortInv'
<1>1. parentID \in Ids /\ parentID <= NodeCount
  BY DEF SortInv, SortTyped, Sort!AddChild, Ids
<1>2. PICK p \in Ids : p = parentID
  BY <1>1
<1>3. PICK kids \in Graphs : kids = children
  BY DEF SortInv, SortTyped
<1>4. PICK more : more = OneMore(kids, p, d)
  OBVIOUS
<1>5. PICK edges \in [Ids -> Int] : edges = incoming
  BY DEF SortInv, SortTyped
<1>6. /\ children' = more /\ incoming' = [edges EXCEPT ![d] = @ + 1]
      /\ parentID' = parentID /\ heap' = heap /\ results' = results
  BY <1>2, <1>3, <1>4, <1>5 DEF Sort!AddChild, OneMore
<1>7. ASSUME NEW c \in Ids
      PROVE  /\ more \in Graphs
             /\ IsFiniteSet(Tokens(more, c, Ids))
             /\ incoming'[c] = Cardinality(Tokens(more, c, Ids))
  <2>1. IsFiniteSet(Tokens(kids, c, Ids)) /\ edges[c] = Cardinality(Tokens(kids, c, Ids))
    BY <1>1, <1>3, <1>5 DEF SortInv, Reading, Counted
  <2>2. /\ more \in Graphs
        /\ IsFiniteSet(Tokens(more, c, Ids))
        /\ Cardinality(Tokens(more, c, Ids))
                = Cardinality(Tokens(kids, c, Ids)) + IF c = d THEN 1 ELSE 0
    BY <1>4, <2>1, TokenAdded
  <2>3. incoming'[c] = edges[c] + IF c = d THEN 1 ELSE 0
    BY <1>6
  <2> QED
    BY <2>1, <2>2, <2>3
<1>8. SortTyped'
  <2>1. more \in Graphs
    BY <1>7
  <2> QED
    BY <1>6, <2>1 DEF SortInv, SortTyped
<1>9. Reading'
  BY <1>1, <1>6, <1>7 DEF SortInv, Reading, Counted
<1>10. Sorting'
  BY <1>1, <1>6, NodeCountAssumption DEF SortInv, SortTyped, Sorting
<1> QED
  BY <1>8, <1>9, <1>10 DEF SortInv

LEMMA EndOfLineMakesHeap ==
    ASSUME SortInv, Sort!EndOfLine
    PROVE  SortInv'
<1>1. /\ parentID <= NodeCount /\ parentID' = parentID + 1
      /\ heap' = IF parentID = NodeCount THEN Ids ELSE {}
      /\ children' = children /\ incoming' = incoming /\ results' = results
  BY DEF Sort!EndOfLine, Sort!Ids, Ids
<1>2. /\ results = << >>
      /\ \A c \in Ids : Counted(c, Ids)
  BY <1>1 DEF SortInv, Reading
<1>3. \A c \in Ids : IsFiniteSet(Tokens(children', c, Ids)) /\ incoming'[c] = Cardinality(Tokens(children', c, Ids))
  BY <1>1, <1>2 DEF Counted
<1>4. SortTyped'
  BY <1>1 DEF SortInv, SortTyped
<1>5. parentID \in Nat /\ NodeCount \in Nat
  BY NodeCountAssumption DEF SortInv, SortTyped
<1>6. Reading'
  <2> SUFFICES ASSUME parentID' <= NodeCount
               PROVE  heap' = {}
    BY <1>1, <1>2, <1>3 DEF Reading, Counted
  <2> QED
    BY <1>1, <1>5
<1>7. Sorting'
  <2> SUFFICES ASSUME parentID' > NodeCount
               PROVE  heap' = Ids /\ Ordered(children', results', Ids)
    BY <1>3 DEF Sorting, Counted
  <2>1. heap' = Ids
    BY <1>1, <1>5
  <2>2. PICK kids : kids = children'
    OBVIOUS
  <2>3. Ordered(kids, << >>, Ids)
    BY NothingTaken
  <2> QED
    BY <1>1, <1>2, <2>1, <2>2, <2>3
<1> QED
  BY <1>4, <1>6, <1>7 DEF SortInv

LEMMA PopKeepsOrder ==
    ASSUME SortInv, NEW p \in Ids, Sort!Pop(p)
    PROVE  SortInv'
<1>1. /\ p \in heap /\ \A q \in heap : incoming[p] <= incoming[q]
      /\ incoming' = Sort!DropParent(p)
      /\ heap' = heap \ {p} /\ results' = Append(results, p)
      /\ parentID' = parentID /\ children' = children
  BY DEF Sort!Pop
<1>2. PICK kids \in Graphs : kids = children
  BY DEF SortInv, SortTyped
<1>3. PICK edges \in [Ids -> Int] : edges = incoming
  BY DEF SortInv, SortTyped
<1>4. PICK rest \in SUBSET Ids : rest = heap
  BY DEF SortInv, SortTyped
<1>5. PICK list : list = results
  OBVIOUS
<1>6. PICK shorter : shorter = rest \ {p}
  OBVIOUS
<1>7. p \in rest /\ \A q \in rest : edges[p] <= edges[q]
  BY <1>1, <1>3, <1>4
<1>8. parentID > NodeCount
  BY <1>1, NodeCountAssumption DEF SortInv, SortTyped, Reading
<1>9. \A c \in rest : IsFiniteSet(Tokens(kids, c, rest)) /\ edges[c] = Cardinality(Tokens(kids, c, rest))
  BY <1>2, <1>3, <1>4, <1>8 DEF SortInv, Sorting, Counted
<1>10. Ordered(kids, list, rest)
  BY <1>2, <1>4, <1>5, <1>8 DEF SortInv, Sorting
<1>11. \A c \in Ids : incoming'[c] = IF c \in rest THEN edges[c] - kids[p][c] ELSE edges[c]
  BY <1>1, <1>2, <1>3, <1>4 DEF Sort!DropParent, Sort!Ids, Ids
<1>12. incoming' \in [Ids -> Int]
  <2>1. \A c \in Ids : (IF c \in rest THEN edges[c] - kids[p][c] ELSE edges[c]) \in Int
    BY DEF Graphs
  <2>2. incoming' = [c \in Ids |-> IF c \in rest THEN edges[c] - kids[p][c] ELSE edges[c]]
    BY <1>1, <1>2, <1>3, <1>4 DEF Sort!DropParent, Sort!Ids, Ids
  <2> QED
    BY <2>1, <2>2
<1>13. \/ \A q \in rest : ~ (kids[q][p] > 0)
       \/ \A c \in rest : \E q \in rest : kids[q][c] > 0
  <2>1. ASSUME NEW c \in rest
        PROVE  edges[c] \in Nat /\ (edges[c] > 0 <=> \E q \in rest : kids[q][c] > 0)
    <3>1. Cardinality(Tokens(kids, c, rest)) > 0 <=> \E q \in rest : kids[q][c] > 0
      BY <1>9, NoTokens
    <3>2. Cardinality(Tokens(kids, c, rest)) \in Nat
      BY <1>9, FS_CardinalityType
    <3> QED
      BY <1>9, <3>1, <3>2
  <2>2. CASE edges[p] = 0
    BY <1>7, <2>1, <2>2
  <2>3. CASE edges[p] # 0
    <3>1. \A c \in rest : edges[c] > 0
      BY <1>7, <2>1, <2>3
    <3> QED
      BY <2>1, <3>1
  <2> QED
    BY <2>2, <2>3
<1>14. Ordered(kids, Append(list, p), rest \ {p})
  BY <1>7, <1>10, <1>13, Taken
<1>15. ASSUME NEW c \in rest \ {p}
       PROVE  IsFiniteSet(Tokens(kids, c, shorter)) /\ incoming'[c] = Cardinality(Tokens(kids, c, shorter))
  <2>1. kids[p][c] \in Nat
    BY DEF Graphs
  <2>2. IsFiniteSet(Tokens(kids, c, rest))
    BY <1>9
  <2>3. /\ IsFiniteSet(Tokens(kids, c, rest \ {p}))
        /\ Cardinality(Tokens(kids, c, rest \ {p})) = Cardinality(Tokens(kids, c, rest)) - kids[p][c]
    BY <1>7, <2>1, <2>2, TokensWithout
  <2> QED
    BY <1>6, <1>9, <1>11, <2>1, <2>3
<1>16. SortTyped'
  BY <1>1, <1>4, <1>12 DEF SortInv, SortTyped
<1>17. Reading'
  BY <1>1, <1>8, NodeCountAssumption DEF SortInv, SortTyped, Reading
<1>18. children' = kids /\ heap' = shorter /\ results' = Append(list, p)
  BY <1>1, <1>2, <1>4, <1>5, <1>6
<1>19. Sorting'
  BY <1>6, <1>14, <1>15, <1>18 DEF Sorting, Counted
<1> QED
  BY <1>16, <1>17, <1>19 DEF SortInv


LEMMA SortInvariant == Sort!Spec => []SortInv
<1>1. ASSUME SortInv, [Sort!Next]_Sort!vars PROVE SortInv'
  <2>1. CASE UNCHANGED Sort!vars
    <3> USE <2>1 DEF Sort!vars
    <3>1. SortTyped => SortTyped'
      BY DEF SortTyped
    <3>2. Reading => Reading'
      BY DEF Reading, Counted
    <3>3. Sorting => Sorting'
      BY DEF Sorting, Counted
    <3> QED
      BY <1>1, <3>1, <3>2, <3>3 DEF SortInv
  <2>2. ASSUME NEW d \in Ids, Sort!AddChild(d) PROVE SortInv'
    BY <1>1, <2>2, AddChildKeepsCounts
  <2>3. CASE Sort!EndOfLine
    BY <1>1, <2>3, EndOfLineMakesHeap
  <2>4. ASSUME NEW p \in Ids, Sort!Pop(p) PROVE SortInv'
    BY <1>1, <2>4, PopKeepsOrder
  <2>5. CASE Sort!Stopped
    BY <2>1, <2>5 DEF Sort!Stopped
  <2> QED
    BY <1>1, <2>1, <2>2, <2>3, <2>4, <2>5 DEF Sort!Next, Sort!Ids, Ids
<1> QED
  BY <1>1, SortInit, PTL DEF Sort!Spec

\* The nodes before the m-th.
LEMMA EarlierIs ==
    ASSUME NEW S, NEW list \in Seq(S), NEW m \in 1 .. Len(list) + 1, NEW x
    PROVE  x \in Sort!ToSet(SubSeq(list, 1, m - 1)) <=> Earlier(list, m, x)
<1>1. PICK k \in Nat : k = Len(list) /\ DOMAIN list = 1 .. k
  BY LenProperties
<1>2. PICK front : front = SubSeq(list, 1, m - 1)
  OBVIOUS
<1>3. Len(front) = m - 1 /\ front \in Seq(S) /\ \A i \in 1 .. m - 1 : front[i] = list[i]
  BY <1>1, <1>2, SubSeqProperties
<1>4. DOMAIN front = 1 .. m - 1
  BY <1>3, LenProperties
<1>5. Sort!ToSet(front) = {front[i] : i \in 1 .. m - 1}
  BY <1>4 DEF Sort!ToSet
<1> QED
  BY <1>2, <1>3, <1>5 DEF Earlier

\* The order of the nodes (timus/1022, TGraph::TopologicalSort): each is printed
\* once, its parents before it, and what cannot be ordered after all that can.
THEOREM ParentsFirstCorrect == Sort!Spec => []ParentsFirst
<1>1. SortInv => ParentsFirst
  <2> SUFFICES ASSUME SortInv, parentID > NodeCount
               PROVE  /\ Sort!ToSet(results) = Ids \ heap
                      /\ Len(results) = Cardinality(Ids \ heap)
                      /\ \A i \in DOMAIN results :
                            IF results[i] \in Knotted(children)
                            THEN \A x \in Ids \ Knotted(children) : x \in Sort!ToSet(SubSeq(results, 1, i - 1))
                            ELSE \A q \in Ids : children[q][results[i]] > 0
                                    => q \in Sort!ToSet(SubSeq(results, 1, i - 1))
    <3>1. \A q, n \in Ids : <<q, n>> \in Sort!Edges <=> children[q][n] > 0
      BY DEF Sort!Edges, Sort!Ids, Ids
    <3>2. Sort!Tangled = Knotted(children)
      <4>1. \A S \in SUBSET Ids : (\A n \in S : \E q \in S : <<q, n>> \in Sort!Edges)
                                 <=> (\A n \in S : \E q \in S : children[q][n] > 0)
        <5> TAKE S \in SUBSET Ids
        <5>1. \A q, n \in S : <<q, n>> \in Sort!Edges <=> children[q][n] > 0
          BY <3>1
        <5> QED
          BY <5>1
      <4>2. {S \in SUBSET Ids : \A n \in S : \E q \in S : <<q, n>> \in Sort!Edges}
              = {S \in SUBSET Ids : \A n \in S : \E q \in S : children[q][n] > 0}
        BY <4>1
      <4>3. Sort!Ids = Ids
        BY DEF Sort!Ids, Ids
      <4> QED
        BY <4>2, <4>3 DEF Sort!Tangled, Knotted
    <3>3. \A e \in Sort!Edges : e[1] \in Ids /\ e[2] \in Ids /\ children[e[1]][e[2]] > 0
      BY DEF Sort!Edges, Sort!Ids, Ids
    <3>4. Sort!Cardinality(Sort!Ids \ heap) = Cardinality(Ids \ heap) /\ Sort!Ids = Ids
      BY DEF Sort!Cardinality, Cardinality, Sort!Ids, Ids
    <3> QED
      BY <3>2, <3>3, <3>4 DEF ParentsFirst, Sort!ParentsFirst
  <2>1. Ordered(children, results, heap) /\ heap \subseteq Ids
    BY DEF SortInv, SortTyped, Sorting
  <2>2. results \in Seq(Ids)
    BY <2>1 DEF Ordered
  <2>3. PICK k \in Nat : k = Len(results) /\ DOMAIN results = 1 .. k
    BY <2>2, LenProperties
  <2>4. ASSUME NEW i \in 1 .. k + 1, NEW x
        PROVE  x \in Sort!ToSet(SubSeq(results, 1, i - 1)) <=> Earlier(results, i, x)
    BY <2>2, <2>3, EarlierIs
  <2>5. Sort!ToSet(results) = Ids \ heap
    <3>1. ASSUME NEW x PROVE x \in Sort!ToSet(results) <=> Earlier(results, Len(results) + 1, x)
      <4>1. (k + 1) - 1 = k
        OBVIOUS
      <4> QED
        BY <2>3, <4>1 DEF Sort!ToSet, Earlier
    <3>2. \A x \in Sort!ToSet(results) : x \in Ids
      BY <2>2, <2>3 DEF Sort!ToSet
    <3> QED
      BY <2>1, <3>1, <3>2 DEF Ordered
  <2>6. Len(results) = Cardinality(Ids \ heap)
    BY <2>1 DEF Ordered
  <2>7. ASSUME NEW i \in DOMAIN results
        PROVE  IF results[i] \in Knotted(children)
               THEN \A x \in Ids \ Knotted(children) : x \in Sort!ToSet(SubSeq(results, 1, i - 1))
               ELSE \A q \in Ids : children[q][results[i]] > 0
                       => q \in Sort!ToSet(SubSeq(results, 1, i - 1))
    <3>1. Placed(children, results, i)
      BY <2>1, <2>3 DEF Ordered
    <3>2. i \in 1 .. k + 1
      BY <2>3
    <3>3. \A x : x \in Sort!ToSet(SubSeq(results, 1, i - 1)) <=> Earlier(results, i, x)
      BY <2>4, <3>2
    <3> QED
      BY <3>1, <3>3 DEF Placed
  <2> QED
    BY <2>5, <2>6, <2>7
<1> QED
  BY <1>1, SortInvariant, PTL
===============================================================================

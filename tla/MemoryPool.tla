----------------------------- MODULE MemoryPool ------------------------------
(***************************************************************************)
(* lob::core::MemoryPool (src/src/core/MemoryPool.hpp and .cpp): slabs of  *)
(* blocks, the free ones chained through the blocks themselves, and a new  *)
(* slab as large as all the others together when the chain is empty.       *)
(*                                                                         *)
(* A block is a union: while it is in use it holds an order, while it is    *)
(* free its first bytes are the link to the next free block.  Blocks are    *)
(* numbered in the order in which they were acquired.                       *)
(***************************************************************************)
EXTENDS Integers, Sequences, FiniteSets

CONSTANTS
    InitialSize,     \* OrderBookConfig::initialPoolSize_
    MaxElements,     \* bound: no more blocks than this are ever acquired
    Orders,          \* the orders that are constructed in blocks
    None,            \* nullptr
    MayRunOut        \* whether the vector of slabs may fail to grow

VARIABLES
    alive,               \* the destructor has not run
    totalElements,       \* totalElements_
    currentlyAllocated,  \* currentlyAllocated_
    firstFree,           \* firstFree_
    slabs,               \* slabs_, each with the set of its blocks
    acquired,            \* how many blocks the pool has acquired so far
    memory,              \* what each acquired block holds: an order or a link
    owned                \* the orders as their owners left them, by block

vars == <<alive, totalElements, currentlyAllocated, firstFree, slabs,
          acquired, memory, owned>>

\* The constructor computes slabSize - 1 and so needs at least one block.
ASSUME SizeIsPositive == InitialSize \in Nat \ {0}

ASSUME BoundLeavesRoom == MaxElements \in Nat /\ InitialSize <= MaxElements

ASSUME OrdersAreNoLinks ==
    /\ Orders \cap Nat = {}
    /\ None \notin Nat
    /\ None \notin Orders

ASSUME MayRunOutIsBoolean == MayRunOut \in BOOLEAN

-----------------------------------------------------------------------------

\* The blocks of a slab of this size.
SlabAt(first, size) == first .. (first + size - 1)

\* Slip: the last block is linked to the first one.
ThreadedInCircle(first, size) ==
    [b \in SlabAt(first, size) |-> IF b = first + size - 1 THEN first ELSE b + 1]

\* allocate_slab links every block of a new slab to the next one.
Threaded(first, size) ==
    [b \in SlabAt(first, size) |-> IF b = first + size - 1 THEN None ELSE b + 1]

Init ==
    /\ alive = TRUE
    /\ totalElements = InitialSize
    /\ currentlyAllocated = 0
    /\ firstFree = 0
    /\ slabs = <<SlabAt(0, InitialSize)>>
    /\ acquired = InitialSize
    /\ memory = Threaded(0, InitialSize)
    /\ owned = [b \in {} |-> None]

NewSlab == SlabAt(acquired, totalElements)

\* The slab that allocate_slab returns is disjoint from what there is.
AcquireSlab ==
    /\ acquired + totalElements <= MaxElements
    /\ acquired' = acquired + totalElements

\* Slip: growing moves the blocks and what they held stays behind.
GrownMoved ==
    [b \in DOMAIN memory \cup NewSlab |->
        IF b \in NewSlab THEN Threaded(acquired, totalElements)[b] ELSE None]

\* The blocks once it has been acquired.
Grown ==
    [b \in DOMAIN memory \cup NewSlab |->
        IF b \in NewSlab THEN Threaded(acquired, totalElements)[b] ELSE memory[b]]

\* What the owners know once an order was constructed at b.  A block that is
\* handed out twice still has its first owner.
OwnedWith(b, order) ==
    [c \in DOMAIN owned \cup {b} |-> IF c \in DOMAIN owned THEN owned[c] ELSE order]

\* Slip: the allocation is not counted.
TakeFirstUncounted(blocks, first, order) ==
    /\ firstFree' = blocks[first]
    /\ memory' = [blocks EXCEPT ![first] = order]
    /\ owned' = OwnedWith(first, order)
    /\ UNCHANGED <<alive, currentlyAllocated>>

\* The link of the first free block is read before the order is constructed
\* over it.
TakeFirst(blocks, first, order) ==
    /\ firstFree' = blocks[first]
    /\ memory' = [blocks EXCEPT ![first] = order]
    /\ currentlyAllocated' = currentlyAllocated + 1
    /\ owned' = OwnedWith(first, order)
    /\ UNCHANGED alive

\* allocate while there is a free block.
AllocateFree ==
    /\ alive
    /\ firstFree # None
    /\ \E order \in Orders : TakeFirst(memory, firstFree, order)
    /\ UNCHANGED <<totalElements, slabs, acquired>>

\* Slip: the slab is acquired but not remembered.
RememberedNot == slabs

Remembered == Append(slabs, NewSlab)

\* Slip: the total counts slabs instead of blocks.
OneMore == totalElements + 1

Doubled == 2 * totalElements

\* allocate when there is none: a slab is acquired first.
AllocateGrowing ==
    /\ alive
    /\ firstFree = None
    /\ AcquireSlab
    /\ slabs' = Remembered
    /\ totalElements' = Doubled
    /\ \E order \in Orders : TakeFirst(Grown, acquired, order)

\* allocate when slabs_.push_back throws: the slab has been acquired already.
AllocateThrowing ==
    /\ MayRunOut
    /\ alive
    /\ firstFree = None
    /\ AcquireSlab
    /\ memory' = Grown
    /\ UNCHANGED <<alive, totalElements, currentlyAllocated, firstFree, slabs, owned>>

\* An owner changes its order in place.
Update ==
    /\ alive
    /\ \E b \in DOMAIN owned, order \in Orders :
          /\ memory' = [memory EXCEPT ![b] = order]
          /\ owned' = [owned EXCEPT ![b] = order]
    /\ UNCHANGED <<alive, totalElements, currentlyAllocated, firstFree, slabs,
                   acquired>>

\* Slip: the chain behind the new first block is lost.
LinkDropped(b) == [memory EXCEPT ![b] = None]

\* A block given back is linked in ahead of the free ones.
Linked(b) == [memory EXCEPT ![b] = firstFree]

\* deallocate, for a block that the pool handed out.
Deallocate ==
    /\ alive
    /\ \E b \in DOMAIN owned :
          /\ memory' = Linked(b)
          /\ firstFree' = b
          /\ owned' = [c \in DOMAIN owned \ {b} |-> owned[c]]
    /\ currentlyAllocated' = currentlyAllocated - 1
    /\ UNCHANGED <<alive, totalElements, slabs, acquired>>

\* The blocks of the slabs that the pool remembers.
Pooled == UNION {slabs[i] : i \in DOMAIN slabs}

\* The destructor releases every slab it remembers.
Destroy ==
    /\ alive
    /\ alive' = FALSE
    /\ memory' = [b \in DOMAIN memory \ Pooled |-> memory[b]]
    /\ owned' = [b \in {} |-> None]
    /\ UNCHANGED <<totalElements, currentlyAllocated, firstFree, slabs, acquired>>

Next ==
    \/ AllocateFree \/ AllocateGrowing \/ AllocateThrowing
    \/ Update \/ Deallocate \/ Destroy

Spec == Init /\ [][Next]_vars

-----------------------------------------------------------------------------
(* Properties *)

TypeOK ==
    /\ alive \in BOOLEAN
    /\ totalElements \in Nat \ {0}
    /\ currentlyAllocated \in Nat
    /\ firstFree \in Nat \cup {None}
    /\ slabs \in Seq(SUBSET Nat)
    /\ acquired \in Nat
    /\ DOMAIN memory \subseteq Nat
    /\ \A b \in DOMAIN memory : memory[b] \in Orders \cup Nat \cup {None}
    /\ DOMAIN owned \subseteq Nat
    /\ \A b \in DOMAIN owned : owned[b] \in Orders

\* Between the calls of its owner an order stays as the owner left it: the
\* links of the free chain, the threading of a new slab and the orders of other
\* owners never touch its block.
OrdersIntact ==
    \A b \in DOMAIN owned : b \in DOMAIN memory /\ memory[b] = owned[b]

Free == Pooled \ DOMAIN owned

\* The n-th block that following the links from firstFree_ leads to.
FreeChain[n \in 0 .. acquired] ==
    IF n = 0 THEN firstFree
    ELSE IF FreeChain[n - 1] \in DOMAIN memory THEN memory[FreeChain[n - 1]] ELSE None

\* The chain visits every free block once, no block in use, and ends: no block
\* is handed out twice, and none is lost while the pool lives.
FreeChainIsExact ==
    alive =>
        /\ {FreeChain[i] : i \in 0 .. (Cardinality(Free) - 1)} = Free
        /\ FreeChain[Cardinality(Free)] = None

\* The two counters of the pool are what they say they are.
CountersAgree ==
    alive =>
        /\ currentlyAllocated = Cardinality(DOMAIN owned)
        /\ totalElements = Cardinality(Pooled)

\* "Memory pool expands with new volume and properly frees its owned memory":
\* when the destructor is done nothing of what the pool acquired is left.
OwnedMemoryIsFreed == ~alive => DOMAIN memory = {}

\* No memory is lost: while the pool lives the chain is exact, and when it is
\* gone nothing is left of what it acquired, unless a slab was dropped by an
\* exception before it was counted.
NothingIsLost ==
    /\ FreeChainIsExact
    /\ ~alive /\ acquired = totalElements => DOMAIN memory = {}

\* "Reuses freed blocks before growing pool": the pool acquires memory only
\* while every block it has is in use.
ReusesBeforeGrowing ==
    [][acquired' # acquired => Pooled \subseteq DOMAIN owned]_vars

\* The pool seen from outside: what each block that is handed out holds.
Visible ==
    [b \in SlabAt(0, MaxElements) |->
        IF b \in DOMAIN owned /\ b \in DOMAIN memory THEN memory[b] ELSE None]

Promise == INSTANCE BlockPool WITH
    Blocks <- SlabAt(0, MaxElements), Contents <- Orders, heap <- Visible

\* The chain through the blocks, the slabs and their growth implement a pool
\* in which each order has a block of its own.
ImplementsBlockPool == Promise!Spec

=============================================================================

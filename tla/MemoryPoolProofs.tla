-------------------------- MODULE MemoryPoolProofs --------------------------
(***************************************************************************)
(* What holds of MemoryPool for every initial size, every bound and every  *)
(* set of orders, proved with TLAPS.                                       *)
(***************************************************************************)
EXTENDS MemoryPool, FiniteSetTheorems, SequenceTheorems, WellFoundedInduction, TLAPS

(* The free chain.  A list is given by its blocks from the last (index 1)  *)
(* to the first (index n), so that it grows and shrinks at index n.        *)

IsChain(n, f, free, first, blocks) ==
    /\ n \in Nat
    /\ f \in [1 .. n -> free]
    /\ \A i, j \in 1 .. n : f[i] = f[j] => i = j
    /\ \A b \in free : \E i \in 1 .. n : f[i] = b
    /\ first = IF n = 0 THEN None ELSE f[n]
    /\ \A i \in 1 .. n : blocks[f[i]] = IF i = 1 THEN None ELSE f[i - 1]

\* The free blocks form a chain from first.
Chained(free, first, blocks) == \E n, f : IsChain(n, f, free, first, blocks)

\* An empty chain has no first block, and only that one.
LEMMA ChainEnds ==
    ASSUME NEW free \in SUBSET Nat, NEW first, NEW blocks, Chained(free, first, blocks)
    PROVE  /\ first = None => free = {}
           /\ first # None => first \in free
<1>1. PICK n, f : IsChain(n, f, free, first, blocks)
  BY DEF Chained
<1>2. CASE n = 0
  BY <1>1, <1>2 DEF IsChain
<1>3. CASE n # 0
  <2>1. n \in 1 .. n /\ f[n] \in free /\ first = f[n]
    BY <1>1, <1>3 DEF IsChain
  <2> QED
    BY <2>1, OrdersAreNoLinks
<1> QED
  BY <1>2, <1>3

\* Handing out the first block leaves a chain that begins at its link.
LEMMA ChainShrinks ==
    ASSUME NEW free \in SUBSET Nat, NEW first, NEW blocks, first # None,
           Chained(free, first, blocks), free \subseteq DOMAIN blocks, NEW order
    PROVE  Chained(free \ {first}, blocks[first], [blocks EXCEPT ![first] = order])
<1>1. PICK n, f : IsChain(n, f, free, first, blocks)
  BY DEF Chained
<1> DEFINE rest == free \ {first}
           g == [i \in 1 .. n - 1 |-> f[i]]
           after == [blocks EXCEPT ![first] = order]
<1>2. /\ n \in Nat /\ n # 0 /\ first = f[n]
      /\ f \in [1 .. n -> free]
      /\ \A i, j \in 1 .. n : f[i] = f[j] => i = j
      /\ \A b \in free : \E i \in 1 .. n : f[i] = b
      /\ \A i \in 1 .. n : blocks[f[i]] = IF i = 1 THEN None ELSE f[i - 1]
  BY <1>1 DEF IsChain
<1>3. n \in 1 .. n /\ n - 1 \in Nat /\ \A i \in 1 .. n - 1 : i \in 1 .. n /\ i # n
  BY <1>2
<1>4. g \in [1 .. n - 1 -> rest] /\ \A i \in 1 .. n - 1 : g[i] = f[i] /\ f[i] \in rest
  BY <1>2, <1>3
<1>5. \A i, j \in 1 .. n - 1 : g[i] = g[j] => i = j
  BY <1>2, <1>3, <1>4
<1>6. \A b \in rest : \E i \in 1 .. n - 1 : g[i] = b
  <2> SUFFICES ASSUME NEW b \in rest
               PROVE  \E i \in 1 .. n - 1 : g[i] = b
    OBVIOUS
  <2>1. PICK i \in 1 .. n : f[i] = b
    BY <1>2
  <2>2. i # n
    BY <1>2, <2>1
  <2>3. i \in 1 .. n - 1
    BY <1>2, <2>2
  <2> QED
    BY <1>4, <2>1, <2>3
<1>7. blocks[first] = IF n - 1 = 0 THEN None ELSE g[n - 1]
  <2>1. blocks[first] = IF n = 1 THEN None ELSE f[n - 1]
    BY <1>2, <1>3
  <2>2. n # 1 => n - 1 \in 1 .. n - 1
    BY <1>2
  <2> QED
    BY <1>2, <1>4, <2>1, <2>2
<1>8. \A i \in 1 .. n - 1 : after[g[i]] = IF i = 1 THEN None ELSE g[i - 1]
  <2> SUFFICES ASSUME NEW i \in 1 .. n - 1
               PROVE  after[g[i]] = IF i = 1 THEN None ELSE g[i - 1]
    OBVIOUS
  <2>1. after[f[i]] = blocks[f[i]]
    BY <1>4
  <2>2. blocks[f[i]] = IF i = 1 THEN None ELSE f[i - 1]
    BY <1>2, <1>3
  <2>3. i # 1 => i - 1 \in 1 .. n - 1
    BY <1>2
  <2> QED
    BY <1>4, <2>1, <2>2, <2>3
<1> HIDE DEF g, after, rest
<1>9. IsChain(n - 1, g, rest, blocks[first], after)
  BY <1>3, <1>4, <1>5, <1>6, <1>7, <1>8 DEF IsChain
<1> QED
  BY <1>9 DEF Chained, rest, after

\* Linking a block in ahead of a chain makes a chain of one block more.
LEMMA ChainGrows ==
    ASSUME NEW free \in SUBSET Nat, NEW first, NEW blocks,
           Chained(free, first, blocks), free \subseteq DOMAIN blocks,
           NEW b \in DOMAIN blocks, b \notin free, b \in Nat
    PROVE  Chained(free \cup {b}, b, [blocks EXCEPT ![b] = first])
<1>1. PICK n, f : IsChain(n, f, free, first, blocks)
  BY DEF Chained
<1> DEFINE more == free \cup {b}
           m == n + 1
           g == [i \in 1 .. m |-> IF i = m THEN b ELSE f[i]]
           after == [blocks EXCEPT ![b] = first]
<1>2. /\ n \in Nat
      /\ f \in [1 .. n -> free]
      /\ \A i, j \in 1 .. n : f[i] = f[j] => i = j
      /\ \A c \in free : \E i \in 1 .. n : f[i] = c
      /\ first = IF n = 0 THEN None ELSE f[n]
      /\ \A i \in 1 .. n : blocks[f[i]] = IF i = 1 THEN None ELSE f[i - 1]
  BY <1>1 DEF IsChain
<1>3. /\ m \in Nat /\ m # 0 /\ m \in 1 .. m
      /\ \A i \in 1 .. n : i \in 1 .. m /\ i # m
      /\ \A i \in 1 .. m : i = m \/ i \in 1 .. n
  BY <1>2
<1>4. g[m] = b /\ \A i \in 1 .. n : g[i] = f[i] /\ f[i] \in free /\ f[i] # b
  BY <1>2, <1>3
<1>5. g \in [1 .. m -> more]
  BY <1>2, <1>3
<1> HIDE DEF g, m
<1>6. \A i, j \in 1 .. m : g[i] = g[j] => i = j
  BY <1>2, <1>3, <1>4
<1>7. \A c \in more : \E i \in 1 .. m : g[i] = c
  BY <1>2, <1>3, <1>4
<1>8. after[b] = first /\ \A c \in free : after[c] = blocks[c]
  OBVIOUS
<1>9. \A i \in 1 .. m : after[g[i]] = IF i = 1 THEN None ELSE g[i - 1]
  <2> SUFFICES ASSUME NEW i \in 1 .. m
               PROVE  after[g[i]] = IF i = 1 THEN None ELSE g[i - 1]
    OBVIOUS
  <2>1. CASE i = m
    <3>1. after[g[i]] = first /\ i - 1 = n
      BY <1>2, <1>4, <1>8, <2>1 DEF m
    <3>2. n # 0 => n \in 1 .. n
      BY <1>2
    <3> QED
      BY <1>2, <1>4, <2>1, <3>1, <3>2 DEF m
  <2>2. CASE i # m
    <3>1. i \in 1 .. n
      BY <1>3, <2>2
    <3>2. after[g[i]] = IF i = 1 THEN None ELSE f[i - 1]
      BY <1>2, <1>4, <1>8, <3>1
    <3>3. i # 1 => i - 1 \in 1 .. n
      BY <1>2, <3>1
    <3> QED
      BY <1>4, <3>2, <3>3
  <2> QED
    BY <2>1, <2>2
<1> HIDE DEF after, more
<1>10. IsChain(m, g, more, b, after)
  BY <1>3, <1>4, <1>5, <1>6, <1>7, <1>9 DEF IsChain
<1> QED
  BY <1>10 DEF Chained, more, after

\* A new slab is threaded into a chain of all its blocks.
LEMMA SlabIsChained ==
    ASSUME NEW start \in Nat, NEW size \in Nat \ {0}, NEW blocks,
           \A b \in SlabAt(start, size) : blocks[b] = Threaded(start, size)[b]
    PROVE  Chained(SlabAt(start, size), start, blocks)
<1> DEFINE slab == SlabAt(start, size)
           f == [i \in 1 .. size |-> start + size - i]
<1>1. slab = start .. (start + size - 1)
  BY DEF SlabAt
<1>2. f \in [1 .. size -> slab] /\ \A i \in 1 .. size : f[i] = start + size - i /\ f[i] \in slab
  BY <1>1
<1>3. \A i, j \in 1 .. size : f[i] = f[j] => i = j
  BY <1>2
<1>4. \A b \in slab : \E i \in 1 .. size : f[i] = b
  <2> SUFFICES ASSUME NEW b \in slab
               PROVE  \E i \in 1 .. size : f[i] = b
    OBVIOUS
  <2>1. start + size - b \in 1 .. size /\ start + size - (start + size - b) = b
    BY <1>1
  <2> QED
    BY <1>2, <2>1
<1>5. start = IF size = 0 THEN None ELSE f[size]
  <2>1. size \in 1 .. size /\ start + size - size = start
    OBVIOUS
  <2> QED
    BY <1>2, <2>1
<1>6. \A i \in 1 .. size : blocks[f[i]] = IF i = 1 THEN None ELSE f[i - 1]
  <2> SUFFICES ASSUME NEW i \in 1 .. size
               PROVE  blocks[f[i]] = IF i = 1 THEN None ELSE f[i - 1]
    OBVIOUS
  <2>1. blocks[f[i]] = IF f[i] = start + size - 1 THEN None ELSE f[i] + 1
    BY <1>2 DEF Threaded
  <2>2. i # 1 => i - 1 \in 1 .. size /\ start + size - (i - 1) = (start + size - i) + 1
    OBVIOUS
  <2>3. start + size - i = start + size - 1 <=> i = 1
    OBVIOUS
  <2> QED
    BY <1>2, <2>1, <2>2, <2>3
<1> HIDE DEF f, slab
<1>7. IsChain(size, f, slab, start, blocks)
  BY <1>2, <1>3, <1>4, <1>5, <1>6 DEF IsChain
<1> QED
  BY <1>7 DEF Chained, slab

\* What is written to other blocks does not matter to a chain.
LEMMA ChainStays ==
    ASSUME NEW free, NEW first, NEW blocks, NEW after,
           Chained(free, first, blocks), \A b \in free : after[b] = blocks[b]
    PROVE  Chained(free, first, after)
<1>1. PICK n, f : IsChain(n, f, free, first, blocks)
  BY DEF Chained
<1>2. \A i \in 1 .. n : f[i] \in free
  BY <1>1 DEF IsChain
<1>3. IsChain(n, f, free, first, after)
  BY <1>1, <1>2 DEF IsChain
<1> QED
  BY <1>3 DEF Chained

-----------------------------------------------------------------------------
(* The inductive invariant *)

\* What the destructor and the next allocation rely on.
Whole ==
    /\ DOMAIN memory = SlabAt(0, acquired)
    /\ Pooled \subseteq DOMAIN memory
    /\ DOMAIN owned \subseteq Pooled
    /\ Chained(Free, firstFree, memory)
    /\ currentlyAllocated = Cardinality(DOMAIN owned)
    /\ IsFiniteSet(Pooled)
    /\ totalElements = Cardinality(Pooled)

PInv ==
    /\ TypeOK
    /\ acquired <= MaxElements
    /\ IsFiniteSet(DOMAIN owned)
    /\ OrdersIntact
    /\ alive => Whole

LEMMA InitPInv == Init => PInv
<1> SUFFICES ASSUME Init
             PROVE  PInv
  OBVIOUS
<1> USE SizeIsPositive, BoundLeavesRoom
<1>1. DOMAIN owned = {} /\ IsFiniteSet({}) /\ Cardinality({}) = 0
  BY FS_EmptySet DEF Init
<1>2. SlabAt(0, InitialSize) = 0 .. (InitialSize - 1)
  BY DEF SlabAt
<1>3. memory = Threaded(0, InitialSize) /\ DOMAIN memory = SlabAt(0, InitialSize)
  BY DEF Init, Threaded
<1>4. slabs = <<SlabAt(0, InitialSize)>> /\ Pooled = SlabAt(0, InitialSize)
  <2>1. slabs = <<SlabAt(0, InitialSize)>>
    BY DEF Init
  <2>2. DOMAIN slabs = {1} /\ slabs[1] = SlabAt(0, InitialSize)
    BY <2>1
  <2> QED
    BY <2>1, <2>2 DEF Pooled
<1>5. IsFiniteSet(Pooled) /\ Cardinality(Pooled) = InitialSize
  BY <1>2, <1>4, FS_Interval
<1>6. \A b \in DOMAIN memory : memory[b] \in Nat \cup {None}
  BY <1>2, <1>3 DEF Threaded
<1>7. TypeOK
  <2>1. slabs \in Seq(SUBSET Nat)
    BY <1>2, <1>4
  <2> QED
    BY <1>1, <1>2, <1>3, <1>6, <2>1 DEF Init, TypeOK
<1>8. Chained(Free, firstFree, memory)
  <2>1. Chained(SlabAt(0, InitialSize), 0, memory)
    BY <1>3, SlabIsChained
  <2>2. Free = SlabAt(0, InitialSize) /\ firstFree = 0
    BY <1>1, <1>4 DEF Free, Init
  <2> QED
    BY <2>1, <2>2
<1> QED
  BY <1>1, <1>3, <1>4, <1>5, <1>7, <1>8 DEF Init, PInv, Whole, OrdersIntact

\* The sizes of a new slab and of what the pool acquires it with.
LEMMA NewSlabFacts ==
    ASSUME PInv, alive, AcquireSlab
    PROVE  /\ NewSlab \in SUBSET Nat /\ acquired \in NewSlab
           /\ NewSlab \cap DOMAIN memory = {}
           /\ IsFiniteSet(NewSlab) /\ Cardinality(NewSlab) = totalElements
           /\ acquired' = acquired + totalElements /\ acquired' <= MaxElements
           /\ DOMAIN Grown = DOMAIN memory \cup NewSlab
           /\ DOMAIN Grown = SlabAt(0, acquired')
           /\ \A b \in NewSlab : /\ Grown[b] = Threaded(acquired, totalElements)[b]
                                 /\ Grown[b] \in Nat \cup {None}
           /\ \A b \in DOMAIN memory : Grown[b] = memory[b]
<1>1. /\ acquired \in Nat /\ totalElements \in Nat \ {0} /\ MaxElements \in Nat
      /\ DOMAIN memory = SlabAt(0, acquired)
  BY BoundLeavesRoom DEF PInv, TypeOK, Whole
<1>2. /\ NewSlab = acquired .. (acquired + totalElements - 1)
      /\ DOMAIN memory = 0 .. (acquired - 1)
  BY <1>1 DEF NewSlab, SlabAt
<1>3. NewSlab \in SUBSET Nat /\ acquired \in NewSlab /\ NewSlab \cap DOMAIN memory = {}
  BY <1>1, <1>2
<1>4. IsFiniteSet(NewSlab) /\ Cardinality(NewSlab) = totalElements
  BY <1>1, <1>2, FS_Interval
<1>5. acquired' = acquired + totalElements /\ acquired' <= MaxElements
  BY DEF AcquireSlab
<1>6. DOMAIN Grown = DOMAIN memory \cup NewSlab
  BY DEF Grown
<1>7. DOMAIN Grown = SlabAt(0, acquired')
  BY <1>1, <1>2, <1>5, <1>6 DEF SlabAt
<1>8. \A b \in NewSlab : Grown[b] = Threaded(acquired, totalElements)[b]
  BY DEF Grown
<1>9. \A b \in NewSlab : Threaded(acquired, totalElements)[b] \in Nat \cup {None}
  BY <1>1, <1>2 DEF Threaded, NewSlab
<1>10. \A b \in DOMAIN memory : Grown[b] = memory[b]
  BY <1>3 DEF Grown
<1> QED
  BY <1>3, <1>4, <1>5, <1>6, <1>7, <1>8, <1>9, <1>10

LEMMA AllocateFreeKeepsPInv ==
    ASSUME PInv, AllocateFree
    PROVE  PInv'
<1> USE DEF PInv, Whole
<1>1. alive /\ firstFree # None /\ alive' = alive
      /\ UNCHANGED <<totalElements, slabs, acquired>>
  BY DEF AllocateFree, TakeFirst
<1>2. PICK order \in Orders : TakeFirst(memory, firstFree, order)
  BY DEF AllocateFree
<1>3. Free \in SUBSET Nat /\ Free \subseteq DOMAIN memory
  BY <1>1 DEF Free, TypeOK
<1>4. firstFree \in Free /\ firstFree \in DOMAIN memory /\ firstFree \notin DOMAIN owned
      /\ firstFree \in Pooled /\ firstFree \in Nat
  BY <1>1, <1>3, ChainEnds DEF Free
<1>5. /\ firstFree' = memory[firstFree]
      /\ memory' = [memory EXCEPT ![firstFree] = order]
      /\ currentlyAllocated' = currentlyAllocated + 1
      /\ owned' = OwnedWith(firstFree, order)
  BY <1>2 DEF TakeFirst
<1>6. /\ DOMAIN owned' = DOMAIN owned \cup {firstFree}
      /\ owned'[firstFree] = order
      /\ \A b \in DOMAIN owned : owned'[b] = owned[b] /\ b # firstFree
  BY <1>4, <1>5 DEF OwnedWith
<1>7. /\ DOMAIN memory' = DOMAIN memory
      /\ memory'[firstFree] = order
      /\ \A b \in DOMAIN memory : b # firstFree => memory'[b] = memory[b]
  BY <1>4, <1>5
<1>8. Pooled' = Pooled
  BY <1>1 DEF Pooled
<1>9. Free' = Free \ {firstFree}
  BY <1>6, <1>8 DEF Free
<1>10. Chained(Free', firstFree', memory')
  <2>1. Chained(Free \ {firstFree}, memory[firstFree], [memory EXCEPT ![firstFree] = order])
    BY <1>1, <1>3, ChainShrinks
  <2> QED
    BY <1>5, <1>9, <2>1
<1>11. firstFree' \in Nat \cup {None}
  BY <1>3, <1>9, <1>10, ChainEnds
<1>12. IsFiniteSet(DOMAIN owned') /\ Cardinality(DOMAIN owned') = currentlyAllocated'
  <2>1. IsFiniteSet(DOMAIN owned) /\ Cardinality(DOMAIN owned) = currentlyAllocated
    BY <1>1
  <2>2. /\ IsFiniteSet(DOMAIN owned \cup {firstFree})
        /\ Cardinality(DOMAIN owned \cup {firstFree}) = currentlyAllocated + 1
    BY <1>4, <2>1, FS_AddElement
  <2> QED
    BY <1>5, <1>6, <2>2
<1>13. TypeOK'
  <2>1. \A b \in DOMAIN memory' : memory'[b] \in Orders \cup Nat \cup {None}
    BY <1>7 DEF TypeOK
  <2>2. \A b \in DOMAIN owned' : owned'[b] \in Orders
    BY <1>6 DEF TypeOK
  <2>3. DOMAIN memory' \subseteq Nat /\ DOMAIN owned' \subseteq Nat
    BY <1>4, <1>6, <1>7 DEF TypeOK
  <2>4. currentlyAllocated' \in Nat
    BY <1>5 DEF TypeOK
  <2> QED
    BY <1>1, <1>11, <2>1, <2>2, <2>3, <2>4 DEF TypeOK
<1>14. OrdersIntact'
  <2>1. \A b \in DOMAIN owned : b \in DOMAIN memory /\ memory[b] = owned[b]
    BY DEF OrdersIntact
  <2>2. \A b \in DOMAIN owned : /\ b \in DOMAIN memory' /\ memory'[b] = owned'[b]
    BY <1>6, <1>7, <2>1
  <2>3. firstFree \in DOMAIN memory' /\ memory'[firstFree] = owned'[firstFree]
    BY <1>4, <1>6, <1>7
  <2> QED
    BY ONLY <1>6, <2>2, <2>3 DEF OrdersIntact
<1> QED
  BY <1>1, <1>4, <1>6, <1>7, <1>8, <1>10, <1>12, <1>13, <1>14

\* An allocation that grows the pool touches no order: nothing was free, and
\* the new slab is threaded outside what there is.
LEMMA AllocateGrowingKeepsPInv ==
    ASSUME PInv, AllocateGrowing
    PROVE  PInv'
<1> USE DEF PInv, Whole
<1>1. alive /\ firstFree = None /\ alive' = alive /\ AcquireSlab
  BY DEF AllocateGrowing, TakeFirst
<1>2. PICK order \in Orders : TakeFirst(Grown, acquired, order)
  BY DEF AllocateGrowing
<1>3. Free = {} /\ Pooled = DOMAIN owned
  <2>1. Free \in SUBSET Nat
    BY <1>1 DEF Free, TypeOK
  <2> QED
    BY <1>1, <2>1, ChainEnds DEF Free
<1>4. /\ NewSlab \in SUBSET Nat /\ acquired \in NewSlab
      /\ NewSlab \cap DOMAIN memory = {}
      /\ IsFiniteSet(NewSlab) /\ Cardinality(NewSlab) = totalElements
      /\ acquired' = acquired + totalElements /\ acquired' <= MaxElements
      /\ DOMAIN Grown = DOMAIN memory \cup NewSlab
      /\ DOMAIN Grown = SlabAt(0, acquired')
      /\ \A b \in NewSlab : /\ Grown[b] = Threaded(acquired, totalElements)[b]
                            /\ Grown[b] \in Nat \cup {None}
      /\ \A b \in DOMAIN memory : Grown[b] = memory[b]
  BY <1>1, NewSlabFacts
<1>5. /\ firstFree' = Grown[acquired]
      /\ memory' = [Grown EXCEPT ![acquired] = order]
      /\ currentlyAllocated' = currentlyAllocated + 1
      /\ owned' = OwnedWith(acquired, order)
  BY <1>2 DEF TakeFirst
<1>6. acquired \notin DOMAIN owned /\ acquired \notin Pooled
  BY <1>1, <1>3, <1>4
<1>7. /\ DOMAIN owned' = DOMAIN owned \cup {acquired}
      /\ owned'[acquired] = order
      /\ \A b \in DOMAIN owned : owned'[b] = owned[b] /\ b # acquired
  BY <1>5, <1>6 DEF OwnedWith
<1>8. /\ DOMAIN memory' = DOMAIN Grown
      /\ memory'[acquired] = order
      /\ \A b \in DOMAIN Grown : b # acquired => memory'[b] = Grown[b]
  BY <1>4, <1>5
<1>9. slabs' \in Seq(SUBSET Nat) /\ Pooled' = Pooled \cup NewSlab
  <2>1. slabs \in Seq(SUBSET Nat) /\ slabs' = Append(slabs, NewSlab)
    BY DEF AllocateGrowing, Remembered, TypeOK
  <2>2. /\ slabs' \in Seq(SUBSET Nat)
        /\ Len(slabs') = Len(slabs) + 1
        /\ \A i \in 1 .. Len(slabs) : slabs'[i] = slabs[i]
        /\ slabs'[Len(slabs) + 1] = NewSlab
    BY <1>4, <2>1, AppendProperties
  <2>3. DOMAIN slabs = 1 .. Len(slabs) /\ DOMAIN slabs' = 1 .. Len(slabs')
        /\ Len(slabs) \in Nat
    BY <2>1, <2>2
  <2>4. \A i \in DOMAIN slabs' : i \in DOMAIN slabs \/ i = Len(slabs) + 1
    BY <2>2, <2>3
  <2>5. \A i \in DOMAIN slabs : i \in DOMAIN slabs' /\ slabs'[i] = slabs[i]
    BY <2>2, <2>3
  <2>6. Len(slabs) + 1 \in DOMAIN slabs'
    BY <2>2, <2>3
  <2> QED
    BY <2>2, <2>4, <2>5, <2>6 DEF Pooled
<1>10. Free' = NewSlab \ {acquired}
  BY <1>1, <1>3, <1>4, <1>7, <1>9 DEF Free
<1>11. Chained(Free', firstFree', memory')
  <2>1. Chained(NewSlab, acquired, Grown)
    BY <1>4, SlabIsChained DEF NewSlab, TypeOK
  <2>2. acquired # None /\ NewSlab \subseteq DOMAIN Grown
    BY <1>4, OrdersAreNoLinks
  <2>3. Chained(NewSlab \ {acquired}, Grown[acquired], [Grown EXCEPT ![acquired] = order])
    BY <1>4, <2>1, <2>2, ChainShrinks
  <2> QED
    BY <1>5, <1>10, <2>3
<1>12. IsFiniteSet(DOMAIN owned') /\ Cardinality(DOMAIN owned') = currentlyAllocated'
  BY <1>1, <1>5, <1>6, <1>7, FS_AddElement
<1>13. IsFiniteSet(Pooled') /\ Cardinality(Pooled') = totalElements'
  <2>1. Pooled \cap NewSlab = {}
    BY <1>1, <1>4
  <2>2. /\ IsFiniteSet(Pooled \cup NewSlab)
        /\ Cardinality(Pooled \cup NewSlab) =
              Cardinality(Pooled) + Cardinality(NewSlab) - Cardinality(Pooled \cap NewSlab)
    BY <1>1, <1>4, FS_Union
  <2>3. Cardinality(Pooled \cap NewSlab) = 0
    BY <2>1, FS_EmptySet
  <2>4. totalElements' = 2 * totalElements /\ totalElements \in Nat
    BY DEF AllocateGrowing, Doubled, TypeOK
  <2> QED
    BY <1>1, <1>4, <1>9, <2>2, <2>3, <2>4
<1>14. TypeOK'
  <2>1. firstFree' \in Nat \cup {None}
    BY <1>4, <1>5
  <2>2. totalElements' \in Nat \ {0} /\ acquired' \in Nat /\ currentlyAllocated' \in Nat
    BY <1>4, <1>5 DEF AllocateGrowing, Doubled, TypeOK
  <2>3. DOMAIN memory' \subseteq Nat /\ DOMAIN owned' \subseteq Nat
    BY <1>4, <1>7, <1>8 DEF TypeOK
  <2>4. \A b \in DOMAIN memory' : memory'[b] \in Orders \cup Nat \cup {None}
    BY <1>4, <1>8 DEF TypeOK
  <2>5. \A b \in DOMAIN owned' : owned'[b] \in Orders
    BY <1>7 DEF TypeOK
  <2> QED
    BY <1>1, <1>9, <2>1, <2>2, <2>3, <2>4, <2>5 DEF TypeOK
<1>15. OrdersIntact'
  BY <1>4, <1>7, <1>8 DEF OrdersIntact
<1> QED
  BY <1>1, <1>4, <1>7, <1>8, <1>9, <1>11, <1>12, <1>13, <1>14, <1>15

\* A slab that is lost because the vector could not grow disturbs nothing.
LEMMA AllocateThrowingKeepsPInv ==
    ASSUME PInv, AllocateThrowing
    PROVE  PInv'
<1> USE DEF PInv, Whole
<1>1. /\ alive /\ firstFree = None /\ AcquireSlab /\ memory' = Grown
      /\ UNCHANGED <<alive, totalElements, currentlyAllocated, firstFree, slabs, owned>>
  BY DEF AllocateThrowing
<1>2. /\ NewSlab \in SUBSET Nat
      /\ acquired' = acquired + totalElements /\ acquired' <= MaxElements
      /\ DOMAIN Grown = DOMAIN memory \cup NewSlab
      /\ DOMAIN Grown = SlabAt(0, acquired')
      /\ \A b \in NewSlab : Grown[b] \in Nat \cup {None}
      /\ \A b \in DOMAIN memory : Grown[b] = memory[b]
  BY <1>1, NewSlabFacts
<1>3. Pooled' = Pooled /\ Free' = Free
  BY <1>1 DEF Pooled, Free
<1>4. Chained(Free', firstFree', memory')
  <2>1. \A b \in Free : memory'[b] = memory[b]
    BY <1>1, <1>2 DEF Free
  <2> QED
    BY <1>1, <1>3, <2>1, ChainStays
<1>5. TypeOK'
  <2>1. DOMAIN memory' \subseteq Nat /\ acquired' \in Nat
    <3>1. /\ DOMAIN memory \subseteq Nat /\ NewSlab \subseteq Nat
          /\ DOMAIN memory' = DOMAIN memory \cup NewSlab
      BY <1>1, <1>2 DEF TypeOK
    <3>2. acquired \in Nat /\ totalElements \in Nat /\ acquired' = acquired + totalElements
      BY <1>2 DEF TypeOK
    <3>3. acquired' \in Nat
      BY ONLY <3>2
    <3> QED
      BY ONLY <3>1, <3>3
  <2>2. \A b \in DOMAIN memory' : memory'[b] \in Orders \cup Nat \cup {None}
    BY <1>1, <1>2 DEF TypeOK
  <2> QED
    BY <1>1, <2>1, <2>2 DEF TypeOK
<1>6. OrdersIntact'
  <2>1. \A b \in DOMAIN owned : b \in DOMAIN memory /\ memory[b] = owned[b]
    BY DEF OrdersIntact
  <2>2. \A b \in DOMAIN owned : b \in DOMAIN Grown /\ Grown[b] = owned[b]
    BY ONLY <1>2, <2>1
  <2>3. owned' = owned /\ memory' = Grown
    BY <1>1
  <2>4. \A b \in DOMAIN owned' : b \in DOMAIN memory' /\ memory'[b] = owned'[b]
    BY ONLY <2>2, <2>3
  <2> QED
    BY ONLY <2>4 DEF OrdersIntact
<1> QED
  BY <1>1, <1>2, <1>3, <1>4, <1>5, <1>6

LEMMA UpdateKeepsPInv ==
    ASSUME PInv, Update
    PROVE  PInv'
<1> USE DEF PInv, Whole
<1>1. alive /\ UNCHANGED <<alive, totalElements, currentlyAllocated, firstFree, slabs, acquired>>
  BY DEF Update
<1>2. PICK b \in DOMAIN owned, order \in Orders :
         /\ memory' = [memory EXCEPT ![b] = order]
         /\ owned' = [owned EXCEPT ![b] = order]
  BY DEF Update
<1>3. /\ DOMAIN owned' = DOMAIN owned /\ DOMAIN memory' = DOMAIN memory
      /\ b \in DOMAIN memory
      /\ owned'[b] = order /\ memory'[b] = order
      /\ \A c \in DOMAIN owned : c # b => owned'[c] = owned[c]
      /\ \A c \in DOMAIN memory : c # b => memory'[c] = memory[c]
  BY <1>2 DEF OrdersIntact
<1>4. Pooled' = Pooled /\ Free' = Free
  BY <1>1, <1>3 DEF Pooled, Free
<1>5. Chained(Free', firstFree', memory')
  <2>1. \A c \in Free : memory'[c] = memory[c]
    BY <1>1, <1>3 DEF Free
  <2> QED
    BY <1>1, <1>4, <2>1, ChainStays
<1>6. TypeOK'
  BY <1>1, <1>3 DEF TypeOK
<1>7. OrdersIntact'
  BY <1>3 DEF OrdersIntact
<1> QED
  BY <1>1, <1>3, <1>4, <1>5, <1>6, <1>7

LEMMA DeallocateKeepsPInv ==
    ASSUME PInv, Deallocate
    PROVE  PInv'
<1> USE DEF PInv, Whole
<1>1. /\ alive /\ UNCHANGED <<alive, totalElements, slabs, acquired>>
      /\ currentlyAllocated' = currentlyAllocated - 1
  BY DEF Deallocate
<1>2. PICK b \in DOMAIN owned :
         /\ memory' = [memory EXCEPT ![b] = firstFree]
         /\ firstFree' = b
         /\ owned' = [c \in DOMAIN owned \ {b} |-> owned[c]]
  BY DEF Deallocate, Linked
<1>3. /\ DOMAIN owned' = DOMAIN owned \ {b} /\ DOMAIN memory' = DOMAIN memory
      /\ b \in DOMAIN memory /\ b \in Pooled /\ b \in Nat /\ b \notin Free
      /\ memory'[b] = firstFree
      /\ \A c \in DOMAIN owned' : owned'[c] = owned[c] /\ c # b
      /\ \A c \in DOMAIN memory : c # b => memory'[c] = memory[c]
  BY <1>1, <1>2 DEF TypeOK, Free
<1>4. Pooled' = Pooled
  BY <1>1 DEF Pooled
<1>5. Free' = Free \cup {b} /\ Free \in SUBSET Nat /\ Free \subseteq DOMAIN memory
  BY <1>1, <1>3, <1>4 DEF Free, TypeOK
<1>6. Chained(Free', firstFree', memory')
  <2>1. Chained(Free \cup {b}, b, [memory EXCEPT ![b] = firstFree])
    BY <1>1, <1>3, <1>5, ChainGrows
  <2> QED
    BY <1>2, <1>5, <2>1
<1>7. /\ IsFiniteSet(DOMAIN owned') /\ Cardinality(DOMAIN owned') = currentlyAllocated'
      /\ currentlyAllocated' \in Nat
  <2>1. /\ IsFiniteSet(DOMAIN owned \ {b})
        /\ Cardinality(DOMAIN owned \ {b}) = Cardinality(DOMAIN owned) - 1
    BY <1>2, FS_RemoveElement
  <2>2. Cardinality(DOMAIN owned \ {b}) \in Nat
    BY <2>1, FS_CardinalityType
  <2> QED
    BY <1>1, <1>3, <2>1, <2>2
<1>8. TypeOK'
  BY <1>1, <1>2, <1>3, <1>7 DEF TypeOK
<1>9. OrdersIntact'
  BY <1>3 DEF OrdersIntact
<1> QED
  BY <1>1, <1>3, <1>4, <1>6, <1>7, <1>8, <1>9

LEMMA DestroyKeepsPInv ==
    ASSUME PInv, Destroy
    PROVE  PInv'
<1>1. /\ alive' = FALSE
      /\ memory' = [b \in DOMAIN memory \ Pooled |-> memory[b]]
      /\ DOMAIN owned' = {}
      /\ UNCHANGED <<totalElements, currentlyAllocated, firstFree, slabs, acquired>>
  BY DEF Destroy
<1>2. IsFiniteSet(DOMAIN owned')
  BY <1>1, FS_EmptySet
<1> QED
  BY <1>1, <1>2 DEF PInv, TypeOK, OrdersIntact

LEMMA PoolStep ==
    ASSUME PInv, [Next]_vars
    PROVE  PInv'
<1>1. CASE UNCHANGED vars
  <2>1. Pooled' = Pooled /\ Free' = Free
    BY <1>1 DEF vars, Pooled, Free
  <2> QED
    BY <1>1, <2>1 DEF vars, PInv, Whole, TypeOK, OrdersIntact
<1> QED
  BY <1>1, AllocateFreeKeepsPInv, AllocateGrowingKeepsPInv, AllocateThrowingKeepsPInv,
     UpdateKeepsPInv, DeallocateKeepsPInv, DestroyKeepsPInv DEF Next

LEMMA PInvHolds == Spec => []PInv
<1>1. PInv /\ [Next]_vars => PInv'
  BY PoolStep
<1> QED
  BY InitPInv, <1>1, PTL DEF Spec

-----------------------------------------------------------------------------
(* The theorems *)

\* The counters never go below zero and the links always lead to a block or
\* nowhere, whatever is allocated and given back in whatever order.
THEOREM PoolTypeCorrect == Spec => []TypeOK
<1>1. PInv => TypeOK
  BY DEF PInv
<1> QED
  BY PInvHolds, <1>1, PTL

\* allocate and deallocate never write to the block of an order that is in
\* use, not even when the pool grows.
THEOREM PoolKeepsOrders == Spec => []OrdersIntact
<1>1. PInv => OrdersIntact
  BY DEF PInv
<1> QED
  BY PInvHolds, <1>1, PTL

\* get_currently_allocated and get_total_elements tell the truth.
THEOREM PoolCountersAgree == Spec => []CountersAgree
<1>1. PInv => CountersAgree
  BY DEF PInv, Whole, CountersAgree
<1> QED
  BY PInvHolds, <1>1, PTL

\* A block given back is used again before memory is acquired.
THEOREM PoolReuses == Spec => ReusesBeforeGrowing
<1>1. ASSUME PInv, [Next]_vars, acquired' # acquired
      PROVE  Pooled \subseteq DOMAIN owned
  <2>1. alive /\ firstFree = None
    BY <1>1 DEF Next, vars, AllocateFree, AllocateGrowing, AllocateThrowing, Update,
                Deallocate, Destroy
  <2>2. Free \in SUBSET Nat
    BY <1>1, <2>1 DEF PInv, Whole, TypeOK, Free
  <2>3. Free = {}
    BY <1>1, <2>1, <2>2, ChainEnds DEF PInv, Whole
  <2> QED
    BY <2>3 DEF Free
<1>2. PInv /\ [Next]_vars => [acquired' # acquired => Pooled \subseteq DOMAIN owned]_vars
  BY <1>1
<1> QED
  BY PInvHolds, <1>2, PTL DEF Spec, ReusesBeforeGrowing

\* The numbers below n.
LEMMA BelowIsCounted ==
    ASSUME NEW n \in Nat
    PROVE  IsFiniteSet(0 .. (n - 1)) /\ Cardinality(0 .. (n - 1)) = n
<1>1. /\ IsFiniteSet(0 .. (n - 1))
      /\ Cardinality(0 .. (n - 1)) = IF 0 > n - 1 THEN 0 ELSE (n - 1) - 0 + 1
  BY FS_Interval
<1> QED
  BY <1>1

\* What FreeChain looks up: where so many links lead to.
LeadsTo(g) ==
    g = [n \in 0 .. acquired |->
            IF n = 0 THEN firstFree
            ELSE IF g[n - 1] \in DOMAIN memory THEN memory[g[n - 1]] ELSE None]

\* There is one such function at most: two of them have no first difference.
LEMMA LeadsToOnce ==
    ASSUME acquired \in Nat, NEW g, NEW h, LeadsTo(g), LeadsTo(h)
    PROVE  g = h
<1> DEFINE D == 0 .. acquired
           step(f, n) == IF n = 0 THEN firstFree
                         ELSE IF f[n - 1] \in DOMAIN memory THEN memory[f[n - 1]] ELSE None
           bad == {n \in D : g[n] # h[n]}
<1>1. /\ \A n \in D : g[n] = step(g, n) /\ h[n] = step(h, n)
      /\ g = [n \in D |-> g[n]] /\ h = [n \in D |-> h[n]]
  BY DEF LeadsTo
<1>2. SUFFICES ASSUME bad # {} PROVE FALSE
  <2> HIDE DEF step
  <2> QED BY <1>1
<1>3. PICK n \in bad : \A m \in bad : ~(<<m, n>> \in OpToRel(<, Nat))
  <2>1. bad \subseteq Nat
    OBVIOUS
  <2> HIDE DEF bad
  <2> QED BY <1>2, <2>1, NatLessThanWellFounded, WFMin
<1>4. n # 0
  BY <1>1
<1>5. n - 1 \in D /\ n \in D /\ n \in Nat /\ n - 1 \in Nat
  BY <1>4
<1>6. n - 1 \notin bad
  <2> HIDE DEF bad
  <2>1. <<n - 1, n>> \in OpToRel(<, Nat)
    BY <1>5 DEF OpToRel
  <2> QED
    BY <1>3, <2>1
<1>7. g[n - 1] = h[n - 1]
  BY <1>5, <1>6
<1> QED
  BY <1>1, <1>5, <1>7

\* Following the links from firstFree_ meets the chain, and then nothing.
LEMMA ChainIsFollowed ==
    ASSUME PInv, alive
    PROVE  FreeChainIsExact
<1>1. /\ acquired \in Nat /\ DOMAIN memory = 0 .. (acquired - 1) /\ Free \subseteq DOMAIN memory
      /\ Chained(Free, firstFree, memory)
  BY DEF PInv, TypeOK, Whole, SlabAt, Free
<1>2. PICK n, f : IsChain(n, f, Free, firstFree, memory)
  BY <1>1 DEF Chained
<1>3. /\ n \in Nat /\ f \in [1 .. n -> Free]
      /\ \A i, j \in 1 .. n : f[i] = f[j] => i = j
      /\ \A b \in Free : \E i \in 1 .. n : f[i] = b
      /\ firstFree = IF n = 0 THEN None ELSE f[n]
      /\ \A i \in 1 .. n : memory[f[i]] = IF i = 1 THEN None ELSE f[i - 1]
  BY <1>2 DEF IsChain
<1>4. Cardinality(Free) = n
  <2>1. ExistsBijection(1 .. n, Free)
    BY <1>3 DEF ExistsBijection, Bijection, Injection, Surjection, IsInjective
  <2> QED
    BY <1>3, <2>1, FS_CountingElements
<1>5. n <= acquired
  <2>1. IsFiniteSet(0 .. (acquired - 1)) /\ Cardinality(0 .. (acquired - 1)) = acquired
    BY <1>1, BelowIsCounted
  <2> QED
    BY <1>1, <1>4, <2>1, FS_Subset
<1>6. \A i \in 1 .. n : f[i] \in Free /\ f[i] \in DOMAIN memory
  BY <1>1, <1>3
<1>7. None \notin DOMAIN memory
  BY <1>1, OrdersAreNoLinks
<1> DEFINE w == [m \in 0 .. acquired |-> IF m < n THEN f[n - m] ELSE None]
<1>8. LeadsTo(w)
  <2> SUFFICES ASSUME NEW m \in 0 .. acquired
               PROVE  w[m] = IF m = 0 THEN firstFree
                             ELSE IF w[m - 1] \in DOMAIN memory THEN memory[w[m - 1]] ELSE None
    BY DEF LeadsTo
  <2>0. w[m] = IF m < n THEN f[n - m] ELSE None
    OBVIOUS
  <2>1. CASE m = 0
    BY <1>3, <2>0, <2>1
  <2>2. CASE m # 0
    <3>1. m - 1 \in 0 .. acquired /\ w[m - 1] = IF m - 1 < n THEN f[n - (m - 1)] ELSE None
      BY <1>1, <2>2
    <3>2. CASE m - 1 < n
      <4>1. n - (m - 1) \in 1 .. n
        BY <1>3, <2>2, <3>2
      <4>2. /\ w[m - 1] = f[n - (m - 1)] /\ f[n - (m - 1)] \in DOMAIN memory
            /\ memory[f[n - (m - 1)]] = IF n - (m - 1) = 1 THEN None ELSE f[n - (m - 1) - 1]
        BY <1>3, <1>6, <3>1, <3>2, <4>1
      <4>3. (n - (m - 1) = 1 <=> ~(m < n)) /\ n - (m - 1) - 1 = n - m
        BY <1>3, <2>2, <3>2
      <4> HIDE DEF w
      <4> QED
        BY <2>0, <2>2, <4>2, <4>3
    <3>3. CASE ~(m - 1 < n)
      <4>1. ~(m < n)
        BY <1>3, <3>3
      <4> HIDE DEF w
      <4> QED
        BY <1>7, <2>0, <2>2, <3>1, <3>3, <4>1
    <3> QED
      BY <3>2, <3>3
  <2> QED
    BY <2>1, <2>2
<1>9. FreeChain = w
  <2>1. FreeChain = CHOOSE g : LeadsTo(g)
    BY DEF FreeChain, LeadsTo
  <2> HIDE DEF w
  <2>2. LeadsTo(FreeChain)
    BY <1>8, <2>1
  <2> QED
    BY <1>1, <1>8, <2>2, LeadsToOnce
<1>10. FreeChain[n] = None
  <2>1. n \in 0 .. acquired /\ ~(n < n)
    BY <1>1, <1>3, <1>5
  <2>2. w[n] = None
    BY <2>1
  <2> HIDE DEF w
  <2> QED
    BY <1>9, <2>2
<1>11. ASSUME NEW i \in 0 .. (n - 1)
       PROVE  FreeChain[i] \in Free
  <2>1. i \in 0 .. acquired /\ i < n /\ n - i \in 1 .. n
    BY <1>1, <1>3, <1>5
  <2>2. w[i] = f[n - i]
    BY <2>1
  <2> HIDE DEF w
  <2> QED
    BY <1>6, <1>9, <2>1, <2>2
<1>12. ASSUME NEW b \in Free
       PROVE  \E i \in 0 .. (n - 1) : FreeChain[i] = b
  <2>1. PICK j \in 1 .. n : f[j] = b
    BY <1>3
  <2>2. n - j \in 0 .. (n - 1) /\ n - j \in 0 .. acquired /\ n - j < n /\ n - (n - j) = j
    BY <1>1, <1>3, <1>5
  <2>3. w[n - j] = f[j]
    BY <2>2
  <2> HIDE DEF w
  <2> QED
    BY <1>9, <2>1, <2>2, <2>3
<1>13. {FreeChain[i] : i \in 0 .. (n - 1)} = Free
  BY <1>11, <1>12
<1> QED
  BY <1>4, <1>10, <1>13 DEF FreeChainIsExact

\* When the destructor is done.
NothingLeft == ~alive /\ acquired = totalElements => DOMAIN memory = {}

\* The destructor releases every block there is, if every block was counted.
LEMMA NothingLeftKept ==
    ASSUME PInv, NothingLeft, [Next]_vars
    PROVE  NothingLeft'
<1>1. CASE Destroy
  <2>1. /\ alive /\ DOMAIN memory' = DOMAIN memory \ Pooled
        /\ UNCHANGED <<totalElements, acquired>>
    BY <1>1 DEF Destroy
  <2>2. /\ acquired \in Nat /\ DOMAIN memory = 0 .. (acquired - 1)
        /\ Pooled \subseteq DOMAIN memory /\ totalElements = Cardinality(Pooled)
    BY <2>1 DEF PInv, TypeOK, Whole, SlabAt
  <2>3. IsFiniteSet(0 .. (acquired - 1)) /\ Cardinality(0 .. (acquired - 1)) = acquired
    BY <2>2, BelowIsCounted
  <2>4. acquired = totalElements => Pooled = DOMAIN memory
    BY <2>2, <2>3, FS_Subset
  <2> QED
    BY <2>1, <2>4 DEF NothingLeft
<1>2. CASE UNCHANGED vars
  BY <1>2 DEF vars, NothingLeft
<1>3. CASE AllocateFree \/ AllocateGrowing \/ AllocateThrowing \/ Update \/ Deallocate
  <2>1. alive'
    BY <1>3 DEF AllocateFree, AllocateGrowing, AllocateThrowing, Update, Deallocate, TakeFirst
  <2> QED
    BY <2>1 DEF NothingLeft
<1> QED
  BY <1>1, <1>2, <1>3 DEF Next

\* For every size and every sequence of calls: the links lead from firstFree_
\* through every free block once and no other, and the destructor leaves
\* nothing behind, unless an exception dropped a slab before it was counted.
THEOREM PoolLosesNothing == Spec => []NothingIsLost
<1>1. PInv /\ NothingLeft => NothingIsLost
  <2>1. PInv => FreeChainIsExact
    <3>1. ~alive => FreeChainIsExact
      BY DEF FreeChainIsExact
    <3> QED
      BY <3>1, ChainIsFollowed
  <2> QED
    BY <2>1 DEF NothingIsLost, NothingLeft
<1>2. Init => NothingLeft
  BY DEF Init, NothingLeft
<1>3. PInv /\ NothingLeft /\ [Next]_vars => NothingLeft'
  BY NothingLeftKept
<1> QED
  BY PInvHolds, <1>1, <1>2, <1>3, PTL DEF Spec

\* Every behaviour of the pool is one of a set of blocks with one owner each,
\* which is all that OrderBook assumes of it.
THEOREM PoolIsBlockPool == Spec => ImplementsBlockPool
<1> DEFINE B == SlabAt(0, MaxElements)
<1>1. Init => Promise!Init
  <2> SUFFICES ASSUME Init
               PROVE  Visible = [b \in B |-> None]
    BY DEF Promise!Init
  <2>1. DOMAIN owned = {}
    BY DEF Init
  <2> QED
    BY <2>1 DEF Visible
<1>2. ASSUME PInv, PInv', Next
      PROVE  Promise!Next \/ UNCHANGED Visible
  <2> USE <1>2 DEF PInv
  <2>1. \A b \in B : Visible[b] = IF b \in DOMAIN owned THEN owned[b] ELSE None
    BY DEF Visible, OrdersIntact
  <2>2. \A b \in B : Visible'[b] = IF b \in DOMAIN owned' THEN owned'[b] ELSE None
    BY DEF Visible, OrdersIntact
  <2>3. DOMAIN owned \subseteq B \/ ~alive
    BY BoundLeavesRoom DEF Whole, SlabAt, TypeOK
  <2>4. DOMAIN owned' \subseteq B \/ ~alive'
    BY BoundLeavesRoom DEF Whole, SlabAt, TypeOK
  <2>5. /\ Visible = [b \in B |-> Visible[b]]
        /\ Visible' = [b \in B |-> Visible'[b]]
    BY DEF Visible
  <2>6. \A b \in DOMAIN owned : owned[b] \in Orders /\ owned[b] # None
    BY OrdersAreNoLinks DEF TypeOK
  <2>7. ASSUME NEW first \in Nat, NEW order \in Orders, first \notin DOMAIN owned, alive',
               owned' = OwnedWith(first, order)
        PROVE  Promise!Next
    <3>1. first \in B /\ DOMAIN owned' = DOMAIN owned \cup {first}
      BY <2>4, <2>7 DEF OwnedWith
    <3>2. Visible[first] = None /\ Visible'[first] = order
      BY <2>1, <2>2, <2>7, <3>1 DEF OwnedWith
    <3>3. \A b \in B : b # first => Visible'[b] = Visible[b]
      BY <2>1, <2>2, <2>7, <3>1 DEF OwnedWith
    <3>4. Visible' = [Visible EXCEPT ![first] = Visible'[first]]
      BY <2>5, <3>3
    <3> QED
      BY <2>7, <3>1, <3>2, <3>4 DEF Promise!Next, Promise!Allocate, Promise!Write
  <2>8. CASE AllocateFree
    <3>1. alive /\ alive' /\ firstFree # None
      BY <2>8 DEF AllocateFree, TakeFirst
    <3>2. Free \in SUBSET Nat /\ Chained(Free, firstFree, memory)
      BY <3>1 DEF Whole, TypeOK, Free
    <3>3. firstFree \in Nat /\ firstFree \notin DOMAIN owned
      BY <3>1, <3>2, ChainEnds DEF Free
    <3> QED
      BY <2>7, <2>8, <3>1, <3>3 DEF AllocateFree, TakeFirst
  <2>9. CASE AllocateGrowing
    <3>1. alive /\ alive' /\ AcquireSlab
      BY <2>9 DEF AllocateGrowing, TakeFirst
    <3>2. acquired \in Nat /\ acquired \notin DOMAIN owned
      BY <3>1, NewSlabFacts DEF Whole
    <3> QED
      BY <2>7, <2>9, <3>1, <3>2 DEF AllocateGrowing, TakeFirst
  <2>10. CASE AllocateThrowing
    <3>1. owned' = owned
      BY <2>10 DEF AllocateThrowing
    <3> QED
      BY <2>1, <2>2, <2>5, <3>1
  <2>11. CASE Update
    <3>1. PICK b \in DOMAIN owned, order \in Orders : owned' = [owned EXCEPT ![b] = order]
      BY <2>11 DEF Update
    <3>2. b \in B
      BY <2>3, <2>11 DEF Update
    <3>3. Visible[b] # None /\ Visible'[b] = order
      BY <2>1, <2>2, <2>6, <3>1, <3>2
    <3>4. \A c \in B : c # b => Visible'[c] = Visible[c]
      BY <2>1, <2>2, <3>1
    <3>5. Visible' = [Visible EXCEPT ![b] = Visible'[b]]
      BY <2>5, <3>4
    <3> QED
      BY <3>2, <3>3, <3>5 DEF Promise!Next, Promise!Update, Promise!Write
  <2>12. CASE Deallocate
    <3>1. PICK b \in DOMAIN owned : owned' = [c \in DOMAIN owned \ {b} |-> owned[c]]
      BY <2>12 DEF Deallocate
    <3>2. b \in B
      BY <2>3, <2>12 DEF Deallocate
    <3>3. Visible[b] # None /\ Visible'[b] = None
      BY <2>1, <2>2, <2>6, <3>1, <3>2
    <3>4. \A c \in B : c # b => Visible'[c] = Visible[c]
      BY <2>1, <2>2, <3>1
    <3>5. Visible' = [Visible EXCEPT ![b] = None]
      BY <2>5, <3>3, <3>4
    <3> QED
      BY <3>2, <3>3, <3>5 DEF Promise!Next, Promise!Deallocate
  <2>13. CASE Destroy
    <3>1. DOMAIN owned' = {}
      BY <2>13 DEF Destroy
    <3>2. Visible' = [b \in B |-> None]
      BY <2>2, <2>5, <3>1
    <3> QED
      BY <3>2 DEF Promise!Next, Promise!Destroy
  <2> QED
    BY <1>2, <2>8, <2>9, <2>10, <2>11, <2>12, <2>13 DEF Next
<1>3. UNCHANGED vars => UNCHANGED Visible
  BY DEF vars, Visible
<1>4. PInv /\ PInv' /\ [Next]_vars => [Promise!Next]_Visible
  BY <1>2, <1>3
<1> QED
  BY PInvHolds, <1>1, <1>4, PTL DEF Spec, ImplementsBlockPool, Promise!Spec

=============================================================================

------------------------------ MODULE BlockPool ------------------------------
(***************************************************************************)
(* What lob::core::MemoryPool promises the order book: every resting order *)
(* has a block of its own, which nothing but the owner's own calls changes. *)
(* Which free block an order gets is not promised.  OrderBook relies on     *)
(* this and MemoryPool implements it.                                       *)
(***************************************************************************)
CONSTANTS
    Blocks,      \* every block there will ever be
    Contents,    \* what a block in use may hold
    None         \* a free block

VARIABLE heap    \* what each block holds, or None

Init == heap = [b \in Blocks |-> None]

\* Only the block at b changes, and it now holds an order.
Write(b) ==
    /\ heap'[b] \in Contents
    /\ heap' = [heap EXCEPT ![b] = heap'[b]]

Allocate(b) == heap[b] = None /\ Write(b)

\* The owner changes the order it holds in place.
Update(b) == heap[b] # None /\ Write(b)

Deallocate(b) == heap[b] # None /\ heap' = [heap EXCEPT ![b] = None]

\* The destructor takes all blocks back at once.
Destroy == heap' = [b \in Blocks |-> None]

Next == Destroy \/ \E b \in Blocks : Allocate(b) \/ Update(b) \/ Deallocate(b)

Spec == Init /\ [][Next]_heap

=============================================================================

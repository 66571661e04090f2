----------------------------- MODULE FifoLevels ------------------------------
(***************************************************************************)
(* What lob::core::PriceLevel promises the order book: each level is a      *)
(* queue of resting orders that an order joins at the back and may leave    *)
(* from anywhere, and pruning a level takes its DAY orders and no others.   *)
(* OrderBook keeps its levels in this form and PriceLevel implements it.    *)
(***************************************************************************)
EXTENDS Integers, SequencesExt

CONSTANTS
    Blocks,          \* the memory blocks a RestingOrder can be placed in
    PriceLevels,     \* the levels
    Quantities,      \* the shares an order can be submitted with
    None             \* a block without an order; a level that is not pruned

VARIABLES
    heap,            \* what each block holds: quantity and lifetime, or None
    queue,           \* per level, the blocks of its orders, oldest first
    pruning          \* the level that is being pruned

vars == <<heap, queue, pruning>>

Init ==
    /\ heap = [b \in Blocks |-> None]
    /\ queue = [l \in PriceLevels |-> <<>>]
    /\ pruning = None

Queued(b) == \E l \in PriceLevels : \E i \in DOMAIN queue[l] : queue[l][i] = b

Construct ==
    /\ \E b \in Blocks, quantity \in Quantities, lifetime \in {"GTC", "DAY"} :
          /\ heap[b] = None
          /\ heap' = [heap EXCEPT ![b] = [quantity |-> quantity, lifetime |-> lifetime]]
    /\ UNCHANGED <<queue, pruning>>

Destroy ==
    /\ \E b \in Blocks :
          /\ heap[b] # None
          /\ ~Queued(b)
          /\ heap' = [heap EXCEPT ![b] = None]
    /\ UNCHANGED <<queue, pruning>>

Join ==
    /\ pruning = None
    /\ \E l \in PriceLevels, b \in Blocks :
          /\ heap[b] # None
          /\ ~Queued(b)
          /\ queue' = [queue EXCEPT ![l] = Append(@, b)]
    /\ UNCHANGED <<heap, pruning>>

\* While a level is pruned only its DAY orders leave.
Leave ==
    /\ \E l \in PriceLevels : \E i \in DOMAIN queue[l] :
          /\ pruning # None => l = pruning /\ heap[queue[l][i]].lifetime = "DAY"
          /\ queue' = [queue EXCEPT ![l] = RemoveAt(@, i)]
    /\ UNCHANGED <<heap, pruning>>

\* An order that is queued loses shares where it stands.
Shrink ==
    /\ pruning = None
    /\ \E b \in Blocks :
          /\ Queued(b)
          /\ \E left \in 1 .. (heap[b].quantity - 1) :
                heap' = [heap EXCEPT ![b].quantity = left]
    /\ UNCHANGED <<queue, pruning>>

StartPruning ==
    /\ pruning = None
    /\ pruning' \in PriceLevels
    /\ UNCHANGED <<heap, queue>>

\* Pruning is over when no DAY order is left on the level.
StopPruning ==
    /\ pruning # None
    /\ \A i \in DOMAIN queue[pruning] : heap[queue[pruning][i]].lifetime = "GTC"
    /\ pruning' = None
    /\ UNCHANGED <<heap, queue>>

Next ==
    \/ Construct \/ Destroy \/ Join \/ Leave \/ Shrink
    \/ StartPruning \/ StopPruning

Spec == Init /\ [][Next]_vars

=============================================================================

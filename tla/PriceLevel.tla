----------------------------- MODULE PriceLevel ------------------------------
(***************************************************************************)
(* lob::core::PriceLevel (src/src/core/PriceLevel.hpp and .cpp): resting    *)
(* orders linked into a list through their own next_ and prev_ pointers,    *)
(* with the volume and the number of orders cached.                        *)
(*                                                                         *)
(* Every call is one step except prune_day_orders, which calls back into    *)
(* the order book for each order it has removed.  The callback frees the    *)
(* block of the order, and the memory pool keeps its own link where the     *)
(* order had next_.                                                        *)
(***************************************************************************)
EXTENDS Integers, FiniteSetsExt, Functions

CONSTANTS
    Blocks,          \* the memory blocks a RestingOrder can be placed in
    PriceLevels,     \* the levels
    Quantities,      \* the shares an order can be submitted with
    QuantityEnd,     \* Quantity, an int32, holds -QuantityEnd .. QuantityEnd - 1
    None             \* nullptr

VARIABLES
    head, tail, totalVolume, orderCount,       \* per level, its members
    constructed,                               \* the blocks that hold an order
    next, prev, level, quantity, lifetime,     \* per block, the order's members
    pc,              \* whether prune_day_orders runs, and where it is
    pruning,         \* the level that it runs for
    ptr, following,  \* its locals ptr and next
    result           \* its LevelPruneStats

levelVars == <<head, tail, totalVolume, orderCount>>
linkVars == <<next, prev, level>>
walkVars == <<pc, pruning, ptr, following, result>>
vars == <<head, tail, totalVolume, orderCount, constructed,
          next, prev, level, quantity, lifetime,
          pc, pruning, ptr, following, result>>

ASSUME NoneIsNothing == None \notin Blocks /\ None \notin PriceLevels

ASSUME BlocksAreFinite == IsFiniteSet(Blocks)

ASSUME QuantitiesArePositive ==
    /\ QuantityEnd \in Nat \ {0}
    /\ Quantities \subseteq 1 .. (QuantityEnd - 1)

Lifetimes == {"GTC", "DAY"}

ASSUME NoneIsNoOrder == None \notin [quantity : Nat, lifetime : Lifetimes]

NothingPruned == [ordersPruned |-> 0, quantityPruned |-> 0]

\* Quantities and lifetimes are read only once an order was constructed.
Init ==
    /\ head = [l \in PriceLevels |-> None]
    /\ tail = [l \in PriceLevels |-> None]
    /\ totalVolume = [l \in PriceLevels |-> 0]
    /\ orderCount = [l \in PriceLevels |-> 0]
    /\ constructed = {}
    /\ next = [b \in Blocks |-> None]
    /\ prev = [b \in Blocks |-> None]
    /\ level = [b \in Blocks |-> None]
    /\ quantity = [b \in Blocks |-> 0]
    /\ lifetime = [b \in Blocks |-> "GTC"]
    /\ pc = "idle"
    /\ pruning = None
    /\ ptr = None
    /\ following = None
    /\ result = NothingPruned

-----------------------------------------------------------------------------
(* Orders: what the memory pool and the RestingOrder constructor do        *)

\* An order is constructed in a free block, linked to nothing.
Construct ==
    /\ pc = "idle"
    /\ \E b \in Blocks \ constructed, shares \in Quantities, life \in Lifetimes :
          /\ constructed' = constructed \cup {b}
          /\ next' = [next EXCEPT ![b] = None]
          /\ prev' = [prev EXCEPT ![b] = None]
          /\ level' = [level EXCEPT ![b] = None]
          /\ quantity' = [quantity EXCEPT ![b] = shares]
          /\ lifetime' = [lifetime EXCEPT ![b] = life]
    /\ UNCHANGED <<levelVars, walkVars>>

\* The block of an order goes back to the pool.  Its first bytes, where next_
\* was, become the link to some other free block.
Free(b) ==
    /\ constructed' = constructed \ {b}
    /\ \E link \in (Blocks \ constructed) \cup {None} : next' = [next EXCEPT ![b] = link]
    /\ UNCHANGED <<levelVars, prev, level, quantity, lifetime>>

\* Orders are given back once they are off their level.
Destroy ==
    /\ pc = "idle"
    /\ \E b \in constructed : level[b] = None /\ Free(b)
    /\ UNCHANGED walkVars

-----------------------------------------------------------------------------
(* The list *)

\* Slip: the new order is not counted.
CountedNot(l) == orderCount

Counted(l) == [orderCount EXCEPT ![l] = @ + 1]

\* push_back.  Into an empty level the order goes with the prev_ it has.
PushBack ==
    /\ pc = "idle"
    /\ \E l \in PriceLevels, b \in constructed :
          /\ level[b] = None
          /\ \/ /\ tail[l] # None
                /\ prev' = [prev EXCEPT ![b] = tail[l]]
                /\ next' = [next EXCEPT ![tail[l]] = b, ![b] = None]
                /\ UNCHANGED head
             \/ /\ tail[l] = None
                /\ head' = [head EXCEPT ![l] = b]
                /\ next' = [next EXCEPT ![b] = None]
                /\ UNCHANGED prev
          /\ tail' = [tail EXCEPT ![l] = b]
          /\ level' = [level EXCEPT ![b] = l]
          /\ totalVolume' = [totalVolume EXCEPT ![l] = @ + quantity[b]]
          /\ orderCount' = Counted(l)
    /\ UNCHANGED <<constructed, quantity, lifetime, walkVars>>

\* The order at b has left level l: it points nowhere and counts no more.
Detached(l, b) ==
    /\ level' = [level EXCEPT ![b] = None]
    /\ totalVolume' = [totalVolume EXCEPT ![l] = @ - quantity[b]]
    /\ orderCount' = [orderCount EXCEPT ![l] = @ - 1]

\* pop_front of a level that is not empty.
PopFront ==
    /\ pc = "idle"
    /\ \E l \in PriceLevels :
          LET front == head[l]
          IN  /\ front # None
              /\ \/ /\ next[front] # None
                    /\ head' = [head EXCEPT ![l] = next[front]]
                    /\ prev' = [prev EXCEPT ![next[front]] = None, ![front] = None]
                    /\ UNCHANGED tail
                 \/ /\ next[front] = None
                    /\ head' = [head EXCEPT ![l] = None]
                    /\ tail' = [tail EXCEPT ![l] = None]
                    /\ prev' = [prev EXCEPT ![front] = None]
              /\ next' = [next EXCEPT ![front] = None]
              /\ Detached(l, front)
    /\ UNCHANGED <<constructed, quantity, lifetime, walkVars>>

\* Slip: the order that leaves keeps its prev_.
PrevAfterKept(b) ==
    IF next[b] = None THEN prev ELSE [prev EXCEPT ![next[b]] = prev[b]]

\* The prev_ pointers when b has been unlinked.
PrevAfter(b) ==
    [c \in Blocks |-> IF c = b THEN None ELSE IF c = next[b] THEN prev[b] ELSE prev[c]]

\* Slip: tail_ stays at the order that was last.
TailAfterNot(l, b) == tail

TailAfter(l, b) == IF next[b] = None THEN [tail EXCEPT ![l] = prev[b]] ELSE tail

\* remove_order: b is unlinked, wherever it stands.
Remove(l, b) ==
    /\ head' = IF prev[b] = None THEN [head EXCEPT ![l] = next[b]] ELSE head
    /\ tail' = TailAfter(l, b)
    /\ next' = [c \in Blocks |->
          IF c = b THEN None ELSE IF c = prev[b] THEN next[b] ELSE next[c]]
    /\ prev' = PrevAfter(b)
    /\ Detached(l, b)
    /\ UNCHANGED <<constructed, quantity, lifetime>>

RemoveOrder ==
    /\ pc = "idle"
    /\ \E b \in constructed : level[b] # None /\ Remove(level[b], b)
    /\ UNCHANGED walkVars

\* take_shares_from_first, which the book calls only for a part of the order.
TakeSharesFromFirst ==
    /\ pc = "idle"
    /\ \E l \in PriceLevels, taken \in Quantities :
          /\ head[l] # None
          /\ taken < quantity[head[l]]
          /\ quantity' = [quantity EXCEPT ![head[l]] = @ - taken]
          /\ totalVolume' = [totalVolume EXCEPT ![l] = @ - taken]
    /\ UNCHANGED <<head, tail, orderCount, constructed, linkVars, lifetime, walkVars>>

\* Slip: the level keeps its volume.
VolumeReducedNot(b, shares) == totalVolume

VolumeReduced(b, shares) == [totalVolume EXCEPT ![level[b]] = @ - shares]

\* reduce_order_quantity, which the book calls only for a part of the order.
ReduceOrderQuantity ==
    /\ pc = "idle"
    /\ \E b \in constructed, reduced \in Quantities :
          /\ level[b] # None
          /\ reduced < quantity[b]
          /\ quantity' = [quantity EXCEPT ![b] = @ - reduced]
          /\ totalVolume' = VolumeReduced(b, reduced)
    /\ UNCHANGED <<head, tail, orderCount, constructed, linkVars, lifetime, walkVars>>

-----------------------------------------------------------------------------
(* prune_day_orders *)

StartPruning ==
    /\ pc = "idle"
    /\ \E l \in PriceLevels : pruning' = l /\ ptr' = head[l]
    /\ pc' = "walking"
    /\ result' = NothingPruned
    /\ UNCHANGED <<levelVars, constructed, linkVars, quantity, lifetime, following>>

KeepOrder ==
    /\ pc = "walking"
    /\ ptr # None
    /\ lifetime[ptr] = "GTC"
    /\ ptr' = next[ptr]
    /\ UNCHANGED <<levelVars, constructed, linkVars, quantity, lifetime,
                   pc, pruning, following, result>>

Wrapped(n) == ((n + QuantityEnd) % (2 * QuantityEnd)) - QuantityEnd

\* Slip: the total is that of the last order.
SharesLast(shares) == {shares}

\* The total of a level is a signed Quantity.  If it overflows the program has
\* no defined result: a compiler may let the sum wrap or keep it in a wider
\* register.
SharesWith(shares) ==
    {result.quantityPruned + shares, Wrapped(result.quantityPruned + shares)}

\* next_ is read, the order counted and taken off the level.
PruneOrder ==
    /\ pc = "walking"
    /\ ptr # None
    /\ lifetime[ptr] = "DAY"
    /\ following' = next[ptr]
    /\ \E shares \in SharesWith(quantity[ptr]) :
          result' = [ordersPruned |-> result.ordersPruned + 1, quantityPruned |-> shares]
    /\ Remove(pruning, ptr)
    /\ pc' = "callback"
    /\ UNCHANGED <<pruning, ptr>>

\* Slip: next_ is read when the order is gone.
NextAfterwards == next'[ptr]

Following == following

\* onPrunedOrder frees the order, and the walk goes on.
Callback ==
    /\ pc = "callback"
    /\ Free(ptr)
    /\ ptr' = Following
    /\ following' = None
    /\ pc' = "walking"
    /\ UNCHANGED <<pruning, result>>

FinishPruning ==
    /\ pc = "walking"
    /\ ptr = None
    /\ pc' = "idle"
    /\ pruning' = None
    /\ result' = NothingPruned
    /\ UNCHANGED <<levelVars, constructed, linkVars, quantity, lifetime, ptr, following>>

-----------------------------------------------------------------------------

Next ==
    \/ Construct \/ Destroy
    \/ PushBack \/ PopFront \/ RemoveOrder
    \/ TakeSharesFromFirst \/ ReduceOrderQuantity
    \/ StartPruning \/ KeepOrder \/ PruneOrder \/ Callback \/ FinishPruning

Spec == Init /\ [][Next]_vars

-----------------------------------------------------------------------------
(* Properties *)

TypeOK ==
    /\ head \in [PriceLevels -> Blocks \cup {None}]
    /\ tail \in [PriceLevels -> Blocks \cup {None}]
    /\ totalVolume \in [PriceLevels -> Nat]
    /\ orderCount \in [PriceLevels -> Nat]
    /\ constructed \subseteq Blocks
    /\ next \in [Blocks -> Blocks \cup {None}]
    /\ prev \in [Blocks -> Blocks \cup {None}]
    /\ level \in [Blocks -> PriceLevels \cup {None}]
    /\ quantity \in [Blocks -> Nat]
    /\ lifetime \in [Blocks -> Lifetimes]
    /\ pc \in {"idle", "walking", "callback"}
    /\ pruning \in PriceLevels \cup {None}
    /\ ptr \in Blocks \cup {None}
    /\ following \in Blocks \cup {None}
    /\ result \in [ordersPruned : Nat, quantityPruned : Int]

\* The orders met from b on, following this kind of link, as long as there can
\* be any.
Walk(b, links) ==
    LET met[n \in 0 .. Cardinality(Blocks)] ==
            IF n = 0 THEN b ELSE IF met[n - 1] = None THEN None ELSE links[met[n - 1]]
        length == Cardinality({n \in 0 .. (Cardinality(Blocks) - 1) : met[n] # None})
    IN  [n \in 1 .. length |-> met[n - 1]]

Queue(l) == Walk(head[l], next)

OnLevel(l) == {b \in constructed : level[b] = l}

\* The list of a level holds its orders, each once, whichever way it is read:
\* from head_ by next_ and from tail_ by prev_, and no pointer leads out of it
\* to an order that left it or to a block that was freed.
ListsMirror ==
    \A l \in PriceLevels :
        LET forward  == Queue(l)
            backward == Walk(tail[l], prev)
        IN  /\ DOMAIN forward = 1 .. Cardinality(OnLevel(l))
            /\ {forward[i] : i \in DOMAIN forward} = OnLevel(l)
            /\ forward # <<>> => next[forward[Cardinality(OnLevel(l))]] = None
            /\ backward = [i \in DOMAIN forward |->
                               forward[Cardinality(OnLevel(l)) + 1 - i]]

\* "A particular level's volume is equal to the sum of each order's quantity
\* currently resting on that level", and the number of orders, by which a level
\* is found empty, is the number of orders.
CachesAgree ==
    \A l \in PriceLevels :
        /\ totalVolume[l] = SumFunctionOnSet(quantity, OnLevel(l))
        /\ orderCount[l] = Cardinality(OnLevel(l))

\* Every level is sound: both its lists, both its caches, at every step of a
\* walk as well.
ListsAreSound == ListsMirror /\ CachesAgree

\* What prune_day_orders has still to visit.
Ahead ==
    LET from == IF pc = "callback" THEN following ELSE ptr
        rest == Walk(from, next)
    IN  {rest[i] : i \in DOMAIN rest}

\* The walk never stands on a freed order and no DAY order of its level is
\* behind it, although it frees the orders it stands on: none survives the
\* session.
WalkMissesNoOrder ==
    pc # "idle" =>
        /\ Ahead \subseteq OnLevel(pruning)
        /\ \A b \in OnLevel(pruning) : lifetime[b] = "DAY" => b \in Ahead

\* "Prune DAY orders removes only DAY orders and accumulates stats": what a
\* level reports grows by what the level loses.
PruneTotalsAreExact ==
    [][pc = "walking" /\ pc' = "callback" =>
          /\ lifetime[ptr] = "DAY"
          /\ result'.ordersPruned - result.ordersPruned
                = orderCount[pruning] - orderCount'[pruning]
          /\ result'.quantityPruned - result.quantityPruned
                = totalVolume[pruning] - totalVolume'[pruning]]_vars

Promise == INSTANCE FifoLevels WITH
    heap <- [b \in Blocks |->
        IF b \in constructed THEN [quantity |-> quantity[b], lifetime |-> lifetime[b]]
                             ELSE None],
    queue <- [l \in PriceLevels |-> Queue(l)]

\* The linked lists implement queues: first come first served, removal from
\* anywhere without disturbing the others, and pruning of DAY orders only.
ImplementsFifoLevels == Promise!Spec

=============================================================================

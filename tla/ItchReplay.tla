----------------------------- MODULE ItchReplay ------------------------------
(***************************************************************************)
(* The ITCH replay engine (src/replay/engine/ItchReplayEngine.cpp) over the *)
(* replay_* operations of lob::OrderBook (src/src/Orderbook.cpp), which put *)
(* orders into the book and take them out without ever matching.           *)
(*                                                                         *)
(* A message is handled in one step, except that replacing an order is two: *)
(* the old order is deleted and then the new one is added.  The book and    *)
(* what happens to it is that of OrderBook; none of its calls is running.   *)
(***************************************************************************)
EXTENDS OrderBook

CONSTANTS
    Shares,          \* the numbers of shares that messages carry
    VolumeEnd,       \* Volume is unsigned and wraps here
    Locates,         \* the locate codes of the feed
    Symbol,          \* symbol_, the stock that is replayed
    OtherSymbols,    \* the other stocks of the feed
    MaxMessages      \* bound: messages that are applied or refused

VARIABLES
    targetStockLocate,   \* targetStockLocate_
    counts,              \* the six counters of the engine
    adding               \* a replacement whose old order is deleted, or None

engineVars == <<targetStockLocate, counts, adding>>
replayVars == <<idToOrder, heap, queue, volume, best, pc, call, remaining,
                submission, outcome, cursor, pruned, targetStockLocate, counts, adding>>

\* The field is an unsigned 32-bit integer.
ASSUME SharesAreUnsigned ==
    /\ VolumeEnd \in Nat \ {0}
    /\ Shares \subseteq 0 .. (2 * QuantityEnd - 1)

ASSUME NoneIsNoLocate == None \notin Locates

\* What is remembered of a replacement once its old order is deleted.
Replacement == [id : OrderIds, price : Prices, quantity : Nat \ {0}, side : Sides]

\* What a feed shows of an order.
Shown == [side : Sides, price : Prices, shares : Nat \ {0}]

ASSUME NoneIsNoReplacement == None \notin Replacement /\ None \notin Shown

Kinds == {"adds", "executions", "cancels", "deletes", "replaces", "failures"}

\* The messages of the target that the engine has counted.
Handled == SumFunctionOnSet(counts, Kinds)

ReplayInit ==
    /\ Init
    /\ targetStockLocate = None
    /\ counts = [kind \in Kinds |-> 0]
    /\ adding = None

-----------------------------------------------------------------------------
(* The replay operations *)

\* The shares of a message become a Quantity; a Price is wide enough.
Narrowed(shares) == IF shares < QuantityEnd THEN shares ELSE shares - 2 * QuantityEnd

AddRefused(id, price, quantity) ==
    quantity = 0 \/ idToOrder[id] # None \/ price \notin Prices

\* Slip: an order can be reduced by more than it has.
ReduceRefusedNever(id, quantity) == quantity = 0 \/ idToOrder[id] = None

ReduceRefused(id, quantity) ==
    \/ quantity = 0
    \/ idToOrder[id] = None
    \/ quantity > heap[idToOrder[id]].quantity

\* Slip: an order with nothing left is kept.
UsesUpNever(id, quantity) == FALSE

\* Whether a reduction takes the whole order, which is then deleted.
UsesUp(id, quantity) == quantity = heap[idToOrder[id]].quantity

\* replay_reduce_visible_order of an order that has as many shares.
ReduceVisible(id, quantity) ==
    IF UsesUp(id, quantity)
    THEN CancelResting(id)
    ELSE /\ heap' = [heap EXCEPT ![idToOrder[id]].quantity = @ - quantity]
         /\ volume' = Lowered(heap[idToOrder[id]].level, quantity)
         /\ UNCHANGED <<idToOrder, queue, best>>

\* Slip: the new price is not checked before the old order is deleted.
ReplaceRefusedLate(original, id, price, quantity) ==
    quantity = 0 \/ idToOrder[id] # None \/ idToOrder[original] = None

ReplaceRefused(original, id, price, quantity) ==
    \/ AddRefused(id, price, quantity)
    \/ idToOrder[original] = None

-----------------------------------------------------------------------------
(* The message handlers.  Whoever feeds the engine waits for a replacement *)
(* to be finished, and bounds the feed.                                    *)

IsTarget(message) == targetStockLocate # None /\ message.stockLocate = targetStockLocate

\* A message that says nothing about the stock that is replayed.
Ignored == UNCHANGED <<bookVars, engineVars>>

Count(kind) == counts' = [counts EXCEPT ![kind] = @ + 1]

\* The message is not applied.
Refuse == Count("failures") /\ UNCHANGED <<bookVars, targetStockLocate, adding>>

MatchesSymbol(stock) == stock = Symbol

\* The directory names the locate code of the symbol.
OnStockDirectory(message) ==
    IF MatchesSymbol(message.stock)
    THEN /\ targetStockLocate' = message.stockLocate
         /\ UNCHANGED <<bookVars, counts, adding>>
    ELSE Ignored

\* The character B is 1, as a number; any other means an ask.
BuyIndicator == 1
SideOf(message) == IF message.buySellIndicator = BuyIndicator THEN "BUY" ELSE "SELL"

\* Both kinds of add messages.
OnAddOrder(message) ==
    LET id       == message.orderReferenceNumber
        price    == message.price
        quantity == Narrowed(message.shares)
    IN  IF AddRefused(id, price, quantity)
        THEN Refuse
        ELSE /\ PlaceOrder(id, quantity, "GTC", SideOf(message), price)
             /\ Count("adds")
             /\ UNCHANGED <<targetStockLocate, adding>>

\* Both kinds of executed messages, and cancel messages.
OnReduction(kind, message, shares) ==
    LET id == message.orderReferenceNumber
    IN  IF ReduceRefused(id, Narrowed(shares))
        THEN Refuse
        ELSE /\ ReduceVisible(id, Narrowed(shares))
             /\ Count(kind)
             /\ UNCHANGED <<targetStockLocate, adding>>

OnOrderDelete(message) ==
    IF idToOrder[message.orderReferenceNumber] = None
    THEN Refuse
    ELSE /\ CancelResting(message.orderReferenceNumber)
         /\ Count("deletes")
         /\ UNCHANGED <<targetStockLocate, adding>>

\* The first half of a replacement deletes the old order.
OnOrderReplace(message) ==
    LET original == message.originalOrderReferenceNumber
        id       == message.newOrderReferenceNumber
        price    == message.price
        quantity == Narrowed(message.shares)
    IN  IF ReplaceRefused(original, id, price, quantity)
        THEN Refuse
        ELSE /\ CancelResting(original)
             /\ adding' = [id |-> id, price |-> price, quantity |-> quantity,
                           side |-> heap[idToOrder[original]].side]
             /\ UNCHANGED <<targetStockLocate, counts>>

\* on_message, for each type of message.
OnMessage(type, message) ==
    \/ type = "S" /\ Ignored
    \/ type = "R" /\ OnStockDirectory(message)
    \/ type \notin {"S", "R"} /\ ~IsTarget(message) /\ Ignored
    \/ /\ IsTarget(message)
       /\ \/ type \in {"A", "F"} /\ OnAddOrder(message)
          \/ type \in {"E", "C"} /\ OnReduction("executions", message, message.executedShares)
          \/ type = "X" /\ OnReduction("cancels", message, message.cancelledShares)
          \/ type = "D" /\ OnOrderDelete(message)
          \/ type = "U" /\ OnOrderReplace(message)

\* The second half adds the new one, with every check that an addition makes.
AddReplacement ==
    /\ adding # None
    /\ adding' = None
    /\ IF AddRefused(adding.id, adding.price, adding.quantity)
       THEN Count("failures") /\ UNCHANGED bookVars
       ELSE /\ PlaceOrder(adding.id, adding.quantity, "GTC", adding.side, adding.price)
            /\ Count("replaces")
    /\ UNCHANGED targetStockLocate

\* A message that the program can take as it is: its shares fit a Quantity.
FitsQuantity(shares) == shares \in 0 .. (QuantityEnd - 1)

Acceptable(type, m) ==
    /\ m.stockLocate \in Locates
    /\ type \in {"A", "F", "E", "C", "X", "D"} => m.orderReferenceNumber \in OrderIds
    /\ type \in {"A", "F", "U"} => FitsQuantity(m.shares)
    /\ type \in {"E", "C"} => FitsQuantity(m.executedShares)
    /\ type = "X" => FitsQuantity(m.cancelledShares)
    /\ type = "U" => {m.originalOrderReferenceNumber, m.newOrderReferenceNumber} \subseteq OrderIds

-----------------------------------------------------------------------------
(* print_summary, over the inspection functions of the book *)

NonEmpty(side) == {p \in Prices : queue[<<side, p>>] # <<>>}

GetNumOrders == Cardinality({id \in OrderIds : idToOrder[id] # None})

GetNumSharesAtLevel(side, price) == volume[<<side, price>>] % VolumeEnd

\* The first levels of a side that have orders, from its best price onwards.
GetTopLevels(side, depth) ==
    IF best[side] = None THEN <<>>
    ELSE LET levels == {p \in NonEmpty(side) : ~Ahead(side, p, best[side])}
             number == Cardinality(levels)
             Nth(n) == CHOOSE p \in levels :
                           Cardinality({q \in levels : Ahead(side, q, p)}) = n - 1
         IN  [n \in 1 .. (IF number < depth THEN number ELSE depth) |->
                 <<Nth(n), GetNumSharesAtLevel(side, Nth(n))>>]

\* What is printed of a side.
SideSummary(side, depth) ==
    [levels |-> Cardinality(NonEmpty(side)),
     best |-> IF best[side] = None THEN None
              ELSE <<best[side], GetNumSharesAtLevel(side, best[side])>>,
     top |-> GetTopLevels(side, depth)]

PrintSummary(depth) ==
    [locate |-> targetStockLocate,
     counts |-> counts,
     orders |-> GetNumOrders,
     sides |-> [side \in Sides |-> SideSummary(side, depth)]]

-----------------------------------------------------------------------------
(* A feed in which any message may come next *)

Directories == [stockLocate : Locates, stock : {Symbol} \cup OtherSymbols]
Additions ==
    [stockLocate : Locates, orderReferenceNumber : OrderIds, buySellIndicator : {0, 1},
     shares : Shares, price : RequestPrices]
Executed == [stockLocate : Locates, orderReferenceNumber : OrderIds, executedShares : Shares]
Cancelled == [stockLocate : Locates, orderReferenceNumber : OrderIds, cancelledShares : Shares]
Deletions == [stockLocate : Locates, orderReferenceNumber : OrderIds]
Replacements ==
    [stockLocate : Locates, originalOrderReferenceNumber : OrderIds,
     newOrderReferenceNumber : OrderIds, shares : Shares, price : RequestPrices]

\* The next message, of this type.  Directory messages are not counted.
Receive(type, messages) ==
    /\ adding = None
    /\ type = "R" \/ Handled < MaxMessages
    /\ \E message \in messages : OnMessage(type, message)
    /\ UNCHANGED callVars

ReplayNext ==
    \/ Receive("R", Directories)
    \/ Receive("A", Additions)
    \/ Receive("E", Executed) \/ Receive("X", Cancelled)
    \/ Receive("D", Deletions)
    \/ Receive("U", Replacements)
    \/ AddReplacement /\ UNCHANGED callVars

ReplaySpec == ReplayInit /\ [][ReplayNext]_replayVars

-----------------------------------------------------------------------------
(* Properties *)

ReplayTypeOK ==
    /\ TypeOK
    /\ targetStockLocate \in Locates \cup {None}
    /\ counts \in [Kinds -> Nat]
    /\ adding \in Replacement \cup {None}

\* A replayed book is as sound as one that matches, although its sides may
\* cross: map, pool and levels agree, and so do both caches.
ReplayKeepsBookSound == Coherent /\ BestPriceIsBest /\ VolumeIsSum

Visible == Cardinality(Live) + (IF adding # None THEN 1 ELSE 0)

\* The printed counters and the printed number of active orders fit together: a
\* replacement costs no order, a refused message changes nothing, and an order
\* goes only by a deletion or by reductions.
CountersMatchBook ==
    /\ Visible + counts["deletes"] <= counts["adds"]
    /\ counts["adds"] <= Visible + counts["deletes"] + counts["executions"]
                             + counts["cancels"]

\* "A particular level's volume is equal to the sum of each order's quantity
\* currently resting on that level", the volume being what get_total_volume
\* returns.
LevelVolumesAreSums ==
    \A l \in Levels :
        volume[l] % VolumeEnd
            = SumFunction([n \in DOMAIN queue[l] |-> heap[queue[l][n]].quantity])

VisibleOrder(id) ==
    IF adding # None /\ adding.id = id
    THEN [side |-> adding.side, price |-> adding.price, shares |-> adding.quantity]
    ELSE IF idToOrder[id] = None THEN None
    ELSE [side |-> heap[idToOrder[id]].side, price |-> heap[idToOrder[id]].level[2],
          shares |-> heap[idToOrder[id]].quantity]

Promise == INSTANCE VisibleBook WITH
    visible <- [id \in OrderIds |-> VisibleOrder(id)],
    counts <- [counts EXCEPT !["replaces"] = @ + (IF adding # None THEN 1 ELSE 0)]

\* The replayed book shows what the feed says: in particular a replacement is
\* all or nothing, although the code deletes first and adds afterwards.
ImplementsVisibleBook == Promise!Spec

=============================================================================

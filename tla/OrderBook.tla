----------------------------- MODULE OrderBook ------------------------------
(***************************************************************************)
(* lob::OrderBook as src/src/Orderbook.cpp keeps it: resting orders in     *)
(* blocks of a memory pool, a map from order id to block, a FIFO queue and *)
(* a cached volume per price level, and a cached best price per ladder.    *)
(*                                                                         *)
(* The engine is single-threaded, so a call runs to completion before the  *)
(* next one starts; within a call every iteration of the match loop and    *)
(* every node of the session-end walk is a step of its own, so that what   *)
(* holds between two iterations can be stated.                             *)
(*                                                                         *)
(* The data structures below are taken at what they promise: the pool hands *)
(* out some free block, a level is a sequence of blocks, and a scan of a    *)
(* ladder finds the first non-empty level in scan order.                   *)
(***************************************************************************)
EXTENDS BookTypes, SequencesExt

CONSTANTS
    Blocks,          \* the memory blocks a RestingOrder can be placed in
    QuantityEnd      \* Quantity, an int32, holds -QuantityEnd .. QuantityEnd - 1

VARIABLES
    idToOrder,       \* idToOrderMap_: OrderID -> block of the resting order
    heap,            \* what each block holds: a RestingOrder, or None if free
    queue,           \* per level, its orders from head_ to tail_
    volume,          \* per level, totalVolume_
    best,            \* per side, bestPrice_ of its ladder
    pc,              \* where the running call is
    call,            \* the request it serves
    remaining,       \* remainingShares of the match loop
    submission,      \* the SubmissionResult under construction
    outcome,         \* the CancelResult or ModificationResult
    cursor,          \* where the session-end walk is
    pruned           \* the DayOrderPruneResult under construction, and quantityPruned_
                     \* of the LevelPruneStats of the level the walk is on

bookVars == <<idToOrder, heap, queue, volume, best>>
callVars == <<pc, call, remaining, submission, outcome, cursor, pruned>>
vars == <<idToOrder, heap, queue, volume, best,
          pc, call, remaining, submission, outcome, cursor, pruned>>

ASSUME NoneIsNoBlock == None \notin Blocks

ASSUME QuantityIsSigned ==
    /\ QuantityEnd \in Nat \ {0}
    /\ Quantities \subseteq 0 .. (QuantityEnd - 1)

RestingOrders ==
    [id : OrderIds, quantity : Nat, lifetime : Lifetimes, side : Sides, level : Levels]

\* A null block holds no order.
ASSUME NoneIsNoOrder == None \notin RestingOrders

NoCursor == [side |-> None, price |-> MinPrice, index |-> 0]

NothingCounted ==
    [ordersPruned |-> 0, sharesErased |-> 0, priceLevelsErased |-> 0, quantityPruned |-> 0]

Init ==
    /\ idToOrder = [id \in OrderIds |-> None]
    /\ heap = [b \in Blocks |-> None]
    /\ queue = [l \in Levels |-> <<>>]
    /\ volume = [l \in Levels |-> 0]
    /\ best = [s \in Sides |-> None]
    /\ pc = "idle"
    /\ call = NoCall
    /\ remaining = 0
    /\ submission = NoSubmission
    /\ outcome = NoOutcome
    /\ cursor = NoCursor
    /\ pruned = NothingCounted

-----------------------------------------------------------------------------
(* PriceLadder *)

\* Slip: the scan runs off the end of the ladder.
BestPastTheEnd(q, side, start) ==
    LET seen == {p \in Prices : q[<<side, p>>] # <<>> /\ ~Ahead(side, p, start)}
    IN  IF seen = {} THEN MaxPrice + 1
        ELSE CHOOSE p \in seen : \A other \in seen : ~Ahead(side, other, p)

\* update_best_price_from_given: the first non-empty level met when scanning
\* from start away from the market; levels ahead of start are never looked at.
BestFrom(q, side, start) ==
    LET seen == {p \in Prices : q[<<side, p>>] # <<>> /\ ~Ahead(side, p, start)}
    IN  IF seen = {} THEN None
        ELSE CHOOSE p \in seen : \A other \in seen : ~Ahead(side, other, p)

\* Slip: emptying the best level leaves the best price where it was.
BestUnmoved(q, side, price) == best

\* The best prices once a level has lost an order and q are the queues: the
\* ladder is rescanned only if that emptied the level its best price names.
BestAfterRemoval(q, side, price) ==
    IF best[side] = price /\ q[<<side, price>>] = <<>>
    THEN [best EXCEPT ![side] = BestFrom(q, side, price)]
    ELSE best

\* Slip: the best price is set on an empty ladder only.
BestIfNone(side, price) == IF best[side] = None THEN [best EXCEPT ![side] = price] ELSE best

\* The best prices once an order rests at price.
BestAfterPlacing(side, price) ==
    IF best[side] = None \/ Ahead(side, price, best[side])
    THEN [best EXCEPT ![side] = price]
    ELSE best

\* Slip: the level beyond the threshold is counted as well.
LevelsPastThreshold(side, threshold) ==
    {<<side, p>> : p \in {p \in Prices : ~Ahead(side, p, best[side])}}

\* The levels that has_sufficient_marketable_liquidity adds up: from the best
\* price to the threshold, both included.
MarketableLevels(side, threshold) ==
    {<<side, p>> : p \in {p \in Prices : /\ ~Ahead(side, p, best[side])
                                         /\ ~Ahead(side, threshold, p)}}

HasSufficientMarketableLiquidity(side, threshold, required) ==
    /\ best[side] # None
    /\ ~Ahead(side, threshold, best[side])
    /\ SumFunctionOnSet(volume, MarketableLevels(side, threshold)) >= required

-----------------------------------------------------------------------------
(* PriceLevel, and orders entering or leaving the book *)

\* Slip: a new order is linked in ahead of the others.
PushFront(q, b) == <<b>> \o q

PushBack(q, b) == Append(q, b)

\* Slip: the volume counts orders, not shares, on the way out.
LoweredByOne(l, shares) == [volume EXCEPT ![l] = @ - 1]

\* The volumes once level l has lost this many shares.
Lowered(l, shares) == [volume EXCEPT ![l] = @ - shares]

\* Allocate a block, push it to the back of its level and map its id to it.
PlaceOrder(id, quantity, lifetime, side, price) ==
    LET l == <<side, price>>
    IN  /\ \E b \in Blocks :
              /\ heap[b] = None
              /\ heap' = [heap EXCEPT ![b] =
                    [id |-> id, quantity |-> quantity, lifetime |-> lifetime,
                     side |-> side, level |-> l]]
              /\ queue' = [queue EXCEPT ![l] = PushBack(@, b)]
              /\ idToOrder' = [idToOrder EXCEPT ![id] = b]
        /\ volume' = [volume EXCEPT ![l] = @ + quantity]
        /\ best' = BestAfterPlacing(side, price)

\* Slip: the block is freed but its id stays mapped to it.
RetireLeavingId(b) ==
    /\ heap' = [heap EXCEPT ![b] = None]
    /\ UNCHANGED idToOrder

\* Slip: the order is unmapped but its block is not given back.
RetireKeepingBlock(b) ==
    /\ idToOrder' = [idToOrder EXCEPT ![heap[b].id] = None]
    /\ UNCHANGED heap

\* retire_order: erase the order from the map and give its block back.
Retire(b) ==
    /\ idToOrder' = [idToOrder EXCEPT ![heap[b].id] = None]
    /\ heap' = [heap EXCEPT ![b] = None]

\* remove_order and retire_order of the order at position i of level l.
TakeOut(l, i) ==
    /\ queue' = [queue EXCEPT ![l] = RemoveAt(@, i)]
    /\ volume' = Lowered(l, heap[queue[l][i]].quantity)
    /\ Retire(queue[l][i])

\* cancel_order of an order that rests.  The code finds its place by pointer.
CancelResting(id) ==
    LET l == heap[idToOrder[id]].level
    IN  /\ \E i \in DOMAIN queue[l] :
              /\ queue[l][i] = idToOrder[id]
              /\ TakeOut(l, i)
        /\ best' = BestAfterRemoval(queue', heap[idToOrder[id]].side, l[2])

-----------------------------------------------------------------------------
(* submit_limit_order and submit_market_order *)

Rejected(req) ==
    \/ idToOrder[req.id] # None
    \/ req.limit # None /\ req.limit \notin Prices

RejectSubmission(req) ==
    /\ Rejected(req)
    /\ pc' = "done"
    /\ call' = Plain(req.op)
    /\ submission' = [NoSubmission EXCEPT !.status = "REJECTED"]
    /\ UNCHANGED <<bookVars, remaining, outcome, cursor, pruned>>

Liquid(req) ==
    HasSufficientMarketableLiquidity(Opposite(req.side), req.limit, req.quantity)

\* A fill-or-kill order that the book cannot fill leaves without a trade.
KillSubmission(req) ==
    /\ ~Rejected(req)
    /\ req.tif = "FOK"
    /\ ~Liquid(req)
    /\ pc' = "done"
    /\ call' = Plain(req.op)
    /\ submission' = [NoSubmission EXCEPT !.status = "KILLED"]
    /\ UNCHANGED <<bookVars, remaining, outcome, cursor, pruned>>

StartMatching(req) ==
    /\ ~Rejected(req)
    /\ req.tif = "FOK" => Liquid(req)
    /\ pc' = "matching"
    /\ call' = req
    /\ remaining' = req.quantity
    /\ UNCHANGED <<bookVars, submission, outcome, cursor, pruned>>

SubmitOrder ==
    /\ pc = "idle"
    /\ \E req \in LimitRequests \cup MarketRequests :
          \/ RejectSubmission(req)
          \/ KillSubmission(req)
          \/ StartMatching(req)

-----------------------------------------------------------------------------
(* The match loop, the same in all four submission paths *)

MatchingSide == Opposite(call.side)
BestLevel == <<MatchingSide, best[MatchingSide]>>
TakingOrder == Head(queue[BestLevel])

Matchable ==
    /\ remaining > 0
    /\ best[MatchingSide] # None
    /\ Crosses(call.side, call.limit, best[MatchingSide])

Execution(quantity) ==
    [makerOrderID |-> heap[TakingOrder].id,
     makerPrice |-> best[MatchingSide],
     executedQuantity |-> quantity]

\* Slip: the last execution overwrites the filled quantity.
CreditedLast(quantity) ==
    [submission EXCEPT !.quantityFilled = quantity,
                       !.executions = Append(@, Execution(quantity))]

\* The result once the taker has been credited with an execution.
Credited(quantity) ==
    [submission EXCEPT !.quantityFilled = @ + quantity,
                       !.executions = Append(@, Execution(quantity))]

\* The front order outlasts the taker: reduce it in place and return FILLED.
TakePart ==
    /\ pc = "matching"
    /\ Matchable
    /\ heap[TakingOrder].quantity > remaining
    /\ heap' = [heap EXCEPT ![TakingOrder].quantity = @ - remaining]
    /\ volume' = Lowered(BestLevel, remaining)
    /\ submission' = [Credited(remaining) EXCEPT !.status = "FILLED"]
    /\ pc' = "done"
    /\ remaining' = 0
    /\ UNCHANGED <<idToOrder, queue, best, call, outcome, cursor, pruned>>

\* The taker uses up the front order: it leaves the map, the level and the
\* pool, and the best price is rescanned if that emptied the level.
TakeWhole ==
    /\ pc = "matching"
    /\ Matchable
    /\ heap[TakingOrder].quantity <= remaining
    /\ submission' = Credited(heap[TakingOrder].quantity)
    /\ remaining' = remaining - heap[TakingOrder].quantity
    /\ TakeOut(BestLevel, 1)
    /\ best' = BestAfterRemoval(queue', MatchingSide, best[MatchingSide])
    /\ UNCHANGED <<pc, call, outcome, cursor, pruned>>

\* The loop ends with the taker used up.  After the loop of a fill-or-kill
\* order the code asserts that this is the case and answers FILLED.
FinishFilled ==
    /\ pc = "matching"
    /\ ~Matchable
    /\ remaining = 0 \/ call.tif = "FOK"
    /\ pc' = "done"
    /\ submission' = [submission EXCEPT !.status = "FILLED"]
    /\ UNCHANGED <<bookVars, call, remaining, outcome, cursor, pruned>>

\* What is left of a GTC or DAY order rests at its limit.
FinishResting ==
    /\ pc = "matching"
    /\ ~Matchable
    /\ remaining > 0
    /\ call.tif \in Lifetimes
    /\ PlaceOrder(call.id, remaining, call.tif, call.side, call.limit)
    /\ pc' = "done"
    /\ submission' = [submission EXCEPT !.status =
          IF remaining < call.quantity THEN "PARTIALLY_FILLED_RESTING" ELSE "RESTING"]
    /\ UNCHANGED <<call, remaining, outcome, cursor, pruned>>

\* What is left of an immediate-or-cancel or market order is dropped.
FinishCanceled ==
    /\ pc = "matching"
    /\ ~Matchable
    /\ remaining > 0
    /\ call.tif \in {"IOC", None}
    /\ pc' = "done"
    /\ submission' = [submission EXCEPT !.status =
          IF remaining < call.quantity THEN "PARTIALLY_FILLED_CANCELED" ELSE "CANCELED"]
    /\ UNCHANGED <<bookVars, call, remaining, outcome, cursor, pruned>>

-----------------------------------------------------------------------------
(* cancel_order and modify_order *)

CancelNotFound ==
    /\ pc = "idle"
    /\ \E id \in OrderIds : idToOrder[id] = None
    /\ pc' = "done"
    /\ call' = Plain("cancel")
    /\ outcome' = [NoOutcome EXCEPT !.status = "NOT_FOUND"]
    /\ UNCHANGED <<bookVars, remaining, submission, cursor, pruned>>

CancelOrder ==
    /\ pc = "idle"
    /\ \E id \in OrderIds :
          /\ idToOrder[id] # None
          /\ CancelResting(id)
          /\ outcome' = [status |-> "CANCELED", quantity |-> heap[idToOrder[id]].quantity]
    /\ pc' = "done"
    /\ call' = Plain("cancel")
    /\ UNCHANGED <<remaining, submission, cursor, pruned>>

\* The price is checked before the id is looked up.
ModifyRefused ==
    /\ pc = "idle"
    /\ \E id \in OrderIds, newPrice \in RequestPrices :
          \/ /\ newPrice \notin Prices
             /\ outcome' = [NoOutcome EXCEPT !.status = "REJECTED"]
          \/ /\ newPrice \in Prices
             /\ idToOrder[id] = None
             /\ outcome' = [NoOutcome EXCEPT !.status = "NOT_FOUND"]
    /\ pc' = "done"
    /\ call' = Plain("modify")
    /\ UNCHANGED <<bookVars, remaining, submission, cursor, pruned>>

\* The first half of a modification: the order is cancelled, and unless the
\* new quantity is zero a limit order of its side and lifetime follows.
ModifyOrder ==
    /\ pc = "idle"
    /\ \E id \in OrderIds, newPrice \in Prices, newQuantity \in Quantities :
          /\ idToOrder[id] # None
          /\ CancelResting(id)
          /\ LET order == heap[idToOrder[id]]
             IN  IF newQuantity > 0
                 THEN /\ pc' = "resubmit"
                      /\ call' = [op |-> "modify", id |-> id, side |-> order.side,
                                  limit |-> newPrice, quantity |-> newQuantity,
                                  tif |-> order.lifetime]
                      /\ outcome' = [status |-> "RESUBMITTED", quantity |-> order.quantity]
                 ELSE /\ pc' = "done"
                      /\ call' = Plain("modify")
                      /\ outcome' = [status |-> "CANCELED", quantity |-> order.quantity]
    /\ UNCHANGED <<remaining, submission, cursor, pruned>>

\* The second half: submit_limit_order, with every check it makes.
Resubmit ==
    /\ pc = "resubmit"
    /\ \/ RejectSubmission(call)
       \/ KillSubmission(call)
       \/ StartMatching(call)

-----------------------------------------------------------------------------
(* on_session_end: the levels of a ladder from the lowest price to the     *)
(* highest, each from head_ to tail_.  cursor.index is the node the walk   *)
(* is at, or 0 while the level has not been entered.                       *)

CursorLevel == <<cursor.side, cursor.price>>
CursorBlock == queue[CursorLevel][cursor.index]

StartOf(side) == [side |-> side, price |-> MinPrice, index |-> 0]

\* A ladder without a best price is skipped.
SessionEnd ==
    /\ pc = "idle"
    /\ call' = Plain("session")
    /\ \/ /\ best["BUY"] # None
          /\ pc' = "pruning"
          /\ cursor' = StartOf("BUY")
       \/ /\ best["BUY"] = None
          /\ best["SELL"] # None
          /\ pc' = "pruning"
          /\ cursor' = StartOf("SELL")
       \/ /\ best = [s \in Sides |-> None]
          /\ pc' = "done"
          /\ UNCHANGED cursor
    /\ UNCHANGED <<bookVars, remaining, submission, outcome, pruned>>

AtLevel == pc = "pruning" /\ cursor.price <= MaxPrice
AtOrder == AtLevel /\ cursor.index \in DOMAIN queue[CursorLevel]

\* Slip: the walk starts over on the level it has finished.
SameLevel == [cursor EXCEPT !.index = 0]

NextLevel == [cursor EXCEPT !.price = @ + 1, !.index = 0]

\* n, as it comes out of an addition of 32 bits.
Wrapped(n) == ((n + QuantityEnd) % (2 * QuantityEnd)) - QuantityEnd

\* An empty level is passed by; the shares of any other are counted from zero.
EnterLevel ==
    /\ AtLevel
    /\ cursor.index = 0
    /\ IF queue[CursorLevel] = <<>>
       THEN cursor' = NextLevel /\ UNCHANGED pruned
       ELSE /\ cursor' = [cursor EXCEPT !.index = 1]
            /\ pruned' = [pruned EXCEPT !.quantityPruned = 0]
    /\ UNCHANGED <<bookVars, pc, call, remaining, submission, outcome>>

KeepOrder ==
    /\ AtOrder
    /\ heap[CursorBlock].lifetime # "DAY"
    /\ cursor' = [cursor EXCEPT !.index = @ + 1]
    /\ UNCHANGED <<bookVars, pc, call, remaining, submission, outcome, pruned>>

\* What the count of the level may be with so many shares more.  It is signed, and
\* if it overflows a compiler may let it wrap or keep it in a wider register.
SharesWith(shares) ==
    {pruned.quantityPruned + shares, Wrapped(pruned.quantityPruned + shares)}

PruneOrder ==
    /\ AtOrder
    /\ heap[CursorBlock].lifetime = "DAY"
    /\ TakeOut(CursorLevel, cursor.index)
    /\ \E shares \in SharesWith(heap[CursorBlock].quantity) :
          pruned' = [pruned EXCEPT !.ordersPruned = @ + 1, !.quantityPruned = shares]
    /\ UNCHANGED <<best, pc, call, remaining, submission, outcome, cursor>>

\* Slip: every level that was walked counts as erased.
OneMoreErased == [pruned EXCEPT !.priceLevelsErased = @ + 1]

\* The totals once a level has been walked.
CountedIfErased ==
    IF queue[CursorLevel] = <<>>
    THEN [pruned EXCEPT !.priceLevelsErased = @ + 1]
    ELSE pruned

\* The shares of the level, counted in 32 bits, join the total.  That is unsigned and 64
\* bits wide: below zero stands for what the code's total is modulo 2^64.
LeaveLevel ==
    /\ AtLevel
    /\ cursor.index > Len(queue[CursorLevel])
    /\ cursor' = NextLevel
    /\ pruned' = [CountedIfErased EXCEPT !.sharesErased = @ + pruned.quantityPruned]
    /\ UNCHANGED <<bookVars, pc, call, remaining, submission, outcome>>

\* After the last level the best price is repaired, and the asks follow the
\* bids unless they are empty.
FinishLadder ==
    /\ pc = "pruning"
    /\ cursor.price > MaxPrice
    /\ best' = IF best[cursor.side] # None
               THEN BestAfterRemoval(queue, cursor.side, best[cursor.side])
               ELSE best
    /\ IF cursor.side = "BUY" /\ best["SELL"] # None
       THEN cursor' = StartOf("SELL") /\ UNCHANGED pc
       ELSE cursor' = NoCursor /\ pc' = "done"
    /\ UNCHANGED <<idToOrder, heap, queue, volume, call, remaining, submission,
                   outcome, pruned>>

-----------------------------------------------------------------------------

\* The caller takes the result and may call again.
Return ==
    /\ pc = "done"
    /\ pc' = "idle"
    /\ call' = NoCall
    /\ remaining' = 0
    /\ submission' = NoSubmission
    /\ outcome' = NoOutcome
    /\ pruned' = NothingCounted
    /\ UNCHANGED <<bookVars, cursor>>

\* The steps of a call that is running.
Running ==
    \/ Resubmit
    \/ TakePart \/ TakeWhole \/ FinishFilled \/ FinishResting \/ FinishCanceled
    \/ EnterLevel \/ KeepOrder \/ PruneOrder \/ LeaveLevel \/ FinishLadder
    \/ Return

\* The calls a caller may make.
Calling ==
    \/ SubmitOrder
    \/ CancelNotFound \/ CancelOrder
    \/ ModifyRefused \/ ModifyOrder
    \/ SessionEnd

Next == Calling \/ Running

Spec == Init /\ [][Next]_vars

-----------------------------------------------------------------------------
(* Properties *)

TypeOK ==
    /\ idToOrder \in [OrderIds -> Blocks \cup {None}]
    /\ heap \in [Blocks -> RestingOrders \cup {None}]
    /\ queue \in [Levels -> Seq(Blocks)]
    /\ volume \in [Levels -> Int]
    /\ best \in [Sides -> Prices \cup {None}]
    /\ pc \in {"idle", "resubmit", "matching", "pruning", "done"}
    /\ call \in Calls
    /\ remaining \in Nat
    /\ submission \in [status : SubmitStatuses \cup {None}, quantityFilled : Nat,
                       executions : Seq(Executions)]
    /\ outcome \in [status : OutcomeStatuses \cup {None}, quantity : Nat]
    /\ cursor \in [side : Sides \cup {None}, price : MinPrice .. (MaxPrice + 1), index : Nat]
    /\ pruned \in [ordersPruned : Nat, sharesErased : Int, priceLevelsErased : Nat,
                   quantityPruned : Int]

Live == {b \in Blocks : heap[b] # None}

\* The map and the pool agree: every mapped id leads to a live block that
\* holds that id, and every live block is reached under its id.
MapMatchesPool ==
    /\ \A id \in OrderIds : idToOrder[id] # None =>
          /\ idToOrder[id] \in Live
          /\ heap[idToOrder[id]].id = id
    /\ \A b \in Live : idToOrder[heap[b].id] = b

\* The levels and the pool agree: a queue holds live blocks of its own level,
\* none of them twice, and every live block is in the queue of its level.
QueuesMatchPool ==
    /\ \A l \in Levels : \A i \in DOMAIN queue[l] :
          /\ queue[l][i] \in Live
          /\ heap[queue[l][i]].level = l
          /\ heap[queue[l][i]].side = l[1]
          /\ \A j \in DOMAIN queue[l] : queue[l][i] = queue[l][j] => i = j
    /\ \A b \in Live : \E i \in DOMAIN queue[heap[b].level] : queue[heap[b].level][i] = b

\* No order rests with nothing left of it.
RestingOrdersHaveShares == \A b \in Live : heap[b].quantity > 0

\* Between any two steps the map, the pool and the levels describe the same
\* set of resting orders: a fill, a cancel, a modification or a prune takes an
\* order out of all three ("executed and cancelled orders are removed from
\* the id map"), so no stored pointer dangles and no block is lost.
Coherent == MapMatchesPool /\ QueuesMatchPool /\ RestingOrdersHaveShares

\* The cached best price names the first non-empty level of its ladder, and
\* is absent exactly when the ladder is empty.  While the session-end walk is
\* on a ladder its best level may have been emptied, but nothing is ahead of it.
BestPriceIsBest ==
    \A side \in Sides :
        /\ \A p \in Prices : queue[<<side, p>>] # <<>> =>
              best[side] # None /\ ~Ahead(side, p, best[side])
        /\ best[side] # None =>
              \/ queue[<<side, best[side]>>] # <<>>
              \/ pc = "pruning" /\ cursor.side = side

\* The cached volume of every level is the sum of the quantities of the
\* orders resting on it, through partial fills, removals and prunes.
VolumeIsSum ==
    \A l \in Levels :
        volume[l] = SumFunction([i \in DOMAIN queue[l] |-> heap[queue[l][i]].quantity])

\* A book that is only submitted to never shows a bid at or above an ask,
\* not even in the middle of a call.
NotCrossed ==
    \A bid \in Prices, ask \in Prices :
        queue[<<"BUY", bid>>] # <<>> /\ queue[<<"SELL", ask>>] # <<>> => bid < ask

\* A fill-or-kill order that starts matching is filled to the last share: the
\* liquidity its first pass counted on cached volumes is there for the second
\* pass, which asserts remainingShares == 0.
FillOrKillFillsAll ==
    call.tif = "FOK" /\ pc = "done" =>
        submission.status = "FILLED" /\ submission.quantityFilled = call.quantity

\* What a returned SubmissionResult says is what happened: the executions add
\* up to quantityFilled_, FILLED means nothing is missing, the order is in the
\* book afterwards exactly when the status says it rests, and then with the
\* unfilled quantity; no execution is outside the taker's limit.
ResultTellsWhatHappened ==
    pc = "done" /\ call.side # None =>
        LET filled == submission.quantityFilled
            rests  == submission.status \in {"RESTING", "PARTIALLY_FILLED_RESTING"}
        IN  /\ filled = SumFunction([i \in DOMAIN submission.executions |->
                                        submission.executions[i].executedQuantity])
            /\ submission.status = "FILLED" <=> filled = call.quantity
            /\ rests <=> idToOrder[call.id] # None
            /\ rests => heap[idToOrder[call.id]].quantity = call.quantity - filled
            /\ submission.status \in {"RESTING", "CANCELED"} => filled = 0
            /\ \A i \in DOMAIN submission.executions :
                  Crosses(call.side, call.limit, submission.executions[i].makerPrice)

\* A modification that has cancelled the order always places its replacement:
\* the resubmission passes every check of submit_limit_order, so the order is
\* never lost between the two halves.
ModificationCompletes ==
    pc = "done" /\ outcome.status = "RESUBMITTED" =>
        submission.status \in {"FILLED", "RESTING", "PARTIALLY_FILLED_RESTING"}

\* PriceLadder asserts requiredLiquidity > 0 where a fill-or-kill order has its
\* liquidity counted; no entry point checks that the caller asks for a share.
LiquidityAskedIsPositive == pc = "matching" /\ call.tif = "FOK" => call.quantity > 0

\* b stands somewhere in front of c in the queue q.
Precedes(q, b, c) == \E i, j \in DOMAIN q : i < j /\ q[i] = b /\ q[j] = c

\* b has priority over c: better price, or same price and earlier in the queue.
HasPriority(b, c) ==
    \/ Ahead(heap[b].side, heap[b].level[2], heap[c].level[2])
    \/ heap[b].level = heap[c].level /\ Precedes(queue[heap[b].level], b, c)

Shrinks(b) == heap'[b] = None \/ heap'[b].quantity < heap[b].quantity

\* A trade takes shares from the one resting order of the other side that has
\* priority over all others there, and only if the taker's limit allows.
PriceTimePriority ==
    [][pc = "matching" => \A b \in Live : Shrinks(b) =>
          /\ heap[b].side = Opposite(call.side)
          /\ Crosses(call.side, call.limit, heap[b].level[2])
          /\ \A c \in Live \ {b} : heap[c].side = heap[b].side => HasPriority(b, c)]_vars

\* Whatever a step removes or adds, an order that stays on its level has only
\* orders in front of it that were in front of it before: nobody overtakes, and
\* an order that joins goes behind all others, so that a modified order loses
\* its place.
QueuePlaceIsKept ==
    [][\A l \in Levels : \A i, j \in DOMAIN queue'[l] :
          i < j /\ (\E k \in DOMAIN queue[l] : queue[l][k] = queue'[l][j]) =>
              Precedes(queue[l], queue'[l][i], queue'[l][j])]_vars

RestingShares == SumFunction([b \in Live |-> heap[b].quantity])

\* No share appears or disappears in a trade: what the taker is credited with
\* is what the resting orders lose, and what it still wants shrinks by as much.
TradesBalance ==
    [][LET traded == submission'.quantityFilled - submission.quantityFilled
       IN  pc = "matching" /\ traded # 0 =>
              /\ RestingShares - RestingShares' = traded
              /\ pc' = "matching" => remaining - remaining' = traded]_vars

LevelsInUse == Cardinality({l \in Levels : queue[l] # <<>>})

WalkingLevel == pc = "pruning" /\ cursor.index > 0

\* A level the walk has emptied and not yet counted.
Emptied == IF WalkingLevel /\ queue[CursorLevel] = <<>> THEN 1 ELSE 0

\* The shares counted so far, those of the level the walk is on included.
ErasedShares == pruned.sharesErased + (IF WalkingLevel THEN pruned.quantityPruned ELSE 0)

\* The totals of the session end account for every order, share and level
\* that leaves the book, no GTC order is touched, and when on_session_end
\* returns no DAY order is left on either side.  The shares are exact as long as
\* those of one level fit a Quantity, in which they are first added up.
SessionEndAccounts ==
    [][/\ pc # "done" /\ pc' = "done" /\ call'.op = "session" =>
             \A b \in Blocks : heap'[b] # None => heap'[b].lifetime = "GTC"
       /\ pc = "pruning" =>
          /\ Cardinality(Live) - Cardinality(Live)' = pruned'.ordersPruned - pruned.ordersPruned
          /\ RestingShares - RestingShares' = ErasedShares' - ErasedShares
          /\ LevelsInUse + Emptied + pruned.priceLevelsErased
                = LevelsInUse' + Emptied' + pruned'.priceLevelsErased
          /\ \A b \in Live : heap[b].lifetime = "GTC" => heap'[b] = heap[b]]_vars

\* Every call returns: the match loop and the session-end walk terminate.
CallsReturn == pc # "idle" ~> pc = "idle"

=============================================================================

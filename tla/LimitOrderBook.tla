--------------------------- MODULE LimitOrderBook ---------------------------
(***************************************************************************)
(* What lob::OrderBook promises its callers: a two-sided book of resting   *)
(* orders in price-time priority.  There is no pool, no id map, no cached  *)
(* volume and no cached best price here; whatever the code looks up in one *)
(* of those is defined from the orders themselves.  OrderBook implements   *)
(* this specification (MCOrderBook checks it).                             *)
(***************************************************************************)
EXTENDS BookTypes, SequencesExt

VARIABLES
    book,        \* per level, its resting orders, oldest first
    pc, call, remaining, submission, outcome, pruned   \* as in OrderBook

vars == <<book, pc, call, remaining, submission, outcome, pruned>>

Init ==
    /\ book = [l \in Levels |-> <<>>]
    /\ pc = "idle"
    /\ call = NoCall
    /\ remaining = 0
    /\ submission = NoSubmission
    /\ outcome = NoOutcome
    /\ pruned = NothingPruned

-----------------------------------------------------------------------------

\* The places of the book that hold an order, and those that hold this id.
Places == UNION {{<<l, i>> : i \in DOMAIN book[l]} : l \in Levels}
OrderAt(place) == book[place[1]][place[2]]
PlacesOf(id) == {place \in Places : OrderAt(place).id = id}
Resting(id) == PlacesOf(id) # {}

Without(place) == [book EXCEPT ![place[1]] = RemoveAt(@, place[2])]

\* The levels of the other side that a request accepts trades at.
MarketableLevels(req) ==
    {l \in Levels : /\ l[1] = Opposite(req.side)
                    /\ book[l] # <<>>
                    /\ Crosses(req.side, req.limit, l[2])}

Liquidity(req) ==
    SumFunction([place \in {place \in Places : place[1] \in MarketableLevels(req)} |->
                    OrderAt(place).quantity])

\* The order a taker trades with next: the oldest at the best price.
BestLevel(req) ==
    CHOOSE l \in MarketableLevels(req) :
        \A other \in MarketableLevels(req) : ~Ahead(l[1], other[2], l[2])

-----------------------------------------------------------------------------

Acceptable(req) ==
    /\ ~Resting(req.id)
    /\ req.limit = None \/ req.limit \in Prices

\* What becomes of a request before any trade.
Submit(req) ==
    /\ UNCHANGED <<book, outcome, pruned>>
    /\ \/ /\ ~Acceptable(req)
          /\ submission' = [NoSubmission EXCEPT !.status = "REJECTED"]
          /\ pc' = "done" /\ call' = Plain(req.op)
          /\ UNCHANGED remaining
       \/ /\ Acceptable(req)
          /\ req.tif = "FOK"
          /\ MarketableLevels(req) = {} \/ Liquidity(req) < req.quantity
          /\ submission' = [NoSubmission EXCEPT !.status = "KILLED"]
          /\ pc' = "done" /\ call' = Plain(req.op)
          /\ UNCHANGED remaining
       \/ /\ Acceptable(req)
          /\ req.tif = "FOK" => MarketableLevels(req) # {} /\ Liquidity(req) >= req.quantity
          /\ pc' = "matching" /\ call' = req
          /\ remaining' = req.quantity
          /\ UNCHANGED submission

SubmitOrder ==
    /\ pc = "idle"
    /\ \E req \in LimitRequests \cup MarketRequests : Submit(req)

Wants == pc = "matching" /\ remaining > 0 /\ MarketableLevels(call) # {}

\* The taker trades with the order first in priority, at that order's price.
Trade ==
    /\ Wants
    /\ LET l        == BestLevel(call)
           maker    == Head(book[l])
           quantity == IF maker.quantity > remaining THEN remaining ELSE maker.quantity
           whole    == quantity = maker.quantity
       IN  /\ book' = IF whole THEN Without(<<l, 1>>)
                      ELSE [book EXCEPT ![l][1].quantity = @ - quantity]
           /\ remaining' = remaining - quantity
           /\ submission' =
                [status |-> IF whole THEN submission.status ELSE "FILLED",
                 quantityFilled |-> submission.quantityFilled + quantity,
                 executions |-> Append(submission.executions,
                     [makerOrderID |-> maker.id, makerPrice |-> l[2],
                      executedQuantity |-> quantity])]
           /\ pc' = IF whole THEN "matching" ELSE "done"
    /\ UNCHANGED <<call, outcome, pruned>>

\* A fill-or-kill order that is being matched is filled; what is left of any
\* other order rests or is dropped according to its time in force.
Finish ==
    /\ pc = "matching" /\ ~Wants
    /\ pc' = "done"
    /\ \/ /\ remaining = 0
          /\ submission' = [submission EXCEPT !.status = "FILLED"]
          /\ UNCHANGED book
       \/ /\ remaining > 0
          /\ call.tif \in Lifetimes
          /\ book' = [book EXCEPT ![<<call.side, call.limit>>] =
                Append(@, [id |-> call.id, quantity |-> remaining, lifetime |-> call.tif])]
          /\ submission' = [submission EXCEPT !.status =
                IF remaining < call.quantity THEN "PARTIALLY_FILLED_RESTING" ELSE "RESTING"]
       \/ /\ remaining > 0
          /\ call.tif \in {"IOC", None}
          /\ submission' = [submission EXCEPT !.status =
                IF remaining < call.quantity THEN "PARTIALLY_FILLED_CANCELED" ELSE "CANCELED"]
          /\ UNCHANGED book
    /\ UNCHANGED <<call, remaining, outcome, pruned>>

\* A call may leave by an exception when memory runs out, with the trades it
\* has made: between two trades, or where its order would rest if it is not a
\* modification and has not traded.
Fail ==
    /\ pc = "matching"
    /\ Wants \/ (/\ remaining > 0
                 /\ call.op = "submit"
                 /\ call.tif \in Lifetimes
                 /\ submission = NoSubmission)
    /\ pc' = "idle" /\ call' = NoCall
    /\ remaining' = 0
    /\ submission' = NoSubmission
    /\ outcome' = NoOutcome
    /\ UNCHANGED <<book, pruned>>

CancelOf(id) ==
    /\ pc = "idle"
    /\ \/ /\ ~Resting(id)
          /\ outcome' = [NoOutcome EXCEPT !.status = "NOT_FOUND"]
          /\ UNCHANGED book
       \/ \E place \in PlacesOf(id) :
             /\ outcome' = [status |-> "CANCELED", quantity |-> OrderAt(place).quantity]
             /\ book' = Without(place)
    /\ pc' = "done" /\ call' = Plain("cancel")
    /\ UNCHANGED <<remaining, submission, pruned>>

Cancel == \E id \in OrderIds : CancelOf(id)

ModifyRefusedOf(id, newPrice) ==
    /\ pc = "idle"
    /\ \/ /\ newPrice \notin Prices
          /\ outcome' = [NoOutcome EXCEPT !.status = "REJECTED"]
       \/ /\ newPrice \in Prices /\ ~Resting(id)
          /\ outcome' = [NoOutcome EXCEPT !.status = "NOT_FOUND"]
    /\ pc' = "done" /\ call' = Plain("modify")
    /\ UNCHANGED <<book, remaining, submission, pruned>>

ModifyRefused == \E id \in OrderIds, newPrice \in RequestPrices : ModifyRefusedOf(id, newPrice)

\* The order leaves the book, and comes back as a new one of the same id, side
\* and lifetime unless nothing is left of it.
ModifyOf(id, newPrice, newQuantity) ==
    /\ pc = "idle"
    /\ newPrice \in Prices
    /\ \E place \in PlacesOf(id) :
          LET order == OrderAt(place)
          IN  /\ book' = Without(place)
              /\ \/ /\ newQuantity > 0
                    /\ pc' = "resubmit"
                    /\ call' = [op |-> "modify", id |-> id, side |-> place[1][1],
                                limit |-> newPrice, quantity |-> newQuantity,
                                tif |-> order.lifetime]
                    /\ outcome' = [status |-> "RESUBMITTED", quantity |-> order.quantity]
                 \/ /\ newQuantity = 0
                    /\ pc' = "done" /\ call' = Plain("modify")
                    /\ outcome' = [status |-> "CANCELED", quantity |-> order.quantity]
    /\ UNCHANGED <<remaining, submission, pruned>>

Modify ==
    \E id \in OrderIds, newPrice \in Prices, newQuantity \in Quantities :
        ModifyOf(id, newPrice, newQuantity)

\* The replacement is acceptable whatever the book looks like.
Resubmit ==
    /\ pc = "resubmit"
    /\ Acceptable(call)
    /\ Submit(call)

DayPlaces == {place \in Places : OrderAt(place).lifetime = "DAY"}

SessionEnd ==
    /\ pc = "idle"
    /\ call' = Plain("session")
    /\ pc' = "pruning" \/ (DayPlaces = {} /\ pc' = "done")
    /\ UNCHANGED <<book, remaining, submission, outcome, pruned>>

\* The DAY orders go in no promised order; the totals count what went.
Prune ==
    /\ pc = "pruning"
    /\ \E place \in DayPlaces :
          /\ book' = Without(place)
          /\ pruned' = [ordersPruned |-> pruned.ordersPruned + 1,
                        sharesErased |-> pruned.sharesErased + OrderAt(place).quantity,
                        priceLevelsErased |-> pruned.priceLevelsErased
                            + (IF Len(book[place[1]]) = 1 THEN 1 ELSE 0)]
    /\ UNCHANGED <<pc, call, remaining, submission, outcome>>

SessionEnded ==
    /\ pc = "pruning"
    /\ DayPlaces = {}
    /\ pc' = "done"
    /\ UNCHANGED <<book, call, remaining, submission, outcome, pruned>>

Return ==
    /\ pc = "done"
    /\ pc' = "idle"
    /\ call' = NoCall
    /\ remaining' = 0
    /\ submission' = NoSubmission
    /\ outcome' = NoOutcome
    /\ pruned' = NothingPruned
    /\ UNCHANGED book

Next ==
    \/ SubmitOrder \/ Cancel \/ ModifyRefused \/ Modify \/ SessionEnd
    \/ Resubmit \/ Trade \/ Finish \/ Fail \/ Prune \/ SessionEnded \/ Return

Spec == Init /\ [][Next]_vars

=============================================================================

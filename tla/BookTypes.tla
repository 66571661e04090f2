----------------------------- MODULE BookTypes ------------------------------
(***************************************************************************)
(* The vocabulary of namespace lob: the sides, prices and times in force,  *)
(* the requests a caller submits and the statuses it gets back.  It is     *)
(* shared by the book as the code keeps it (OrderBook) and by the book as  *)
(* its callers see it (LimitOrderBook).                                    *)
(***************************************************************************)
EXTENDS Integers, Sequences, FiniteSets

CONSTANTS
    OrderIds,            \* the values of OrderID that callers use
    MinPrice, MaxPrice,  \* OrderBookConfig: the ends of both ladders
    Quantities,          \* the values of Quantity that callers ask for
    None                 \* std::nullopt, nullptr, "not in the map"

Sides == {"BUY", "SELL"}
Lifetimes == {"GTC", "DAY"}
TimesInForce == {"GTC", "DAY", "IOC", "FOK"}

Prices == MinPrice .. MaxPrice

\* What a caller may ask for reaches one tick past each end of the ladders.
RequestPrices == (MinPrice - 1) .. (MaxPrice + 1)

\* A price level is named by the ladder it belongs to and its price.
Levels == Sides \X Prices

\* OrderBookConfig throws a domain_error unless minPrice_ <= maxPrice_.
ASSUME PriceRange == MinPrice \in Int /\ MaxPrice \in Int /\ MinPrice <= MaxPrice

\* Quantity is a signed type and no entry point checks its sign; the book is
\* specified for callers that do not ask for a negative number of shares.
ASSUME NaturalQuantities == Quantities \subseteq Nat

ASSUME NoneIsNoValue ==
    /\ None \notin OrderIds
    /\ None \notin RequestPrices
    /\ None \notin Sides
    /\ None \notin TimesInForce

-----------------------------------------------------------------------------

Opposite(side) == IF side = "BUY" THEN "SELL" ELSE "BUY"

\* Price p is strictly ahead of price q on a ladder: bids rank from high to
\* low, asks from low to high.
Ahead(side, p, q) == IF side = "BUY" THEN p > q ELSE p < q

\* Slip: a limit equal to the best price is not marketable.
CrossesStrictly(side, limit, levelPrice) == limit # None => Ahead(side, limit, levelPrice)

\* An order of this side with this limit accepts a trade at levelPrice.  A
\* market order has no limit.
Crosses(side, limit, levelPrice) == limit # None => ~Ahead(side, levelPrice, limit)

-----------------------------------------------------------------------------
(* What is going on: the call in progress and what it is going to return.  *)

SubmitStatuses ==
    {"FILLED", "PARTIALLY_FILLED_RESTING", "PARTIALLY_FILLED_CANCELED",
     "KILLED", "REJECTED", "RESTING", "CANCELED"}

\* The statuses of CancelResult and ModificationResult.
OutcomeStatuses == {"RESUBMITTED", "CANCELED", "REJECTED", "NOT_FOUND"}

ASSUME NoneIsNoStatus == None \notin SubmitStatuses \cup OutcomeStatuses

\* tif is None for a market order, as is its limit.
LimitRequests ==
    [op : {"submit"}, id : OrderIds, side : Sides, limit : RequestPrices,
     quantity : Quantities, tif : TimesInForce]

MarketRequests ==
    [op : {"submit"}, id : OrderIds, side : Sides, limit : {None},
     quantity : Quantities, tif : {None}]

\* modify_order resubmits with the order's side and lifetime.
ModifyRequests ==
    [op : {"modify"}, id : OrderIds, side : Sides, limit : Prices,
     quantity : Quantities, tif : Lifetimes]

NoCall ==
    [op |-> None, id |-> None, side |-> None, limit |-> None,
     quantity |-> 0, tif |-> None]

\* All that is remembered of a call whose request no longer matters.
Plain(op) == [NoCall EXCEPT !.op = op]

Calls ==
    LimitRequests \cup MarketRequests \cup ModifyRequests \cup {NoCall}
        \cup {Plain(op) : op \in {"submit", "cancel", "modify", "session"}}

Executions == [makerOrderID : OrderIds, makerPrice : Prices, executedQuantity : Nat]

\* A SubmissionResult before the loop has produced anything.
NoSubmission == [status |-> None, quantityFilled |-> 0, executions |-> <<>>]

\* A CancelResult or ModificationResult; quantity is quantityCancelled_ or
\* originalQuantity_.
NoOutcome == [status |-> None, quantity |-> 0]

\* A DayOrderPruneResult.
NothingPruned == [ordersPruned |-> 0, sharesErased |-> 0, priceLevelsErased |-> 0]

=============================================================================

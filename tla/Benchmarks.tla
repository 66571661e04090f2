----------------------------- MODULE Benchmarks -----------------------------
(***************************************************************************)
(* The programs under bench/: the throughput benchmarks of                  *)
(* bench/individual_behaviours, each of which sets a book up and then times *)
(* a batch of calls meant to take one particular path through it, and the   *)
(* latency measurement of bench/latency.                                    *)
(*                                                                         *)
(* A benchmark is a record: the pool it asks for (without the 1024 blocks   *)
(* that each adds to be safe), the highest price of its ladder, the calls   *)
(* that are not timed, the calls that are, and the path that its name and   *)
(* the comment above it give each of these.  b is state.range(0), d the     *)
(* template argument; a price 10'000 + i of the code is 1 + i here, and     *)
(* calls count from 1.                                                      *)
(* One iteration is run, since each has a book of its own.                  *)
(***************************************************************************)
EXTENDS LimitOrderBook

CONSTANTS
    Batches,     \* the batch sizes
    Depths       \* SweepDepth, ScanDepth and Spread

VARIABLES
    run,         \* the benchmark that runs, its batch size and its depth
    made,        \* the calls made so far
    exit         \* how the program ended, or None

driverVars == <<run, made, exit>>
benchVars == <<book, pc, call, remaining, submission, outcome, pruned, run, made, exit>>

-----------------------------------------------------------------------------
(* Calls, and the paths they may take *)

Limit(id, price, quantity, side, tif) ==
    [op |-> "submit", id |-> id, side |-> side, limit |-> price, quantity |-> quantity, tif |-> tif]

Market(id, quantity, side) ==
    [op |-> "submit", id |-> id, side |-> side, limit |-> None, quantity |-> quantity, tif |-> None]

CancelRequest(id) == [op |-> "cancel", id |-> id, limit |-> None]

ModifyRequest(id, quantity, price) ==
    [op |-> "modify", id |-> id, limit |-> price, quantity |-> quantity]

OnSessionEnd == <<[op |-> "session", limit |-> None]>>

\* A call answered so, without a trade.
Path(status) ==
    [status |-> status, trades |-> 0, place |-> <<0, 0>>, scanned |-> 0, pruned |-> NothingPruned]

\* A call that trades with so many resting orders.
Trading(status, orders) == [Path(status) EXCEPT !.trades = orders]

\* A cancellation of the n-th of so many orders of a level.
CancelsAt(n, orders) == [Path("CANCELED") EXCEPT !.place = <<n, orders>>]

\* A fill-or-kill order that is killed after so many levels were added up.
KilledAfter(levels) == [Path("KILLED") EXCEPT !.scanned = levels]

\* A session end that takes so many orders of one share and so many levels.
Prunes(orders, levels) ==
    <<[Path(None) EXCEPT !.pruned =
        [ordersPruned |-> orders, sharesErased |-> orders, priceLevelsErased |-> levels]]>>

\* The same of every call of a batch.
Each(b, x) == [i \in 1 .. b |-> x]

\* Orders of one share on one level, and one per level.
OneLevel(n, side, tif) == [i \in 1 .. n |-> Limit(i, 1, 1, side, tif)]
UniqueLevels(n, side, tif) == [i \in 1 .. n |-> Limit(i, i, 1, side, tif)]

-----------------------------------------------------------------------------
(* SubmitLimitOrderRestingBench.cpp *)

SubmitRestingSameLevel(b) ==
    [pool |-> b, top |-> 1, setup |-> <<>>, timed |-> OneLevel(b, "BUY", "GTC"),
     path |-> Each(b, Path("RESTING"))]

SubmitRestingDiffLevels(b) ==
    [pool |-> b, top |-> b, setup |-> <<>>, timed |-> UniqueLevels(b, "BUY", "GTC"),
     path |-> Each(b, Path("RESTING"))]

SubmitRestingDiffLevelsFixedSpread(b, d) ==
    [pool |-> b, top |-> d, setup |-> <<>>,
     timed |-> [i \in 1 .. b |-> Limit(i, ((i - 1) % d) + 1, 1, "BUY", "GTC")],
     path |-> Each(b, Path("RESTING"))]

-----------------------------------------------------------------------------
(* SubmitLimitOrderAggressiveBench.cpp *)

\* The batch takes one share each of a single large ask.
FromOneMaker(b, tif) ==
    [pool |-> b, top |-> 1, setup |-> <<Limit(1, 1, b + 1, "SELL", "GTC")>>,
     timed |-> [i \in 1 .. b |-> Limit(i + 1, 1, 1, "BUY", tif)],
     path |-> Each(b, Trading("FILLED", 1))]

\* The batch takes one resting ask each, all of one level.
FromOneLevel(b, tif) ==
    [pool |-> b, top |-> 1, setup |-> OneLevel(b, "SELL", "GTC"),
     timed |-> [i \in 1 .. b |-> Limit(b + i, 1, 1, "BUY", tif)],
     path |-> Each(b, Trading("FILLED", 1))]

\* Slip: the buy price is one level short.
SweepShort(b, d, tif) ==
    [pool |-> b * d, top |-> b * d, setup |-> UniqueLevels(b * d, "SELL", "GTC"),
     timed |-> [i \in 1 .. b |-> Limit(b * d + i, i * d - 1, d, "BUY", tif)],
     path |-> Each(b, Trading("FILLED", d))]

\* The batch sweeps d levels each.
Sweep(b, d, tif) ==
    [pool |-> b * d, top |-> b * d, setup |-> UniqueLevels(b * d, "SELL", "GTC"),
     timed |-> [i \in 1 .. b |-> Limit(b * d + i, i * d, d, "BUY", tif)],
     path |-> Each(b, Trading("FILLED", d))]

SubmitAggressiveSameLevelPartialFill(b) == FromOneMaker(b, "GTC")
SubmitAggressiveSameLevelFill(b) == FromOneLevel(b, "GTC")
SubmitAggressiveSweepLevels(b, d) == Sweep(b, d, "GTC")

-----------------------------------------------------------------------------
(* SubmitLimitOrderIOCBench.cpp *)

SubmitIOCNoFill(b) ==
    [pool |-> b, top |-> 1, setup |-> <<>>, timed |-> OneLevel(b, "BUY", "IOC"),
     path |-> Each(b, Path("CANCELED"))]

\* "Partially filled then cancelled orders".
SubmitIOCSameLevelPartialFill(b) ==
    [FromOneMaker(b, "IOC") EXCEPT !.path = Each(b, Trading("PARTIALLY_FILLED_CANCELED", 1))]

SubmitIOCSameLevelFullFill(b) == FromOneLevel(b, "IOC")
SubmitIOCSweepLevels(b, d) == Sweep(b, d, "IOC")

-----------------------------------------------------------------------------
(* SubmitLimitOrderFOKBench.cpp *)

SubmitFOKNoFill(b) ==
    [pool |-> b, top |-> 1, setup |-> <<>>, timed |-> OneLevel(b, "BUY", "FOK"),
     path |-> Each(b, KilledAfter(0))]

SubmitFOKKilledAfterScan(b, d) ==
    [pool |-> b * d, top |-> d, setup |-> UniqueLevels(d, "SELL", "GTC"),
     timed |-> [i \in 1 .. b |-> Limit(d + i, d, d + 1, "BUY", "FOK")],
     path |-> Each(b, KilledAfter(d))]

\* One level, as the name says; the comment speaks of "unique price levels".
SubmitFOKSameLevelFullFill(b) == FromOneLevel(b, "FOK")
SubmitFOKSweepLevels(b, d) == Sweep(b, d, "FOK")

-----------------------------------------------------------------------------
(* SubmitMarketOrderBench.cpp *)

\* A batch of limit orders turned into market orders.
AsMarketOrders(bench) ==
    [bench EXCEPT !.timed = [i \in DOMAIN @ |-> Market(@[i].id, @[i].quantity, @[i].side)]]

SubmitMarketNoFill(b) == AsMarketOrders(SubmitIOCNoFill(b))
SubmitMarketSameLevelFullFill(b) == AsMarketOrders(FromOneLevel(b, "IOC"))
SubmitMarketSweepLevels(b, d) == AsMarketOrders(Sweep(b, d, "IOC"))

-----------------------------------------------------------------------------
(* SubmitCancelOrderBench.cpp *)

\* A book of n bids on one level, and a batch of cancellations of these ids.
Cancelling(n, ids, paths) ==
    [pool |-> n, top |-> 1, setup |-> OneLevel(n, "BUY", "GTC"),
     timed |-> [i \in DOMAIN ids |-> CancelRequest(ids[i])], path |-> paths]

CancelMissingEmptyBook(b) ==
    [Cancelling(0, [i \in 1 .. b |-> i], Each(b, Path("NOT_FOUND"))) EXCEPT !.pool = b]

CancelMissingPopulatedBook(b) ==
    Cancelling(b, [i \in 1 .. b |-> b + i], Each(b, Path("NOT_FOUND")))

CancelSameLevelHead(b) ==
    Cancelling(b, [i \in 1 .. b |-> i], [i \in 1 .. b |-> CancelsAt(1, b - i + 1)])

CancelSameLevelTail(b) ==
    Cancelling(b, [i \in 1 .. b |-> b - i + 1],
               [i \in 1 .. b |-> CancelsAt(b - i + 1, b - i + 1)])

\* Two of each triple that was passed are still there.
CancelSameLevelMiddle(b) ==
    Cancelling(3 * b, [i \in 1 .. b |-> 3 * i - 1],
               [i \in 1 .. b |-> CancelsAt(2 * i, 3 * b - i + 1)])

CancelUniqueLevels(b) ==
    [pool |-> b, top |-> b, setup |-> UniqueLevels(b, "BUY", "GTC"),
     timed |-> [i \in 1 .. b |-> CancelRequest(i)],
     path |-> Each(b, CancelsAt(1, 1))]

-----------------------------------------------------------------------------
(* SubmitModifyOrderBench.cpp *)

\* A book of n bids on one level, and modifications to this quantity, the i-th
\* to the i-th of these prices.
Modifying(n, prices, quantity, path) ==
    [pool |-> Len(prices), top |-> 1, setup |-> OneLevel(n, "BUY", "GTC"),
     timed |-> [i \in DOMAIN prices |-> ModifyRequest(i, quantity, prices[i])],
     path |-> Each(Len(prices), path)]

ModifyMissingEmptyBook(b) == Modifying(0, Each(b, 1), 1, Path("NOT_FOUND"))
ModifyToZeroQuantity(b) == Modifying(b, Each(b, 1), 0, Path("CANCELED"))
ModifySamePriceSameQuantity(b) == Modifying(b, Each(b, 1), 1, Path("RESTING"))

\* d is the 100 prices that the batch is spread over.
ModifyToNewNonCrossingPrice(b, d) ==
    [Modifying(b, [i \in 1 .. b |-> 2 + (i % d)], 1, Path("RESTING")) EXCEPT !.top = d + 1]

\* Slip: the pool has no room for the asks.
ModifyingInto(b, quantity) ==
    [Modifying(b, Each(b, 2), quantity, Trading("FILLED", quantity)) EXCEPT
        !.top = 2,
        !.setup = @ \o [i \in 1 .. b |-> Limit(b + i, 2, 1, "SELL", "GTC")]]

\* Bids that are modified to cross b asks of one share at the top price.
ModifyingAcross(b, quantity) ==
    [Modifying(b, Each(b, 2), quantity, Trading("FILLED", quantity)) EXCEPT
        !.pool = 2 * b,
        !.top = 2,
        !.setup = @ \o [i \in 1 .. b |-> Limit(b + i, 2, 1, "SELL", "GTC")]]

ModifyToAggressiveFullFill(b) == ModifyingAcross(b, 1)

\* "Modify resting bid orders to an aggressive price, partially filling and
\* resting the replacement remainder".
ModifyToAggressivePartialFillRest(b) ==
    [ModifyingAcross(b, 2) EXCEPT !.path = Each(b, Trading("PARTIALLY_FILLED_RESTING", 1))]

-----------------------------------------------------------------------------
(* SessionEndBench.cpp *)

SessionEnding(orders, top, path) ==
    [pool |-> Len(orders), top |-> top, setup |-> orders, timed |-> OnSessionEnd, path |-> path]

SessionEndAllGTCSameLevel(b) == SessionEnding(OneLevel(b, "BUY", "GTC"), 1, Prunes(0, 0))
SessionEndAllDAYSameLevel(b) == SessionEnding(OneLevel(b, "BUY", "DAY"), 1, Prunes(b, 1))

SessionEndMixedSameLevel(b) ==
    SessionEnding([i \in 1 .. b |-> Limit(i, 1, 1, "BUY", IF i % 2 = 0 THEN "DAY" ELSE "GTC")],
                  1, Prunes(b \div 2, 0))

SessionEndAllGTCUniqueLevels(b) == SessionEnding(UniqueLevels(b, "BUY", "GTC"), b, Prunes(0, 0))
SessionEndAllDAYUniqueLevels(b) == SessionEnding(UniqueLevels(b, "BUY", "DAY"), b, Prunes(b, b))

\* Each level gets a GTC and then a DAY order.
SessionEndMixedUniqueLevels(b) ==
    SessionEnding([n \in 1 .. 2 * b |->
                      LET i == (n + 1) \div 2
                      IN  IF n % 2 = 1 THEN Limit(i, i, 1, "BUY", "GTC")
                          ELSE Limit(b + i, i, 1, "BUY", "DAY")],
                  b, Prunes(b, 0))

-----------------------------------------------------------------------------
(* LatencyMeasurementMain.cpp: ids count from 0, prices go round d levels,   *)
(* the warm-up goes round them once.  count is the number of resting orders *)
(* that the program insists on before it writes its results.                *)

LatencyMeasurement(b, d) ==
    LET Submission(i) == Limit(i, (i % d) + 1, 1, "BUY", "GTC")
    IN  [pool |-> b + d + 1, top |-> d,
         setup |-> [i \in 1 .. d |-> Submission(i - 1)],
         timed |-> [i \in 1 .. b |-> Submission(d + i - 1)],
         path |-> Each(b, Path("RESTING")),
         count |-> b + d]

-----------------------------------------------------------------------------
(* What is run.  One iteration of each benchmark, on a book of its own.     *)

Untemplated(b) ==
    {SubmitRestingSameLevel(b), SubmitRestingDiffLevels(b),
     SubmitAggressiveSameLevelPartialFill(b), SubmitAggressiveSameLevelFill(b),
     SubmitIOCNoFill(b), SubmitIOCSameLevelPartialFill(b), SubmitIOCSameLevelFullFill(b),
     SubmitFOKNoFill(b), SubmitFOKSameLevelFullFill(b),
     SubmitMarketNoFill(b), SubmitMarketSameLevelFullFill(b),
     CancelMissingEmptyBook(b), CancelMissingPopulatedBook(b), CancelSameLevelHead(b),
     CancelSameLevelTail(b), CancelSameLevelMiddle(b), CancelUniqueLevels(b),
     ModifyMissingEmptyBook(b), ModifyToZeroQuantity(b), ModifySamePriceSameQuantity(b),
     ModifyToAggressiveFullFill(b), ModifyToAggressivePartialFillRest(b),
     SessionEndAllGTCSameLevel(b), SessionEndAllDAYSameLevel(b), SessionEndMixedSameLevel(b),
     SessionEndAllGTCUniqueLevels(b), SessionEndAllDAYUniqueLevels(b),
     SessionEndMixedUniqueLevels(b)}

Templated(b, d) ==
    {SubmitRestingDiffLevelsFixedSpread(b, d), SubmitAggressiveSweepLevels(b, d),
     SubmitIOCSweepLevels(b, d), SubmitFOKKilledAfterScan(b, d), SubmitFOKSweepLevels(b, d),
     SubmitMarketSweepLevels(b, d), ModifyToNewNonCrossingPrice(b, d),
     LatencyMeasurement(b, d)}

Runs == UNION {Untemplated(b) \cup Templated(b, d) : b \in Batches, d \in Depths}

\* The arguments that the benchmarks are registered with are positive.
ASSUME SizesArePositive == Batches \subseteq Nat \ {0} /\ Depths \subseteq Nat \ {0}

ASSUME NoneIsNoExit == None \notin {"EXIT_SUCCESS", "EXIT_FAILURE"}

\* Every ladder starts at the price 1 and is part of the ladders of the book.
ASSUME LaddersFit == MinPrice = 1 /\ \A r \in Runs : r.top <= MaxPrice

BenchInit ==
    /\ Init
    /\ run \in Runs
    /\ made = 0
    /\ exit = None

Script == run.setup \o run.timed

\* The n-th call.  A price off the ladder of this benchmark is off any ladder.
Request(n) ==
    [Script[n] EXCEPT !.limit = IF @ # None /\ @ > run.top THEN MaxPrice + 1 ELSE @]

\* The next call is made; what it returns is not looked at.
Call ==
    /\ pc = "idle"
    /\ made < Len(Script)
    /\ made' = made + 1
    /\ LET req == Request(made')
       IN  \/ req.op = "submit" /\ Submit(req)
           \/ req.op = "cancel" /\ CancelOf(req.id)
           \/ /\ req.op = "modify"
              /\ \/ ModifyRefusedOf(req.id, req.limit)
                 \/ ModifyOf(req.id, req.limit, req.quantity)
           \/ req.op = "session" /\ SessionEnd
    /\ UNCHANGED <<run, exit>>

\* The book serves the call.
Serve ==
    /\ \/ Resubmit \/ Trade \/ Finish
       \/ Prune \/ SessionEnded
       \/ Return
    /\ UNCHANGED driverVars

\* The program ends; a results file that cannot be opened is left out.
End ==
    /\ pc = "idle"
    /\ made = Len(Script)
    /\ exit = None
    /\ exit' = IF "count" \in DOMAIN run /\ Cardinality(Places) # run.count
               THEN "EXIT_FAILURE"
               ELSE "EXIT_SUCCESS"
    /\ UNCHANGED <<book, pc, call, remaining, submission, outcome, pruned, run, made>>

Ended ==
    /\ exit # None
    /\ UNCHANGED benchVars

BenchNext == Call \/ Serve \/ End \/ Ended

BenchSpec == BenchInit /\ [][BenchNext]_benchVars

-----------------------------------------------------------------------------
(* Properties *)

\* Where the order stands that a call cancels: its number in the queue of its
\* level, and how many there are.
PlaceOf(req) ==
    IF req.op = "cancel" /\ Resting(req.id)
    THEN LET place == CHOOSE place \in PlacesOf(req.id) : TRUE
         IN  <<place[2], Len(book[place[1]])>>
    ELSE <<0, 0>>

\* The path that the call which returns now has taken through the book.
Taken ==
    LET req == Request(made')
    IN  [status  |-> IF outcome'.status \in {None, "RESUBMITTED"}
                     THEN submission'.status ELSE outcome'.status,
         trades  |-> Len(submission'.executions),
         place   |-> PlaceOf(req),
         scanned |-> IF submission'.status = "KILLED" THEN Cardinality(MarketableLevels(req)) ELSE 0,
         pruned  |-> pruned']

\* The path it is said to take: all the untimed calls set orders to rest.
Meant ==
    IF made' <= Len(run.setup) THEN Path("RESTING") ELSE run.path[made' - Len(run.setup)]

Returns == pc # "done" /\ pc' = "done"

\* The calls of which a comment is not true.  The orders of
\* SubmitIOCSameLevelPartialFill ("Partially filled then cancelled orders") are for
\* one share and meet an ask for more than all of them.  The replacements of
\* ModifyToAggressivePartialFillRest ("partially filling and resting the replacement
\* remainder") meet two asks each, of which there is one per call, and later none:
\* only the call in the middle of an odd batch finds a single one.
Misdescribed ==
    LET n == made' - Len(run.setup)
    IN  /\ n > 0
        /\ \E b \in Batches :
              \/ run = SubmitIOCSameLevelPartialFill(b)
              \/ run = ModifyToAggressivePartialFillRest(b) /\ 2 * n # b + 1

\* In each batch size, and although every call before it has changed the book, each
\* call of a benchmark takes the path that its name and comment give it, with as many
\* trades, at that place of the queue and over as many levels; all but the calls of
\* two benchmarks, none of which, one at most, does what its comment says.
EachCallTakesItsPath ==
    [][Returns => (Taken = Meant <=> ~Misdescribed)]_benchVars

\* No timed call pays for growing the pool, since the orders that rest never
\* outnumber the blocks the book was built with; and the latency program finds
\* the number of orders that it insists on.
MeasurementIsSound ==
    /\ Cardinality(Places) <= run.pool
    /\ exit # "EXIT_FAILURE"

=============================================================================

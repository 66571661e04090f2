----------------------------- MODULE PriceLadder -----------------------------
(***************************************************************************)
(* lob::core::PriceLadder (src/src/core/PriceLadder.hpp and .cpp): one      *)
(* level per tick in a vector, a cached best price, and the loops over the  *)
(* vector by an unsigned index, one iteration per step.  A level is taken   *)
(* at the shares resting on it, GTC and DAY.                               *)
(*                                                                         *)
(* OrderBook takes each loop at its result; here it is shown that the loops *)
(* have these results when the ladder is used as the book uses it.          *)
(***************************************************************************)
EXTENDS Integers, SequencesExt

CONSTANTS
    MinPrice, MaxPrice,  \* minPrice_ and maxPrice_
    MaxShares,           \* bound: shares of one lifetime on one level
    MaxDepth,            \* bound: levels that a caller asks to see
    IndexEnd,            \* indices are unsigned and wrap here
    None                 \* std::nullopt

VARIABLES
    side,        \* side_, which never changes
    levels,      \* levels_: by index, the shares of each lifetime
    bestPrice,   \* bestPrice_
    pc,          \* the loop that is running, or what it has returned
    i,           \* its index
    asked,       \* thresholdPrice and requiredLiquidity, or depth
    available,   \* availableLiquidity
    answer,      \* what has_sufficient_marketable_liquidity returned
    top          \* the result of get_top_levels

ladderVars == <<side, levels, bestPrice>>
vars == <<side, levels, bestPrice, pc, i, asked, available, answer, top>>

ASSUME PriceRange == MinPrice \in Int /\ MaxPrice \in Int /\ MinPrice <= MaxPrice

NumLevels == MaxPrice - MinPrice + 1

ASSUME IndexHoldsLevels == IndexEnd \in Nat /\ NumLevels < IndexEnd

ASSUME BoundsAreNatural == MaxShares \in Nat /\ MaxDepth \in Nat

Prices == MinPrice .. MaxPrice

ASSUME NoneIsNoPrice == None \notin Prices

Indices == 0 .. (NumLevels - 1)
Lifetimes == {"GTC", "DAY"}
NothingAsked == [threshold |-> MinPrice, required |-> 0, depth |-> 0]

Init ==
    /\ side \in {"BUY", "SELL"}
    /\ levels = [n \in Indices |-> [life \in Lifetimes |-> 0]]
    /\ bestPrice = None
    /\ pc = "idle"
    /\ i = 0
    /\ asked = NothingAsked
    /\ available = 0
    /\ answer = FALSE
    /\ top = <<>>

-----------------------------------------------------------------------------

\* static_cast<std::size_t>(price - minPrice_), and back.
IndexOf(price) == price - MinPrice
PriceAt(n) == MinPrice + n

\* get_total_volume and empty of the level at index n.
VolumeAt(n) == levels[n]["GTC"] + levels[n]["DAY"]
EmptyAt(n) == VolumeAt(n) = 0

\* One price is ahead of another: bids from high to low, asks from low to high.
Ahead(p, q) == IF side = "BUY" THEN p > q ELSE p < q

\* Slip: the loop of a buy ladder has no last level.
EndedNever(last) == i >= NumLevels

\* The loops of a buy ladder end at the index they are to end at, after its
\* level was looked at; those of a sell ladder end when the index is past it.
Ended(last) == IF side = "BUY" THEN i = last ELSE i > last

\* Slip: the index stays where it is.
AdvancedNot == i

Advanced == IF side = "BUY" THEN (i - 1) % IndexEnd ELSE (i + 1) % IndexEnd

\* Whether the loop looks at level i before it is found to be over.
Looks(last) == side = "BUY" \/ i <= last

\* The index of the level that is last in priority.
Farthest == IF side = "BUY" THEN 0 ELSE NumLevels - 1

-----------------------------------------------------------------------------
(* What the book does to a ladder *)

\* An order rests: its level grows and the best price follows if it is beaten.
Rest ==
    /\ pc = "idle"
    /\ \E price \in Prices, life \in Lifetimes, shares \in 1 .. MaxShares :
          /\ levels[IndexOf(price)][life] + shares <= MaxShares
          /\ levels' = [levels EXCEPT ![IndexOf(price)][life] = @ + shares]
          /\ bestPrice' = IF bestPrice = None \/ Ahead(price, bestPrice)
                          THEN price ELSE bestPrice
    /\ UNCHANGED <<side, pc, i, asked, available, answer, top>>

\* The index at which update_best_price_from_given starts.
ScanFrom(price) == IndexOf(price)

\* Slip: any level that was emptied is scanned from.
NeedsScanAlways(price, shares) == shares = 0

\* Whether the best price has to be found again, shares being what is left at
\* this price.
NeedsScan(price, shares) == bestPrice = price /\ shares = 0

\* Shares leave a level: a fill, a cancel or a reduction.
Leave ==
    /\ pc = "idle"
    /\ \E price \in Prices, life \in Lifetimes :
       \E shares \in 1 .. levels[IndexOf(price)][life] :
          /\ levels' = [levels EXCEPT ![IndexOf(price)][life] = @ - shares]
          /\ IF NeedsScan(price, VolumeAt(IndexOf(price)) - shares)
             THEN pc' = "scanning" /\ i' = ScanFrom(price)
             ELSE UNCHANGED <<pc, i>>
    /\ UNCHANGED <<side, bestPrice, asked, available, answer, top>>

-----------------------------------------------------------------------------
(* update_best_price_from_given *)

ScanHit ==
    /\ pc = "scanning"
    /\ i \in Indices
    /\ ~EmptyAt(i)
    /\ bestPrice' = PriceAt(i)
    /\ pc' = "idle" /\ i' = 0
    /\ UNCHANGED <<side, levels, asked, available, answer, top>>

ScanOn ==
    /\ pc = "scanning"
    /\ i \in Indices
    /\ EmptyAt(i)
    /\ ~Ended(Farthest)
    /\ i' = Advanced
    /\ UNCHANGED <<ladderVars, pc, asked, available, answer, top>>

ScanMiss ==
    /\ pc = "scanning"
    /\ Looks(Farthest) => EmptyAt(i)
    /\ Ended(Farthest)
    /\ bestPrice' = None
    /\ pc' = "idle" /\ i' = 0
    /\ UNCHANGED <<side, levels, asked, available, answer, top>>

-----------------------------------------------------------------------------
(* has_sufficient_marketable_liquidity *)

\* Slip: a threshold at the best price is taken to be behind it.
CountFailsAtBest(threshold) == bestPrice = None \/ ~Ahead(bestPrice, threshold)

\* The early exits: nothing on the ladder, or nothing the threshold reaches.
CountFails(threshold) == bestPrice = None \/ Ahead(threshold, bestPrice)

StartCounting ==
    /\ pc = "idle"
    /\ \E threshold \in Prices, required \in 1 .. (2 * MaxShares * NumLevels + 1) :
          /\ asked' = [NothingAsked EXCEPT !.threshold = threshold, !.required = required]
          /\ IF CountFails(threshold)
             THEN pc' = "counted" /\ UNCHANGED i
             ELSE pc' = "counting" /\ i' = IndexOf(bestPrice)
    /\ UNCHANGED <<ladderVars, available, answer, top>>

Threshold == IndexOf(asked.threshold)

CountEnough ==
    /\ pc = "counting"
    /\ Looks(Threshold)
    /\ i \in Indices
    /\ ~EmptyAt(i)
    /\ available + VolumeAt(i) >= asked.required
    /\ answer' = TRUE
    /\ pc' = "counted" /\ i' = 0 /\ available' = 0
    /\ UNCHANGED <<ladderVars, asked, top>>

CountOn ==
    /\ pc = "counting"
    /\ i \in Indices
    /\ ~Ended(Threshold)
    /\ available + VolumeAt(i) < asked.required
    /\ available' = available + VolumeAt(i)
    /\ i' = Advanced
    /\ UNCHANGED <<ladderVars, pc, asked, answer, top>>

CountShort ==
    /\ pc = "counting"
    /\ Ended(Threshold)
    /\ Looks(Threshold) => available + VolumeAt(i) < asked.required
    /\ pc' = "counted" /\ i' = 0 /\ available' = 0
    /\ UNCHANGED <<ladderVars, asked, answer, top>>

-----------------------------------------------------------------------------
(* get_top_levels *)

StartListing ==
    /\ pc = "idle"
    /\ \E depth \in 0 .. MaxDepth :
          /\ asked' = [NothingAsked EXCEPT !.depth = depth]
          /\ IF depth = 0 \/ bestPrice = None
             THEN pc' = "listed" /\ UNCHANGED i
             ELSE pc' = "listing" /\ i' = IndexOf(bestPrice)
    /\ UNCHANGED <<ladderVars, available, answer, top>>

\* Slip: empty levels are listed as well.
EveryListed == Append(top, <<PriceAt(i), VolumeAt(i)>>)

Listed == IF EmptyAt(i) THEN top ELSE Append(top, <<PriceAt(i), VolumeAt(i)>>)

ListOn ==
    /\ pc = "listing"
    /\ i \in Indices
    /\ ~Ended(Farthest)
    /\ top' = Listed
    /\ IF Len(top') = asked.depth
       THEN pc' = "listed" /\ i' = 0
       ELSE pc' = pc /\ i' = Advanced
    /\ UNCHANGED <<ladderVars, asked, available, answer>>

ListEnd ==
    /\ pc = "listing"
    /\ Ended(Farthest)
    /\ top' = IF Looks(Farthest) THEN Listed ELSE top
    /\ pc' = "listed" /\ i' = 0
    /\ UNCHANGED <<ladderVars, asked, available, answer>>

-----------------------------------------------------------------------------
(* prune_day_orders *)

StartPruning ==
    /\ pc = "idle"
    /\ pc' = "pruning" /\ i' = 0
    /\ UNCHANGED <<ladderVars, asked, available, answer, top>>

\* A level loses its DAY orders.  An empty one is passed over.
PruneLevel ==
    /\ pc = "pruning"
    /\ i < NumLevels
    /\ levels' = [levels EXCEPT ![i]["DAY"] = 0]
    /\ i' = i + 1
    /\ UNCHANGED <<side, bestPrice, pc, asked, available, answer, top>>

FinishPruning ==
    /\ pc = "pruning"
    /\ i = NumLevels
    /\ IF bestPrice # None /\ NeedsScan(bestPrice, VolumeAt(IndexOf(bestPrice)))
       THEN pc' = "scanning" /\ i' = ScanFrom(bestPrice)
       ELSE pc' = "idle" /\ i' = 0
    /\ UNCHANGED <<ladderVars, asked, available, answer, top>>

-----------------------------------------------------------------------------

\* The caller takes what the last query returned.
Return ==
    /\ pc \in {"counted", "listed"}
    /\ pc' = "idle"
    /\ asked' = NothingAsked /\ answer' = FALSE /\ top' = <<>>
    /\ UNCHANGED <<ladderVars, i, available>>

\* The loops that run, and the return from them.
Looping ==
    \/ ScanHit \/ ScanOn \/ ScanMiss
    \/ CountEnough \/ CountOn \/ CountShort
    \/ ListOn \/ ListEnd
    \/ PruneLevel \/ FinishPruning
    \/ Return

Next == Rest \/ Leave \/ StartCounting \/ StartListing \/ StartPruning \/ Looping

Spec == Init /\ [][Next]_vars

\* A call runs on its caller's thread until it returns.
FairSpec == Spec /\ WF_vars(Looping)

-----------------------------------------------------------------------------
(* Properties *)

Loops == {"scanning", "counting", "listing", "pruning"}

\* No loop reads in front of the vector or behind it: the index of a buy
\* ladder, which is unsigned, is not decremented below the lowest level.
ReadsStayInside ==
    /\ pc = "scanning" /\ Looks(Farthest) => i \in Indices
    /\ pc = "counting" /\ Looks(Threshold) => i \in Indices
    /\ pc = "listing" /\ Looks(Farthest) => i \in Indices

TypeOK ==
    /\ ReadsStayInside
    /\ side \in {"BUY", "SELL"}
    /\ levels \in [Indices -> [Lifetimes -> 0 .. MaxShares]]
    /\ bestPrice \in Prices \cup {None}
    /\ pc \in Loops \cup {"idle", "counted", "listed"}
    /\ i \in 0 .. NumLevels
    /\ asked \in [threshold : Prices, required : Nat, depth : 0 .. MaxDepth]
    /\ available \in Nat
    /\ answer \in BOOLEAN
    /\ top \in Seq(Prices \X Nat)

NonEmpty == {p \in Prices : ~EmptyAt(IndexOf(p))}

\* "Best bid/ask are updated when the corresponding price level is emptied":
\* between calls the cached best price is that of the foremost level with
\* shares, whatever left the ladder and in whatever order.
BestIsForemost ==
    pc \notin {"scanning", "pruning"} =>
        /\ bestPrice = None <=> NonEmpty = {}
        /\ bestPrice # None =>
              bestPrice \in NonEmpty /\ \A p \in NonEmpty : ~Ahead(p, bestPrice)

Marketable == {p \in Prices : ~Ahead(asked.threshold, p)}

\* What has_sufficient_marketable_liquidity returns, with both its early exits,
\* is whether the shares at the threshold and ahead of it are enough.
CountIsRight ==
    pc = "counted" =>
        answer = (SumFunction([p \in Marketable |-> VolumeAt(IndexOf(p))]) >= asked.required)

\* get_top_levels returns the foremost levels with shares, in order and with
\* their volumes, and fewer than it was asked for only if there are no more.
ListIsRight ==
    pc = "listed" =>
        /\ \A n \in DOMAIN top :
              /\ top[n][1] \in NonEmpty
              /\ top[n][2] = VolumeAt(IndexOf(top[n][1]))
              /\ \A m \in DOMAIN top : m < n => Ahead(top[m][1], top[n][1])
              /\ \A p \in NonEmpty : Ahead(p, top[n][1]) =>
                    \E m \in DOMAIN top : top[m][1] = p
        /\ Len(top) <= asked.depth
        /\ Len(top) < asked.depth => Len(top) = Cardinality(NonEmpty)

\* Both queries answer from the levels and not from a drifted best price.
QueriesAreRight == CountIsRight /\ ListIsRight

\* Every loop ends.
LoopsEnd == pc # "idle" ~> pc = "idle"

=============================================================================

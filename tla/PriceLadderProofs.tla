-------------------------- MODULE PriceLadderProofs ---------------------------
(***************************************************************************)
(* What holds of a PriceLadder for every price range, either side, any      *)
(* number of shares and any depth.                                         *)
(*                                                                         *)
(* The argument is the same for the three loops over the vector: at every   *)
(* iteration the prices strictly ahead of the index are exactly those that  *)
(* the loop has dealt with, none of them with shares while it scans, all of *)
(* them added up while it counts and all of them listed while it lists.     *)
(***************************************************************************)
EXTENDS PriceLadder, SumProofs

Types ==
    /\ side \in {"BUY", "SELL"}
    /\ levels \in [Indices -> [Lifetimes -> 0 .. MaxShares]]
    /\ bestPrice \in Prices \cup {None}
    /\ pc \in Loops \cup {"idle", "counted", "listed"}
    /\ i \in 0 .. NumLevels
    /\ asked \in [threshold : Prices, required : Nat, depth : 0 .. MaxDepth]
    /\ available \in Nat
    /\ answer \in BOOLEAN
    /\ top \in Seq(Prices \X Nat)

\* The shares at each price, and the prices ahead of a given one.
Volumes == [p \in Prices |-> VolumeAt(IndexOf(p))]
AheadOf(limit) == {p \in Prices : Ahead(p, limit)}

NothingAheadOf(limit) == \A p \in NonEmpty : ~Ahead(p, limit)

Foremost ==
    /\ bestPrice = None <=> NonEmpty = {}
    /\ bestPrice # None => bestPrice \in NonEmpty /\ NothingAheadOf(bestPrice)

\* The index is a level's and has not passed the one at which the loop is to
\* end, except that a sell ladder's may be just past it.
Within(last) == IF side = "BUY" THEN last <= i /\ i < NumLevels ELSE i <= last + 1

ScanInv == pc = "scanning" => Within(Farthest) /\ NothingAheadOf(PriceAt(i))

PruneInv ==
    pc = "pruning" =>
        \A p \in NonEmpty : bestPrice # None /\ ~Ahead(p, bestPrice)

CountInv ==
    /\ pc \in {"counting", "counted"} => asked.required > 0
    /\ pc = "counting" =>
          /\ Within(Threshold)
          /\ available = SumFunctionOnSet(Volumes, AheadOf(PriceAt(i)))
          /\ available < asked.required
    /\ pc # "counting" => available = 0
    /\ pc # "counted" => ~answer
    /\ CountIsRight

\* What a list holds are the levels with shares ahead of a given price.
ListsAheadOf(list, limit) ==
    /\ \A n \in DOMAIN list :
          /\ list[n][1] \in NonEmpty
          /\ list[n][2] = VolumeAt(IndexOf(list[n][1]))
          /\ \A m \in DOMAIN list : m < n => Ahead(list[m][1], list[n][1])
          /\ Ahead(list[n][1], limit)
    /\ \A p \in NonEmpty : Ahead(p, limit) => \E m \in DOMAIN list : list[m][1] = p

ListInv ==
    /\ pc = "listing" =>
          /\ Within(Farthest)
          /\ ListsAheadOf(top, PriceAt(i))
          /\ Len(top) < asked.depth
    /\ pc \notin {"listing", "listed"} => top = <<>>
    /\ ListIsRight

\* The inductive invariant.
LadderInv ==
    /\ Types
    /\ pc \notin {"scanning", "pruning"} => Foremost
    /\ ScanInv
    /\ PruneInv
    /\ CountInv
    /\ ListInv

-----------------------------------------------------------------------------
(* Prices, indices and volumes *)

LEMMA IndexFacts ==
    /\ NumLevels \in Nat /\ NumLevels > 0
    /\ IsFiniteSet(Prices)
    /\ \A p \in Prices : IndexOf(p) \in Indices /\ PriceAt(IndexOf(p)) = p
    /\ \A n \in Indices : PriceAt(n) \in Prices /\ IndexOf(PriceAt(n)) = n
<1>1. IsFiniteSet(Prices)
  BY PriceRange, FS_Interval DEF Prices
<1> QED
  BY <1>1, PriceRange DEF NumLevels, Prices, Indices, IndexOf, PriceAt

LEMMA VolumeFacts ==
    ASSUME Types
    PROVE  /\ \A n \in Indices : VolumeAt(n) \in Nat
           /\ \A p \in Prices : Volumes[p] = VolumeAt(IndexOf(p)) /\ Volumes[p] \in Nat
<1>1. \A n \in Indices : VolumeAt(n) \in Nat
  BY BoundsAreNatural DEF Types, VolumeAt, Lifetimes
<1> QED
  BY <1>1, IndexFacts DEF Volumes

\* Being ahead is a strict total order.
LEMMA AheadIsOrder ==
    ASSUME Types, NEW p \in Int, NEW q \in Int, NEW r \in Int
    PROVE  /\ ~Ahead(p, p)
           /\ Ahead(p, q) /\ Ahead(q, r) => Ahead(p, r)
           /\ ~Ahead(p, q) /\ ~Ahead(q, r) => ~Ahead(p, r)
           /\ ~Ahead(p, q) /\ ~Ahead(q, p) => p = q
           /\ Ahead(p, q) => ~Ahead(q, p)
BY DEF Ahead, Types

\* A set of prices without shares has none together.
LEMMA NoShares ==
    ASSUME Types, NEW S \in SUBSET Prices, \A p \in S : p \notin NonEmpty
    PROVE  SumFunctionOnSet(Volumes, S) = 0
<1>1. IsFiniteSet(S)
  BY IndexFacts, FS_Subset
<1>2. \A p \in S : Volumes[p] = 0
  BY VolumeFacts DEF NonEmpty, EmptyAt
<1> QED
  BY <1>1, <1>2, SumZero

LEMMA SumOfPrices ==
    ASSUME Types, NEW S \in SUBSET Prices
    PROVE  /\ IsFiniteSet(S)
           /\ SumFunctionOnSet(Volumes, S) \in Nat
           /\ \A T \in SUBSET S :
                 SumFunctionOnSet(Volumes, T) <= SumFunctionOnSet(Volumes, S)
           /\ \A p \in Prices \ S :
                 SumFunctionOnSet(Volumes, S \cup {p}) =
                    SumFunctionOnSet(Volumes, S) + VolumeAt(IndexOf(p))
<1>1. IsFiniteSet(S)
  BY IndexFacts, FS_Subset
<1>2. \A p \in S : Volumes[p] \in Nat
  BY VolumeFacts
<1>3. ASSUME NEW p \in Prices \ S
      PROVE  SumFunctionOnSet(Volumes, S \cup {p}) =
                SumFunctionOnSet(Volumes, S) + VolumeAt(IndexOf(p))
  <2>1. p \notin S /\ \A q \in S \cup {p} : Volumes[q] \in Int
    BY VolumeFacts
  <2>2. SumFunctionOnSet(Volumes, S \cup {p}) = SumFunctionOnSet(Volumes, S) + Volumes[p]
    BY ONLY <1>1, <2>1, SumAdd
  <2> QED
    BY <2>2, VolumeFacts
<1> QED
  BY <1>1, <1>2, <1>3, SumNat, SumPart

\* An iteration that is not the last moves the index one level away from the
\* best price: the level it was at is now behind the loop as well.
LEMMA AdvanceFacts ==
    ASSUME Types, i \in Indices, NEW last \in Indices, Within(last), ~Ended(last)
    PROVE  /\ Advanced \in 0 .. NumLevels
           /\ IF side = "BUY" THEN last <= Advanced /\ Advanced < NumLevels ELSE Advanced <= last + 1
           /\ \A p \in Prices :
                 Ahead(p, PriceAt(Advanced)) <=> Ahead(p, PriceAt(i)) \/ p = PriceAt(i)
<1>1. last \in Int /\ i \in Int /\ 0 <= i /\ i < NumLevels /\ 0 <= last /\ last < NumLevels
      /\ NumLevels \in Nat /\ IndexEnd \in Nat /\ NumLevels < IndexEnd
  BY IndexFacts, IndexHoldsLevels DEF Indices
<1>2. CASE side = "BUY"
  <2>1. i > last /\ Advanced = (i - 1) % IndexEnd
    BY <1>1, <1>2 DEF Within, Ended, Advanced
  <2>2. Advanced = i - 1
    BY <1>1, <2>1
  <2> QED
    BY <1>1, <1>2, <2>1, <2>2, PriceRange DEF Ahead, PriceAt, Prices
<1>3. CASE side = "SELL"
  <2>1. i <= last /\ Advanced = (i + 1) % IndexEnd
    BY <1>1, <1>3 DEF Within, Ended, Advanced
  <2>2. Advanced = i + 1
    BY <1>1, <2>1
  <2> QED
    BY <1>1, <1>3, <2>1, <2>2, PriceRange DEF Ahead, PriceAt, Prices
<1> QED
  BY <1>2, <1>3 DEF Types

\* A loop that ends has the level it is to end at, or the one after it, at its
\* index: what is behind it is all there is up to that level.
LEMMA EndFacts ==
    ASSUME Types, NEW last \in Indices, Within(last), Ended(last)
    PROVE  /\ Looks(last) => i \in Indices
           /\ \A p \in Prices :
                 ~Ahead(PriceAt(last), p) <=>
                    Ahead(p, PriceAt(i)) \/ (Looks(last) /\ p = PriceAt(i))
<1>1. last \in Int /\ i \in Int /\ 0 <= i /\ 0 <= last /\ last < NumLevels /\ NumLevels \in Nat
  BY IndexFacts DEF Indices, Types
<1> QED
  BY <1>1, PriceRange DEF Within, Ended, Looks, Ahead, PriceAt, Prices, Indices, Types

LEMMA FarthestFacts ==
    ASSUME Types
    PROVE  Farthest \in Indices /\ \A p \in Prices : ~Ahead(PriceAt(Farthest), p)
BY IndexFacts, PriceRange DEF Types, Farthest, Indices, Ahead, PriceAt, NumLevels, Prices

-----------------------------------------------------------------------------
(* What the book does to a ladder *)

\* Resting shares make one level non-empty, and the best price follows if that
\* level is ahead of it.
LEMMA RestKeepsLadderInv ==
    ASSUME LadderInv, Rest
    PROVE  LadderInv'
<1> USE DEF LadderInv
<1>1. PICK price \in Prices, life \in Lifetimes, shares \in 1 .. MaxShares :
         /\ levels[IndexOf(price)][life] + shares <= MaxShares
         /\ levels' = [levels EXCEPT ![IndexOf(price)][life] = @ + shares]
         /\ bestPrice' = IF bestPrice = None \/ Ahead(price, bestPrice)
                         THEN price ELSE bestPrice
  BY DEF Rest
<1>2. pc = "idle" /\ UNCHANGED <<side, pc, i, asked, available, answer, top>>
  BY DEF Rest
<1>3. IndexOf(price) \in Indices /\ \A p \in Prices \ {price} : IndexOf(p) # IndexOf(price)
  BY IndexFacts DEF IndexOf, Prices
<1>4. levels' \in [Indices -> [Lifetimes -> 0 .. MaxShares]]
  <2>1. levels[IndexOf(price)][life] + shares \in 0 .. MaxShares
    BY <1>1, <1>3, BoundsAreNatural DEF Types
  <2> QED
    BY <1>1, <1>3, <2>1 DEF Types
<1>5. Types'
  BY <1>1, <1>2, <1>4 DEF Types
<1>6. /\ VolumeAt(IndexOf(price))' = VolumeAt(IndexOf(price)) + shares
      /\ \A p \in Prices \ {price} : VolumeAt(IndexOf(p))' = VolumeAt(IndexOf(p))
      /\ VolumeAt(IndexOf(price)) \in Nat
  <2>1. \A p \in Prices \ {price} : levels'[IndexOf(p)] = levels[IndexOf(p)]
    BY <1>1, <1>3, IndexFacts DEF Types
  <2>2. levels'[IndexOf(price)] = [levels[IndexOf(price)] EXCEPT ![life] = @ + shares]
        /\ levels[IndexOf(price)] \in [Lifetimes -> 0 .. MaxShares]
    BY <1>1, <1>3 DEF Types
  <2>3. VolumeAt(IndexOf(price))' = VolumeAt(IndexOf(price)) + shares
    BY <2>2, BoundsAreNatural DEF VolumeAt, Lifetimes
  <2> QED
    BY <1>3, <2>1, <2>3, VolumeFacts DEF VolumeAt
<1>7. NonEmpty' = NonEmpty \cup {price}
  BY <1>6 DEF NonEmpty, EmptyAt
<1>8. Foremost'
  <2>1. price \in Int /\ \A p \in NonEmpty : p \in Int
    BY PriceRange DEF NonEmpty, Prices
  <2>2. \A p, q : Ahead(p, q)' <=> Ahead(p, q)
    BY <1>2 DEF Ahead
  <2>3. CASE bestPrice = None \/ Ahead(price, bestPrice)
    <3>1. bestPrice' = price /\ price # None
      BY <1>1, <2>3, NoneIsNoPrice
    <3>2. \A p \in NonEmpty' : ~Ahead(p, price)
      BY <1>2, <1>7, <2>1, <2>3, AheadIsOrder, NoneIsNoPrice DEF Foremost, NothingAheadOf
    <3> QED
      BY <1>7, <2>2, <3>1, <3>2 DEF Foremost, NothingAheadOf
  <2>4. CASE ~(bestPrice = None \/ Ahead(price, bestPrice))
    BY <1>1, <1>2, <1>7, <2>2, <2>4 DEF Foremost, NothingAheadOf
  <2> QED
    BY <2>3, <2>4
<1>9. CountInv' /\ ListInv'
  BY <1>2 DEF CountInv, CountIsRight, ListInv, ListIsRight
<1> QED
  BY <1>2, <1>5, <1>8, <1>9 DEF ScanInv, PruneInv

\* Only the level that shares leave can become empty, and the best price is
\* found again if it was that level's.
LEMMA LeaveKeepsLadderInv ==
    ASSUME LadderInv, Leave
    PROVE  LadderInv'
<1> USE DEF LadderInv
<1>1. PICK price \in Prices, life \in Lifetimes :
      \E shares \in 1 .. levels[IndexOf(price)][life] :
         /\ levels' = [levels EXCEPT ![IndexOf(price)][life] = @ - shares]
         /\ IF NeedsScan(price, VolumeAt(IndexOf(price)) - shares)
            THEN pc' = "scanning" /\ i' = ScanFrom(price)
            ELSE UNCHANGED <<pc, i>>
  BY DEF Leave
<1>2. PICK shares \in 1 .. levels[IndexOf(price)][life] :
         /\ levels' = [levels EXCEPT ![IndexOf(price)][life] = @ - shares]
         /\ IF NeedsScan(price, VolumeAt(IndexOf(price)) - shares)
            THEN pc' = "scanning" /\ i' = ScanFrom(price)
            ELSE UNCHANGED <<pc, i>>
  BY <1>1
<1>3. pc = "idle" /\ UNCHANGED <<side, bestPrice, asked, available, answer, top>>
  BY DEF Leave
<1>4. IndexOf(price) \in Indices /\ \A p \in Prices \ {price} : IndexOf(p) # IndexOf(price)
  BY IndexFacts DEF IndexOf, Prices
<1>5. levels' \in [Indices -> [Lifetimes -> 0 .. MaxShares]]
  <2>1. levels[IndexOf(price)][life] - shares \in 0 .. MaxShares
    BY <1>2, <1>4, BoundsAreNatural DEF Types
  <2> QED
    BY <1>2, <1>4, <2>1 DEF Types
<1>6. Types'
  <2>1. i' \in 0 .. NumLevels /\ pc' \in Loops \cup {"idle", "counted", "listed"}
    BY <1>2, <1>3, <1>4, IndexFacts DEF Types, ScanFrom, Indices, Loops
  <2> QED
    BY <1>3, <1>5, <2>1 DEF Types
<1>7. /\ VolumeAt(IndexOf(price))' = VolumeAt(IndexOf(price)) - shares
      /\ \A p \in Prices \ {price} : VolumeAt(IndexOf(p))' = VolumeAt(IndexOf(p))
      /\ VolumeAt(IndexOf(price)) \in Nat /\ VolumeAt(IndexOf(price)) # 0
  <2>1. \A p \in Prices \ {price} : levels'[IndexOf(p)] = levels[IndexOf(p)]
    BY <1>2, <1>4, IndexFacts DEF Types
  <2>2. levels'[IndexOf(price)] = [levels[IndexOf(price)] EXCEPT ![life] = @ - shares]
        /\ levels[IndexOf(price)] \in [Lifetimes -> 0 .. MaxShares]
    BY <1>2, <1>4 DEF Types
  <2>3. VolumeAt(IndexOf(price))' = VolumeAt(IndexOf(price)) - shares
        /\ VolumeAt(IndexOf(price)) # 0
    BY <2>2, BoundsAreNatural DEF VolumeAt, Lifetimes
  <2> QED
    BY <1>4, <2>1, <2>3, VolumeFacts DEF VolumeAt
<1>8. NonEmpty' = IF VolumeAt(IndexOf(price)) - shares = 0 THEN NonEmpty \ {price} ELSE NonEmpty
  BY <1>7 DEF NonEmpty, EmptyAt
<1>9. price \in NonEmpty
  BY <1>7 DEF NonEmpty, EmptyAt
<1>10. \A p, q : Ahead(p, q)' <=> Ahead(p, q)
  BY <1>3 DEF Ahead
<1>11. pc' \in {"idle", "scanning"}
  BY <1>2, <1>3
<1>12. CountInv' /\ ListInv'
  BY <1>3, <1>11 DEF CountInv, CountIsRight, ListInv, ListIsRight
<1>13. CASE NeedsScan(price, VolumeAt(IndexOf(price)) - shares)
  <2>1. pc' = "scanning" /\ i' = IndexOf(price) /\ bestPrice = price
    BY <1>2, <1>13 DEF NeedsScan, ScanFrom
  <2>2. PriceAt(i)' = price
    BY <2>1, IndexFacts DEF PriceAt
  <2>3. Within(Farthest)'
    BY <1>3, <1>4, <2>1, IndexFacts DEF Within, Farthest, Indices, Types
  <2>4. NothingAheadOf(PriceAt(i))'
    BY <1>3, <1>8, <1>10, <2>1, <2>2, NoneIsNoPrice DEF Foremost, NothingAheadOf
  <2> QED
    BY <1>6, <1>12, <2>1, <2>3, <2>4 DEF ScanInv, PruneInv
<1>14. CASE ~NeedsScan(price, VolumeAt(IndexOf(price)) - shares)
  <2>1. pc' = "idle"
    BY <1>2, <1>3, <1>14
  <2>2. bestPrice # None /\ bestPrice \in NonEmpty'
    BY <1>3, <1>8, <1>9, <1>14 DEF Foremost, NeedsScan
  <2>3. Foremost'
    BY <1>3, <1>8, <1>10, <2>2 DEF Foremost, NothingAheadOf
  <2> QED
    BY <1>6, <1>12, <2>1, <2>3 DEF ScanInv, PruneInv
<1> QED
  BY <1>13, <1>14

-----------------------------------------------------------------------------
(* The scan for the best price, and the session end *)

\* Nothing but the loop's own variables changes, so the same levels have shares.
LEMMA SameLadder ==
    ASSUME UNCHANGED <<side, levels>>
    PROVE  /\ NonEmpty' = NonEmpty
           /\ \A p, q : Ahead(p, q)' <=> Ahead(p, q)
           /\ \A n : VolumeAt(n)' = VolumeAt(n)
           /\ \A n : PriceAt(n)' = PriceAt(n)
           /\ Farthest' = Farthest
BY DEF NonEmpty, EmptyAt, VolumeAt, Ahead, PriceAt, Farthest

LEMMA ScanKeepsLadderInv ==
    ASSUME LadderInv, ScanHit \/ ScanOn \/ ScanMiss
    PROVE  LadderInv'
<1> USE DEF LadderInv
<1>1. /\ pc = "scanning" /\ UNCHANGED <<side, levels, asked, available, answer, top>>
      /\ pc' \in {"scanning", "idle"}
  BY DEF ScanHit, ScanOn, ScanMiss, ladderVars
<1>2. CountInv' /\ ListInv'
  BY <1>1 DEF CountInv, CountIsRight, ListInv, ListIsRight
<1>3. Within(Farthest) /\ NothingAheadOf(PriceAt(i)) /\ Farthest \in Indices
      /\ NumLevels \in Nat
  BY <1>1, FarthestFacts, IndexFacts DEF ScanInv
<1>4. /\ NonEmpty' = NonEmpty /\ \A p, q : Ahead(p, q)' <=> Ahead(p, q)
  BY <1>1, SameLadder
<1>5. CASE ScanHit
  <2>1. i \in Indices /\ bestPrice' = PriceAt(i) /\ pc' = "idle" /\ i' = 0 /\ ~EmptyAt(i)
    BY <1>5 DEF ScanHit
  <2>2. PriceAt(i) \in NonEmpty /\ PriceAt(i) # None
    BY <2>1, IndexFacts, NoneIsNoPrice DEF NonEmpty
  <2>3. Foremost'
    BY <1>3, <1>4, <2>1, <2>2 DEF Foremost, NothingAheadOf
  <2>4. Types'
    BY <1>1, <1>3, <2>1, IndexFacts DEF Types
  <2> QED
    BY <1>2, <2>1, <2>3, <2>4 DEF ScanInv, PruneInv
<1>6. CASE ScanOn
  <2>1. i \in Indices /\ EmptyAt(i) /\ ~Ended(Farthest) /\ i' = Advanced /\ pc' = "scanning"
        /\ bestPrice' = bestPrice
    BY <1>1, <1>6 DEF ScanOn, ladderVars
  <2>2. /\ Advanced \in 0 .. NumLevels
        /\ IF side = "BUY" THEN Farthest <= Advanced /\ Advanced < NumLevels ELSE Advanced <= Farthest + 1
        /\ \A p \in Prices :
              Ahead(p, PriceAt(Advanced)) <=> Ahead(p, PriceAt(i)) \/ p = PriceAt(i)
    BY <1>3, <2>1, AdvanceFacts
  <2>3. Types'
    BY <1>1, <2>1, <2>2 DEF Types
  <2>4. Within(Farthest)'
    BY <1>1, <2>1, <2>2, SameLadder DEF Within
  <2>5. PriceAt(i) \notin NonEmpty /\ NonEmpty \subseteq Prices
    BY <2>1, IndexFacts DEF NonEmpty
  <2>6. NothingAheadOf(PriceAt(Advanced))
    BY <1>3, <2>2, <2>5 DEF NothingAheadOf
  <2>7. NothingAheadOf(PriceAt(i))'
    BY <1>4, <2>1, <2>6 DEF NothingAheadOf, PriceAt
  <2> QED
    BY <1>2, <2>1, <2>3, <2>4, <2>7 DEF ScanInv, PruneInv
<1>7. CASE ScanMiss
  <2>1. (Looks(Farthest) => EmptyAt(i)) /\ Ended(Farthest) /\ bestPrice' = None
        /\ pc' = "idle" /\ i' = 0
    BY <1>7 DEF ScanMiss
  <2>2. /\ Looks(Farthest) => i \in Indices
        /\ \A p \in Prices :
              ~Ahead(PriceAt(Farthest), p) <=>
                 Ahead(p, PriceAt(i)) \/ (Looks(Farthest) /\ p = PriceAt(i))
    BY <1>3, <2>1, EndFacts
  <2>3. \A p \in Prices : ~Ahead(PriceAt(Farthest), p)
    BY FarthestFacts
  <2>4. NonEmpty = {}
    <3> SUFFICES ASSUME NEW p \in NonEmpty PROVE FALSE
      OBVIOUS
    <3>1. p \in Prices /\ ~EmptyAt(IndexOf(p)) /\ ~Ahead(p, PriceAt(i))
      BY <1>3 DEF NonEmpty, NothingAheadOf
    <3>2. Looks(Farthest) /\ p = PriceAt(i)
      BY <2>2, <2>3, <3>1
    <3> QED
      BY <2>1, <2>2, <3>1, <3>2, IndexFacts
  <2>5. Foremost'
    BY <1>4, <2>1, <2>4 DEF Foremost
  <2>6. Types'
    BY <1>1, <1>3, <2>1 DEF Types
  <2> QED
    BY <1>2, <2>1, <2>5, <2>6 DEF ScanInv, PruneInv
<1> QED
  BY <1>5, <1>6, <1>7

LEMMA StartPruningKeepsLadderInv ==
    ASSUME LadderInv, StartPruning
    PROVE  LadderInv'
<1> USE DEF LadderInv
<1>1. /\ pc = "idle" /\ pc' = "pruning" /\ i' = 0 /\ bestPrice' = bestPrice
      /\ UNCHANGED <<side, levels, asked, available, answer, top>>
  BY DEF StartPruning, ladderVars
<1>2. CountInv' /\ ListInv'
  BY <1>1 DEF CountInv, CountIsRight, ListInv, ListIsRight
<1>3. Types'
  BY <1>1, IndexFacts DEF Types, Loops
<1>4. PruneInv'
  BY <1>1, SameLadder DEF PruneInv, Foremost, NothingAheadOf
<1> QED
  BY <1>1, <1>2, <1>3, <1>4 DEF ScanInv

LEMMA PruneLevelKeepsLadderInv ==
    ASSUME LadderInv, PruneLevel
    PROVE  LadderInv'
<1> USE DEF LadderInv
<1>1. /\ pc = "pruning" /\ pc' = "pruning" /\ i < NumLevels /\ i' = i + 1
      /\ levels' = [levels EXCEPT ![i]["DAY"] = 0]
      /\ UNCHANGED <<side, bestPrice, asked, available, answer, top>>
  BY DEF PruneLevel
<1>2. CountInv' /\ ListInv'
  BY <1>1 DEF CountInv, CountIsRight, ListInv, ListIsRight
<1>3. i \in Indices /\ "DAY" \in Lifetimes
  BY <1>1, IndexFacts DEF Types, Indices, Lifetimes
<1>4. Types'
  <2>1. i' \in 0 .. NumLevels /\ 0 \in 0 .. MaxShares
    BY <1>1, IndexFacts, BoundsAreNatural DEF Types
  <2>2. levels' \in [Indices -> [Lifetimes -> 0 .. MaxShares]]
    BY <1>1, <1>3, <2>1 DEF Types
  <2> QED
    BY <1>1, <2>1, <2>2 DEF Types
<1>5. NonEmpty' \subseteq NonEmpty
  <2> SUFFICES ASSUME NEW p \in Prices, VolumeAt(IndexOf(p)) = 0
               PROVE  VolumeAt(IndexOf(p))' = 0
    BY DEF NonEmpty, EmptyAt
  <2>1. IndexOf(p) \in Indices
    BY IndexFacts
  <2>2. /\ levels[IndexOf(p)]["GTC"] \in Nat /\ levels[IndexOf(p)]["DAY"] \in Nat
        /\ levels[IndexOf(p)]["GTC"] + levels[IndexOf(p)]["DAY"] = 0
    BY <2>1, BoundsAreNatural DEF Types, Lifetimes, VolumeAt
  <2>3. levels'[IndexOf(p)]["GTC"] = 0 /\ levels'[IndexOf(p)]["DAY"] = 0
    BY <1>1, <1>3, <2>1, <2>2 DEF Types, Lifetimes
  <2> QED
    BY <2>3 DEF VolumeAt, IndexOf
<1>6. PruneInv'
  BY <1>1, <1>5 DEF PruneInv, Ahead
<1> QED
  BY <1>1, <1>2, <1>4, <1>6 DEF ScanInv

LEMMA FinishPruningKeepsLadderInv ==
    ASSUME LadderInv, FinishPruning
    PROVE  LadderInv'
<1> USE DEF LadderInv
<1>1. /\ pc = "pruning" /\ bestPrice' = bestPrice
      /\ UNCHANGED <<side, levels, asked, available, answer, top>>
      /\ IF bestPrice # None /\ NeedsScan(bestPrice, VolumeAt(IndexOf(bestPrice)))
         THEN pc' = "scanning" /\ i' = ScanFrom(bestPrice)
         ELSE pc' = "idle" /\ i' = 0
  BY DEF FinishPruning, ladderVars
<1>2. CountInv' /\ ListInv'
  BY <1>1 DEF CountInv, CountIsRight, ListInv, ListIsRight
<1>3. NonEmpty' = NonEmpty /\ \A p, q : Ahead(p, q)' <=> Ahead(p, q)
  BY <1>1, SameLadder
<1>4. \A p \in NonEmpty : bestPrice # None /\ ~Ahead(p, bestPrice)
  BY <1>1 DEF PruneInv
<1>5. CASE bestPrice # None /\ NeedsScan(bestPrice, VolumeAt(IndexOf(bestPrice)))
  <2>1. pc' = "scanning" /\ i' = IndexOf(bestPrice) /\ bestPrice \in Prices
        /\ i' \in Indices /\ PriceAt(i)' = bestPrice
    BY <1>1, <1>5, IndexFacts DEF Types, ScanFrom, PriceAt
  <2>2. Types'
    BY <1>1, <2>1, IndexFacts DEF Types, Indices, Loops
  <2>3. Within(Farthest)'
    BY <1>1, <2>1, IndexFacts DEF Within, Farthest, Indices, Types
  <2>4. NothingAheadOf(PriceAt(i))'
    BY <1>3, <1>4, <2>1 DEF NothingAheadOf
  <2> QED
    BY <1>2, <2>1, <2>2, <2>3, <2>4 DEF ScanInv, PruneInv
<1>6. CASE ~(bestPrice # None /\ NeedsScan(bestPrice, VolumeAt(IndexOf(bestPrice))))
  <2>1. pc' = "idle" /\ i' = 0
    BY <1>1, <1>6
  <2>2. Types'
    BY <1>1, <2>1, IndexFacts DEF Types
  <2>3. bestPrice # None => bestPrice \in NonEmpty
    BY <1>6 DEF NeedsScan, NonEmpty, EmptyAt, Types
  <2>4. Foremost'
    BY <1>1, <1>3, <1>4, <2>3 DEF Foremost, NothingAheadOf
  <2> QED
    BY <1>2, <2>1, <2>2, <2>4 DEF ScanInv, PruneInv
<1> QED
  BY <1>5, <1>6

-----------------------------------------------------------------------------
(* Counting liquidity *)

LEMMA ThresholdFacts ==
    ASSUME Types
    PROVE  /\ Threshold \in Indices /\ PriceAt(Threshold) = asked.threshold
           /\ Marketable \in SUBSET Prices
           /\ asked.threshold \in Prices
           /\ \A limit : AheadOf(limit) \in SUBSET Prices
BY IndexFacts DEF Types, Threshold, Marketable, AheadOf

\* What is marketable, once the count has run up to the threshold.
LEMMA CountIsRightAfter ==
    ASSUME Types, UNCHANGED <<side, levels>>,
           asked'.required \in Nat, asked'.threshold \in Prices,
           NEW shares \in Nat,
           shares = SumFunctionOnSet(Volumes, {p \in Prices : ~Ahead(asked'.threshold, p)}),
           answer' = (shares >= asked'.required)
    PROVE  CountIsRight'
<1>1. Marketable' = {p \in Prices : ~Ahead(asked'.threshold, p)}
  BY DEF Marketable, Ahead
<1>2. Volumes' = Volumes
  BY DEF Volumes, VolumeAt, IndexOf
<1>3. [p \in Marketable |-> VolumeAt(IndexOf(p))]'
         = [p \in {p \in Prices : ~Ahead(asked'.threshold, p)} |-> VolumeAt(IndexOf(p))]
  BY <1>1 DEF VolumeAt, IndexOf
<1> DEFINE S == {p \in Prices : ~Ahead(asked'.threshold, p)}
           f == [p \in S |-> VolumeAt(IndexOf(p))]
<1>4. SumFunction(f) = SumFunctionOnSet(Volumes, S)
  <2>1. S \in SUBSET Prices
    OBVIOUS
  <2>2. IsFiniteSet(S)
    BY <2>1, SumOfPrices
  <2>3. DOMAIN f = S
    OBVIOUS
  <2>4. \A p \in S : f[p] \in Int /\ Volumes[p] = f[p]
    BY <2>1, VolumeFacts
  <2> HIDE DEF f, S
  <2>5. SumFunctionOnSet(f, S) = SumFunctionOnSet(Volumes, S)
    BY ONLY <2>2, <2>4, SumSame
  <2> QED
    BY <2>3, <2>5 DEF SumFunction
<1>5. SumFunction([p \in Marketable |-> VolumeAt(IndexOf(p))])' = shares
  BY <1>3, <1>4
<1> QED
  BY <1>5 DEF CountIsRight

LEMMA StartCountingKeepsLadderInv ==
    ASSUME LadderInv, StartCounting
    PROVE  LadderInv'
<1> USE DEF LadderInv
<1>1. PICK threshold \in Prices, required \in 1 .. (2 * MaxShares * NumLevels + 1) :
         /\ asked' = [NothingAsked EXCEPT !.threshold = threshold, !.required = required]
         /\ IF CountFails(threshold)
            THEN pc' = "counted" /\ UNCHANGED i
            ELSE pc' = "counting" /\ i' = IndexOf(bestPrice)
  BY DEF StartCounting
<1>2. pc = "idle" /\ UNCHANGED <<side, levels, bestPrice, available, answer, top>>
  BY DEF StartCounting, ladderVars
<1>3. /\ required \in Nat /\ required > 0
      /\ asked' \in [threshold : Prices, required : Nat, depth : 0 .. MaxDepth]
      /\ asked'.threshold = threshold /\ asked'.required = required
  <2>1. required \in Nat /\ required > 0
    BY IndexFacts, BoundsAreNatural
  <2>2. asked' = [threshold |-> threshold, required |-> required, depth |-> 0]
    BY <1>1 DEF NothingAsked
  <2> QED
    BY <2>1, <2>2, BoundsAreNatural
<1>4. available = 0 /\ ~answer /\ top = <<>> /\ Foremost
  BY <1>2 DEF CountInv, ListInv
<1>5. Foremost'
  BY <1>2, <1>4, SameLadder DEF Foremost, NothingAheadOf
<1>6. CASE CountFails(threshold)
  <2>1. pc' = "counted" /\ i' = i
    BY <1>1, <1>6
  <2>2. Types'
    BY <1>2, <1>3, <2>1 DEF Types
  <2> DEFINE S == {p \in Prices : ~Ahead(threshold, p)}
  <2>3. S \in SUBSET Prices /\ \A p \in S : p \notin NonEmpty
    <3>1. CASE bestPrice = None
      BY <1>4, <3>1 DEF Foremost
    <3>2. CASE bestPrice # None
      <4> SUFFICES ASSUME NEW p \in NonEmpty, ~Ahead(threshold, p) PROVE FALSE
        OBVIOUS
      <4>1. bestPrice \in Int /\ p \in Int /\ threshold \in Int
        BY <1>4, <3>2, PriceRange DEF Foremost, NonEmpty, Prices
      <4>2. ~Ahead(p, bestPrice) /\ Ahead(threshold, bestPrice)
        BY <1>4, <1>6, <3>2 DEF Foremost, NothingAheadOf, CountFails
      <4> QED
        BY <4>1, <4>2, AheadIsOrder
    <3> QED
      BY <3>1, <3>2
  <2>4. SumFunctionOnSet(Volumes, S) = 0
    <3> HIDE DEF S
    <3> QED BY <2>3, NoShares
  <2>5. answer' = (0 >= asked'.required)
    BY <1>2, <1>3, <1>4, <2>2 DEF Types
  <2>6. CountIsRight'
    BY <1>2, <1>3, <2>4, <2>5, CountIsRightAfter
  <2> QED
    BY <1>2, <1>3, <1>4, <1>5, <2>1, <2>2, <2>6
       DEF ScanInv, PruneInv, CountInv, ListInv, ListIsRight
<1>7. CASE ~CountFails(threshold)
  <2>1. pc' = "counting" /\ i' = IndexOf(bestPrice) /\ bestPrice \in Prices
        /\ bestPrice # None /\ ~Ahead(threshold, bestPrice)
    BY <1>1, <1>7 DEF CountFails, Types
  <2>2. i' \in Indices /\ PriceAt(i') = bestPrice /\ PriceAt(i)' = bestPrice
    BY <2>1, IndexFacts DEF PriceAt
  <2>3. Types'
    <3>1. i' \in 0 .. NumLevels /\ pc' \in Loops \cup {"idle", "counted", "listed"}
      BY <2>1, <2>2, IndexFacts DEF Indices, Loops
    <3> QED
      BY <1>2, <1>3, <3>1 DEF Types, Indices
  <2>4. Within(Threshold)'
    BY <1>2, <1>3, <2>1, PriceRange
       DEF Within, Threshold, IndexOf, Ahead, Types, Prices, NumLevels
  <2>5. SumFunctionOnSet(Volumes, AheadOf(bestPrice)) = 0
    <3>1. AheadOf(bestPrice) \in SUBSET Prices /\ \A p \in AheadOf(bestPrice) : p \notin NonEmpty
      BY <1>4, <2>1 DEF AheadOf, Foremost, NothingAheadOf
    <3> QED
      BY <3>1, NoShares
  <2>6. available' = SumFunctionOnSet(Volumes, AheadOf(PriceAt(i)))'
    <3>1. Volumes' = Volumes /\ AheadOf(PriceAt(i))' = AheadOf(bestPrice)
      BY <1>2, <2>2 DEF Volumes, VolumeAt, IndexOf, AheadOf, Ahead
    <3> QED
      BY <1>2, <1>4, <2>5, <3>1
  <2>7. CountInv'
    BY <1>2, <1>3, <1>4, <2>1, <2>4, <2>6 DEF CountInv, CountIsRight
  <2> QED
    BY <1>2, <1>4, <1>5, <2>1, <2>3, <2>7
       DEF ScanInv, PruneInv, ListInv, ListIsRight
<1> QED
  BY <1>6, <1>7

LEMMA CountingKeepsLadderInv ==
    ASSUME LadderInv, CountEnough \/ CountOn \/ CountShort
    PROVE  LadderInv'
<1> USE DEF LadderInv
<1> DEFINE S == AheadOf(PriceAt(i))
<1>1. /\ pc = "counting" /\ UNCHANGED <<side, levels, bestPrice, asked, top>>
      /\ pc' \in {"counting", "counted"}
  BY DEF CountEnough, CountOn, CountShort, ladderVars
<1>2. /\ Within(Threshold) /\ asked.required > 0 /\ ~answer /\ top = <<>>
      /\ available = SumFunctionOnSet(Volumes, S) /\ available < asked.required
      /\ Foremost
  BY <1>1 DEF CountInv, ListInv
<1>3. /\ Threshold \in Indices /\ PriceAt(Threshold) = asked.threshold
      /\ asked.threshold \in Prices /\ S \in SUBSET Prices
      /\ asked.required \in Nat /\ available \in Nat
  BY ThresholdFacts DEF Types
<1>4. Foremost'
  BY <1>1, <1>2, SameLadder DEF Foremost, NothingAheadOf
<1>5. ListInv'
  BY <1>1, <1>2 DEF ListInv, ListIsRight
<1>6. ASSUME i \in Indices
      PROVE  /\ PriceAt(i) \in Prices \ S
             /\ SumFunctionOnSet(Volumes, S \cup {PriceAt(i)}) = available + VolumeAt(i)
             /\ VolumeAt(i) \in Nat
  <2>1. PriceAt(i) \in Prices /\ IndexOf(PriceAt(i)) = i /\ VolumeAt(i) \in Nat
    BY <1>6, IndexFacts, VolumeFacts
  <2>2. PriceAt(i) \in Prices \ S
    BY <2>1, AheadIsOrder, PriceRange DEF AheadOf, Prices
  <2> HIDE DEF S
  <2> QED
    BY <1>2, <1>3, <2>1, <2>2, SumOfPrices
<1> DEFINE M == {p \in Prices : ~Ahead(asked.threshold, p)}
<1>7. M \in SUBSET Prices /\ SumFunctionOnSet(Volumes, M) \in Nat
  <2>1. M \in SUBSET Prices
    OBVIOUS
  <2> HIDE DEF M
  <2> QED
    BY <2>1, SumOfPrices
<1>8. ASSUME answer' = (SumFunctionOnSet(Volumes, M) >= asked.required),
             pc' = "counted", i' = 0, available' = 0
      PROVE  LadderInv'
  <2>1. Types'
    BY <1>1, <1>8, IndexFacts DEF Types, Loops
  <2>2. CountIsRight'
    BY <1>1, <1>3, <1>7, <1>8, CountIsRightAfter
  <2>3. CountInv'
    BY <1>1, <1>2, <1>8, <2>2 DEF CountInv
  <2> QED
    BY <1>4, <1>5, <1>8, <2>1, <2>3 DEF ScanInv, PruneInv
<1>9. CASE CountEnough
  <2>1. /\ i \in Indices /\ Looks(Threshold) /\ answer' = TRUE
        /\ available + VolumeAt(i) >= asked.required
        /\ pc' = "counted" /\ i' = 0 /\ available' = 0
    BY <1>9 DEF CountEnough
  <2>2. S \cup {PriceAt(i)} \subseteq M
    <3> SUFFICES ASSUME NEW p \in S \cup {PriceAt(i)} PROVE p \in Prices /\ ~Ahead(asked.threshold, p)
      OBVIOUS
    <3>1. p \in Prices /\ PriceAt(i) \in Prices /\ ~Ahead(PriceAt(i), p)
      BY <1>3, <1>6, <2>1, AheadIsOrder, PriceRange DEF AheadOf, Prices
    <3>2. ~Ahead(asked.threshold, PriceAt(i))
      BY <1>2, <1>3, <2>1, PriceRange
         DEF Within, Looks, Ahead, PriceAt, Threshold, IndexOf, Types, Prices, Indices
    <3> QED
      BY <1>3, <3>1, <3>2, AheadIsOrder, PriceRange DEF Prices
  <2>3. available + VolumeAt(i) <= SumFunctionOnSet(Volumes, M)
    <3> HIDE DEF M, S
    <3>1. SumFunctionOnSet(Volumes, S \cup {PriceAt(i)}) <= SumFunctionOnSet(Volumes, M)
      BY <1>7, <2>2, SumOfPrices
    <3> QED
      BY <1>6, <2>1, <3>1
  <2>4. answer' = (SumFunctionOnSet(Volumes, M) >= asked.required)
    <3> HIDE DEF M, S
    <3>1. SumFunctionOnSet(Volumes, M) >= asked.required
      BY <1>3, <1>6, <1>7, <2>1, <2>3
    <3> QED
      BY <2>1, <3>1
  <2> HIDE DEF M
  <2> QED
    BY <1>8, <2>1, <2>4
<1>10. CASE CountOn
  <2>1. /\ i \in Indices /\ ~Ended(Threshold) /\ i' = Advanced /\ pc' = "counting"
        /\ available' = available + VolumeAt(i) /\ available' < asked.required
        /\ answer' = answer
    BY <1>1, <1>10 DEF CountOn, ladderVars
  <2>2. /\ Advanced \in 0 .. NumLevels
        /\ IF side = "BUY" THEN Threshold <= Advanced /\ Advanced < NumLevels ELSE Advanced <= Threshold + 1
        /\ \A p \in Prices :
              Ahead(p, PriceAt(Advanced)) <=> Ahead(p, PriceAt(i)) \/ p = PriceAt(i)
    BY <1>2, <1>3, <2>1, AdvanceFacts
  <2>3. Types'
    BY <1>1, <1>3, <1>6, <2>1, <2>2 DEF Types
  <2>4. Within(Threshold)'
    BY <1>1, <2>1, <2>2 DEF Within, Threshold, IndexOf
  <2>5. AheadOf(PriceAt(i))' = S \cup {PriceAt(i)}
    <3>1. AheadOf(PriceAt(i))' = {p \in Prices : Ahead(p, PriceAt(Advanced))}
      BY <1>1, <2>1 DEF AheadOf, Ahead, PriceAt
    <3> QED
      BY <1>6, <2>1, <2>2, <3>1 DEF AheadOf
  <2>6. available' = SumFunctionOnSet(Volumes, AheadOf(PriceAt(i)))'
    <3>1. Volumes' = Volumes
      BY <1>1 DEF Volumes, VolumeAt, IndexOf
    <3> HIDE DEF S
    <3> QED
      BY <1>6, <2>1, <2>5, <3>1
  <2>7. CountInv'
    BY <1>1, <1>2, <2>1, <2>4, <2>6 DEF CountInv, CountIsRight
  <2> QED
    BY <1>4, <1>5, <2>1, <2>3, <2>7 DEF ScanInv, PruneInv
<1>11. CASE CountShort
  <2>1. /\ Ended(Threshold) /\ pc' = "counted" /\ i' = 0 /\ available' = 0 /\ answer' = answer
        /\ Looks(Threshold) => available + VolumeAt(i) < asked.required
    BY <1>11 DEF CountShort, ladderVars
  <2>2. /\ Looks(Threshold) => i \in Indices
        /\ M = IF Looks(Threshold) THEN S \cup {PriceAt(i)} ELSE S
    <3>1. /\ Looks(Threshold) => i \in Indices
          /\ \A p \in Prices :
                ~Ahead(PriceAt(Threshold), p) <=>
                   Ahead(p, PriceAt(i)) \/ (Looks(Threshold) /\ p = PriceAt(i))
      BY <1>2, <1>3, <2>1, EndFacts
    <3> QED
      BY <1>3, <1>6, <3>1 DEF AheadOf
  <2>3. SumFunctionOnSet(Volumes, M) < asked.required
    <3> HIDE DEF M, S
    <3> QED
      BY <1>2, <1>6, <2>1, <2>2
  <2>4. answer' = (SumFunctionOnSet(Volumes, M) >= asked.required)
    <3> HIDE DEF M, S
    <3>1. (SumFunctionOnSet(Volumes, M) >= asked.required) = FALSE
      BY <1>3, <1>7, <2>3
    <3>2. answer = FALSE
      BY <1>2 DEF Types
    <3> QED
      BY <2>1, <3>1, <3>2
  <2> HIDE DEF M
  <2> QED
    BY <1>8, <2>1, <2>4
<1> QED
  BY <1>9, <1>10, <1>11

-----------------------------------------------------------------------------
(* Listing the foremost levels *)

\* After the level at the index is looked at, the list holds the levels ahead of
\* any price that only this level is ahead of besides those dealt with.
LEMMA ListedFacts ==
    ASSUME Types, i \in Indices, ListsAheadOf(top, PriceAt(i)), NEW limit,
           \A p \in Prices : Ahead(p, limit) <=> Ahead(p, PriceAt(i)) \/ p = PriceAt(i)
    PROVE  /\ Listed \in Seq(Prices \X Nat)
           /\ Len(Listed) = IF EmptyAt(i) THEN Len(top) ELSE Len(top) + 1
           /\ ListsAheadOf(Listed, limit)
<1>1. PriceAt(i) \in Prices /\ IndexOf(PriceAt(i)) = i /\ VolumeAt(i) \in Nat
  BY IndexFacts, VolumeFacts
<1>2. top \in Seq(Prices \X Nat) /\ NonEmpty \subseteq Prices
  BY DEF Types, NonEmpty
<1>3. CASE EmptyAt(i)
  <2>1. Listed = top /\ PriceAt(i) \notin NonEmpty
    BY <1>1, <1>3 DEF Listed, NonEmpty
  <2> QED
    BY <1>2, <1>3, <2>1 DEF ListsAheadOf
<1>4. CASE ~EmptyAt(i)
  <2> DEFINE pair == <<PriceAt(i), VolumeAt(i)>>
  <2>1. pair \in Prices \X Nat /\ pair[1] = PriceAt(i) /\ pair[2] = VolumeAt(i)
        /\ PriceAt(i) \in NonEmpty
    BY <1>1, <1>4 DEF NonEmpty
  <2>2. Listed = Append(top, pair)
    BY <1>4 DEF Listed
  <2> HIDE DEF pair
  <2>3. /\ Listed \in Seq(Prices \X Nat)
        /\ Len(Listed) = Len(top) + 1 /\ Len(top) \in Nat
        /\ \A n \in 1 .. Len(top) : Listed[n] = top[n]
        /\ Listed[Len(top) + 1] = pair
        /\ DOMAIN top = 1 .. Len(top) /\ DOMAIN Listed = 1 .. (Len(top) + 1)
    BY <1>2, <2>1, <2>2
  <2>4. ASSUME NEW n \in DOMAIN Listed
        PROVE  /\ Listed[n][1] \in NonEmpty
               /\ Listed[n][2] = VolumeAt(IndexOf(Listed[n][1]))
               /\ \A m \in DOMAIN Listed : m < n => Ahead(Listed[m][1], Listed[n][1])
               /\ Ahead(Listed[n][1], limit)
    <3>1. CASE n \in DOMAIN top
      <4>1. \A m \in DOMAIN Listed : m < n => m \in DOMAIN top
        BY <2>3, <3>1
      <4> QED
        BY <1>2, <2>3, <3>1, <4>1 DEF ListsAheadOf
    <3>2. CASE n = Len(top) + 1
      <4>1. \A m \in DOMAIN Listed : m < n => m \in DOMAIN top
        BY <2>3, <3>2
      <4>2. \A m \in DOMAIN top : Ahead(Listed[m][1], PriceAt(i))
        BY <2>3 DEF ListsAheadOf
      <4> QED
        BY <1>1, <2>1, <2>3, <3>2, <4>1, <4>2
    <3> QED
      BY <2>3, <3>1, <3>2
  <2>5. ASSUME NEW p \in NonEmpty, Ahead(p, limit)
        PROVE  \E m \in DOMAIN Listed : Listed[m][1] = p
    <3>1. CASE p = PriceAt(i)
      <4>1. Len(top) + 1 \in DOMAIN Listed
        BY <2>3
      <4>2. Listed[Len(top) + 1][1] = p
        BY <2>1, <2>3, <3>1
      <4> QED
        BY <4>1, <4>2
    <3>2. CASE Ahead(p, PriceAt(i))
      <4>1. PICK m \in DOMAIN top : top[m][1] = p
        BY <3>2 DEF ListsAheadOf
      <4> QED
        BY <2>3, <4>1
    <3> QED
      BY <1>2, <2>5, <3>1, <3>2
  <2> QED
    BY <1>4, <2>3, <2>4, <2>5 DEF ListsAheadOf
<1> QED
  BY <1>3, <1>4

\* A list that holds every level with shares has as many entries as there are.
LEMMA ListedAll ==
    ASSUME Types, NEW list \in Seq(Prices \X Nat), NEW limit,
           ListsAheadOf(list, limit), \A p \in NonEmpty : Ahead(p, limit)
    PROVE  Len(list) = Cardinality(NonEmpty)
<1> DEFINE f == [n \in 1 .. Len(list) |-> list[n][1]]
<1>1. Len(list) \in Nat /\ DOMAIN list = 1 .. Len(list)
  OBVIOUS
<1>2. f \in [1 .. Len(list) -> NonEmpty]
  BY <1>1 DEF ListsAheadOf
<1>3. \A n, m \in 1 .. Len(list) : f[n] = f[m] => n = m
  <2> SUFFICES ASSUME NEW n \in 1 .. Len(list), NEW m \in 1 .. Len(list), m < n
               PROVE  list[m][1] # list[n][1]
    BY <1>1
  <2>1. Ahead(list[m][1], list[n][1])
    BY <1>1 DEF ListsAheadOf
  <2>2. list[n][1] \in Int
    BY <1>1, PriceRange DEF ListsAheadOf, NonEmpty, Prices
  <2> QED
    BY <2>1, <2>2, AheadIsOrder
<1>4. \A p \in NonEmpty : \E n \in 1 .. Len(list) : f[n] = p
  BY <1>1 DEF ListsAheadOf
<1> HIDE DEF f
<1>5. ExistsBijection(1 .. Len(list), NonEmpty)
  BY <1>2, <1>3, <1>4 DEF ExistsBijection, Bijection, Injection, Surjection, IsInjective
<1> QED
  BY <1>1, <1>5, FS_CountingElements

\* What get_top_levels returns, once the list is as long as it was to be or the
\* loop has run to the end.
LEMMA ListIsRightAfter ==
    ASSUME Types, UNCHANGED <<side, levels, asked>>, NEW limit \in Int,
           NEW list \in Seq(Prices \X Nat), top' = list,
           ListsAheadOf(list, limit), Len(list) <= asked.depth,
           \/ Len(list) = asked.depth
           \/ \A p \in NonEmpty : Ahead(p, limit)
    PROVE  ListIsRight'
<1>1. /\ NonEmpty' = NonEmpty /\ \A p, q : Ahead(p, q)' <=> Ahead(p, q)
      /\ \A n : VolumeAt(n)' = VolumeAt(n) /\ \A p : IndexOf(p)' = IndexOf(p)
  BY SameLadder DEF IndexOf
<1>2. Len(list) \in Nat /\ asked.depth \in Nat
  BY BoundsAreNatural DEF Types
<1>3. Len(list) < asked.depth => Len(list) = Cardinality(NonEmpty)
  BY <1>2, ListedAll
<1>4. ASSUME NEW n \in DOMAIN list, NEW p \in NonEmpty, Ahead(p, list[n][1])
      PROVE  \E m \in DOMAIN list : list[m][1] = p
  <2>1. list[n][1] \in Int /\ p \in Int /\ Ahead(list[n][1], limit)
    BY PriceRange DEF ListsAheadOf, NonEmpty, Prices
  <2>2. Ahead(p, limit)
    BY <1>4, <2>1, AheadIsOrder
  <2> QED
    BY <2>2 DEF ListsAheadOf
<1>5. \A n \in DOMAIN list :
         /\ list[n][1] \in NonEmpty
         /\ list[n][2] = VolumeAt(IndexOf(list[n][1]))
         /\ \A m \in DOMAIN list : m < n => Ahead(list[m][1], list[n][1])
  BY DEF ListsAheadOf
<1> QED
  BY <1>1, <1>3, <1>4, <1>5 DEF ListIsRight

LEMMA StartListingKeepsLadderInv ==
    ASSUME LadderInv, StartListing
    PROVE  LadderInv'
<1> USE DEF LadderInv
<1>1. PICK depth \in 0 .. MaxDepth :
         /\ asked' = [NothingAsked EXCEPT !.depth = depth]
         /\ IF depth = 0 \/ bestPrice = None
            THEN pc' = "listed" /\ UNCHANGED i
            ELSE pc' = "listing" /\ i' = IndexOf(bestPrice)
  BY DEF StartListing
<1>2. pc = "idle" /\ UNCHANGED <<side, levels, bestPrice, available, answer, top>>
  BY DEF StartListing, ladderVars
<1>3. /\ asked' \in [threshold : Prices, required : Nat, depth : 0 .. MaxDepth]
      /\ asked'.depth = depth
  <2>1. asked' = [threshold |-> MinPrice, required |-> 0, depth |-> depth]
    BY <1>1 DEF NothingAsked
  <2> QED
    BY <2>1, PriceRange DEF Prices
<1>4. available = 0 /\ ~answer /\ top = <<>> /\ Foremost
  BY <1>2 DEF CountInv, ListInv
<1>5. Foremost'
  BY <1>2, <1>4, SameLadder DEF Foremost, NothingAheadOf
<1>6. pc' \in {"listed", "listing"}
  BY <1>1
<1>7. CountInv'
  BY <1>2, <1>4, <1>6 DEF CountInv, CountIsRight
<1>8. CASE depth = 0 \/ bestPrice = None
  <2>1. pc' = "listed" /\ i' = i
    BY <1>1, <1>8
  <2>2. Types'
    BY <1>2, <1>3, <2>1 DEF Types
  <2>3. bestPrice = None => NonEmpty' = {}
    BY <1>2, <1>4, SameLadder DEF Foremost
  <2>4. top' = <<>> /\ Len(top') = 0
    BY <1>2, <1>4
  <2>5. bestPrice = None => Cardinality(NonEmpty') = 0
    BY <2>3, FS_EmptySet
  <2>6. ListIsRight'
    BY <1>3, <1>8, <2>4, <2>5 DEF ListIsRight
  <2> QED
    BY <1>5, <1>7, <2>1, <2>2, <2>6 DEF ScanInv, PruneInv, ListInv
<1>9. CASE ~(depth = 0 \/ bestPrice = None)
  <2>1. pc' = "listing" /\ i' = IndexOf(bestPrice) /\ bestPrice \in Prices
    BY <1>1, <1>9 DEF Types
  <2>2. i' \in Indices /\ PriceAt(i') = bestPrice /\ PriceAt(i)' = bestPrice
    BY <2>1, IndexFacts DEF PriceAt
  <2>3. Types'
    <3>1. i' \in 0 .. NumLevels /\ pc' \in Loops \cup {"idle", "counted", "listed"}
      BY <2>1, <2>2, IndexFacts DEF Indices, Loops
    <3> QED
      BY <1>2, <1>3, <3>1 DEF Types, Indices
  <2>4. Within(Farthest)'
    BY <1>2, <2>2, IndexFacts DEF Within, Farthest, Indices, Types
  <2>5. NothingAheadOf(bestPrice)'
    BY <1>5, <1>9, <1>2 DEF Foremost
  <2>6. ListsAheadOf(top, PriceAt(i))'
    BY <1>2, <1>4, <2>2, <2>5 DEF ListsAheadOf, NothingAheadOf
  <2>7. Len(top') < asked'.depth
    BY <1>2, <1>3, <1>4, <1>9
  <2>8. ListInv'
    BY <2>1, <2>4, <2>6, <2>7 DEF ListInv, ListIsRight
  <2> QED
    BY <1>5, <1>7, <2>1, <2>3, <2>8 DEF ScanInv, PruneInv
<1> QED
  BY <1>8, <1>9

LEMMA ListingKeepsLadderInv ==
    ASSUME LadderInv, ListOn \/ ListEnd
    PROVE  LadderInv'
<1> USE DEF LadderInv
<1>1. /\ pc = "listing" /\ UNCHANGED <<side, levels, bestPrice, asked, available, answer>>
      /\ pc' \in {"listing", "listed"}
  BY DEF ListOn, ListEnd, ladderVars
<1>2. /\ Within(Farthest) /\ ListsAheadOf(top, PriceAt(i)) /\ Len(top) < asked.depth
      /\ available = 0 /\ ~answer /\ Foremost /\ Farthest \in Indices
      /\ top \in Seq(Prices \X Nat) /\ Len(top) \in Nat /\ asked.depth \in Nat
      /\ i \in Int
  <2>1. top \in Seq(Prices \X Nat) /\ asked.depth \in Nat /\ i \in Int
    BY BoundsAreNatural, IndexFacts DEF Types
  <2> QED
    BY <1>1, <2>1, FarthestFacts DEF CountInv, ListInv
<1>3. Foremost'
  BY <1>1, <1>2, SameLadder DEF Foremost, NothingAheadOf
<1>4. CountInv'
  BY <1>1, <1>2 DEF CountInv, CountIsRight
<1>5. ASSUME NEW list \in Seq(Prices \X Nat), top' = list, NEW limit \in Int,
             ListsAheadOf(list, limit), Len(list) <= asked.depth,
             Len(list) = asked.depth \/ \A p \in NonEmpty : Ahead(p, limit),
             pc' = "listed", i' = 0
      PROVE  LadderInv'
  <2>1. ListIsRight'
    BY <1>1, <1>5, ListIsRightAfter
  <2>2. Types'
    BY <1>1, <1>5, IndexFacts DEF Types, Loops
  <2> QED
    BY <1>3, <1>4, <1>5, <2>1, <2>2 DEF ScanInv, PruneInv, ListInv
<1>6. CASE ListOn
  <2>1. /\ i \in Indices /\ ~Ended(Farthest) /\ top' = Listed
        /\ IF Len(top') = asked.depth
           THEN pc' = "listed" /\ i' = 0
           ELSE pc' = pc /\ i' = Advanced
    BY <1>6 DEF ListOn
  <2>2. /\ Advanced \in 0 .. NumLevels
        /\ IF side = "BUY" THEN Farthest <= Advanced /\ Advanced < NumLevels ELSE Advanced <= Farthest + 1
        /\ \A p \in Prices :
              Ahead(p, PriceAt(Advanced)) <=> Ahead(p, PriceAt(i)) \/ p = PriceAt(i)
    BY <1>2, <2>1, AdvanceFacts
  <2>3. /\ Listed \in Seq(Prices \X Nat)
        /\ Len(Listed) = IF EmptyAt(i) THEN Len(top) ELSE Len(top) + 1
        /\ ListsAheadOf(Listed, PriceAt(Advanced))
    BY <1>2, <2>1, <2>2, ListedFacts
  <2>4. Len(Listed) <= asked.depth /\ Len(Listed) \in Nat
    BY <1>2, <2>3
  <2>5. CASE Len(Listed) = asked.depth
    <3>1. PriceAt(Advanced) \in Int
      BY <2>2, PriceRange, IndexFacts DEF PriceAt
    <3>2. pc' = "listed" /\ i' = 0
      BY <2>1, <2>5
    <3> QED
      BY <1>5, <2>1, <2>3, <2>4, <2>5, <3>1, <3>2
  <2>6. CASE Len(Listed) # asked.depth
    <3>1. pc' = "listing" /\ i' = Advanced
      BY <1>1, <2>1, <2>6
    <3>2. Types'
      BY <1>1, <2>1, <2>2, <2>3, <3>1 DEF Types
    <3>3. Within(Farthest)'
      BY <1>1, <2>2, <3>1, SameLadder DEF Within
    <3>4. ListsAheadOf(top, PriceAt(i))'
      <4>1. /\ NonEmpty' = NonEmpty /\ \A p, q : Ahead(p, q)' <=> Ahead(p, q)
            /\ \A n : VolumeAt(n)' = VolumeAt(n) /\ \A p : IndexOf(p)' = IndexOf(p)
            /\ PriceAt(i)' = PriceAt(Advanced)
        BY <1>1, <3>1, SameLadder DEF IndexOf, PriceAt
      <4> QED
        BY <2>1, <2>3, <4>1 DEF ListsAheadOf
    <3>5. Len(top') < asked'.depth
      BY <1>1, <1>2, <2>1, <2>4, <2>6
    <3>6. ListInv'
      BY <3>1, <3>3, <3>4, <3>5 DEF ListInv, ListIsRight
    <3> QED
      BY <1>3, <1>4, <3>1, <3>2, <3>6 DEF ScanInv, PruneInv
  <2> QED
    BY <2>5, <2>6
<1>7. CASE ListEnd
  <2>1. /\ Ended(Farthest) /\ pc' = "listed" /\ i' = 0
        /\ top' = IF Looks(Farthest) THEN Listed ELSE top
    BY <1>7 DEF ListEnd
  <2>2. /\ Looks(Farthest) => i \in Indices
        /\ \A p \in Prices :
              ~Ahead(PriceAt(Farthest), p) <=>
                 Ahead(p, PriceAt(i)) \/ (Looks(Farthest) /\ p = PriceAt(i))
    BY <1>2, <2>1, EndFacts
  <2>3. \A p \in Prices : Ahead(p, PriceAt(i)) \/ (Looks(Farthest) /\ p = PriceAt(i))
    BY <2>2, FarthestFacts
  <2>4. PriceAt(i) \in Int /\ NonEmpty \subseteq Prices
    BY <1>2, PriceRange DEF PriceAt, NonEmpty
  <2>5. CASE Looks(Farthest)
    \* A price behind the one at the index, and so behind all of them.
    <3> DEFINE limit == IF side = "BUY" THEN PriceAt(i) - 1 ELSE PriceAt(i) + 1
    <3>1. limit \in Int
      BY <2>4
    <3>2. \A p \in Prices : Ahead(p, limit) <=> Ahead(p, PriceAt(i)) \/ p = PriceAt(i)
      BY <2>4, PriceRange DEF Ahead, Prices
    <3>3. top' = Listed
      BY <2>1, <2>5
    <3> HIDE DEF limit
    <3>4. /\ Listed \in Seq(Prices \X Nat)
          /\ Len(Listed) = IF EmptyAt(i) THEN Len(top) ELSE Len(top) + 1
          /\ ListsAheadOf(Listed, limit)
      BY <1>2, <2>2, <2>5, <3>2, ListedFacts
    <3>5. Len(Listed) <= asked.depth
      BY <1>2, <3>4
    <3>6. \A p \in NonEmpty : Ahead(p, limit)
      BY <2>3, <2>4, <3>2
    <3> QED
      BY <1>5, <2>1, <3>1, <3>3, <3>4, <3>5, <3>6
  <2>6. CASE ~Looks(Farthest)
    <3>1. top' = top /\ \A p \in NonEmpty : Ahead(p, PriceAt(i))
      BY <2>1, <2>3, <2>4, <2>6
    <3>2. Len(top) <= asked.depth
      BY <1>2
    <3> QED
      BY <1>2, <1>5, <2>1, <2>4, <3>1, <3>2
  <2> QED
    BY <2>5, <2>6
<1> QED
  BY <1>6, <1>7

-----------------------------------------------------------------------------
(* The ladder *)

LEMMA ReturnKeepsLadderInv ==
    ASSUME LadderInv, Return
    PROVE  LadderInv'
<1> USE DEF LadderInv
<1>1. /\ pc \in {"counted", "listed"} /\ pc' = "idle" /\ asked' = NothingAsked
      /\ answer' = FALSE /\ top' = <<>>
      /\ UNCHANGED <<side, levels, bestPrice, i, available>>
  BY DEF Return, ladderVars
<1>2. available = 0 /\ Foremost
  BY <1>1 DEF CountInv
<1>3. Foremost'
  BY <1>1, <1>2, SameLadder DEF Foremost, NothingAheadOf
<1>4. NothingAsked \in [threshold : Prices, required : Nat, depth : 0 .. MaxDepth]
  BY PriceRange, BoundsAreNatural DEF NothingAsked, Prices
<1>5. Types'
  <2>1. <<>> \in Seq(Prices \X Nat)
    OBVIOUS
  <2> QED
    BY <1>1, <1>4, <2>1 DEF Types
<1> QED
  BY <1>1, <1>2, <1>3, <1>5
     DEF ScanInv, PruneInv, CountInv, CountIsRight, ListInv, ListIsRight

LEMMA InitLadderInv ==
    ASSUME Init
    PROVE  LadderInv
<1>1. NothingAsked \in [threshold : Prices, required : Nat, depth : 0 .. MaxDepth]
  BY PriceRange, BoundsAreNatural DEF NothingAsked, Prices
<1>2. levels \in [Indices -> [Lifetimes -> 0 .. MaxShares]]
  BY BoundsAreNatural DEF Init
<1>3. Types
  <2>1. <<>> \in Seq(Prices \X Nat)
    OBVIOUS
  <2>2. /\ side \in {"BUY", "SELL"} /\ bestPrice = None /\ pc = "idle" /\ i = 0
        /\ asked = NothingAsked /\ available = 0 /\ answer = FALSE /\ top = <<>>
    BY DEF Init
  <2>3. i \in 0 .. NumLevels
    BY <2>2, IndexFacts
  <2> QED
    BY <1>1, <1>2, <2>1, <2>2, <2>3 DEF Types
<1>4. NonEmpty = {}
  BY IndexFacts DEF Init, NonEmpty, EmptyAt, VolumeAt, Lifetimes
<1>5. pc = "idle" /\ available = 0 /\ answer = FALSE /\ top = <<>> /\ bestPrice = None
  BY DEF Init
<1> QED
  BY <1>3, <1>4, <1>5
     DEF LadderInv, Foremost, ScanInv, PruneInv, CountInv, CountIsRight, ListInv, ListIsRight

LEMMA NextKeepsLadderInv ==
    ASSUME LadderInv, [Next]_vars
    PROVE  LadderInv'
<1>1. CASE UNCHANGED vars
  <2>1. /\ UNCHANGED <<side, levels, bestPrice, pc, i, asked, available, answer, top>>
    BY <1>1 DEF vars
  <2>2. Types'
    BY <2>1 DEF LadderInv, Types
  <2>3. (pc \notin {"scanning", "pruning"} => Foremost)' /\ ScanInv' /\ PruneInv'
    BY <2>1 DEF LadderInv, Foremost, NonEmpty, NothingAheadOf, EmptyAt, VolumeAt,
       IndexOf, PriceAt, Ahead, ScanInv, PruneInv, Within, Farthest
  <2>4. CountInv'
    BY <2>1 DEF LadderInv, CountInv, CountIsRight, Marketable, Threshold, Within, IndexOf,
       PriceAt, Ahead, AheadOf, Volumes, VolumeAt
  <2>5. ListInv'
    BY <2>1 DEF LadderInv, ListInv, ListIsRight, ListsAheadOf, NonEmpty, EmptyAt, VolumeAt,
       IndexOf, PriceAt, Ahead, Within, Farthest
  <2> QED
    BY <2>2, <2>3, <2>4, <2>5 DEF LadderInv
<1>2. CASE Next
  BY <1>2, RestKeepsLadderInv, LeaveKeepsLadderInv, ScanKeepsLadderInv,
     StartCountingKeepsLadderInv, CountingKeepsLadderInv,
     StartListingKeepsLadderInv, ListingKeepsLadderInv,
     StartPruningKeepsLadderInv, PruneLevelKeepsLadderInv, FinishPruningKeepsLadderInv,
     ReturnKeepsLadderInv
     DEF Next, Looping
<1> QED
  BY <1>1, <1>2

LEMMA LadderInvHolds == Spec => []LadderInv
BY InitLadderInv, NextKeepsLadderInv, PTL DEF Spec

\* What the invariant says of the reads of the vector: a loop that looks at the
\* level at its index has not gone past the level at which it ends.
LEMMA LadderInvImpliesTypeOK ==
    ASSUME LadderInv
    PROVE  TypeOK
<1>1. Types /\ NumLevels \in Nat /\ Farthest \in Indices /\ Threshold \in Indices
      /\ i \in 0 .. NumLevels
  BY IndexFacts, FarthestFacts, ThresholdFacts DEF LadderInv, Types
<1>2. ASSUME NEW last \in Indices, Within(last), Looks(last)
      PROVE  i \in Indices
  BY <1>1, <1>2 DEF Within, Looks, Indices, Types
<1> QED
  BY <1>1, <1>2 DEF LadderInv, TypeOK, ReadsStayInside, ScanInv, CountInv, ListInv, Types

\* No loop over the levels reads in front of the vector or behind it, however
\* its unsigned index is moved, and every variable keeps its type: for any
\* price range that the index can count, either side and any threshold.
THEOREM LadderTypeCorrect == FairSpec => []TypeOK
BY LadderInvHolds, LadderInvImpliesTypeOK, PTL DEF FairSpec

\* Between calls the cached best price of either side is that of the foremost
\* level with shares, after any rests, fills, cancels and session ends.
THEOREM BestPriceIsForemost == FairSpec => []BestIsForemost
<1>1. LadderInv => BestIsForemost
  BY DEF LadderInv, Foremost, NothingAheadOf, BestIsForemost
<1> QED
  BY <1>1, LadderInvHolds, PTL DEF FairSpec

\* has_sufficient_marketable_liquidity tells whether the shares at the threshold
\* and ahead of it are enough, and get_top_levels lists the foremost levels with
\* shares in order, all of them if it lists fewer than it was asked for.
THEOREM QueriesAnswerFromLevels == FairSpec => []QueriesAreRight
<1>1. LadderInv => QueriesAreRight
  BY DEF LadderInv, CountInv, ListInv, QueriesAreRight
<1> QED
  BY <1>1, LadderInvHolds, PTL DEF FairSpec

-----------------------------------------------------------------------------
(* Every loop is over after a bounded number of iterations *)

\* The levels that a loop going away from the best price can still look at.
LevelsBehind == IF side = "BUY" THEN i ELSE NumLevels - i

\* No loop takes more steps than this from where it is, with the return from it
\* and the scan that the loop over all levels may end in.
IterationsLeft ==
    CASE pc = "idle"                   -> 0
      [] pc \in {"counted", "listed"}  -> 1
      [] pc = "scanning"               -> LevelsBehind + 1
      [] pc \in {"counting", "listing"} -> LevelsBehind + 2
      [] pc = "pruning"                -> 2 * NumLevels - i + 2

\* Every step of a loop uses up at least one of the iterations it has left: the
\* unsigned index is never taken below the lowest level of a buy ladder, where
\* it would wrap and the loop start again from the far end.
LoopsRunOut == [][pc # "idle" => IterationsLeft' \in 0 .. IterationsLeft - 1]_vars

\* IterationsLeft, one loop at a time.
LeftOfEach ==
    /\ pc = "idle" => IterationsLeft = 0
    /\ pc \in {"counted", "listed"} => IterationsLeft = 1
    /\ pc = "scanning" => IterationsLeft = LevelsBehind + 1
    /\ pc \in {"counting", "listing"} => IterationsLeft = LevelsBehind + 2
    /\ pc = "pruning" => IterationsLeft = 2 * NumLevels - i + 2

LEMMA IterationsAre == LeftOfEach
BY DEF LeftOfEach, IterationsLeft

LEMMA IterationsAreNext == LeftOfEach'
BY IterationsAre, PTL

LEMMA IterationsType ==
    ASSUME LadderInv
    PROVE  /\ NumLevels \in Nat /\ i \in 0 .. NumLevels /\ side \in {"BUY", "SELL"}
           /\ LevelsBehind \in 0 .. NumLevels
<1>1. NumLevels \in Nat /\ i \in 0 .. NumLevels /\ side \in {"BUY", "SELL"}
  BY IndexFacts DEF LadderInv, Types
<1>2. LevelsBehind \in 0 .. NumLevels
  BY <1>1 DEF LevelsBehind
<1> QED
  BY <1>1, <1>2

\* An iteration that is not the last has one level fewer behind it.
LEMMA AdvanceLeavesFewer ==
    ASSUME LadderInv, i \in Indices, NEW last \in Indices, Within(last), ~Ended(last),
           i' = Advanced, side' = side
    PROVE  LevelsBehind' = LevelsBehind - 1 /\ LevelsBehind' \in Nat
<1>1. last \in Int /\ i \in Int /\ 0 <= i /\ i < NumLevels /\ 0 <= last /\ last < NumLevels
      /\ NumLevels \in Nat /\ IndexEnd \in Nat /\ NumLevels < IndexEnd
  BY IndexFacts, IndexHoldsLevels DEF Indices
<1>2. CASE side = "BUY"
  <2>1. i > last /\ Advanced = (i - 1) % IndexEnd
    BY <1>1, <1>2 DEF Within, Ended, Advanced
  <2>2. Advanced = i - 1
    BY <1>1, <2>1
  <2> QED
    BY <1>1, <1>2, <2>1, <2>2 DEF LevelsBehind
<1>3. CASE side # "BUY"
  <2>1. Advanced = (i + 1) % IndexEnd
    BY <1>3 DEF Advanced
  <2>2. Advanced = i + 1
    BY <1>1, <2>1
  <2> QED
    BY <1>1, <1>3, <2>2 DEF LevelsBehind
<1> QED
  BY <1>2, <1>3

LEMMA LoopNearsEnd ==
    ASSUME LadderInv, Looping
    PROVE  IterationsLeft' \in 0 .. IterationsLeft - 1
<1>1. /\ NumLevels \in Nat /\ i \in 0 .. NumLevels /\ side \in {"BUY", "SELL"}
      /\ LevelsBehind \in 0 .. NumLevels
  BY IterationsType
<1>0. /\ LeftOfEach /\ LeftOfEach'
  BY IterationsAre, IterationsAreNext
<1>2. CASE ScanHit \/ ScanMiss \/ Return
  <2>1. pc' = "idle" /\ pc \in {"scanning", "counted", "listed"}
    BY <1>2 DEF ScanHit, ScanMiss, Return
  <2> QED
    BY <1>0, <1>1, <2>1 DEF LeftOfEach
<1>3. CASE ScanOn
  <2>1. pc = "scanning" /\ pc' = "scanning" /\ i \in Indices /\ ~Ended(Farthest)
        /\ i' = Advanced /\ side' = side
    BY <1>3 DEF ScanOn, ladderVars
  <2>2. Within(Farthest) /\ Farthest \in Indices
    BY <2>1, FarthestFacts DEF LadderInv, ScanInv
  <2>3. LevelsBehind' = LevelsBehind - 1 /\ LevelsBehind' \in Nat
    BY <2>1, <2>2, AdvanceLeavesFewer
  <2> QED
    BY <1>0, <1>1, <2>1, <2>3 DEF LeftOfEach
<1>4. CASE CountOn
  <2>1. pc = "counting" /\ pc' = "counting" /\ i \in Indices /\ ~Ended(Threshold)
        /\ i' = Advanced /\ side' = side
    BY <1>4 DEF CountOn, ladderVars
  <2>2. Within(Threshold) /\ Threshold \in Indices
    BY <2>1, ThresholdFacts DEF LadderInv, CountInv
  <2>3. LevelsBehind' = LevelsBehind - 1 /\ LevelsBehind' \in Nat
    BY <2>1, <2>2, AdvanceLeavesFewer
  <2> QED
    BY <1>0, <1>1, <2>1, <2>3 DEF LeftOfEach
<1>5. CASE ListOn /\ pc' = "listing"
  <2>1. pc = "listing" /\ i \in Indices /\ ~Ended(Farthest) /\ i' = Advanced /\ side' = side
    BY <1>5 DEF ListOn, ladderVars
  <2>2. Within(Farthest) /\ Farthest \in Indices
    BY <2>1, FarthestFacts DEF LadderInv, ListInv
  <2>3. LevelsBehind' = LevelsBehind - 1 /\ LevelsBehind' \in Nat
    BY <2>1, <2>2, AdvanceLeavesFewer
  <2> QED
    BY <1>0, <1>1, <1>5, <2>1, <2>3 DEF LeftOfEach
<1>6. CASE CountEnough \/ CountShort \/ ListEnd \/ (ListOn /\ pc' = "listed")
  <2>1. pc \in {"counting", "listing"} /\ pc' \in {"counted", "listed"}
    BY <1>6 DEF CountEnough, CountShort, ListEnd, ListOn
  <2> QED
    BY <1>0, <1>1, <2>1 DEF LeftOfEach
<1>7. CASE PruneLevel
  <2>1. pc = "pruning" /\ pc' = "pruning" /\ i < NumLevels /\ i' = i + 1
    BY <1>7 DEF PruneLevel
  <2> QED
    BY <1>0, <1>1, <2>1 DEF LeftOfEach
<1>8. CASE FinishPruning
  <2>1. IterationsLeft = NumLevels + 2
    BY <1>0, <1>1, <1>8 DEF FinishPruning, LeftOfEach
  <2>2. CASE pc' = "idle"
    BY <1>0, <1>1, <2>1, <2>2 DEF LeftOfEach
  <2>3. CASE pc' # "idle"
    <3>1. pc' = "scanning" /\ i' = IndexOf(bestPrice) /\ bestPrice # None /\ side' = side
      BY <1>8, <2>3 DEF FinishPruning, ScanFrom, ladderVars
    <3>2. i' \in Indices
      BY <3>1, IndexFacts DEF LadderInv, Types
    <3>3. PICK n \in 0 .. NumLevels : LevelsBehind' = n
      BY <1>1, <3>1, <3>2 DEF LevelsBehind, Indices
    <3>4. IterationsLeft' = n + 1
      BY <1>0, <3>1, <3>3 DEF LeftOfEach
    <3> QED
      BY <1>1, <2>1, <3>3, <3>4
  <2> QED
    BY <2>2, <2>3
<1>9. ListOn => pc' \in {"listing", "listed"}
  BY DEF ListOn
<1> QED
  BY <1>2, <1>3, <1>4, <1>5, <1>6, <1>7, <1>8, <1>9 DEF Looping

\* However long the ladder is and however far the threshold, the scan for a best
\* price, the count of the liquidity, the list of levels and the session end
\* each end after the iterations they have left at the most.
THEOREM LoopsAreBounded == FairSpec => LoopsRunOut
<1>1. ASSUME LadderInv, Next, pc # "idle"
      PROVE  IterationsLeft' \in 0 .. IterationsLeft - 1
  <2>1. ~(Rest \/ Leave \/ StartCounting \/ StartListing \/ StartPruning)
    BY <1>1 DEF Rest, Leave, StartCounting, StartListing, StartPruning
  <2> QED
    BY <1>1, <2>1, LoopNearsEnd DEF Next
<1>2. LadderInv /\ [Next]_vars =>
         [pc # "idle" => IterationsLeft' \in 0 .. IterationsLeft - 1]_vars
  BY <1>1
<1> QED
  BY LadderInvHolds, <1>2, PTL DEF FairSpec, Spec, LoopsRunOut

=============================================================================

-------------------------- MODULE BenchmarksProofs --------------------------
(***************************************************************************)
(* What holds of the benchmarks for every batch size and depth: the orders *)
(* that rest never outnumber the blocks that the pool was built with, and  *)
(* the latency program finds the number of orders it insists on.           *)
(*                                                                         *)
(* An order comes to rest for each call at most that may leave one.  Where *)
(* these are as many as the blocks there is no more to show; where the     *)
(* timed calls might leave orders too (the aggressive GTC benchmarks), the *)
(* asks that were set up are shown to last to the end of the batch.        *)
(***************************************************************************)
EXTENDS Benchmarks, FiniteSetTheorems, SequenceTheorems, WellFoundedInduction, TLAPS

-----------------------------------------------------------------------------
(* Sequences *)

IsSequence(s) == \E S : s \in Seq(S)

\* A sequence is defined from 1 to its length.
LEMMA SequenceDomain ==
    ASSUME NEW s, IsSequence(s)
    PROVE  Len(s) \in Nat /\ DOMAIN s = 1 .. Len(s)
<1>1. PICK S : s \in Seq(S)
  BY DEF IsSequence
<1> QED
  BY <1>1, LenProperties

\* s has an element for each number up to the n-th.
Counts(s, n) == s = [i \in 1 .. n |-> s[i]]

\* A function on 1 .. n is a sequence of that length.
LEMMA FunctionIsSequence ==
    ASSUME NEW n \in Nat, NEW f, Counts(f, n)
    PROVE  IsSequence(f) /\ Len(f) = n /\ DOMAIN f = 1 .. n
<1> USE DEF Counts
<1> DEFINE S == {f[i] : i \in 1 .. n}
<1>1. f \in [1 .. n -> S]
  OBVIOUS
<1>2. f \in Seq(S)
  BY <1>1, SeqDef
<1>3. DOMAIN f = 1 .. n /\ DOMAIN f = 1 .. Len(f) /\ Len(f) \in Nat
  BY <1>1, <1>2, LenProperties
<1>4. Len(f) = n
  BY <1>3
<1> QED
  BY <1>2, <1>3, <1>4 DEF IsSequence

\* Joining two sequences.
LEMMA JoinedSequences ==
    ASSUME NEW s, NEW t, IsSequence(s), IsSequence(t)
    PROVE  /\ IsSequence(s \o t)
           /\ Len(s \o t) = Len(s) + Len(t)
           /\ \A i \in 1 .. Len(s) + Len(t) :
                 (s \o t)[i] = IF i <= Len(s) THEN s[i] ELSE t[i - Len(s)]
<1>1. PICK S : s \in Seq(S)
  BY DEF IsSequence
<1>2. PICK T : t \in Seq(T)
  BY DEF IsSequence
<1>3. s \in Seq(S \cup T) /\ t \in Seq(S \cup T)
  BY <1>1, <1>2, SeqMonotonic
<1>4. IsSequence(s \o t)
  BY <1>3, ConcatProperties DEF IsSequence
<1> QED
  BY <1>3, <1>4, ConcatProperties

\* Appending an element.
LEMMA AppendedSequence ==
    ASSUME NEW s, NEW x, IsSequence(s)
    PROVE  /\ IsSequence(Append(s, x))
           /\ Len(Append(s, x)) = Len(s) + 1
           /\ \A i \in 1 .. Len(s) : Append(s, x)[i] = s[i]
           /\ Append(s, x)[Len(s) + 1] = x
<1>1. PICK S : s \in Seq(S)
  BY DEF IsSequence
<1>2. s \in Seq(S \cup {x}) /\ x \in S \cup {x}
  BY <1>1, SeqMonotonic
<1>3. IsSequence(Append(s, x))
  BY <1>2, AppendProperties DEF IsSequence
<1> QED
  BY <1>2, <1>3, AppendProperties

\* Removing an element closes the gap.
LEMMA ShortenedSequence ==
    ASSUME NEW s, IsSequence(s), NEW k \in DOMAIN s
    PROVE  /\ IsSequence(RemoveAt(s, k))
           /\ Len(RemoveAt(s, k)) = Len(s) - 1
           /\ \A i \in 1 .. Len(s) - 1 : \E j \in DOMAIN s : RemoveAt(s, k)[i] = s[j]
<1>1. PICK S : s \in Seq(S)
  BY DEF IsSequence
<1>2. DOMAIN s = 1 .. Len(s) /\ Len(s) \in Nat /\ k \in 1 .. Len(s)
  BY <1>1, LenProperties
<1> DEFINE front == SubSeq(s, 1, k - 1)
           back  == SubSeq(s, k + 1, Len(s))
<1>3. \A i \in 1 .. Len(s) : s[i] \in S
  BY <1>1, <1>2
<1>4. /\ front \in Seq(S)
      /\ Len(front) = k - 1
      /\ \A i \in 1 .. k - 1 : front[i] = s[i]
  <2>1. \A i \in 1 .. k - 1 : s[i] \in S
    BY <1>2, <1>3
  <2> QED
    BY <1>2, <2>1, SubSeqProperties
<1>5. /\ back \in Seq(S)
      /\ Len(back) = Len(s) - k
      /\ \A i \in 1 .. Len(s) - k : back[i] = s[k + i]
  <2>1. \A i \in k + 1 .. Len(s) : s[i] \in S
    BY <1>2, <1>3
  <2> QED
    BY <1>2, <2>1, SubSeqProperties
<1>6. RemoveAt(s, k) = front \o back
  BY DEF RemoveAt
<1> HIDE DEF front, back
<1>7. /\ front \o back \in Seq(S)
      /\ Len(front \o back) = Len(front) + Len(back)
      /\ \A i \in 1 .. Len(front) + Len(back) :
            (front \o back)[i] = IF i <= Len(front) THEN front[i] ELSE back[i - Len(front)]
  BY <1>4, <1>5, ConcatProperties
<1>8. Len(front) + Len(back) = Len(s) - 1
  BY <1>2, <1>4, <1>5
<1>9. ASSUME NEW i \in 1 .. Len(s) - 1
      PROVE  \E j \in DOMAIN s : RemoveAt(s, k)[i] = s[j]
  <2>1. CASE i <= k - 1
    <3>1. RemoveAt(s, k)[i] = s[i] /\ i \in DOMAIN s
      BY <1>2, <1>4, <1>6, <1>7, <1>8, <2>1
    <3> QED
      BY <3>1
  <2>2. CASE ~(i <= k - 1)
    <3>1. i - (k - 1) \in 1 .. Len(s) - k
      BY <1>2, <2>2
    <3>2. RemoveAt(s, k)[i] = back[i - (k - 1)]
      BY <1>2, <1>4, <1>6, <1>7, <1>8, <2>2
    <3>3. back[i - (k - 1)] = s[k + (i - (k - 1))] /\ k + (i - (k - 1)) \in DOMAIN s
      BY <1>2, <1>5, <3>1
    <3> QED
      BY <3>2, <3>3
  <2> QED
    BY <2>1, <2>2
<1> QED
  BY <1>6, <1>7, <1>8, <1>9 DEF IsSequence

-----------------------------------------------------------------------------
(* The book *)

\* The book is a sequence per level, with finitely many orders in all.
BookShape ==
    /\ book = [l \in Levels |-> book[l]]
    /\ \A l \in Levels : IsSequence(book[l])
    /\ IsFiniteSet(Places)

\* What a place is.
LEMMA PlacesAre ==
    \A x : x \in Places <=> \E l \in Levels : \E i \in DOMAIN book[l] : x = <<l, i>>
BY DEF Places

\* A place of the book is a level and a position of its queue.
LEMMA PlaceIs ==
    ASSUME NEW place \in Places
    PROVE  /\ place[1] \in Levels /\ place[2] \in DOMAIN book[place[1]]
           /\ place = <<place[1], place[2]>>
<1>0. PICK l \in Levels : \E i \in DOMAIN book[l] : place = <<l, i>>
  BY PlacesAre
<1>1. PICK i \in DOMAIN book[l] : place = <<l, i>>
  BY <1>0
<1>2. place[1] = l /\ place[2] = i
  BY <1>1
<1> QED
  BY <1>1, <1>2

\* A queue that gets one longer adds a place.
LEMMA PlaceAdded ==
    ASSUME BookShape, NEW l \in Levels, NEW x, book' = [book EXCEPT ![l] = Append(@, x)]
    PROVE  /\ BookShape'
           /\ Cardinality(Places') = Cardinality(Places) + 1
           /\ Cardinality(Places) \in Nat
<1>1. /\ \A m \in Levels : book'[m] = IF m = l THEN Append(book[l], x) ELSE book[m]
      /\ book' = [m \in Levels |-> book'[m]]
  BY DEF BookShape
<1>2. /\ IsSequence(Append(book[l], x))
      /\ Len(Append(book[l], x)) = Len(book[l]) + 1
  BY AppendedSequence DEF BookShape
<1>3. \A m \in Levels : IsSequence(book'[m])
  BY <1>1, <1>2 DEF BookShape
<1>4. Len(book[l]) \in Nat /\ DOMAIN book[l] = 1 .. Len(book[l])
  BY SequenceDomain DEF BookShape
<1>5. DOMAIN book'[l] = 1 .. Len(book[l]) + 1
  BY <1>1, <1>2, SequenceDomain
<1>6. DOMAIN book'[l] = DOMAIN book[l] \cup {Len(book[l]) + 1}
      /\ Len(book[l]) + 1 \notin DOMAIN book[l]
  BY <1>4, <1>5
<1> DEFINE new == <<l, Len(book[l]) + 1>>
<1>7. \A y : y \in Places' <=> \E m \in Levels : \E i \in DOMAIN book'[m] : y = <<m, i>>
  BY DEF Places
<1>8. Places' = Places \cup {new}
  BY <1>1, <1>6, <1>7, PlacesAre
<1>9. new \notin Places
  BY <1>6, PlacesAre
<1>10. IsFiniteSet(Places)
  BY DEF BookShape
<1> HIDE DEF new
<1>11. IsFiniteSet(Places') /\ Cardinality(Places') = Cardinality(Places) + 1
  BY <1>8, <1>9, <1>10, FS_AddElement
<1>12. Cardinality(Places) \in Nat
  BY <1>10, FS_CardinalityType
<1> QED
  BY <1>1, <1>3, <1>11, <1>12 DEF BookShape

\* An order that leaves takes a place away.
LEMMA PlaceRemoved ==
    ASSUME BookShape, NEW place \in Places, book' = Without(place)
    PROVE  /\ BookShape'
           /\ Cardinality(Places') = Cardinality(Places) - 1
           /\ Cardinality(Places) \in Nat \ {0}
<1> DEFINE l == place[1]
           k == place[2]
<1>0. l \in Levels /\ k \in DOMAIN book[l]
  BY PlaceIs
<1>1. /\ \A m \in Levels : book'[m] = IF m = l THEN RemoveAt(book[l], k) ELSE book[m]
      /\ book' = [m \in Levels |-> book'[m]]
  BY <1>0 DEF BookShape, Without
<1>2. /\ IsSequence(RemoveAt(book[l], k))
      /\ Len(RemoveAt(book[l], k)) = Len(book[l]) - 1
  BY <1>0, ShortenedSequence DEF BookShape
<1>3. \A m \in Levels : IsSequence(book'[m])
  BY <1>1, <1>2 DEF BookShape
<1>4. Len(book[l]) \in Nat /\ DOMAIN book[l] = 1 .. Len(book[l])
  BY <1>0, SequenceDomain DEF BookShape
<1>5. DOMAIN book'[l] = 1 .. Len(book[l]) - 1
  BY <1>0, <1>1, <1>2, SequenceDomain
<1>6. DOMAIN book'[l] = DOMAIN book[l] \ {Len(book[l])}
      /\ Len(book[l]) \in DOMAIN book[l]
  BY <1>0, <1>4, <1>5
<1> DEFINE last == <<l, Len(book[l])>>
<1>7. \A y : y \in Places' <=> \E m \in Levels : \E i \in DOMAIN book'[m] : y = <<m, i>>
  BY DEF Places
<1>8. last \in Places
  BY <1>0, <1>6, PlacesAre
<1> HIDE DEF l, k
<1>9. Places' = Places \ {last}
  <2>1. ASSUME NEW y \in Places' PROVE y \in Places \ {last}
    <3>0. PICK m \in Levels : \E i \in DOMAIN book'[m] : y = <<m, i>>
      BY <1>7
    <3>1. PICK i \in DOMAIN book'[m] : y = <<m, i>>
      BY <3>0
    <3>2. i \in DOMAIN book[m] /\ ~(m = l /\ i = Len(book[l]))
      BY <1>1, <1>6, <3>1
    <3> QED
      BY <3>1, <3>2, PlacesAre
  <2>2. ASSUME NEW y \in Places \ {last} PROVE y \in Places'
    <3>0. PICK m \in Levels : \E i \in DOMAIN book[m] : y = <<m, i>>
      BY PlacesAre
    <3>1. PICK i \in DOMAIN book[m] : y = <<m, i>>
      BY <3>0
    <3>2. ~(m = l /\ i = Len(book[l]))
      BY <3>1
    <3>3. i \in DOMAIN book'[m]
      BY <1>1, <1>6, <3>1, <3>2
    <3> QED
      BY <1>7, <3>1, <3>3
  <2> QED
    BY <2>1, <2>2
<1>10. IsFiniteSet(Places)
  BY DEF BookShape
<1> HIDE DEF last
<1>11. IsFiniteSet(Places') /\ Cardinality(Places') = Cardinality(Places) - 1
  BY <1>8, <1>9, <1>10, FS_RemoveElement
<1>12. Cardinality(Places) \in Nat /\ Cardinality(Places) # 0
  BY <1>8, <1>10, FS_CardinalityType, FS_EmptySet
<1> QED
  BY <1>1, <1>3, <1>11, <1>12 DEF BookShape

\* An order that gets smaller keeps its place.
LEMMA PlacesKept ==
    ASSUME BookShape, NEW l \in Levels, NEW x, 1 \in DOMAIN book[l],
           book' = [book EXCEPT ![l] = [@ EXCEPT ![1] = x]]
    PROVE  BookShape' /\ Places' = Places
<1>1. /\ \A m \in Levels : book'[m] = IF m = l THEN [book[l] EXCEPT ![1] = x] ELSE book[m]
      /\ book' = [m \in Levels |-> book'[m]]
  BY DEF BookShape
<1>2. PICK S : book[l] \in Seq(S)
  BY DEF BookShape, IsSequence
<1>3. book[l] \in Seq(S \cup {x}) /\ 1 \in 1 .. Len(book[l])
  BY <1>2, SeqMonotonic, LenProperties
<1>4. [book[l] EXCEPT ![1] = x] \in Seq(S \cup {x})
  BY <1>3, ExceptSeq
<1>5. \A m \in Levels : IsSequence(book'[m])
  BY <1>1, <1>4 DEF BookShape, IsSequence
<1>6. \A m \in Levels : DOMAIN book'[m] = DOMAIN book[m]
  BY <1>1
<1>7. \A y : y \in Places' <=> \E m \in Levels : \E i \in DOMAIN book'[m] : y = <<m, i>>
  BY DEF Places
<1>8. Places' = Places
  <2>1. \A y : y \in Places' <=> y \in Places
    BY <1>6, <1>7, PlacesAre
  <2> QED
    BY <2>1
<1>9. IsFiniteSet(Places')
  BY <1>8 DEF BookShape
<1> QED
  BY <1>1, <1>5, <1>8, <1>9 DEF BookShape

-----------------------------------------------------------------------------
(* Who is traded with *)

\* A set of natural numbers that is not empty has a smallest member.
LEMMA SmallestNumber ==
    ASSUME NEW S, S \subseteq Nat, S # {}
    PROVE  \E n \in S : \A m \in S : n <= m
<1>1. PICK n \in S : \A m \in S : ~(<<m, n>> \in OpToRel(<, Nat))
  BY NatLessThanWellFounded, WFMin
<1>2. ASSUME NEW m \in S PROVE n <= m
  <2>1. m \in Nat /\ n \in Nat
    OBVIOUS
  <2>2. CASE m < n
    BY <1>1, <2>1, <2>2 DEF OpToRel
  <2> QED
    BY <2>1, <2>2
<1> QED
  BY <1>2

\* One of the levels that a request accepts is the best of them.
LEMMA BestLevelIsMarketable ==
    ASSUME NEW req, MarketableLevels(req) # {}
    PROVE  /\ BestLevel(req) \in MarketableLevels(req)
           /\ \A other \in MarketableLevels(req) :
                 ~Ahead(BestLevel(req)[1], other[2], BestLevel(req)[2])
<1> DEFINE M == MarketableLevels(req)
           side == Opposite(req.side)
<1>1. \A l \in M : l[1] = side /\ l[2] \in Prices
  BY DEF MarketableLevels, Levels
<1>2. Prices \subseteq Nat /\ \A p \in Prices : MaxPrice - p \in Nat
  BY PriceRange, LaddersFit DEF Prices
<1>3. M # {}
  OBVIOUS
<1> HIDE DEF M, side
<1>5. \A l \in M : l[2] \in Nat /\ MaxPrice - l[2] \in Nat
  BY <1>1, <1>2
<1>6. MaxPrice \in Int
  BY PriceRange
<1>4. \E l \in M : \A other \in M : ~Ahead(l[1], other[2], l[2])
  <2>1. CASE side = "BUY"
    <3> DEFINE S == {MaxPrice - l[2] : l \in M}
    <3>1. S \subseteq Nat /\ S # {}
      BY <1>3, <1>5
    <3>2. PICK n \in S : \A m \in S : n <= m
      <4> HIDE DEF S
      <4> QED
        BY <3>1, SmallestNumber
    <3>3. PICK l \in M : n = MaxPrice - l[2]
      OBVIOUS
    <3>4. ASSUME NEW other \in M PROVE ~Ahead(l[1], other[2], l[2])
      <4>1. MaxPrice - l[2] <= MaxPrice - other[2]
        BY <3>2, <3>3
      <4>2. l[2] \in Nat /\ other[2] \in Nat
        <5> HIDE DEF S
        <5> QED
          BY <1>5
      <4>3. ~(other[2] > l[2])
        BY <1>6, <4>1, <4>2
      <4> QED
        BY <4>3, <1>1, <2>1 DEF Ahead
    <3> QED
      BY <3>4
  <2>2. CASE side # "BUY"
    <3> DEFINE S == {l[2] : l \in M}
    <3>1. S \subseteq Nat /\ S # {}
      BY <1>3, <1>5
    <3>2. PICK n \in S : \A m \in S : n <= m
      <4> HIDE DEF S
      <4> QED
        BY <3>1, SmallestNumber
    <3>3. PICK l \in M : n = l[2]
      OBVIOUS
    <3>4. ASSUME NEW other \in M PROVE ~Ahead(l[1], other[2], l[2])
      <4>1. l[2] <= other[2]
        BY <3>2, <3>3
      <4>2. l[2] \in Nat /\ other[2] \in Nat
        <5> HIDE DEF S
        <5> QED
          BY <1>5
      <4>3. ~(other[2] < l[2])
        BY <4>1, <4>2
      <4> QED
        BY <4>3, <1>1, <2>2 DEF Ahead
    <3> QED
      BY <3>4
  <2> QED
    BY <2>1, <2>2
<1> QED
  BY <1>4 DEF BestLevel, M

\* The first order of the best level is there.
LEMMA BestPlaceIsThere ==
    ASSUME BookShape, NEW req, MarketableLevels(req) # {}
    PROVE  /\ BestLevel(req) \in Levels
           /\ 1 \in DOMAIN book[BestLevel(req)]
           /\ <<BestLevel(req), 1>> \in Places
<1> DEFINE l == BestLevel(req)
<1>1. l \in Levels /\ book[l] # <<>>
  BY BestLevelIsMarketable DEF MarketableLevels
<1> HIDE DEF l
<1>2. PICK S : book[l] \in Seq(S)
  BY <1>1 DEF BookShape, IsSequence
<1>3. Len(book[l]) \in Nat \ {0} /\ DOMAIN book[l] = 1 .. Len(book[l])
  BY <1>1, <1>2, EmptySeq, LenProperties
<1>4. 1 \in DOMAIN book[l]
  BY <1>3
<1> QED
  BY <1>1, <1>4, PlacesAre DEF l

-----------------------------------------------------------------------------
(* The benchmarks *)

\* The benchmarks in which the timed orders might come to rest, would the asks
\* that are set up not last.
Aggressive(r) ==
    \E b \in Batches :
        \/ r = FromOneMaker(b, "GTC")
        \/ r = FromOneLevel(b, "GTC")
        \/ \E d \in Depths : r = Sweep(b, d, "GTC")

\* A call that does not leave an order by itself, whatever its limit.
LeavesNone(c) ==
    \A limit : LET req == [c EXCEPT !.limit = limit]
               IN  req.op = "submit" => req.tif \notin Lifetimes

\* Why there are blocks enough: for all calls, or because no timed call leaves
\* an order by itself, or because of the asks.
RunFits(r) ==
    /\ IsSequence(r.setup) /\ IsSequence(r.timed) /\ r.pool \in Nat
    /\ \/ Len(r.setup) + Len(r.timed) <= r.pool
       \/ /\ Len(r.setup) <= r.pool
          /\ (\A i \in DOMAIN r.timed : LeavesNone(r.timed[i])) \/ Aggressive(r)

\* So many untimed and so many timed calls, whose timed calls leave no order.
LEMMA FitsByPath ==
    ASSUME NEW r, NEW n \in Nat, NEW b \in Nat,
           Counts(r.setup, n), Counts(r.timed, b), r.pool \in Nat,
           n <= r.pool, (\A i \in 1 .. b : LeavesNone(r.timed[i])) \/ Aggressive(r)
    PROVE  RunFits(r)
<1>1. IsSequence(r.setup) /\ Len(r.setup) = n
  BY FunctionIsSequence
<1>2. IsSequence(r.timed) /\ Len(r.timed) = b /\ DOMAIN r.timed = 1 .. b
  BY FunctionIsSequence
<1> QED
  BY <1>1, <1>2 DEF RunFits

\* So many calls in all that there is a block for each.
LEMMA FitsByNumber ==
    ASSUME NEW r, NEW n \in Nat, NEW b \in Nat,
           Counts(r.setup, n), Counts(r.timed, b), r.pool \in Nat,
           n + b <= r.pool
    PROVE  RunFits(r)
<1>1. IsSequence(r.setup) /\ Len(r.setup) = n
  BY FunctionIsSequence
<1>2. IsSequence(r.timed) /\ Len(r.timed) = b
  BY FunctionIsSequence
<1> QED
  BY <1>1, <1>2 DEF RunFits

\* A sequence is such a function.
LEMMA SequenceCounts ==
    ASSUME NEW s, IsSequence(s)
    PROVE  Counts(s, Len(s))
<1>1. PICK S : s \in Seq(S)
  BY DEF IsSequence
<1>2. s \in [1 .. Len(s) -> S]
  BY <1>1, LenProperties
<1> QED
  BY <1>2 DEF Counts

\* The empty sequence, that of one element and that of equal elements.
LEMMA ShortFunctions ==
    /\ Counts(<<>>, 0)
    /\ \A x : Counts(<<x>>, 1)
<1>1. IsSequence(<<>>) /\ Len(<<>>) = 0
  BY EmptySeq DEF IsSequence
<1>2. ASSUME NEW x PROVE IsSequence(<<x>>) /\ Len(<<x>>) = 1
  <2>1. <<x>> \in Seq({x}) /\ Len(<<x>>) = 1
    OBVIOUS
  <2> QED
    BY <2>1 DEF IsSequence
<1>3. Counts(<<>>, Len(<<>>)) /\ \A x : Counts(<<x>>, Len(<<x>>))
  BY <1>1, <1>2, SequenceCounts
<1> QED
  BY <1>1, <1>2, <1>3

\* A batch of equal elements is a sequence of that length.
LEMMA EachIs ==
    ASSUME NEW b \in Nat, NEW x
    PROVE  IsSequence(Each(b, x)) /\ Len(Each(b, x)) = b /\ DOMAIN Each(b, x) = 1 .. b
<1>1. Counts(Each(b, x), b)
  BY DEF Counts, Each
<1> QED
  BY <1>1, FunctionIsSequence

\* The batches that set orders to rest, which have a block for every call.
LEMMA RestingFits ==
    ASSUME NEW b \in Batches, NEW d \in Depths
    PROVE  /\ RunFits(SubmitRestingSameLevel(b))
           /\ RunFits(SubmitRestingDiffLevels(b))
           /\ RunFits(SubmitRestingDiffLevelsFixedSpread(b, d))
           /\ RunFits(LatencyMeasurement(b, d))
<1>1. b \in Nat \ {0} /\ d \in Nat \ {0} /\ 1 <= b
  BY SizesArePositive
<1>2. RunFits(SubmitRestingSameLevel(b))
  <2> DEFINE r == SubmitRestingSameLevel(b)
  <2>1. r.setup = <<>> /\ r.pool = b
    BY DEF Counts, SubmitRestingSameLevel, OneLevel
  <2>2. Counts(r.timed, b)
    BY DEF Counts, SubmitRestingSameLevel, OneLevel
  <2> HIDE DEF r
  <2>4. Counts(r.setup, 0)
    BY <2>1, ShortFunctions
  <2>5. RunFits(r)
    BY <1>1, <2>1, <2>2, <2>4, FitsByNumber
  <2> QED
    BY <2>5 DEF r
<1>3. RunFits(SubmitRestingDiffLevels(b))
  <2> DEFINE r == SubmitRestingDiffLevels(b)
  <2>1. r.setup = <<>> /\ r.pool = b
    BY DEF Counts, SubmitRestingDiffLevels, UniqueLevels
  <2>2. Counts(r.timed, b)
    BY DEF Counts, SubmitRestingDiffLevels, UniqueLevels
  <2> HIDE DEF r
  <2>4. Counts(r.setup, 0)
    BY <2>1, ShortFunctions
  <2>5. RunFits(r)
    BY <1>1, <2>1, <2>2, <2>4, FitsByNumber
  <2> QED
    BY <2>5 DEF r
<1>4. RunFits(SubmitRestingDiffLevelsFixedSpread(b, d))
  <2> DEFINE r == SubmitRestingDiffLevelsFixedSpread(b, d)
  <2>1. r.setup = <<>> /\ r.pool = b
    BY DEF Counts, SubmitRestingDiffLevelsFixedSpread
  <2>2. Counts(r.timed, b)
    BY DEF Counts, SubmitRestingDiffLevelsFixedSpread
  <2> HIDE DEF r
  <2>4. Counts(r.setup, 0)
    BY <2>1, ShortFunctions
  <2>5. RunFits(r)
    BY <1>1, <2>1, <2>2, <2>4, FitsByNumber
  <2> QED
    BY <2>5 DEF r
<1>5. RunFits(LatencyMeasurement(b, d))
  <2> DEFINE r == LatencyMeasurement(b, d)
  <2>1. Counts(r.setup, d) /\ r.pool = b + d + 1
    BY DEF Counts, LatencyMeasurement
  <2>2. Counts(r.timed, b)
    BY DEF Counts, LatencyMeasurement
  <2> HIDE DEF r
  <2>4. Counts(r.setup, d)
    BY <2>1, ShortFunctions
  <2>5. RunFits(r)
    BY <1>1, <2>1, <2>2, <2>4, FitsByNumber
  <2> QED
    BY <2>5 DEF r
<1> QED
  BY <1>2, <1>3, <1>4, <1>5

\* A product is no smaller than its factors.
LEMMA Multiples ==
    ASSUME NEW b \in Nat \ {0}, NEW d \in Nat \ {0}
    PROVE  b * d \in Nat \ {0} /\ d <= b * d /\ b <= b * d
<1>1. b * d = d + (b - 1) * d
  OBVIOUS
<1>2. b * d = b + b * (d - 1)
  OBVIOUS
<1>3. (b - 1) * d \in Nat /\ b * (d - 1) \in Nat
  OBVIOUS
<1> QED
  BY <1>1, <1>2, <1>3

\* The aggressive batches of GTC orders.
LEMMA AggressiveFits ==
    ASSUME NEW b \in Batches, NEW d \in Depths
    PROVE  /\ RunFits(SubmitAggressiveSameLevelPartialFill(b))
           /\ RunFits(SubmitAggressiveSameLevelFill(b))
           /\ RunFits(SubmitAggressiveSweepLevels(b, d))
<1>1. b \in Nat \ {0} /\ d \in Nat \ {0} /\ 1 <= b /\ b * d \in Nat /\ d <= b * d
  BY SizesArePositive, Multiples
<1>2. RunFits(SubmitAggressiveSameLevelPartialFill(b))
  <2> DEFINE r == SubmitAggressiveSameLevelPartialFill(b)
  <2>1. r.setup = <<Limit(1, 1, b + 1, "SELL", "GTC")>> /\ r.pool = b
    BY DEF Counts, SubmitAggressiveSameLevelPartialFill, FromOneMaker
  <2>2. Counts(r.timed, b)
    BY DEF Counts, SubmitAggressiveSameLevelPartialFill, FromOneMaker
  <2>3. Aggressive(r)
    BY DEF Aggressive, SubmitAggressiveSameLevelPartialFill, FromOneMaker
  <2> HIDE DEF r
  <2>4. Counts(r.setup, 1)
    BY <2>1, ShortFunctions
  <2>5. RunFits(r)
    BY <1>1, <2>1, <2>2, <2>4, <2>3, FitsByPath
  <2> QED
    BY <2>5 DEF r
<1>3. RunFits(SubmitAggressiveSameLevelFill(b))
  <2> DEFINE r == SubmitAggressiveSameLevelFill(b)
  <2>1. Counts(r.setup, b) /\ r.pool = b
    BY DEF Counts, SubmitAggressiveSameLevelFill, FromOneLevel, OneLevel
  <2>2. Counts(r.timed, b)
    BY DEF Counts, SubmitAggressiveSameLevelFill, FromOneLevel, OneLevel
  <2>3. Aggressive(r)
    BY DEF Aggressive, SubmitAggressiveSameLevelFill, FromOneLevel, OneLevel
  <2> HIDE DEF r
  <2>4. Counts(r.setup, b)
    BY <2>1, ShortFunctions
  <2>5. RunFits(r)
    BY <1>1, <2>1, <2>2, <2>4, <2>3, FitsByPath
  <2> QED
    BY <2>5 DEF r
<1>4. RunFits(SubmitAggressiveSweepLevels(b, d))
  <2> DEFINE r == SubmitAggressiveSweepLevels(b, d)
  <2>1. Counts(r.setup, (b * d)) /\ r.pool = b * d
    BY DEF Counts, SubmitAggressiveSweepLevels, Sweep, UniqueLevels
  <2>2. Counts(r.timed, b)
    BY DEF Counts, SubmitAggressiveSweepLevels, Sweep, UniqueLevels
  <2>3. Aggressive(r)
    BY DEF Aggressive, SubmitAggressiveSweepLevels, Sweep, UniqueLevels
  <2> HIDE DEF r
  <2>4. Counts(r.setup, b * d)
    BY <2>1, ShortFunctions
  <2>5. RunFits(r)
    BY <1>1, <2>1, <2>2, <2>4, <2>3, FitsByPath
  <2> QED
    BY <2>5 DEF r
<1> QED
  BY <1>2, <1>3, <1>4

\* The batches of orders that never rest.
LEMMA ImmediateFits ==
    ASSUME NEW b \in Batches, NEW d \in Depths
    PROVE  /\ RunFits(SubmitIOCNoFill(b))
           /\ RunFits(SubmitIOCSameLevelPartialFill(b))
           /\ RunFits(SubmitIOCSameLevelFullFill(b))
           /\ RunFits(SubmitIOCSweepLevels(b, d))
           /\ RunFits(SubmitFOKNoFill(b))
           /\ RunFits(SubmitFOKKilledAfterScan(b, d))
           /\ RunFits(SubmitFOKSameLevelFullFill(b))
           /\ RunFits(SubmitFOKSweepLevels(b, d))
<1>1. b \in Nat \ {0} /\ d \in Nat \ {0} /\ 1 <= b /\ b * d \in Nat /\ d <= b * d
  BY SizesArePositive, Multiples
<1>2. RunFits(SubmitIOCNoFill(b))
  <2> DEFINE r == SubmitIOCNoFill(b)
  <2>1. r.setup = <<>> /\ r.pool = b
    BY DEF Counts, SubmitIOCNoFill, OneLevel
  <2>2. Counts(r.timed, b)
    BY DEF Counts, SubmitIOCNoFill, OneLevel
  <2>3. \A i \in 1 .. b : LeavesNone(r.timed[i])
    BY NoneIsNoValue DEF SubmitIOCNoFill, OneLevel, LeavesNone, Lifetimes, TimesInForce, Limit
  <2> HIDE DEF r
  <2>4. Counts(r.setup, 0)
    BY <2>1, ShortFunctions
  <2>5. RunFits(r)
    BY <1>1, <2>1, <2>2, <2>4, <2>3, FitsByPath
  <2> QED
    BY <2>5 DEF r
<1>3. RunFits(SubmitIOCSameLevelPartialFill(b))
  <2> DEFINE r == SubmitIOCSameLevelPartialFill(b)
  <2>1. r.setup = <<Limit(1, 1, b + 1, "SELL", "GTC")>> /\ r.pool = b
    BY DEF Counts, SubmitIOCSameLevelPartialFill, FromOneMaker
  <2>2. Counts(r.timed, b)
    BY DEF Counts, SubmitIOCSameLevelPartialFill, FromOneMaker
  <2>3. \A i \in 1 .. b : LeavesNone(r.timed[i])
    BY NoneIsNoValue DEF SubmitIOCSameLevelPartialFill, FromOneMaker, LeavesNone, Lifetimes, TimesInForce, Limit
  <2> HIDE DEF r
  <2>4. Counts(r.setup, 1)
    BY <2>1, ShortFunctions
  <2>5. RunFits(r)
    BY <1>1, <2>1, <2>2, <2>4, <2>3, FitsByPath
  <2> QED
    BY <2>5 DEF r
<1>4. RunFits(SubmitIOCSameLevelFullFill(b))
  <2> DEFINE r == SubmitIOCSameLevelFullFill(b)
  <2>1. Counts(r.setup, b) /\ r.pool = b
    BY DEF Counts, SubmitIOCSameLevelFullFill, FromOneLevel, OneLevel
  <2>2. Counts(r.timed, b)
    BY DEF Counts, SubmitIOCSameLevelFullFill, FromOneLevel, OneLevel
  <2>3. \A i \in 1 .. b : LeavesNone(r.timed[i])
    BY NoneIsNoValue DEF SubmitIOCSameLevelFullFill, FromOneLevel, OneLevel, LeavesNone, Lifetimes, TimesInForce, Limit
  <2> HIDE DEF r
  <2>4. Counts(r.setup, b)
    BY <2>1, ShortFunctions
  <2>5. RunFits(r)
    BY <1>1, <2>1, <2>2, <2>4, <2>3, FitsByPath
  <2> QED
    BY <2>5 DEF r
<1>5. RunFits(SubmitIOCSweepLevels(b, d))
  <2> DEFINE r == SubmitIOCSweepLevels(b, d)
  <2>1. Counts(r.setup, (b * d)) /\ r.pool = b * d
    BY DEF Counts, SubmitIOCSweepLevels, Sweep, UniqueLevels
  <2>2. Counts(r.timed, b)
    BY DEF Counts, SubmitIOCSweepLevels, Sweep, UniqueLevels
  <2>3. \A i \in 1 .. b : LeavesNone(r.timed[i])
    BY NoneIsNoValue DEF SubmitIOCSweepLevels, Sweep, UniqueLevels, LeavesNone, Lifetimes, TimesInForce, Limit
  <2> HIDE DEF r
  <2>4. Counts(r.setup, (b * d))
    BY <2>1, ShortFunctions
  <2>5. RunFits(r)
    BY <1>1, <2>1, <2>2, <2>4, <2>3, FitsByPath
  <2> QED
    BY <2>5 DEF r
<1>6. RunFits(SubmitFOKNoFill(b))
  <2> DEFINE r == SubmitFOKNoFill(b)
  <2>1. r.setup = <<>> /\ r.pool = b
    BY DEF Counts, SubmitFOKNoFill, OneLevel
  <2>2. Counts(r.timed, b)
    BY DEF Counts, SubmitFOKNoFill, OneLevel
  <2>3. \A i \in 1 .. b : LeavesNone(r.timed[i])
    BY NoneIsNoValue DEF SubmitFOKNoFill, OneLevel, LeavesNone, Lifetimes, TimesInForce, Limit
  <2> HIDE DEF r
  <2>4. Counts(r.setup, 0)
    BY <2>1, ShortFunctions
  <2>5. RunFits(r)
    BY <1>1, <2>1, <2>2, <2>4, <2>3, FitsByPath
  <2> QED
    BY <2>5 DEF r
<1>7. RunFits(SubmitFOKKilledAfterScan(b, d))
  <2> DEFINE r == SubmitFOKKilledAfterScan(b, d)
  <2>1. Counts(r.setup, d) /\ r.pool = b * d
    BY DEF Counts, SubmitFOKKilledAfterScan, UniqueLevels
  <2>2. Counts(r.timed, b)
    BY DEF Counts, SubmitFOKKilledAfterScan, UniqueLevels
  <2>3. \A i \in 1 .. b : LeavesNone(r.timed[i])
    BY NoneIsNoValue DEF SubmitFOKKilledAfterScan, UniqueLevels, LeavesNone, Lifetimes, TimesInForce, Limit
  <2> HIDE DEF r
  <2>4. Counts(r.setup, d)
    BY <2>1, ShortFunctions
  <2>5. RunFits(r)
    BY <1>1, <2>1, <2>2, <2>4, <2>3, FitsByPath
  <2> QED
    BY <2>5 DEF r
<1>8. RunFits(SubmitFOKSameLevelFullFill(b))
  <2> DEFINE r == SubmitFOKSameLevelFullFill(b)
  <2>1. Counts(r.setup, b) /\ r.pool = b
    BY DEF Counts, SubmitFOKSameLevelFullFill, FromOneLevel, OneLevel
  <2>2. Counts(r.timed, b)
    BY DEF Counts, SubmitFOKSameLevelFullFill, FromOneLevel, OneLevel
  <2>3. \A i \in 1 .. b : LeavesNone(r.timed[i])
    BY NoneIsNoValue DEF SubmitFOKSameLevelFullFill, FromOneLevel, OneLevel, LeavesNone, Lifetimes, TimesInForce, Limit
  <2> HIDE DEF r
  <2>4. Counts(r.setup, b)
    BY <2>1, ShortFunctions
  <2>5. RunFits(r)
    BY <1>1, <2>1, <2>2, <2>4, <2>3, FitsByPath
  <2> QED
    BY <2>5 DEF r
<1>9. RunFits(SubmitFOKSweepLevels(b, d))
  <2> DEFINE r == SubmitFOKSweepLevels(b, d)
  <2>1. Counts(r.setup, (b * d)) /\ r.pool = b * d
    BY DEF Counts, SubmitFOKSweepLevels, Sweep, UniqueLevels
  <2>2. Counts(r.timed, b)
    BY DEF Counts, SubmitFOKSweepLevels, Sweep, UniqueLevels
  <2>3. \A i \in 1 .. b : LeavesNone(r.timed[i])
    BY NoneIsNoValue DEF SubmitFOKSweepLevels, Sweep, UniqueLevels, LeavesNone, Lifetimes, TimesInForce, Limit
  <2> HIDE DEF r
  <2>4. Counts(r.setup, (b * d))
    BY <2>1, ShortFunctions
  <2>5. RunFits(r)
    BY <1>1, <2>1, <2>2, <2>4, <2>3, FitsByPath
  <2> QED
    BY <2>5 DEF r
<1> QED
  BY <1>2, <1>3, <1>4, <1>5, <1>6, <1>7, <1>8, <1>9

\* The batches of market orders.
LEMMA MarketFits ==
    ASSUME NEW b \in Batches, NEW d \in Depths
    PROVE  /\ RunFits(SubmitMarketNoFill(b))
           /\ RunFits(SubmitMarketSameLevelFullFill(b))
           /\ RunFits(SubmitMarketSweepLevels(b, d))
<1>1. b \in Nat \ {0} /\ d \in Nat \ {0} /\ 1 <= b /\ b * d \in Nat /\ d <= b * d
  BY SizesArePositive, Multiples
<1>2. RunFits(SubmitMarketNoFill(b))
  <2> DEFINE r == SubmitMarketNoFill(b)
  <2>1. r.setup = <<>> /\ r.pool = b
    BY DEF Counts, SubmitMarketNoFill, AsMarketOrders, SubmitIOCNoFill, OneLevel
  <2>2. Counts(r.timed, b)
    BY DEF Counts, SubmitMarketNoFill, AsMarketOrders, SubmitIOCNoFill, OneLevel
  <2>3. \A i \in 1 .. b : LeavesNone(r.timed[i])
    BY NoneIsNoValue DEF SubmitMarketNoFill, AsMarketOrders, SubmitIOCNoFill, OneLevel, LeavesNone, Lifetimes, TimesInForce, Market
  <2> HIDE DEF r
  <2>4. Counts(r.setup, 0)
    BY <2>1, ShortFunctions
  <2>5. RunFits(r)
    BY <1>1, <2>1, <2>2, <2>4, <2>3, FitsByPath
  <2> QED
    BY <2>5 DEF r
<1>3. RunFits(SubmitMarketSameLevelFullFill(b))
  <2> DEFINE r == SubmitMarketSameLevelFullFill(b)
  <2>1. Counts(r.setup, b) /\ r.pool = b
    BY DEF Counts, SubmitMarketSameLevelFullFill, AsMarketOrders, FromOneLevel, OneLevel
  <2>2. Counts(r.timed, b)
    BY DEF Counts, SubmitMarketSameLevelFullFill, AsMarketOrders, FromOneLevel, OneLevel
  <2>3. \A i \in 1 .. b : LeavesNone(r.timed[i])
    BY NoneIsNoValue DEF SubmitMarketSameLevelFullFill, AsMarketOrders, FromOneLevel, OneLevel, LeavesNone, Lifetimes, TimesInForce, Market
  <2> HIDE DEF r
  <2>4. Counts(r.setup, b)
    BY <2>1, ShortFunctions
  <2>5. RunFits(r)
    BY <1>1, <2>1, <2>2, <2>4, <2>3, FitsByPath
  <2> QED
    BY <2>5 DEF r
<1>4. RunFits(SubmitMarketSweepLevels(b, d))
  <2> DEFINE r == SubmitMarketSweepLevels(b, d)
  <2>1. Counts(r.setup, (b * d)) /\ r.pool = b * d
    BY DEF Counts, SubmitMarketSweepLevels, AsMarketOrders, Sweep, UniqueLevels
  <2>2. Counts(r.timed, b)
    BY DEF Counts, SubmitMarketSweepLevels, AsMarketOrders, Sweep, UniqueLevels
  <2>3. \A i \in 1 .. b : LeavesNone(r.timed[i])
    BY NoneIsNoValue DEF SubmitMarketSweepLevels, AsMarketOrders, Sweep, UniqueLevels, LeavesNone, Lifetimes, TimesInForce, Market
  <2> HIDE DEF r
  <2>4. Counts(r.setup, (b * d))
    BY <2>1, ShortFunctions
  <2>5. RunFits(r)
    BY <1>1, <2>1, <2>2, <2>4, <2>3, FitsByPath
  <2> QED
    BY <2>5 DEF r
<1> QED
  BY <1>2, <1>3, <1>4

\* The batches of cancellations.
LEMMA CancelFits ==
    ASSUME NEW b \in Batches, NEW d \in Depths
    PROVE  /\ RunFits(CancelMissingEmptyBook(b))
           /\ RunFits(CancelMissingPopulatedBook(b))
           /\ RunFits(CancelSameLevelHead(b))
           /\ RunFits(CancelSameLevelTail(b))
           /\ RunFits(CancelSameLevelMiddle(b))
           /\ RunFits(CancelUniqueLevels(b))
<1>1. b \in Nat \ {0} /\ d \in Nat \ {0} /\ 1 <= b
  BY SizesArePositive
<1>2. RunFits(CancelMissingEmptyBook(b))
  <2> DEFINE r == CancelMissingEmptyBook(b)
  <2>1. Counts(r.setup, 0) /\ r.pool = b
    BY DEF Counts, CancelMissingEmptyBook, Cancelling, OneLevel
  <2>2. Counts(r.timed, b)
    BY DEF Counts, CancelMissingEmptyBook, Cancelling, OneLevel
  <2>3. \A i \in 1 .. b : LeavesNone(r.timed[i])
    BY NoneIsNoValue DEF CancelMissingEmptyBook, Cancelling, OneLevel, LeavesNone, Lifetimes, TimesInForce, CancelRequest
  <2> HIDE DEF r
  <2>4. Counts(r.setup, 0)
    BY <2>1, ShortFunctions
  <2>5. RunFits(r)
    BY <1>1, <2>1, <2>2, <2>4, <2>3, FitsByPath
  <2> QED
    BY <2>5 DEF r
<1>3. RunFits(CancelMissingPopulatedBook(b))
  <2> DEFINE r == CancelMissingPopulatedBook(b)
  <2>1. Counts(r.setup, b) /\ r.pool = b
    BY DEF Counts, CancelMissingPopulatedBook, Cancelling, OneLevel
  <2>2. Counts(r.timed, b)
    BY DEF Counts, CancelMissingPopulatedBook, Cancelling, OneLevel
  <2>3. \A i \in 1 .. b : LeavesNone(r.timed[i])
    BY NoneIsNoValue DEF CancelMissingPopulatedBook, Cancelling, OneLevel, LeavesNone, Lifetimes, TimesInForce, CancelRequest
  <2> HIDE DEF r
  <2>4. Counts(r.setup, b)
    BY <2>1, ShortFunctions
  <2>5. RunFits(r)
    BY <1>1, <2>1, <2>2, <2>4, <2>3, FitsByPath
  <2> QED
    BY <2>5 DEF r
<1>4. RunFits(CancelSameLevelHead(b))
  <2> DEFINE r == CancelSameLevelHead(b)
  <2>1. Counts(r.setup, b) /\ r.pool = b
    BY DEF Counts, CancelSameLevelHead, Cancelling, OneLevel
  <2>2. Counts(r.timed, b)
    BY DEF Counts, CancelSameLevelHead, Cancelling, OneLevel
  <2>3. \A i \in 1 .. b : LeavesNone(r.timed[i])
    BY NoneIsNoValue DEF CancelSameLevelHead, Cancelling, OneLevel, LeavesNone, Lifetimes, TimesInForce, CancelRequest
  <2> HIDE DEF r
  <2>4. Counts(r.setup, b)
    BY <2>1, ShortFunctions
  <2>5. RunFits(r)
    BY <1>1, <2>1, <2>2, <2>4, <2>3, FitsByPath
  <2> QED
    BY <2>5 DEF r
<1>5. RunFits(CancelSameLevelTail(b))
  <2> DEFINE r == CancelSameLevelTail(b)
  <2>1. Counts(r.setup, b) /\ r.pool = b
    BY DEF Counts, CancelSameLevelTail, Cancelling, OneLevel
  <2>2. Counts(r.timed, b)
    BY DEF Counts, CancelSameLevelTail, Cancelling, OneLevel
  <2>3. \A i \in 1 .. b : LeavesNone(r.timed[i])
    BY NoneIsNoValue DEF CancelSameLevelTail, Cancelling, OneLevel, LeavesNone, Lifetimes, TimesInForce, CancelRequest
  <2> HIDE DEF r
  <2>4. Counts(r.setup, b)
    BY <2>1, ShortFunctions
  <2>5. RunFits(r)
    BY <1>1, <2>1, <2>2, <2>4, <2>3, FitsByPath
  <2> QED
    BY <2>5 DEF r
<1>6. RunFits(CancelSameLevelMiddle(b))
  <2> DEFINE r == CancelSameLevelMiddle(b)
  <2>1. Counts(r.setup, (3 * b)) /\ r.pool = 3 * b
    BY DEF Counts, CancelSameLevelMiddle, Cancelling, OneLevel
  <2>2. Counts(r.timed, b)
    BY DEF Counts, CancelSameLevelMiddle, Cancelling, OneLevel
  <2>3. \A i \in 1 .. b : LeavesNone(r.timed[i])
    BY NoneIsNoValue DEF CancelSameLevelMiddle, Cancelling, OneLevel, LeavesNone, Lifetimes, TimesInForce, CancelRequest
  <2> HIDE DEF r
  <2>4. Counts(r.setup, (3 * b))
    BY <2>1, ShortFunctions
  <2>5. RunFits(r)
    BY <1>1, <2>1, <2>2, <2>4, <2>3, FitsByPath
  <2> QED
    BY <2>5 DEF r
<1>7. RunFits(CancelUniqueLevels(b))
  <2> DEFINE r == CancelUniqueLevels(b)
  <2>1. Counts(r.setup, b) /\ r.pool = b
    BY DEF Counts, CancelUniqueLevels, UniqueLevels
  <2>2. Counts(r.timed, b)
    BY DEF Counts, CancelUniqueLevels, UniqueLevels
  <2>3. \A i \in 1 .. b : LeavesNone(r.timed[i])
    BY NoneIsNoValue DEF CancelUniqueLevels, UniqueLevels, LeavesNone, Lifetimes, TimesInForce, CancelRequest
  <2> HIDE DEF r
  <2>4. Counts(r.setup, b)
    BY <2>1, ShortFunctions
  <2>5. RunFits(r)
    BY <1>1, <2>1, <2>2, <2>4, <2>3, FitsByPath
  <2> QED
    BY <2>5 DEF r
<1> QED
  BY <1>2, <1>3, <1>4, <1>5, <1>6, <1>7

\* The batches of modifications.
LEMMA ModifyFits ==
    ASSUME NEW b \in Batches, NEW d \in Depths
    PROVE  /\ RunFits(ModifyMissingEmptyBook(b))
           /\ RunFits(ModifyToZeroQuantity(b))
           /\ RunFits(ModifySamePriceSameQuantity(b))
           /\ RunFits(ModifyToNewNonCrossingPrice(b, d))
           /\ RunFits(ModifyToAggressiveFullFill(b))
           /\ RunFits(ModifyToAggressivePartialFillRest(b))
<1>1. b \in Nat \ {0} /\ d \in Nat \ {0} /\ 1 <= b
  BY SizesArePositive
<1>2. RunFits(ModifyMissingEmptyBook(b))
  <2> DEFINE r == ModifyMissingEmptyBook(b)
           prices == Each(b, 1)
  <2>1. IsSequence(prices) /\ Len(prices) = b /\ DOMAIN prices = 1 .. b
    BY <1>1, EachIs
  <2> HIDE DEF prices
  <2>2. r = Modifying(0, prices, 1, Path("NOT_FOUND"))
    BY DEF ModifyMissingEmptyBook, prices
  <2>3. Counts(r.setup, 0) /\ r.pool = b
    BY <2>1, <2>2 DEF Counts, OneLevel, Modifying
  <2>4. Counts(r.timed, b)
    BY <2>1, <2>2 DEF Counts, Modifying
  <2>5. \A i \in 1 .. b : LeavesNone(r.timed[i])
    BY <2>1, <2>2 DEF LeavesNone, ModifyRequest, Modifying
  <2> HIDE DEF r
  <2>6. RunFits(r)
    BY <1>1, <2>3, <2>4, <2>5, FitsByPath
  <2> QED
    BY <2>6 DEF r
<1>3. RunFits(ModifyToZeroQuantity(b))
  <2> DEFINE r == ModifyToZeroQuantity(b)
           prices == Each(b, 1)
  <2>1. IsSequence(prices) /\ Len(prices) = b /\ DOMAIN prices = 1 .. b
    BY <1>1, EachIs
  <2> HIDE DEF prices
  <2>2. r = Modifying(b, prices, 0, Path("CANCELED"))
    BY DEF ModifyToZeroQuantity, prices
  <2>3. Counts(r.setup, b) /\ r.pool = b
    BY <2>1, <2>2 DEF Counts, OneLevel, Modifying
  <2>4. Counts(r.timed, b)
    BY <2>1, <2>2 DEF Counts, Modifying
  <2>5. \A i \in 1 .. b : LeavesNone(r.timed[i])
    BY <2>1, <2>2 DEF LeavesNone, ModifyRequest, Modifying
  <2> HIDE DEF r
  <2>6. RunFits(r)
    BY <1>1, <2>3, <2>4, <2>5, FitsByPath
  <2> QED
    BY <2>6 DEF r
<1>4. RunFits(ModifySamePriceSameQuantity(b))
  <2> DEFINE r == ModifySamePriceSameQuantity(b)
           prices == Each(b, 1)
  <2>1. IsSequence(prices) /\ Len(prices) = b /\ DOMAIN prices = 1 .. b
    BY <1>1, EachIs
  <2> HIDE DEF prices
  <2>2. r = Modifying(b, prices, 1, Path("RESTING"))
    BY DEF ModifySamePriceSameQuantity, prices
  <2>3. Counts(r.setup, b) /\ r.pool = b
    BY <2>1, <2>2 DEF Counts, OneLevel, Modifying
  <2>4. Counts(r.timed, b)
    BY <2>1, <2>2 DEF Counts, Modifying
  <2>5. \A i \in 1 .. b : LeavesNone(r.timed[i])
    BY <2>1, <2>2 DEF LeavesNone, ModifyRequest, Modifying
  <2> HIDE DEF r
  <2>6. RunFits(r)
    BY <1>1, <2>3, <2>4, <2>5, FitsByPath
  <2> QED
    BY <2>6 DEF r
<1>5. RunFits(ModifyToNewNonCrossingPrice(b, d))
  <2> DEFINE r == ModifyToNewNonCrossingPrice(b, d)
           prices == [i \in 1 .. b |-> 2 + (i % d)]
  <2>1. IsSequence(prices) /\ Len(prices) = b /\ DOMAIN prices = 1 .. b
    BY <1>1, FunctionIsSequence DEF Counts
  <2> HIDE DEF prices
  <2>2. r = [Modifying(b, prices, 1, Path("RESTING")) EXCEPT !.top = d + 1]
    BY DEF ModifyToNewNonCrossingPrice, prices
  <2>3. Counts(r.setup, b) /\ r.pool = b
    BY <2>1, <2>2 DEF Counts, OneLevel, Modifying
  <2>4. Counts(r.timed, b)
    BY <2>1, <2>2 DEF Counts, Modifying
  <2>5. \A i \in 1 .. b : LeavesNone(r.timed[i])
    BY <2>1, <2>2 DEF LeavesNone, ModifyRequest, Modifying
  <2> HIDE DEF r
  <2>6. RunFits(r)
    BY <1>1, <2>3, <2>4, <2>5, FitsByPath
  <2> QED
    BY <2>6 DEF r
<1>6. RunFits(ModifyToAggressiveFullFill(b))
  <2> DEFINE r == ModifyToAggressiveFullFill(b)
           prices == Each(b, 2)
           bids == OneLevel(b, "BUY", "GTC")
           asks == [i \in 1 .. b |-> Limit(b + i, 2, 1, "SELL", "GTC")]
  <2>1. IsSequence(prices) /\ Len(prices) = b /\ DOMAIN prices = 1 .. b
    BY <1>1, EachIs
  <2>2. Counts(bids, b) /\ Counts(asks, b)
    BY DEF Counts, OneLevel
  <2> HIDE DEF prices, bids, asks
  <2>3. Counts(bids \o asks, 2 * b)
    <3>1. IsSequence(bids) /\ IsSequence(asks) /\ Len(bids) = b /\ Len(asks) = b
      BY <1>1, <2>2, FunctionIsSequence
    <3>2. IsSequence(bids \o asks) /\ Len(bids \o asks) = 2 * b
      BY <1>1, <3>1, JoinedSequences
    <3> QED
      BY <3>2, SequenceCounts
  <2>4. r.setup = bids \o asks /\ r.pool = 2 * b
    BY DEF ModifyToAggressiveFullFill, ModifyingAcross, Modifying, prices, bids, asks
  <2>5. r.timed = [i \in DOMAIN prices |-> ModifyRequest(i, 1, prices[i])]
    BY DEF ModifyToAggressiveFullFill, ModifyingAcross, Modifying, prices
  <2> HIDE DEF r
  <2>6. Counts(r.timed, b)
    BY <2>1, <2>5 DEF Counts
  <2>7. \A i \in 1 .. b : LeavesNone(r.timed[i])
    BY <2>1, <2>5 DEF LeavesNone, ModifyRequest
  <2>8. Counts(r.setup, r.pool) /\ r.pool \in Nat /\ r.pool <= r.pool
    BY <1>1, <2>3, <2>4
  <2>9. RunFits(r)
    BY <1>1, <2>6, <2>7, <2>8, FitsByPath
  <2> QED
    BY <2>9 DEF r
<1>7. RunFits(ModifyToAggressivePartialFillRest(b))
  <2> DEFINE r == ModifyToAggressivePartialFillRest(b)
           prices == Each(b, 2)
           bids == OneLevel(b, "BUY", "GTC")
           asks == [i \in 1 .. b |-> Limit(b + i, 2, 1, "SELL", "GTC")]
  <2>1. IsSequence(prices) /\ Len(prices) = b /\ DOMAIN prices = 1 .. b
    BY <1>1, EachIs
  <2>2. Counts(bids, b) /\ Counts(asks, b)
    BY DEF Counts, OneLevel
  <2> HIDE DEF prices, bids, asks
  <2>3. Counts(bids \o asks, 2 * b)
    <3>1. IsSequence(bids) /\ IsSequence(asks) /\ Len(bids) = b /\ Len(asks) = b
      BY <1>1, <2>2, FunctionIsSequence
    <3>2. IsSequence(bids \o asks) /\ Len(bids \o asks) = 2 * b
      BY <1>1, <3>1, JoinedSequences
    <3> QED
      BY <3>2, SequenceCounts
  <2>4. r.setup = bids \o asks /\ r.pool = 2 * b
    BY DEF ModifyToAggressivePartialFillRest, ModifyingAcross, Modifying, prices, bids, asks
  <2>5. r.timed = [i \in DOMAIN prices |-> ModifyRequest(i, 2, prices[i])]
    BY DEF ModifyToAggressivePartialFillRest, ModifyingAcross, Modifying, prices
  <2> HIDE DEF r
  <2>6. Counts(r.timed, b)
    BY <2>1, <2>5 DEF Counts
  <2>7. \A i \in 1 .. b : LeavesNone(r.timed[i])
    BY <2>1, <2>5 DEF LeavesNone, ModifyRequest
  <2>8. Counts(r.setup, r.pool) /\ r.pool \in Nat /\ r.pool <= r.pool
    BY <1>1, <2>3, <2>4
  <2>9. RunFits(r)
    BY <1>1, <2>6, <2>7, <2>8, FitsByPath
  <2> QED
    BY <2>9 DEF r
<1> QED
  BY <1>2, <1>3, <1>4, <1>5, <1>6, <1>7

\* The session end leaves no order.
LEMMA SessionEndFits ==
    ASSUME NEW r, NEW n \in Nat, Counts(r.setup, n), r.pool = n, r.timed = OnSessionEnd
    PROVE  RunFits(r)
<1>1. Counts(r.timed, 1)
  BY ShortFunctions DEF OnSessionEnd
<1>2. \A i \in 1 .. 1 : LeavesNone(r.timed[i])
  BY DEF OnSessionEnd, LeavesNone
<1> QED
  BY <1>1, <1>2, FitsByPath

\* The session ends.
LEMMA SessionFits ==
    ASSUME NEW b \in Batches
    PROVE  /\ RunFits(SessionEndAllGTCSameLevel(b))
           /\ RunFits(SessionEndAllDAYSameLevel(b))
           /\ RunFits(SessionEndMixedSameLevel(b))
           /\ RunFits(SessionEndAllGTCUniqueLevels(b))
           /\ RunFits(SessionEndAllDAYUniqueLevels(b))
           /\ RunFits(SessionEndMixedUniqueLevels(b))
<1>1. b \in Nat \ {0}
  BY SizesArePositive
<1>2. RunFits(SessionEndAllGTCSameLevel(b))
  <2> DEFINE r == SessionEndAllGTCSameLevel(b)
           orders == OneLevel(b, "BUY", "GTC")
  <2>1. Counts(orders, b) /\ b \in Nat
    BY <1>1 DEF Counts, OneLevel
  <2> HIDE DEF orders
  <2>2. r.setup = orders /\ r.pool = Len(orders) /\ r.timed = OnSessionEnd
    BY DEF SessionEndAllGTCSameLevel, SessionEnding, orders
  <2> HIDE DEF r
  <2>3. Counts(r.setup, b) /\ r.pool = b
    BY <2>1, <2>2, FunctionIsSequence
  <2>4. RunFits(r)
    BY <2>1, <2>2, <2>3, SessionEndFits
  <2> QED
    BY <2>4 DEF r
<1>3. RunFits(SessionEndAllDAYSameLevel(b))
  <2> DEFINE r == SessionEndAllDAYSameLevel(b)
           orders == OneLevel(b, "BUY", "DAY")
  <2>1. Counts(orders, b) /\ b \in Nat
    BY <1>1 DEF Counts, OneLevel
  <2> HIDE DEF orders
  <2>2. r.setup = orders /\ r.pool = Len(orders) /\ r.timed = OnSessionEnd
    BY DEF SessionEndAllDAYSameLevel, SessionEnding, orders
  <2> HIDE DEF r
  <2>3. Counts(r.setup, b) /\ r.pool = b
    BY <2>1, <2>2, FunctionIsSequence
  <2>4. RunFits(r)
    BY <2>1, <2>2, <2>3, SessionEndFits
  <2> QED
    BY <2>4 DEF r
<1>4. RunFits(SessionEndMixedSameLevel(b))
  <2> DEFINE r == SessionEndMixedSameLevel(b)
           orders == [i \in 1 .. b |-> Limit(i, 1, 1, "BUY", IF i % 2 = 0 THEN "DAY" ELSE "GTC")]
  <2>1. Counts(orders, b) /\ b \in Nat
    BY <1>1 DEF Counts
  <2> HIDE DEF orders
  <2>2. r.setup = orders /\ r.pool = Len(orders) /\ r.timed = OnSessionEnd
    BY DEF SessionEndMixedSameLevel, SessionEnding, orders
  <2> HIDE DEF r
  <2>3. Counts(r.setup, b) /\ r.pool = b
    BY <2>1, <2>2, FunctionIsSequence
  <2>4. RunFits(r)
    BY <2>1, <2>2, <2>3, SessionEndFits
  <2> QED
    BY <2>4 DEF r
<1>5. RunFits(SessionEndAllGTCUniqueLevels(b))
  <2> DEFINE r == SessionEndAllGTCUniqueLevels(b)
           orders == UniqueLevels(b, "BUY", "GTC")
  <2>1. Counts(orders, b) /\ b \in Nat
    BY <1>1 DEF Counts, UniqueLevels
  <2> HIDE DEF orders
  <2>2. r.setup = orders /\ r.pool = Len(orders) /\ r.timed = OnSessionEnd
    BY DEF SessionEndAllGTCUniqueLevels, SessionEnding, orders
  <2> HIDE DEF r
  <2>3. Counts(r.setup, b) /\ r.pool = b
    BY <2>1, <2>2, FunctionIsSequence
  <2>4. RunFits(r)
    BY <2>1, <2>2, <2>3, SessionEndFits
  <2> QED
    BY <2>4 DEF r
<1>6. RunFits(SessionEndAllDAYUniqueLevels(b))
  <2> DEFINE r == SessionEndAllDAYUniqueLevels(b)
           orders == UniqueLevels(b, "BUY", "DAY")
  <2>1. Counts(orders, b) /\ b \in Nat
    BY <1>1 DEF Counts, UniqueLevels
  <2> HIDE DEF orders
  <2>2. r.setup = orders /\ r.pool = Len(orders) /\ r.timed = OnSessionEnd
    BY DEF SessionEndAllDAYUniqueLevels, SessionEnding, orders
  <2> HIDE DEF r
  <2>3. Counts(r.setup, b) /\ r.pool = b
    BY <2>1, <2>2, FunctionIsSequence
  <2>4. RunFits(r)
    BY <2>1, <2>2, <2>3, SessionEndFits
  <2> QED
    BY <2>4 DEF r
<1>7. RunFits(SessionEndMixedUniqueLevels(b))
  <2> DEFINE r == SessionEndMixedUniqueLevels(b)
           orders == [n \in 1 .. 2 * b |->
                         LET i == (n + 1) \div 2
                         IN  IF n % 2 = 1 THEN Limit(i, i, 1, "BUY", "GTC")
                             ELSE Limit(b + i, i, 1, "BUY", "DAY")]
  <2>1. Counts(orders, (2 * b)) /\ (2 * b) \in Nat
    BY <1>1 DEF Counts
  <2> HIDE DEF orders
  <2>2. r.setup = orders /\ r.pool = Len(orders) /\ r.timed = OnSessionEnd
    BY DEF SessionEndMixedUniqueLevels, SessionEnding, orders
  <2> HIDE DEF r
  <2>3. Counts(r.setup, (2 * b)) /\ r.pool = (2 * b)
    BY <2>1, <2>2, FunctionIsSequence
  <2>4. RunFits(r)
    BY <2>1, <2>2, <2>3, SessionEndFits
  <2> QED
    BY <2>4 DEF r
<1> QED
  BY <1>2, <1>3, <1>4, <1>5, <1>6, <1>7

\* There are blocks enough for every benchmark, for one of these reasons.
LEMMA RunsFit ==
    ASSUME NEW r \in Runs
    PROVE  RunFits(r)
<1>1. PICK b \in Batches, d \in Depths : r \in Untemplated(b) \cup Templated(b, d)
  BY DEF Runs
<1>2. ASSUME r \in Templated(b, d) PROVE RunFits(r)
  BY <1>2, RestingFits, AggressiveFits, ImmediateFits, MarketFits, ModifyFits DEF Templated
<1>3. ASSUME r \in Untemplated(b) PROVE RunFits(r)
  BY <1>3, RestingFits, AggressiveFits, ImmediateFits, MarketFits, CancelFits, ModifyFits,
     SessionFits DEF Untemplated
<1> QED
  BY <1>1, <1>2, <1>3

-----------------------------------------------------------------------------
(* What a step does to the book *)

Loses == \E place \in Places : book' = Without(place)

\* At most an order gets smaller.
Keeps ==
    \/ book' = book
    \/ \E l \in Levels : \E x :
          1 \in DOMAIN book[l] /\ book' = [book EXCEPT ![l] = [@ EXCEPT ![1] = x]]

\* An order is about to rest.
Unfilled == pc = "matching" /\ ~Wants /\ remaining > 0 /\ call.tif \in Lifetimes

Gains ==
    /\ Unfilled
    /\ book' = [book EXCEPT ![<<call.side, call.limit>>] =
                  Append(@, [id |-> call.id, quantity |-> remaining, lifetime |-> call.tif])]

\* Which of the three a call or a step of the book does.
LEMMA CallSteps ==
    ASSUME BookShape, Call
    PROVE  /\ pc = "idle" /\ made < Len(Script) /\ made' = made + 1 /\ UNCHANGED <<run, exit>>
           /\ \/ pc' \in {"done", "pruning"} /\ (Loses \/ Keeps)
              \/ pc' = "resubmit" /\ call'.op = "modify" /\ Loses
              \/ pc' = "matching" /\ call' = Request(made') /\ call'.op = "submit" /\ Keeps
<1>1. pc = "idle" /\ made < Len(Script) /\ made' = made + 1 /\ UNCHANGED <<run, exit>>
  BY DEF Call
<1> DEFINE req == Request(made')
<1>2. CASE req.op = "submit" /\ Submit(req)
  <2> HIDE DEF req
  <2>1. book' = book
    BY <1>2 DEF Submit
  <2>2. pc' = "done" \/ (pc' = "matching" /\ call' = req)
    BY <1>2 DEF Submit
  <2> QED
    BY <1>1, <1>2, <2>1, <2>2 DEF Keeps, req
<1>3. CASE CancelOf(req.id)
  <2> HIDE DEF req
  <2>1. pc' = "done"
    BY <1>3 DEF CancelOf
  <2>2. book' = book \/ \E place \in PlacesOf(req.id) : book' = Without(place)
    BY <1>3 DEF CancelOf
  <2> QED
    BY <1>1, <2>1, <2>2 DEF Loses, Keeps, PlacesOf
<1>4. CASE ModifyRefusedOf(req.id, req.limit)
  <2> HIDE DEF req
  <2>1. pc' = "done" /\ book' = book
    BY <1>4 DEF ModifyRefusedOf
  <2> QED
    BY <1>1, <2>1 DEF Keeps
<1>5. CASE ModifyOf(req.id, req.limit, req.quantity)
  <2> HIDE DEF req
  <2>1. PICK place \in PlacesOf(req.id) :
          /\ book' = Without(place)
          /\ pc' = "done" \/ (pc' = "resubmit" /\ call'.op = "modify")
    BY <1>5 DEF ModifyOf
  <2> QED
    BY <1>1, <2>1 DEF Loses, PlacesOf
<1>6. CASE SessionEnd
  <2>1. pc' \in {"done", "pruning"} /\ book' = book
    BY <1>6 DEF SessionEnd
  <2> QED
    BY <1>1, <2>1 DEF Keeps
<1> QED
  BY <1>2, <1>3, <1>4, <1>5, <1>6 DEF Call

LEMMA ServeSteps ==
    ASSUME BookShape, Serve
    PROVE  /\ UNCHANGED <<run, made, exit>>
           /\ \/ pc = "resubmit" /\ pc' = "done" /\ Keeps
              \/ pc = "resubmit" /\ pc' = "matching" /\ call' = call /\ Keeps
              \/ pc = "matching" /\ pc' = "matching" /\ call' = call /\ Loses
              \/ pc = "matching" /\ pc' = "done" /\ (Gains \/ Keeps)
              \/ pc \in {"pruning", "done"} /\ pc' \in {"pruning", "done", "idle"}
                 /\ (Loses \/ Keeps)
<1>1. UNCHANGED <<run, made, exit>>
  BY DEF Serve, driverVars
<1>2. CASE Resubmit
  <2>1. pc = "resubmit" /\ book' = book
    BY <1>2 DEF Resubmit, Submit
  <2>2. pc' = "done" \/ (pc' = "matching" /\ call' = call)
    BY <1>2 DEF Resubmit, Submit
  <2> QED
    BY <1>1, <2>1, <2>2 DEF Keeps
<1>3. CASE Trade
  <2> DEFINE l == BestLevel(call)
  <2>1. pc = "matching" /\ MarketableLevels(call) # {} /\ call' = call
    BY <1>3 DEF Trade, Wants
  <2>2. l \in Levels /\ 1 \in DOMAIN book[l] /\ <<l, 1>> \in Places
    BY <2>1, BestPlaceIsThere
  <2> DEFINE q == IF Head(book[l]).quantity > remaining THEN remaining ELSE Head(book[l]).quantity
             x == [book[l][1] EXCEPT !.quantity = @ - q]
  <2>3. CASE q = Head(book[l]).quantity
    <3>1. book' = Without(<<l, 1>>) /\ pc' = "matching"
      BY <1>3, <2>3 DEF Trade
    <3> HIDE DEF l
    <3> QED
      BY <1>1, <2>1, <2>2, <3>1 DEF Loses
  <2>4. CASE q # Head(book[l]).quantity
    <3>1. book' = [book EXCEPT ![l][1].quantity = @ - q] /\ pc' = "done"
      BY <1>3, <2>4 DEF Trade
    <3> HIDE DEF l, q
    <3>2. book' = [book EXCEPT ![l] = [@ EXCEPT ![1] = x]]
      BY <3>1, Zenon
    <3> HIDE DEF x
    <3>3. Keeps
      BY <2>2, <3>2 DEF Keeps
    <3> QED
      BY <1>1, <2>1, <3>1, <3>3
  <2> QED
    BY <2>3, <2>4
<1>4. CASE Finish
  <2>1. pc = "matching" /\ pc' = "done"
    BY <1>4 DEF Finish
  <2>2. book' = book \/ Gains
    BY <1>4 DEF Finish, Gains, Unfilled
  <2> QED
    BY <1>1, <2>1, <2>2 DEF Keeps
<1>5. CASE Prune
  <2>1. pc = "pruning" /\ pc' = "pruning" /\ Loses
    BY <1>5 DEF Prune, Loses, DayPlaces
  <2> QED
    BY <1>1, <2>1
<1>6. CASE SessionEnded \/ Return
  <2>1. pc \in {"pruning", "done"} /\ pc' \in {"done", "idle"} /\ book' = book
    BY <1>6 DEF SessionEnded, Return
  <2> QED
    BY <1>1, <2>1 DEF Keeps
<1> QED
  BY <1>2, <1>3, <1>4, <1>5, <1>6 DEF Serve

\* What it means for the number of resting orders.
LEMMA LosingCounts ==
    ASSUME BookShape, Loses
    PROVE  BookShape' /\ Cardinality(Places') = Cardinality(Places) - 1
           /\ Cardinality(Places) \in Nat
BY PlaceRemoved DEF Loses

LEMMA KeepingCounts ==
    ASSUME BookShape, Keeps
    PROVE  BookShape' /\ Places' = Places /\ Cardinality(Places) \in Nat
<1>1. Cardinality(Places) \in Nat
  BY FS_CardinalityType DEF BookShape
<1>2. CASE book' = book
  BY <1>1, <1>2 DEF BookShape, Places
<1>3. CASE book' # book
  <2>1. PICK l \in Levels : \E x :
          1 \in DOMAIN book[l] /\ book' = [book EXCEPT ![l] = [@ EXCEPT ![1] = x]]
    BY <1>3 DEF Keeps
  <2>2. PICK x : 1 \in DOMAIN book[l] /\ book' = [book EXCEPT ![l] = [@ EXCEPT ![1] = x]]
    BY <2>1
  <2> QED
    BY <1>1, <2>2, PlacesKept
<1> QED
  BY <1>2, <1>3

LEMMA GainingCounts ==
    ASSUME BookShape, Gains
    PROVE  /\ BookShape' /\ Cardinality(Places') <= Cardinality(Places) + 1
           /\ Cardinality(Places) \in Nat /\ Cardinality(Places') \in Nat
<1> DEFINE l == <<call.side, call.limit>>
           x == [id |-> call.id, quantity |-> remaining, lifetime |-> call.tif]
<1>1. book' = [book EXCEPT ![l] = Append(@, x)]
  BY DEF Gains
<1>2. Cardinality(Places) \in Nat
  BY FS_CardinalityType DEF BookShape
<1> HIDE DEF l, x
<1>3. CASE l \in Levels
  <2>1. BookShape' /\ Cardinality(Places') = Cardinality(Places) + 1
    BY <1>1, <1>3, PlaceAdded
  <2> QED
    BY <1>2, <2>1
<1>4. CASE l \notin Levels
  <2>1. book' = book
    BY <1>1, <1>4 DEF BookShape
  <2>2. BookShape' /\ Places' = Places
    BY <2>1 DEF BookShape, Places
  <2> QED
    BY <1>2, <2>2
<1> QED
  BY <1>3, <1>4

-----------------------------------------------------------------------------
(* Counting *)

Untimed == Len(run.setup)
Timed == Len(run.timed)
ScriptLength == Len(Script)

\* A script is what is not timed and then what is.
LEMMA ScriptIs ==
    ASSUME run \in Runs
    PROVE  /\ Untimed \in Nat /\ Timed \in Nat
           /\ DOMAIN run.setup = 1 .. Untimed /\ DOMAIN run.timed = 1 .. Timed
           /\ ScriptLength = Untimed + Timed
           /\ \A n \in 1 .. ScriptLength :
                 Script[n] = IF n <= Untimed THEN run.setup[n]
                             ELSE run.timed[n - Untimed]
<1>1. IsSequence(run.setup) /\ IsSequence(run.timed)
  BY RunsFit DEF RunFits, Untimed, Timed
<1> QED
  BY <1>1, JoinedSequences, SequenceDomain DEF Script, ScriptLength, Untimed, Timed

\* The calls that are counted, since they may leave an order by themselves.
Counted(n) ==
    Untimed + Timed <= run.pool \/ n <= Untimed

\* How many of them there are among the first n.
CountedTo(n) == IF Counted(n) THEN n ELSE Untimed

\* An order of a counted call or of a modification is on its way.
MayRest ==
    \/ pc = "resubmit"
    \/ pc = "matching" /\ (call.op = "modify" \/ (call.tif \in Lifetimes /\ Counted(made)))

\* The driver and the call that it made.
DriverInv ==
    /\ run \in Runs
    /\ made \in 0 .. ScriptLength
    /\ BookShape
    /\ pc = "resubmit" => call.op = "modify"
    /\ pc = "matching" =>
          \/ call.op = "modify"
          \/ call.op = "submit" /\ call = Request(made) /\ made >= 1

\* No more orders than calls that may have left one.
CountInv == Cardinality(Places) + (IF MayRest THEN 1 ELSE 0) <= CountedTo(made)

\* What is left of an order only rests where orders are expected to.
RestsAsCounted == Unfilled => MayRest

\* There is a block for every call that is counted.
LEMMA CountedFit ==
    ASSUME run \in Runs, NEW n \in 0 .. ScriptLength
    PROVE  CountedTo(n) \in Nat /\ CountedTo(n) <= run.pool
<1>1. Untimed \in Nat /\ Timed \in Nat
      /\ ScriptLength = Untimed + Timed
  BY ScriptIs
<1>4. run.pool \in Nat
  BY RunsFit DEF RunFits, Untimed, Timed
<1>2. CASE Untimed + Timed <= run.pool
  <2>1. CountedTo(n) = n
    BY <1>2 DEF CountedTo, Counted
  <2>2. n \in Nat /\ n <= Untimed + Timed
    BY <1>1
  <2> QED
    BY <1>1, <1>2, <1>4, <2>1, <2>2
<1>3. CASE ~(Untimed + Timed <= run.pool)
  <2>1. Untimed <= run.pool
    BY <1>3, RunsFit DEF RunFits, Untimed, Timed
  <2>2. CountedTo(n) = IF n <= Untimed THEN n ELSE Untimed
    BY <1>3 DEF CountedTo, Counted
  <2> QED
    BY <1>1, <2>1, <2>2, <1>4
<1> QED
  BY <1>2, <1>3

LEMMA DriverStarts ==
    ASSUME BenchInit
    PROVE  DriverInv /\ CountInv /\ exit # "EXIT_FAILURE"
<1>1. run \in Runs /\ made = 0 /\ pc = "idle" /\ book = [l \in Levels |-> <<>>]
      /\ exit = None
  BY DEF BenchInit, Init
<1>2. \A l \in Levels : book[l] = <<>> /\ IsSequence(book[l])
  BY <1>1, EmptySeq DEF IsSequence
<1>3. Places = {}
  <2>1. \A l \in Levels : DOMAIN book[l] = {}
    BY <1>2
  <2> QED
    BY <2>1, PlacesAre
<1>4. BookShape /\ Cardinality(Places) = 0
  BY <1>1, <1>2, <1>3, FS_EmptySet DEF BookShape
<1>5. ScriptLength \in Nat /\ Untimed \in Nat
  BY <1>1, ScriptIs
<1>6. DriverInv
  BY <1>1, <1>4, <1>5 DEF DriverInv
<1>7. CountInv
  <2>1. ~MayRest
    BY <1>1 DEF MayRest
  <2>2. CountedTo(made) = 0
    BY <1>1, <1>5 DEF CountedTo, Counted
  <2> QED
    BY <1>4, <2>1, <2>2 DEF CountInv
<1>8. exit # "EXIT_FAILURE"
  BY <1>1, NoneIsNoExit
<1> QED
  BY <1>6, <1>7, <1>8

\* The driver goes on as it should, and no order rests that is not counted.
LEMMA DriverSteps ==
    ASSUME DriverInv, CountInv, RestsAsCounted, [BenchNext]_benchVars
    PROVE  DriverInv' /\ CountInv'
<1> DEFINE before == Cardinality(Places)
           after  == Cardinality(Places')
<1>1. /\ run \in Runs /\ made \in 0 .. ScriptLength /\ BookShape
      /\ ScriptLength \in Nat /\ Untimed \in Nat
  BY ScriptIs DEF DriverInv
<1>2. before + (IF MayRest THEN 1 ELSE 0) <= CountedTo(made)
  BY DEF CountInv
<1>3. CountedTo(made) \in Nat /\ before \in Nat
  BY <1>1, CountedFit, FS_CardinalityType DEF BookShape
<1>4. ASSUME Call PROVE DriverInv' /\ CountInv'
  <2>1. /\ pc = "idle" /\ made < ScriptLength /\ made' = made + 1 /\ UNCHANGED <<run, exit>>
        /\ \/ pc' \in {"done", "pruning"} /\ (Loses \/ Keeps)
           \/ pc' = "resubmit" /\ call'.op = "modify" /\ Loses
           \/ pc' = "matching" /\ call' = Request(made') /\ call'.op = "submit" /\ Keeps
    BY <1>1, <1>4, CallSteps DEF ScriptLength
  <2>0. UNCHANGED <<Script, ScriptLength, Untimed, Timed>>
    BY <2>1 DEF Script, ScriptLength, Untimed, Timed
  <2>2. made' \in 0 .. ScriptLength' /\ run' \in Runs /\ made' >= 1
    BY <1>1, <2>0, <2>1
  <2>3. Request(made)' = Request(made')
    <3>1. Script' = Script /\ run' = run
      BY <2>0, <2>1
    <3> QED
      BY <3>1, Zenon DEF Request
  <2> HIDE DEF before, after
  <2>4. ~MayRest /\ before <= CountedTo(made)
    <3>1. ~MayRest
      BY <2>1 DEF MayRest
    <3> QED
      BY <1>2, <1>3, <3>1
  <2>5. /\ CountedTo(made)' \in Nat /\ CountedTo(made) <= CountedTo(made)'
        /\ Counted(made)' => CountedTo(made) + 1 <= CountedTo(made)'
    <3>1. CountedTo(made)' = CountedTo(made + 1) /\ (Counted(made)' <=> Counted(made + 1))
      BY <2>0, <2>1 DEF CountedTo, Counted
    <3>2. made \in Nat
      BY <1>1
    <3> QED
      BY <1>1, <3>1, <3>2 DEF CountedTo, Counted
  <2>6. CASE pc' \in {"done", "pruning"} /\ (Loses \/ Keeps)
    <3>1. BookShape' /\ after <= before /\ after \in Int /\ before \in Int
      BY <1>1, <2>6, LosingCounts, KeepingCounts DEF before, after
    <3>2. ~MayRest'
      BY <2>6 DEF MayRest
    <3>3. DriverInv'
      BY <2>2, <2>6, <3>1 DEF DriverInv
    <3> QED
      BY <1>3, <2>4, <2>5, <3>1, <3>2, <3>3 DEF CountInv, after
  <2>7. CASE pc' = "resubmit" /\ call'.op = "modify" /\ Loses
    <3>1. BookShape' /\ after = before - 1 /\ before \in Int
      BY <1>1, <2>7, LosingCounts DEF before, after
    <3>2. DriverInv'
      BY <2>2, <2>7, <3>1 DEF DriverInv
    <3> QED
      BY <1>3, <2>4, <2>5, <3>1, <3>2 DEF CountInv, after
  <2>8. CASE pc' = "matching" /\ call' = Request(made') /\ call'.op = "submit" /\ Keeps
    <3>1. BookShape' /\ after = before /\ before \in Int
      BY <1>1, <2>8, KeepingCounts DEF before, after
    <3>2. MayRest' => Counted(made)'
      BY <2>8 DEF MayRest
    <3>3. DriverInv'
      BY <2>2, <2>3, <2>8, <3>1 DEF DriverInv
    <3> QED
      BY <1>3, <2>4, <2>5, <3>1, <3>2, <3>3 DEF CountInv, after
  <2> QED
    BY <2>1, <2>6, <2>7, <2>8
<1>5. ASSUME Serve PROVE DriverInv' /\ CountInv'
  <2>1. /\ UNCHANGED <<run, made, exit>>
        /\ \/ pc = "resubmit" /\ pc' = "done" /\ Keeps
           \/ pc = "resubmit" /\ pc' = "matching" /\ call' = call /\ Keeps
           \/ pc = "matching" /\ pc' = "matching" /\ call' = call /\ Loses
           \/ pc = "matching" /\ pc' = "done" /\ (Gains \/ Keeps)
           \/ pc \in {"pruning", "done"} /\ pc' \in {"pruning", "done", "idle"}
              /\ (Loses \/ Keeps)
    BY <1>1, <1>5, ServeSteps
  <2>0. UNCHANGED <<Script, ScriptLength, Untimed, Timed>>
    BY <2>1 DEF Script, ScriptLength, Untimed, Timed
  <2>2. made' \in 0 .. ScriptLength' /\ run' \in Runs
    BY <1>1, <2>0, <2>1
  <2>3. Request(made)' = Request(made)
    BY <2>0, <2>1 DEF Request
  <2>4. CountedTo(made)' = CountedTo(made) /\ (Counted(made)' <=> Counted(made))
    BY <2>0, <2>1 DEF CountedTo, Counted
  <2> HIDE DEF before, after
  <2>5. CASE pc = "resubmit" /\ pc' = "done" /\ Keeps
    <3>1. BookShape' /\ after = before /\ before \in Int
      BY <1>1, <2>5, KeepingCounts DEF before, after
    <3>2. ~MayRest'
      BY <2>5 DEF MayRest
    <3>3. DriverInv'
      BY <2>2, <2>5, <3>1 DEF DriverInv
    <3> QED
      BY <1>2, <1>3, <2>4, <3>1, <3>2, <3>3 DEF CountInv, after
  <2>6. CASE pc = "resubmit" /\ pc' = "matching" /\ call' = call /\ Keeps
    <3>1. BookShape' /\ after = before /\ before \in Int
      BY <1>1, <2>6, KeepingCounts DEF before, after
    <3>2. MayRest
      BY <2>6 DEF MayRest
    <3>3. pc' = "matching" /\ call'.op = "modify"
      BY <2>6 DEF DriverInv
    <3>4. DriverInv'
      BY <2>2, <3>1, <3>3 DEF DriverInv
    <3> QED
      BY <1>2, <1>3, <2>4, <3>1, <3>2, <3>4 DEF CountInv, after
  <2>7. CASE pc = "matching" /\ pc' = "matching" /\ call' = call /\ Loses
    <3>1. BookShape' /\ after = before - 1 /\ before \in Int
      BY <1>1, <2>7, LosingCounts DEF before, after
    <3>2. MayRest' <=> MayRest
      BY <2>4, <2>7 DEF MayRest
    <3>3. DriverInv'
      BY <2>1, <2>2, <2>3, <2>7, <3>1 DEF DriverInv
    <3> QED
      BY <1>2, <1>3, <2>4, <3>1, <3>2, <3>3 DEF CountInv, after
  <2>8. CASE pc = "matching" /\ pc' = "done" /\ (Gains \/ Keeps)
    <3>1. ~MayRest' /\ (BookShape' => DriverInv')
      BY <2>2, <2>8 DEF MayRest, DriverInv
    <3>2. CASE Gains
      <4>1. BookShape' /\ after <= before + 1 /\ before \in Int /\ after \in Int
        BY <1>1, <3>2, GainingCounts DEF before, after
      <4>2. MayRest
        BY <3>2 DEF Gains, RestsAsCounted
      <4> QED
        BY <1>2, <1>3, <2>4, <3>1, <4>1, <4>2 DEF CountInv, after
    <3>3. CASE Keeps
      <4>1. BookShape' /\ after = before /\ before \in Int
        BY <1>1, <3>3, KeepingCounts DEF before, after
      <4> QED
        BY <1>2, <1>3, <2>4, <3>1, <4>1 DEF CountInv, after
    <3> QED
      BY <2>8, <3>2, <3>3
  <2>9. CASE pc \in {"pruning", "done"} /\ pc' \in {"pruning", "done", "idle"} /\ (Loses \/ Keeps)
    <3>1. BookShape' /\ after <= before /\ after \in Int /\ before \in Int
      BY <1>1, <2>9, LosingCounts, KeepingCounts DEF before, after
    <3>2. ~MayRest'
      BY <2>9 DEF MayRest
    <3>3. DriverInv'
      BY <2>2, <2>9, <3>1 DEF DriverInv
    <3> QED
      BY <1>2, <1>3, <2>4, <3>1, <3>2, <3>3 DEF CountInv, after
  <2> QED
    BY <2>1, <2>5, <2>6, <2>7, <2>8, <2>9
<1>6. ASSUME UNCHANGED <<book, pc, call, remaining, submission, outcome, pruned, run, made>>
      PROVE  DriverInv' /\ CountInv'
  <2>1. /\ UNCHANGED <<Script, ScriptLength, Untimed, Timed, Places>>
        /\ BookShape' <=> BookShape
    BY <1>6 DEF Script, ScriptLength, Untimed, Timed, Places, BookShape
  <2>3. Request(made)' = Request(made)
    BY <1>6, <2>1 DEF Request
  <2>4. DriverInv'
    BY <1>6, <2>1, <2>3 DEF DriverInv
  <2>2. CountInv'
    BY <1>6, <2>1 DEF CountInv, MayRest, CountedTo, Counted
  <2> QED
    BY <2>2, <2>4
<1> QED
  BY <1>4, <1>5, <1>6 DEF BenchNext, End, Ended, benchVars

-----------------------------------------------------------------------------
(* The benchmarks of which every call is a GTC order that has an id of its own *)

\* The latency program alone insists on a number.
Insists(r) == "count" \in DOMAIN r

LEMMA OthersDoNotInsist ==
    ASSUME NEW b \in Batches, NEW d \in Depths, NEW r \in Untemplated(b) \cup Templated(b, d),
           Insists(r)
    PROVE  r = LatencyMeasurement(b, d)
<1> USE DEF Insists
<1>1. \A tif : /\ ~Insists(FromOneMaker(b, tif)) /\ ~Insists(FromOneLevel(b, tif))
               /\ ~Insists(Sweep(b, d, tif))
  BY DEF FromOneMaker, FromOneLevel, Sweep
<1>2. \A n, ids, paths : ~Insists(Cancelling(n, ids, paths))
  BY DEF Cancelling
<1>3. \A n, prices, quantity, path : ~Insists(Modifying(n, prices, quantity, path))
  BY DEF Modifying
<1>4. \A orders, top, path : ~Insists(SessionEnding(orders, top, path))
  BY DEF SessionEnding
<1>5. \A quantity : ~Insists(ModifyingAcross(b, quantity))
  BY <1>3 DEF ModifyingAcross
<1>6. /\ ~Insists(SubmitRestingSameLevel(b)) /\ ~Insists(SubmitRestingDiffLevels(b))
      /\ ~Insists(SubmitRestingDiffLevelsFixedSpread(b, d))
  BY DEF SubmitRestingSameLevel, SubmitRestingDiffLevels, SubmitRestingDiffLevelsFixedSpread
<1>7. /\ ~Insists(SubmitAggressiveSameLevelPartialFill(b))
      /\ ~Insists(SubmitAggressiveSameLevelFill(b)) /\ ~Insists(SubmitAggressiveSweepLevels(b, d))
  BY <1>1 DEF SubmitAggressiveSameLevelPartialFill, SubmitAggressiveSameLevelFill,
              SubmitAggressiveSweepLevels
<1>8. /\ ~Insists(SubmitIOCNoFill(b)) /\ ~Insists(SubmitIOCSameLevelPartialFill(b))
      /\ ~Insists(SubmitIOCSameLevelFullFill(b)) /\ ~Insists(SubmitIOCSweepLevels(b, d))
  BY <1>1 DEF SubmitIOCNoFill, SubmitIOCSameLevelPartialFill, SubmitIOCSameLevelFullFill,
              SubmitIOCSweepLevels
<1>9. /\ ~Insists(SubmitFOKNoFill(b)) /\ ~Insists(SubmitFOKKilledAfterScan(b, d))
      /\ ~Insists(SubmitFOKSameLevelFullFill(b)) /\ ~Insists(SubmitFOKSweepLevels(b, d))
  BY <1>1 DEF SubmitFOKNoFill, SubmitFOKKilledAfterScan, SubmitFOKSameLevelFullFill,
              SubmitFOKSweepLevels
<1>10. \A bench : ~Insists(bench) => ~Insists(AsMarketOrders(bench))
  BY DEF AsMarketOrders
<1>11. /\ ~Insists(SubmitMarketNoFill(b)) /\ ~Insists(SubmitMarketSameLevelFullFill(b))
       /\ ~Insists(SubmitMarketSweepLevels(b, d))
  BY <1>1, <1>8, <1>10 DEF SubmitMarketNoFill, SubmitMarketSameLevelFullFill,
                           SubmitMarketSweepLevels
<1>12. /\ ~Insists(CancelMissingEmptyBook(b)) /\ ~Insists(CancelMissingPopulatedBook(b))
       /\ ~Insists(CancelSameLevelHead(b)) /\ ~Insists(CancelSameLevelTail(b))
       /\ ~Insists(CancelSameLevelMiddle(b)) /\ ~Insists(CancelUniqueLevels(b))
  BY <1>2 DEF CancelMissingEmptyBook, CancelMissingPopulatedBook, CancelSameLevelHead,
              CancelSameLevelTail, CancelSameLevelMiddle, CancelUniqueLevels
<1>13. /\ ~Insists(ModifyMissingEmptyBook(b)) /\ ~Insists(ModifyToZeroQuantity(b))
       /\ ~Insists(ModifySamePriceSameQuantity(b)) /\ ~Insists(ModifyToNewNonCrossingPrice(b, d))
  BY <1>3 DEF ModifyMissingEmptyBook, ModifyToZeroQuantity, ModifySamePriceSameQuantity,
              ModifyToNewNonCrossingPrice
<1>14. /\ ~Insists(ModifyToAggressiveFullFill(b))
       /\ ~Insists(ModifyToAggressivePartialFillRest(b))
  BY <1>5 DEF ModifyToAggressiveFullFill, ModifyToAggressivePartialFillRest
<1>15. /\ ~Insists(SessionEndAllGTCSameLevel(b)) /\ ~Insists(SessionEndAllDAYSameLevel(b))
       /\ ~Insists(SessionEndMixedSameLevel(b)) /\ ~Insists(SessionEndAllGTCUniqueLevels(b))
       /\ ~Insists(SessionEndAllDAYUniqueLevels(b)) /\ ~Insists(SessionEndMixedUniqueLevels(b))
  BY <1>4 DEF SessionEndAllGTCSameLevel, SessionEndAllDAYSameLevel, SessionEndMixedSameLevel,
              SessionEndAllGTCUniqueLevels, SessionEndAllDAYUniqueLevels,
              SessionEndMixedUniqueLevels
<1> HIDE DEF Insists
<1>16. r \in Untemplated(b) => ~Insists(r)
  BY <1>6, <1>7, <1>8, <1>9, <1>11, <1>12, <1>13, <1>14, <1>15 DEF Untemplated
<1>17. r \in Templated(b, d) => r = LatencyMeasurement(b, d)
  BY <1>6, <1>7, <1>8, <1>9, <1>11, <1>13 DEF Templated
<1> QED
  BY <1>16, <1>17

\* The numbers of the calls that a program of this kind makes.
Numbered == Insists(run) \/ Aggressive(run)

LEMMA LatencyCalls ==
    ASSUME run \in Runs, Insists(run)
    PROVE  /\ run.count = ScriptLength /\ Untimed \in Nat /\ Timed \in Nat
           /\ \A n \in 1 .. ScriptLength :
                 /\ Request(n) = Limit(n - 1, Request(n).limit, 1, "BUY", "GTC")
                 /\ Request(n).limit \in Prices
<1>1. PICK b \in Batches, d \in Depths : run \in Untemplated(b) \cup Templated(b, d)
  BY DEF Runs
<1>2. run = LatencyMeasurement(b, d)
  BY <1>1, OthersDoNotInsist
<1>3. b \in Nat \ {0} /\ d \in Nat \ {0}
  BY SizesArePositive
<1> DEFINE first == [i \in 1 .. d |-> Limit(i - 1, ((i - 1) % d) + 1, 1, "BUY", "GTC")]
           then  == [i \in 1 .. b |-> Limit(d + i - 1, ((d + i - 1) % d) + 1, 1, "BUY", "GTC")]
<1>4. run.setup = first /\ run.timed = then /\ run.count = b + d /\ run.top = d
  BY <1>2 DEF LatencyMeasurement
<1>5. Counts(first, d) /\ Counts(then, b)
  BY DEF Counts
<1>6. /\ \A i \in 1 .. d : first[i] = Limit(i - 1, ((i - 1) % d) + 1, 1, "BUY", "GTC")
      /\ \A i \in 1 .. b : then[i] = Limit(d + i - 1, ((d + i - 1) % d) + 1, 1, "BUY", "GTC")
  OBVIOUS
<1> HIDE DEF first, then
<1>7. Len(first) = d /\ Len(then) = b
  BY <1>3, <1>5, FunctionIsSequence
<1>8. Untimed = d /\ Timed = b
  BY <1>4, <1>7 DEF Untimed, Timed
<1>9. ScriptLength = d + b
  BY <1>8, ScriptIs
<1>10. d <= MaxPrice /\ MinPrice = 1
  BY <1>4, LaddersFit
<1>11. ASSUME NEW n \in 1 .. ScriptLength
       PROVE  /\ Request(n) = Limit(n - 1, Request(n).limit, 1, "BUY", "GTC")
              /\ Request(n).limit \in Prices
  <2> DEFINE price == ((n - 1) % d) + 1
  <2>1. Script[n] = Limit(n - 1, price, 1, "BUY", "GTC")
    <3>1. CASE n <= d
      <4>1. Script[n] = first[n] /\ n \in 1 .. d
        BY <1>3, <1>4, <1>8, <1>9, <3>1, ScriptIs
      <4> QED
        BY <1>6, <4>1
    <3>2. CASE ~(n <= d)
      <4>1. Script[n] = then[n - d] /\ n - d \in 1 .. b /\ d + (n - d) - 1 = n - 1
        BY <1>3, <1>4, <1>8, <1>9, <3>2, ScriptIs
      <4> QED
        BY <1>6, <4>1
    <3> QED
      BY <3>1, <3>2
  <2>2. price \in 1 .. d
    BY <1>3, <1>9
  <2> HIDE DEF price
  <2>3. price \in Prices /\ ~(price > run.top)
    BY <1>3, <1>4, <1>10, <2>2, PriceRange DEF Prices
  <2>4. Request(n) = Limit(n - 1, price, 1, "BUY", "GTC")
    BY <2>1, <2>3 DEF Request, Limit
  <2>5. Request(n).limit = price
    BY <2>4 DEF Limit
  <2> QED
    BY <2>3, <2>4, <2>5
<1> QED
  BY <1>3, <1>4, <1>8, <1>9, <1>11

\* A request whose limit is on the ladder is the call of the script.
LEMMA RequestIs ==
    ASSUME NEW n, NEW id, NEW price \in Prices, NEW quantity, NEW side, NEW tif,
           Script[n] = Limit(id, price, quantity, side, tif), price <= run.top, run.top \in Nat
    PROVE  Request(n) = Limit(id, price, quantity, side, tif)
<1>1. ~(price > run.top)
  BY PriceRange, LaddersFit DEF Prices
<1> QED
  BY <1>1 DEF Request, Limit

\* The calls of the batch that buys from one large ask.
LEMMA MakerCalls ==
    ASSUME run \in Runs, NEW b \in Batches, run = FromOneMaker(b, "GTC")
    PROVE  /\ b \in Nat \ {0} /\ Untimed = 1 /\ Timed = b /\ ScriptLength = b + 1
           /\ 1 \in Prices
           /\ Request(1) = Limit(1, 1, b + 1, "SELL", "GTC")
           /\ \A n \in 2 .. b + 1 : Request(n) = Limit(n, 1, 1, "BUY", "GTC")
<1>1. b \in Nat \ {0}
  BY SizesArePositive
<1> DEFINE ask == Limit(1, 1, b + 1, "SELL", "GTC")
           buys == [i \in 1 .. b |-> Limit(i + 1, 1, 1, "BUY", "GTC")]
<1>2. run.setup = <<ask>> /\ run.timed = buys /\ run.top = 1
  BY DEF FromOneMaker
<1>3. Counts(<<ask>>, 1) /\ Counts(buys, b)
  BY ShortFunctions DEF Counts
<1>4. <<ask>>[1] = ask /\ \A i \in 1 .. b : buys[i] = Limit(i + 1, 1, 1, "BUY", "GTC")
  OBVIOUS
<1> HIDE DEF buys
<1>5. Untimed = 1 /\ Timed = b
  BY <1>1, <1>2, <1>3, FunctionIsSequence DEF Untimed, Timed
<1>6. ScriptLength = b + 1
  BY <1>1, <1>5, ScriptIs
<1>7. 1 \in Prices
  BY PriceRange, LaddersFit DEF Prices
<1>8. Script[1] = ask
  BY <1>1, <1>2, <1>4, <1>5, <1>6, ScriptIs
<1>9. Request(1) = ask
  BY <1>2, <1>7, <1>8, RequestIs
<1>10. ASSUME NEW n \in 2 .. b + 1
       PROVE  Request(n) = Limit(n, 1, 1, "BUY", "GTC")
  <2>1. Script[n] = buys[n - 1] /\ n - 1 \in 1 .. b /\ (n - 1) + 1 = n
    BY <1>1, <1>2, <1>5, <1>6, ScriptIs
  <2>2. Script[n] = Limit(n, 1, 1, "BUY", "GTC")
    BY <1>4, <2>1
  <2> QED
    BY <1>2, <1>7, <2>2, RequestIs
<1> QED
  BY <1>1, <1>5, <1>6, <1>7, <1>9, <1>10

\* The calls of the batch that buys from as many asks on one level.
LEMMA LevelCalls ==
    ASSUME run \in Runs, NEW b \in Batches, run = FromOneLevel(b, "GTC")
    PROVE  /\ b \in Nat \ {0} /\ Untimed = b /\ Timed = b /\ ScriptLength = b + b
           /\ 1 \in Prices
           /\ \A n \in 1 .. b : Request(n) = Limit(n, 1, 1, "SELL", "GTC")
           /\ \A n \in b + 1 .. b + b : Request(n) = Limit(n, 1, 1, "BUY", "GTC")
<1>1. b \in Nat \ {0}
  BY SizesArePositive
<1> DEFINE asks == [i \in 1 .. b |-> Limit(i, 1, 1, "SELL", "GTC")]
           buys == [i \in 1 .. b |-> Limit(b + i, 1, 1, "BUY", "GTC")]
<1>2. run.setup = asks /\ run.timed = buys /\ run.top = 1
  BY DEF FromOneLevel, OneLevel
<1>3. Counts(asks, b) /\ Counts(buys, b)
  BY DEF Counts
<1>4. /\ \A i \in 1 .. b : asks[i] = Limit(i, 1, 1, "SELL", "GTC")
      /\ \A i \in 1 .. b : buys[i] = Limit(b + i, 1, 1, "BUY", "GTC")
  OBVIOUS
<1> HIDE DEF asks, buys
<1>5. Untimed = b /\ Timed = b
  BY <1>1, <1>2, <1>3, FunctionIsSequence DEF Untimed, Timed
<1>6. ScriptLength = b + b
  BY <1>5, ScriptIs
<1>7. 1 \in Prices
  BY PriceRange, LaddersFit DEF Prices
<1>8. ASSUME NEW n \in 1 .. b
      PROVE  Request(n) = Limit(n, 1, 1, "SELL", "GTC")
  <2>1. Script[n] = asks[n]
    BY <1>1, <1>2, <1>5, <1>6, ScriptIs
  <2>2. Script[n] = Limit(n, 1, 1, "SELL", "GTC")
    BY <1>4, <2>1
  <2> QED
    BY <1>2, <1>7, <2>2, RequestIs
<1>9. ASSUME NEW n \in b + 1 .. b + b
      PROVE  Request(n) = Limit(n, 1, 1, "BUY", "GTC")
  <2>1. Script[n] = buys[n - b] /\ n - b \in 1 .. b /\ b + (n - b) = n
    BY <1>1, <1>2, <1>5, <1>6, ScriptIs
  <2>2. Script[n] = Limit(n, 1, 1, "BUY", "GTC")
    BY <1>4, <2>1
  <2> QED
    BY <1>2, <1>7, <2>2, RequestIs
<1> QED
  BY <1>1, <1>5, <1>6, <1>7, <1>8, <1>9

\* The calls of the batch that sweeps d levels each.
LEMMA SweepCalls ==
    ASSUME run \in Runs, NEW b \in Batches, NEW d \in Depths, run = Sweep(b, d, "GTC")
    PROVE  /\ b \in Nat \ {0} /\ d \in Nat \ {0} /\ b * d \in Nat \ {0}
           /\ Untimed = b * d /\ Timed = b /\ ScriptLength = b * d + b
           /\ 1 .. b * d \subseteq Prices
           /\ \A n \in 1 .. b * d : Request(n) = Limit(n, n, 1, "SELL", "GTC")
           /\ \A n \in b * d + 1 .. b * d + b :
                 /\ Request(n) = Limit(n, (n - b * d) * d, d, "BUY", "GTC")
                 /\ (n - b * d) * d \in 1 .. b * d
<1>1. b \in Nat \ {0} /\ d \in Nat \ {0} /\ b * d \in Nat \ {0}
  BY SizesArePositive, Multiples
<1> DEFINE k == b * d
           asks == [i \in 1 .. k |-> Limit(i, i, 1, "SELL", "GTC")]
           buys == [i \in 1 .. b |-> Limit(k + i, i * d, d, "BUY", "GTC")]
<1>2. run.setup = asks /\ run.timed = buys /\ run.top = k
  BY DEF Sweep, UniqueLevels
<1>3. Counts(asks, k) /\ Counts(buys, b)
  BY DEF Counts
<1>4. /\ \A i \in 1 .. k : asks[i] = Limit(i, i, 1, "SELL", "GTC")
      /\ \A i \in 1 .. b : buys[i] = Limit(k + i, i * d, d, "BUY", "GTC")
  OBVIOUS
<1>5. k \in Nat \ {0}
  BY <1>1
<1>6. \A i \in 1 .. b : i * d \in 1 .. k
  <2> TAKE i \in 1 .. b
  <2>1. i * d \in Nat \ {0}
    BY <1>1, Multiples
  <2>2. k = i * d + (b - i) * d
    BY <1>1
  <2>3. (b - i) * d \in Nat
    BY <1>1
  <2> HIDE DEF k
  <2> QED
    BY <1>5, <2>1, <2>2, <2>3
<1> HIDE DEF k, asks, buys
<1>7. Untimed = k /\ Timed = b
  BY <1>1, <1>2, <1>3, <1>5, FunctionIsSequence DEF Untimed, Timed
<1>8. ScriptLength = k + b
  BY <1>7, ScriptIs
<1>9. 1 .. k \subseteq Prices
  <2>1. k <= MaxPrice
    BY <1>2, LaddersFit
  <2> QED
    BY <1>5, <2>1, PriceRange, LaddersFit DEF Prices
<1>10. ASSUME NEW n \in 1 .. k
       PROVE  Request(n) = Limit(n, n, 1, "SELL", "GTC")
  <2>1. Script[n] = asks[n]
    BY <1>1, <1>2, <1>5, <1>7, <1>8, ScriptIs
  <2>2. Script[n] = Limit(n, n, 1, "SELL", "GTC")
    BY <1>4, <2>1
  <2>3. n \in Prices /\ n <= run.top /\ run.top \in Nat
    BY <1>2, <1>5, <1>9
  <2> QED
    BY <2>2, <2>3, RequestIs
<1>11. ASSUME NEW n \in k + 1 .. k + b
       PROVE  /\ Request(n) = Limit(n, (n - k) * d, d, "BUY", "GTC")
              /\ (n - k) * d \in 1 .. k
  <2> DEFINE i == n - k
  <2>1. i \in 1 .. b /\ k + i = n
    BY <1>1, <1>5
  <2>2. Script[n] = buys[n - k]
    BY <1>1, <1>2, <1>5, <1>7, <1>8, ScriptIs
  <2> HIDE DEF i
  <2>3. Script[n] = buys[i]
    BY <2>2 DEF i
  <2>4. Script[n] = Limit(n, i * d, d, "BUY", "GTC")
    BY <1>4, <2>1, <2>3
  <2>5. i * d \in 1 .. k
    BY <1>6, <2>1
  <2>6. i * d \in Prices /\ i * d <= run.top /\ run.top \in Nat
    BY <1>2, <1>5, <1>9, <2>5
  <2>7. Request(n) = Limit(n, i * d, d, "BUY", "GTC")
    BY <2>4, <2>6, RequestIs
  <2> QED
    BY <2>5, <2>7 DEF i
<1> QED
  BY <1>1, <1>7, <1>8, <1>9, <1>10, <1>11 DEF k

\* A GTC order on the ladder.
GTCOrder(c) ==
    /\ c = Limit(c.id, c.limit, c.quantity, c.side, "GTC")
    /\ c.limit \in Prices /\ c.quantity \in Nat \ {0} /\ c.side \in Sides

LEMMA LimitIsGTCOrder ==
    ASSUME NEW id, NEW price \in Prices, NEW quantity \in Nat \ {0}, NEW side \in Sides
    PROVE  /\ GTCOrder(Limit(id, price, quantity, side, "GTC"))
           /\ Limit(id, price, quantity, side, "GTC").id = id
           /\ Limit(id, price, quantity, side, "GTC").limit = price
           /\ Limit(id, price, quantity, side, "GTC").quantity = quantity
           /\ Limit(id, price, quantity, side, "GTC").side = side
BY DEF GTCOrder, Limit

\* The aggressive batches sell first and buy then.
LEMMA AggressiveCalls ==
    ASSUME run \in Runs, Aggressive(run), NEW n \in 1 .. ScriptLength
    PROVE  /\ GTCOrder(Request(n)) /\ Request(n).id = n
           /\ Request(n).side = IF n <= Untimed THEN "SELL" ELSE "BUY"
<1>0. "BUY" \in Sides /\ "SELL" \in Sides
  BY DEF Sides
<1>1. PICK b \in Batches :
        \/ run = FromOneMaker(b, "GTC")
        \/ run = FromOneLevel(b, "GTC")
        \/ \E d \in Depths : run = Sweep(b, d, "GTC")
  BY DEF Aggressive
<1>2. CASE run = FromOneMaker(b, "GTC")
  <2>1. /\ b \in Nat \ {0} /\ Untimed = 1 /\ ScriptLength = b + 1 /\ 1 \in Prices
        /\ Request(1) = Limit(1, 1, b + 1, "SELL", "GTC")
        /\ \A m \in 2 .. b + 1 : Request(m) = Limit(m, 1, 1, "BUY", "GTC")
    BY <1>2, MakerCalls
  <2>2. CASE n = 1
    BY <1>0, <2>1, <2>2, LimitIsGTCOrder
  <2>3. CASE n # 1
    <3>1. n \in 2 .. b + 1 /\ ~(n <= Untimed)
      BY <2>1, <2>3
    <3>2. Request(n) = Limit(n, 1, 1, "BUY", "GTC")
      BY <2>1, <3>1
    <3> QED
      BY <1>0, <2>1, <3>1, <3>2, LimitIsGTCOrder
  <2> QED
    BY <2>2, <2>3
<1>3. CASE run = FromOneLevel(b, "GTC")
  <2>1. /\ b \in Nat \ {0} /\ Untimed = b /\ ScriptLength = b + b /\ 1 \in Prices
        /\ \A m \in 1 .. b : Request(m) = Limit(m, 1, 1, "SELL", "GTC")
        /\ \A m \in b + 1 .. b + b : Request(m) = Limit(m, 1, 1, "BUY", "GTC")
    BY <1>3, LevelCalls
  <2>2. CASE n <= b
    <3>1. n \in 1 .. b /\ n <= Untimed
      BY <2>1, <2>2
    <3>2. Request(n) = Limit(n, 1, 1, "SELL", "GTC")
      BY <2>1, <3>1
    <3> QED
      BY <1>0, <2>1, <3>1, <3>2, LimitIsGTCOrder
  <2>3. CASE ~(n <= b)
    <3>1. n \in b + 1 .. b + b /\ ~(n <= Untimed)
      BY <2>1, <2>3
    <3>2. Request(n) = Limit(n, 1, 1, "BUY", "GTC")
      BY <2>1, <3>1
    <3> QED
      BY <1>0, <2>1, <3>1, <3>2, LimitIsGTCOrder
  <2> QED
    BY <2>2, <2>3
<1>4. CASE \E d \in Depths : run = Sweep(b, d, "GTC")
  <2>0. PICK d \in Depths : run = Sweep(b, d, "GTC")
    BY <1>4
  <2> DEFINE k == b * d
  <2>1. /\ b \in Nat \ {0} /\ d \in Nat \ {0} /\ k \in Nat \ {0}
        /\ Untimed = k /\ ScriptLength = k + b /\ 1 .. k \subseteq Prices
        /\ \A m \in 1 .. k : Request(m) = Limit(m, m, 1, "SELL", "GTC")
        /\ \A m \in k + 1 .. k + b :
              /\ Request(m) = Limit(m, (m - k) * d, d, "BUY", "GTC")
              /\ (m - k) * d \in 1 .. k
    BY <2>0, SweepCalls
  <2> HIDE DEF k
  <2>2. CASE n <= k
    <3>1. n \in 1 .. k /\ n <= Untimed /\ n \in Prices
      BY <2>1, <2>2
    <3>2. Request(n) = Limit(n, n, 1, "SELL", "GTC")
      BY <2>1, <3>1
    <3> QED
      BY <1>0, <3>1, <3>2, LimitIsGTCOrder
  <2>3. CASE ~(n <= k)
    <3>1. n \in k + 1 .. k + b /\ ~(n <= Untimed)
      BY <2>1, <2>3
    <3> DEFINE price == (n - k) * d
    <3>2. Request(n) = Limit(n, price, d, "BUY", "GTC") /\ price \in 1 .. k
      BY <2>1, <3>1
    <3> HIDE DEF price
    <3>3. price \in Prices
      BY <2>1, <3>2
    <3> QED
      BY <1>0, <2>1, <3>1, <3>2, <3>3, LimitIsGTCOrder
  <2> QED
    BY <2>2, <2>3
<1> QED
  BY <1>1, <1>2, <1>3, <1>4

\* Every call of such a program is a GTC order with an id of its own.
LEMMA NumberedCalls ==
    ASSUME run \in Runs, Numbered, NEW n \in 1 .. ScriptLength
    PROVE  /\ GTCOrder(Request(n))
           /\ \A m \in 1 .. ScriptLength : Request(m).id = Request(n).id => m = n
<1>0. Timed \in Nat /\ Untimed \in Nat /\ ScriptLength \in Nat
  BY ScriptIs
<1>1. CASE Aggressive(run)
  BY <1>1, AggressiveCalls
<1>2. CASE Insists(run)
  <2>1. \A m \in 1 .. ScriptLength :
           /\ Request(m) = Limit(m - 1, Request(m).limit, 1, "BUY", "GTC")
           /\ Request(m).limit \in Prices
    BY <1>2, LatencyCalls
  <2>2. \A m \in 1 .. ScriptLength : GTCOrder(Request(m)) /\ Request(m).id = m - 1
    <3> TAKE m \in 1 .. ScriptLength
    <3> DEFINE price == Request(m).limit
    <3>1. Request(m) = Limit(m - 1, price, 1, "BUY", "GTC") /\ price \in Prices
      BY <2>1
    <3> HIDE DEF price
    <3>2. "BUY" \in Sides /\ 1 \in Nat \ {0}
      BY DEF Sides
    <3> QED
      BY <3>1, <3>2, LimitIsGTCOrder
  <2>3. ASSUME NEW m \in 1 .. ScriptLength, Request(m).id = Request(n).id PROVE m = n
    <3>1. m - 1 = n - 1
      BY <2>2, <2>3
    <3> QED
      BY <1>0, <3>1
  <2> QED
    BY <2>2, <2>3
<1> QED
  BY <1>1, <1>2 DEF Numbered

-----------------------------------------------------------------------------
(* How such a program goes *)

\* The calls that are through.
Through == IF pc = "matching" THEN made - 1 ELSE made

\* x is what is left of the order of one of the first n calls.
OrderOf(x, n) ==
    \E m \in 1 .. n : \E q \in Nat \ {0} :
        x = [id |-> Request(m).id, quantity |-> q, lifetime |-> "GTC"]

NumberedInv ==
    Numbered =>
        /\ pc \in {"idle", "matching", "done"}
        /\ pc = "matching" =>
              made >= 1 /\ call = Request(made) /\ remaining \in 0 .. call.quantity
        /\ \A l \in Levels : \A i \in DOMAIN book[l] : OrderOf(book[l][i], Through)

CallMade ==
    /\ pc = "idle" /\ pc' = "matching"
    /\ made < ScriptLength /\ made' = made + 1
    /\ call' = Request(made + 1) /\ remaining' = call'.quantity
    /\ book' = book

TakesWhole(l) ==
    /\ pc = "matching" /\ pc' = "matching" /\ UNCHANGED <<made, call>>
    /\ book[l][1].quantity <= remaining
    /\ remaining' = remaining - book[l][1].quantity
    /\ book' = Without(<<l, 1>>)

TakesPart(l) ==
    /\ pc = "matching" /\ pc' = "done" /\ UNCHANGED made
    /\ remaining > 0 /\ remaining < book[l][1].quantity
    /\ remaining' = 0
    /\ book' = [book EXCEPT ![l] = [@ EXCEPT ![1] =
                  [book[l][1] EXCEPT !.quantity = book[l][1].quantity - remaining]]]

RestsThen ==
    /\ pc' = "done" /\ UNCHANGED made
    /\ Gains

Idles ==
    /\ UNCHANGED <<made, book>>
    /\ \/ UNCHANGED <<pc, call, remaining>>
       \/ pc = "matching" /\ remaining = 0 /\ pc' = "done"
       \/ pc = "done" /\ pc' = "idle"

\* These are its steps.
LEMMA NumberedSteps ==
    ASSUME DriverInv, NumberedInv, Numbered, [BenchNext]_benchVars
    PROVE  /\ run' = run
           /\ \/ CallMade
              \/ Wants /\ (TakesWhole(BestLevel(call)) \/ TakesPart(BestLevel(call)))
              \/ RestsThen
              \/ Idles
<1>0. /\ run \in Runs /\ made \in 0 .. ScriptLength /\ BookShape /\ ScriptLength \in Nat
      /\ pc \in {"idle", "matching", "done"}
  BY ScriptIs DEF DriverInv, NumberedInv
<1>1. ASSUME Call PROVE CallMade /\ run' = run
  <2>1. pc = "idle" /\ made < ScriptLength /\ made' = made + 1 /\ run' = run
    BY <1>1 DEF Call, ScriptLength
  <2> DEFINE req == Request(made + 1)
  <2>2. made + 1 \in 1 .. ScriptLength
    BY <1>0, <2>1
  <2>3. GTCOrder(req)
    BY <1>0, <2>2, NumberedCalls
  <2>4. Submit(req)
    <3>1. req.op = "submit"
      BY <2>3 DEF GTCOrder, Limit
    <3> QED
      BY <1>1, <2>1, <3>1 DEF Call
  <2>5. ~Resting(req.id)
    <3>1. ASSUME NEW place \in PlacesOf(req.id) PROVE FALSE
      <4>1. place[1] \in Levels /\ place[2] \in DOMAIN book[place[1]]
            /\ book[place[1]][place[2]].id = req.id
        BY <3>1, PlaceIs DEF PlacesOf, OrderAt
      <4>2. OrderOf(book[place[1]][place[2]], Through)
        BY <4>1 DEF NumberedInv
      <4>3. Through = made
        BY <2>1 DEF Through
      <4>4. PICK m \in 1 .. made : req.id = Request(m).id
        BY <4>1, <4>2, <4>3 DEF OrderOf
      <4>5. m \in 1 .. ScriptLength /\ m # made + 1
        BY <1>0, <2>1, <4>4
      <4> QED
        BY <1>0, <2>2, <4>4, <4>5, NumberedCalls
    <3> QED
      BY <3>1 DEF Resting
  <2> HIDE DEF req
  <2>6. Acceptable(req) /\ req.tif = "GTC"
    BY <2>3, <2>5 DEF Acceptable, GTCOrder, Limit
  <2>7. pc' = "matching" /\ call' = req /\ remaining' = req.quantity /\ book' = book
    BY <2>4, <2>6 DEF Submit
  <2> QED
    BY <2>1, <2>7 DEF CallMade, req
<1>2. ASSUME Trade, UNCHANGED made
      PROVE  Wants /\ (TakesWhole(BestLevel(call)) \/ TakesPart(BestLevel(call)))
  <2> DEFINE l == BestLevel(call)
             q == IF Head(book[l]).quantity > remaining THEN remaining ELSE Head(book[l]).quantity
  <2>1. Wants /\ MarketableLevels(call) # {} /\ pc = "matching" /\ remaining > 0
    BY <1>2 DEF Trade, Wants
  <2>2. l \in Levels /\ 1 \in DOMAIN book[l]
    BY <1>0, <2>1, BestPlaceIsThere
  <2>3. Head(book[l]) = book[l][1]
    BY DEF Head
  <2>4. remaining \in Nat
    <3>1. pc = "matching" => made >= 1 /\ call = Request(made) /\ remaining \in 0 .. call.quantity
      BY DEF NumberedInv
    <3>2. made \in 1 .. ScriptLength
      BY <1>0, <2>1, <3>1
    <3>3. GTCOrder(Request(made))
      BY <1>0, <3>2, NumberedCalls
    <3> QED
      BY <2>1, <3>1, <3>3 DEF GTCOrder
  <2> HIDE DEF l
  <2>5. book[l][1].quantity \in Nat \ {0}
    <3>1. OrderOf(book[l][1], Through)
      BY <2>2 DEF NumberedInv
    <3> QED
      BY <3>1 DEF OrderOf
  <2>6. CASE q = Head(book[l]).quantity
    <3>1. book' = Without(<<l, 1>>) /\ pc' = "matching" /\ UNCHANGED <<made, call>>
          /\ remaining' = remaining - q
      BY <1>2, <2>6 DEF Trade, l
    <3>2. book[l][1].quantity <= remaining /\ q = book[l][1].quantity
      BY <2>3, <2>4, <2>5, <2>6
    <3> QED
      BY <2>1, <3>1, <3>2 DEF TakesWhole, l
  <2>7. CASE q # Head(book[l]).quantity
    <3>1. book' = [book EXCEPT ![l][1].quantity = @ - q] /\ pc' = "done" /\ UNCHANGED made
          /\ remaining' = remaining - q
      BY <1>2, <2>7 DEF Trade, l
    <3>2. remaining < book[l][1].quantity /\ q = remaining
      BY <2>3, <2>4, <2>5, <2>7
    <3> HIDE DEF q
    <3>3. book' = [book EXCEPT ![l] = [@ EXCEPT ![1] =
                     [book[l][1] EXCEPT !.quantity = book[l][1].quantity - q]]]
      BY <3>1, Zenon
    <3>4. remaining' = 0
      BY <2>4, <3>1, <3>2
    <3> QED
      BY <2>1, <3>1, <3>2, <3>3, <3>4 DEF TakesPart, l
  <2> QED
    BY <2>6, <2>7
<1>3. ASSUME Finish, UNCHANGED made PROVE RestsThen \/ Idles
  <2>1. pc = "matching" /\ pc' = "done" /\ UNCHANGED made /\ ~Wants
    BY <1>3 DEF Finish
  <2>2. call.tif = "GTC"
    <3>1. made \in 1 .. ScriptLength /\ call = Request(made)
      BY <1>0, <2>1 DEF NumberedInv
    <3>2. GTCOrder(call)
      BY <1>0, <3>1, NumberedCalls
    <3> QED
      BY <3>2 DEF GTCOrder, Limit
  <2>3. ~(call.tif \in {"IOC", None}) /\ call.tif \in Lifetimes
    BY <2>2, NoneIsNoValue DEF TimesInForce, Lifetimes
  <2>4. CASE remaining = 0
    <3>1. book' = book
      BY <1>3, <2>4 DEF Finish
    <3> QED
      BY <2>1, <2>4, <3>1 DEF Idles
  <2>5. CASE remaining # 0
    <3>1. remaining > 0 /\ book' = [book EXCEPT ![<<call.side, call.limit>>] =
             Append(@, [id |-> call.id, quantity |-> remaining, lifetime |-> call.tif])]
      BY <1>3, <2>3, <2>5 DEF Finish
    <3> QED
      BY <2>1, <2>3, <3>1 DEF RestsThen, Gains, Unfilled
  <2> QED
    BY <2>4, <2>5
<1>4. ASSUME Return, UNCHANGED made PROVE Idles
  BY <1>4 DEF Return, Idles
<1>5. ASSUME Serve
      PROVE  /\ run' = run /\ UNCHANGED made
             /\ Trade \/ Finish \/ Return
  <2>1. ~Resubmit /\ ~Prune /\ ~SessionEnded
    BY <1>0 DEF Resubmit, Prune, SessionEnded
  <2> QED
    BY <1>5, <2>1 DEF Serve, driverVars
<1>6. ASSUME UNCHANGED <<book, pc, call, remaining, submission, outcome, pruned, run, made>>
      PROVE  Idles /\ run' = run
  BY <1>6 DEF Idles
<1> QED
  BY <1>1, <1>2, <1>3, <1>4, <1>5, <1>6 DEF BenchNext, End, Ended, benchVars

-----------------------------------------------------------------------------
(* The queues *)

\* What it means for a queue that its first order leaves.
LEMMA QueuesAfterWhole ==
    ASSUME BookShape, NEW l \in Levels, 1 \in DOMAIN book[l], book' = Without(<<l, 1>>),
           NEW m \in Levels
    PROVE  /\ Len(book'[m]) = Len(book[m]) - (IF m = l THEN 1 ELSE 0)
           /\ \A i \in DOMAIN book'[m] : \E j \in DOMAIN book[m] : book'[m][i] = book[m][j]
<1>1. book'[m] = IF m = l THEN RemoveAt(book[m], 1) ELSE book[m]
  BY DEF BookShape, Without
<1>2. IsSequence(book[m]) /\ Len(book[m]) \in Nat
  BY SequenceDomain DEF BookShape
<1>3. CASE m = l
  <2>1. /\ IsSequence(RemoveAt(book[m], 1))
        /\ Len(RemoveAt(book[m], 1)) = Len(book[m]) - 1
        /\ \A i \in 1 .. Len(book[m]) - 1 :
              \E j \in DOMAIN book[m] : RemoveAt(book[m], 1)[i] = book[m][j]
    <3>1. 1 \in DOMAIN book[m]
      BY <1>3
    <3> QED
      BY <1>2, <3>1, ShortenedSequence
  <2>2. DOMAIN RemoveAt(book[m], 1) = 1 .. Len(book[m]) - 1
    BY <2>1, SequenceDomain
  <2> QED
    BY <1>1, <1>3, <2>1, <2>2
<1>4. CASE m # l
  BY <1>1, <1>2, <1>4
<1> QED
  BY <1>3, <1>4

\* That its first order is changed.
Changes(l, x) == book' = [book EXCEPT ![l] = [@ EXCEPT ![1] = x]]

LEMMA QueuesAfterPart ==
    ASSUME BookShape, NEW l \in Levels, 1 \in DOMAIN book[l], NEW x, Changes(l, x),
           NEW m \in Levels
    PROVE  /\ DOMAIN book'[m] = DOMAIN book[m] /\ Len(book'[m]) = Len(book[m])
           /\ \A i \in DOMAIN book[m] :
                 book'[m][i] = IF m = l /\ i = 1 THEN x ELSE book[m][i]
<1>1. book'[m] = IF m = l THEN [book[m] EXCEPT ![1] = x] ELSE book[m]
  BY DEF BookShape, Changes
<1>2. BookShape'
  BY PlacesKept DEF Changes
<1>3. DOMAIN book'[m] = DOMAIN book[m]
  BY <1>1
<1>4. /\ Len(book[m]) \in Nat /\ DOMAIN book[m] = 1 .. Len(book[m])
      /\ Len(book'[m]) \in Nat /\ DOMAIN book'[m] = 1 .. Len(book'[m])
  BY <1>2, SequenceDomain DEF BookShape
<1>5. Len(book'[m]) = Len(book[m])
  BY <1>3, <1>4
<1>6. IsSequence(book[m])
  BY DEF BookShape
<1>7. PICK S : book[m] \in Seq(S)
  BY <1>6 DEF IsSequence
<1>8. book[m] = [i \in DOMAIN book[m] |-> book[m][i]]
  BY <1>7
<1>9. \A i \in DOMAIN book[m] : book'[m][i] = IF m = l /\ i = 1 THEN x ELSE book[m][i]
  BY <1>1, <1>8
<1> QED
  BY <1>3, <1>5, <1>9

\* And that an order joins it.
Joins(l, x) == book' = [book EXCEPT ![l] = Append(@, x)]

LEMMA QueuesAfterRest ==
    ASSUME BookShape, NEW l \in Levels, NEW x, Joins(l, x), NEW m \in Levels
    PROVE  /\ Len(book'[m]) = Len(book[m]) + (IF m = l THEN 1 ELSE 0)
           /\ \A i \in DOMAIN book'[m] :
                 \/ \E j \in DOMAIN book[m] : book'[m][i] = book[m][j]
                 \/ m = l /\ book'[m][i] = x
<1>1. book'[m] = IF m = l THEN Append(book[m], x) ELSE book[m]
  BY DEF BookShape, Joins
<1>2. IsSequence(book[m]) /\ Len(book[m]) \in Nat /\ DOMAIN book[m] = 1 .. Len(book[m])
  BY SequenceDomain DEF BookShape
<1>3. CASE m = l
  <2>1. /\ IsSequence(Append(book[m], x))
        /\ Len(Append(book[m], x)) = Len(book[m]) + 1
        /\ \A i \in 1 .. Len(book[m]) : Append(book[m], x)[i] = book[m][i]
        /\ Append(book[m], x)[Len(book[m]) + 1] = x
    BY <1>2, AppendedSequence
  <2>2. DOMAIN Append(book[m], x) = 1 .. Len(book[m]) + 1
    BY <2>1, SequenceDomain
  <2>3. ASSUME NEW i \in DOMAIN Append(book[m], x)
        PROVE  \/ \E j \in DOMAIN book[m] : Append(book[m], x)[i] = book[m][j]
               \/ Append(book[m], x)[i] = x
    <3>1. i \in DOMAIN book[m] \/ i = Len(book[m]) + 1
      BY <1>2, <2>2
    <3> QED
      BY <1>2, <2>1, <3>1
  <2> QED
    BY <1>1, <1>3, <2>1, <2>3
<1>4. CASE m # l
  BY <1>1, <1>2, <1>4
<1> QED
  BY <1>3, <1>4

\* A queue is empty when it has no length, and has a first order when it has one.
LEMMA QueueIs ==
    ASSUME BookShape, NEW l \in Levels
    PROVE  /\ Len(book[l]) \in Nat /\ DOMAIN book[l] = 1 .. Len(book[l])
           /\ book[l] = <<>> <=> Len(book[l]) = 0
<1>1. PICK S : book[l] \in Seq(S)
  BY DEF BookShape, IsSequence
<1> QED
  BY <1>1, EmptySeq, LenProperties

-----------------------------------------------------------------------------
(* Such a program's book holds what is left of its calls *)

LEMMA NumberedStarts ==
    ASSUME BenchInit
    PROVE  NumberedInv
<1>1. pc = "idle" /\ book = [l \in Levels |-> <<>>]
  BY DEF BenchInit, Init
<1>2. \A l \in Levels : DOMAIN book[l] = {}
  BY <1>1
<1> QED
  BY <1>1, <1>2 DEF NumberedInv

\* More calls, more orders that may be left.
LEMMA OrdersOfMore ==
    ASSUME NEW x, NEW n \in Nat, NEW k \in Nat, n <= k, OrderOf(x, n)
    PROVE  OrderOf(x, k)
<1>1. \A m \in 1 .. n : m \in 1 .. k
  OBVIOUS
<1> QED
  BY <1>1 DEF OrderOf

LEMMA NumberedKept ==
    ASSUME DriverInv, NumberedInv, Numbered, [BenchNext]_benchVars
    PROVE  NumberedInv'
<1>0. /\ run \in Runs /\ made \in 0 .. ScriptLength /\ BookShape /\ ScriptLength \in Nat
      /\ pc \in {"idle", "matching", "done"}
      /\ pc = "matching" =>
            made >= 1 /\ call = Request(made) /\ remaining \in 0 .. call.quantity
  BY ScriptIs DEF DriverInv, NumberedInv
<1>1. /\ run' = run
      /\ \/ CallMade
         \/ Wants /\ (TakesWhole(BestLevel(call)) \/ TakesPart(BestLevel(call)))
         \/ RestsThen
         \/ Idles
  BY NumberedSteps
<1>2. \A n : Request(n)' = Request(n)'
  OBVIOUS
<1>3. Script' = Script
  BY <1>1 DEF Script
<1>4. \A x, n : OrderOf(x, n)' <=> OrderOf(x, n)
  BY <1>1, <1>3 DEF OrderOf, Request
<1>5. pc = "matching" => made \in 1 .. ScriptLength /\ GTCOrder(call) /\ remaining \in Nat
  <2> SUFFICES ASSUME pc = "matching"
               PROVE  made \in 1 .. ScriptLength /\ GTCOrder(call) /\ remaining \in Nat
    OBVIOUS
  <2>1. made \in 1 .. ScriptLength
    BY <1>0
  <2>2. GTCOrder(call)
    BY <1>0, <2>1, NumberedCalls
  <2> QED
    BY <1>0, <2>1, <2>2 DEF GTCOrder
<1>6. Through \in Nat
  BY <1>0 DEF Through
<1>7. \A l \in Levels : \A i \in DOMAIN book[l] : OrderOf(book[l][i], Through)
  BY DEF NumberedInv
<1> DEFINE Held(n) == \A l \in Levels : \A i \in DOMAIN book'[l] : OrderOf(book'[l][i], n)
<1>8. ASSUME NEW n \in Nat, Through' = n, Held(n), pc' \in {"idle", "matching", "done"},
             pc' = "matching" =>
                made' >= 1 /\ call' = Request(made') /\ remaining' \in 0 .. call'.quantity
      PROVE  NumberedInv'
  <2>1. Request(made)' = Request(made')
    BY <1>1, <1>3, Zenon DEF Request
  <2> QED
    BY <1>4, <1>8, <2>1 DEF NumberedInv
<1>9. CASE CallMade
  <2>1. Through' = Through /\ made' = made + 1 /\ made' >= 1
    BY <1>0, <1>9 DEF Through, CallMade
  <2>2. Held(Through)
    BY <1>7, <1>9 DEF CallMade
  <2>3. made + 1 \in 1 .. ScriptLength
    BY <1>0, <1>9 DEF CallMade
  <2>4. GTCOrder(Request(made + 1))
    BY <1>0, <2>3, NumberedCalls
  <2>5. call' = Request(made') /\ remaining' \in 0 .. call'.quantity
    BY <1>9, <2>1, <2>4 DEF CallMade, GTCOrder
  <2> QED
    BY <1>6, <1>8, <1>9, <2>1, <2>2, <2>5 DEF CallMade
<1>10. ASSUME Wants, TakesWhole(BestLevel(call)) PROVE NumberedInv'
  <2> DEFINE l == BestLevel(call)
  <2>1. l \in Levels /\ 1 \in DOMAIN book[l]
    BY <1>0, <1>10, BestPlaceIsThere DEF Wants
  <2>2. /\ pc = "matching" /\ pc' = "matching" /\ UNCHANGED <<made, call>>
        /\ book[l][1].quantity <= remaining
        /\ remaining' = remaining - book[l][1].quantity
        /\ book' = Without(<<l, 1>>)
    BY <1>10 DEF TakesWhole
  <2> HIDE DEF l
  <2>3. Through' = Through
    BY <2>2 DEF Through
  <2>4. Held(Through)
    <3> TAKE m \in Levels
    <3>1. \A i \in DOMAIN book'[m] : \E j \in DOMAIN book[m] : book'[m][i] = book[m][j]
      BY <1>0, <2>1, <2>2, QueuesAfterWhole
    <3> QED
      BY <1>7, <3>1
  <2>5. book[l][1].quantity \in Nat
    <3>1. OrderOf(book[l][1], Through)
      BY <1>7, <2>1
    <3> QED
      BY <3>1 DEF OrderOf
  <2>6. remaining' \in 0 .. call'.quantity
    BY <1>0, <1>5, <2>2, <2>5 DEF GTCOrder
  <2> QED
    BY <1>0, <1>6, <1>8, <2>2, <2>3, <2>4, <2>6
<1>11. ASSUME Wants, TakesPart(BestLevel(call)) PROVE NumberedInv'
  <2> DEFINE l == BestLevel(call)
             x == [book[l][1] EXCEPT !.quantity = book[l][1].quantity - remaining]
  <2>1. l \in Levels /\ 1 \in DOMAIN book[l]
    BY <1>0, <1>11, BestPlaceIsThere DEF Wants
  <2>2. /\ pc = "matching" /\ pc' = "done" /\ UNCHANGED made
        /\ remaining > 0 /\ remaining < book[l][1].quantity
        /\ book' = [book EXCEPT ![l] = [@ EXCEPT ![1] = x]]
    BY <1>11 DEF TakesPart
  <2>3. Through \in Nat /\ made \in Nat /\ Through <= made /\ Through' = made
    BY <1>0, <1>6, <2>2 DEF Through
  <2> HIDE DEF l
  <2>4. OrderOf(x, made)
    <3>1. PICK n \in 1 .. Through : \E q \in Nat \ {0} :
            book[l][1] = [id |-> Request(n).id, quantity |-> q, lifetime |-> "GTC"]
      BY <1>7, <2>1 DEF OrderOf
    <3>2. PICK q \in Nat \ {0} :
            book[l][1] = [id |-> Request(n).id, quantity |-> q, lifetime |-> "GTC"]
      BY <3>1
    <3>3. x = [id |-> Request(n).id, quantity |-> q - remaining, lifetime |-> "GTC"]
      BY <3>2
    <3>4. q - remaining \in Nat \ {0} /\ n \in 1 .. made
      BY <1>5, <2>2, <2>3, <3>2
    <3> QED
      BY <3>3, <3>4 DEF OrderOf
  <2> HIDE DEF x
  <2>5. Held(made)
    <3> TAKE m \in Levels
    <3>1. /\ DOMAIN book'[m] = DOMAIN book[m]
          /\ \A i \in DOMAIN book[m] : book'[m][i] = IF m = l /\ i = 1 THEN x ELSE book[m][i]
      <4>1. PICK y : y = x
        OBVIOUS
      <4>2. Changes(l, y)
        BY <2>2, <4>1 DEF Changes
      <4> QED
        BY <1>0, <2>1, <4>1, <4>2, QueuesAfterPart
    <3>2. \A i \in DOMAIN book[m] : OrderOf(book[m][i], made)
      BY <1>7, <2>3, OrdersOfMore
    <3> QED
      BY <2>4, <3>1, <3>2
  <2> QED
    BY <1>8, <2>2, <2>3, <2>5
<1>12. CASE RestsThen
  <2> DEFINE l == <<call.side, call.limit>>
             x == [id |-> call.id, quantity |-> remaining, lifetime |-> call.tif]
  <2>1. /\ pc = "matching" /\ pc' = "done" /\ UNCHANGED made /\ remaining > 0
        /\ book' = [book EXCEPT ![l] = Append(@, x)]
    BY <1>12 DEF RestsThen, Gains, Unfilled
  <2>2. l \in Levels /\ call.tif = "GTC"
    BY <1>5, <2>1 DEF GTCOrder, Levels, Limit
  <2>3. Through \in Nat /\ made \in Nat /\ Through <= made /\ Through' = made
    BY <1>0, <1>6, <2>1 DEF Through
  <2>4. OrderOf(x, made)
    BY <1>0, <1>5, <2>1, <2>2 DEF OrderOf
  <2> HIDE DEF l, x
  <2>5. Held(made)
    <3> TAKE m \in Levels
    <3>1. \A i \in DOMAIN book'[m] :
             \/ \E j \in DOMAIN book[m] : book'[m][i] = book[m][j]
             \/ m = l /\ book'[m][i] = x
      BY <1>0, <2>1, <2>2, QueuesAfterRest DEF Joins
    <3>2. \A i \in DOMAIN book[m] : OrderOf(book[m][i], made)
      BY <1>7, <2>3, OrdersOfMore
    <3> QED
      BY <2>4, <3>1, <3>2
  <2> QED
    BY <1>8, <2>1, <2>3, <2>5
<1>13. CASE Idles
  <2>1. CASE UNCHANGED <<pc, call, remaining>>
    <3>1. Through' = Through /\ Held(Through) /\ UNCHANGED <<pc, call, remaining, made>>
      BY <1>7, <1>13, <2>1 DEF Through, Idles
    <3> QED
      BY <1>0, <1>6, <1>8, <3>1
  <2>2. CASE pc' \in {"done", "idle"}
    <3>1. Through \in Nat /\ made \in Nat /\ Through <= made /\ Through' = made
      BY <1>0, <1>6, <1>13, <2>2 DEF Through, Idles
    <3>2. Held(made)
      <4> TAKE m \in Levels
      <4>1. book' = book
        BY <1>13 DEF Idles
      <4>2. \A i \in DOMAIN book[m] : OrderOf(book[m][i], made)
        BY <1>7, <3>1, OrdersOfMore
      <4> QED
        BY <4>1, <4>2
    <3> QED
      BY <1>8, <2>2, <3>1, <3>2
  <2> QED
    BY <1>13, <2>1, <2>2 DEF Idles
<1> QED
  BY <1>1, <1>9, <1>10, <1>11, <1>12, <1>13

-----------------------------------------------------------------------------
(* The latency program only bids, so that each of its calls comes to rest *)

LatencyInv ==
    Insists(run) =>
        /\ \A p \in Prices : book[<<"SELL", p>>] = <<>>
        /\ pc = "matching" => remaining = 1
        /\ Cardinality(Places) = Through

LEMMA LatencyStarts ==
    ASSUME BenchInit
    PROVE  LatencyInv
<1>1. pc = "idle" /\ made = 0 /\ book = [l \in Levels |-> <<>>]
  BY DEF BenchInit, Init
<1>2. \A l \in Levels : book[l] = <<>> /\ DOMAIN book[l] = {}
  BY <1>1
<1>3. Places = {}
  BY <1>2, PlacesAre
<1>4. \A p \in Prices : <<"SELL", p>> \in Levels
  BY DEF Levels, Sides
<1>5. Cardinality(Places) = Through
  BY <1>1, <1>3, FS_EmptySet DEF Through
<1> QED
  BY <1>1, <1>2, <1>4, <1>5 DEF LatencyInv

LEMMA LatencyKept ==
    ASSUME DriverInv, NumberedInv, LatencyInv, Insists(run), [BenchNext]_benchVars
    PROVE  LatencyInv'
<1>0. /\ run \in Runs /\ made \in 0 .. ScriptLength /\ BookShape /\ ScriptLength \in Nat
      /\ \A p \in Prices : book[<<"SELL", p>>] = <<>>
      /\ pc = "matching" => remaining = 1
      /\ Cardinality(Places) = Through
  BY ScriptIs DEF DriverInv, LatencyInv
<1>1. Numbered
  BY DEF Numbered
<1>2. /\ run' = run
      /\ \/ CallMade
         \/ Wants /\ (TakesWhole(BestLevel(call)) \/ TakesPart(BestLevel(call)))
         \/ RestsThen
         \/ Idles
  BY <1>1, NumberedSteps
<1>3. \A n \in 1 .. ScriptLength :
         GTCOrder(Request(n)) /\ Request(n).side = "BUY" /\ Request(n).quantity = 1
  <2> TAKE n \in 1 .. ScriptLength
  <2>1. GTCOrder(Request(n))
    BY <1>0, <1>1, NumberedCalls
  <2> DEFINE price == Request(n).limit
  <2>2. Request(n) = Limit(n - 1, price, 1, "BUY", "GTC")
    BY <1>0, LatencyCalls
  <2> HIDE DEF price
  <2> QED
    BY <2>1, <2>2 DEF Limit
<1>4. pc = "matching" => GTCOrder(call) /\ call.side = "BUY" /\ made >= 1
  <2> SUFFICES ASSUME pc = "matching"
               PROVE  GTCOrder(call) /\ call.side = "BUY" /\ made >= 1
    OBVIOUS
  <2>1. made >= 1 /\ call = Request(made)
    BY <1>1 DEF NumberedInv
  <2>2. made \in 1 .. ScriptLength
    BY <1>0, <2>1
  <2> QED
    BY <1>3, <2>1, <2>2
<1>5. ~Wants
  <2> SUFFICES ASSUME pc = "matching" PROVE MarketableLevels(call) = {}
    BY DEF Wants
  <2>1. Opposite(call.side) = "SELL"
    BY <1>4 DEF Opposite
  <2>2. ASSUME NEW l \in MarketableLevels(call) PROVE FALSE
    <3>1. l \in Levels /\ l[1] = "SELL" /\ book[l] # <<>>
      BY <2>1, <2>2 DEF MarketableLevels
    <3>2. l = <<"SELL", l[2]>> /\ l[2] \in Prices
      BY <3>1 DEF Levels
    <3> QED
      BY <1>0, <3>1, <3>2
  <2> QED
    BY <2>2
<1>6. CASE CallMade
  <2>1. made + 1 \in 1 .. ScriptLength
    BY <1>0, <1>6 DEF CallMade
  <2>2. Places' = Places /\ Through' = Through /\ remaining' = 1 /\ book' = book
    BY <1>0, <1>3, <1>6, <2>1 DEF CallMade, Places, Through
  <2> QED
    BY <1>0, <2>2 DEF LatencyInv
<1>7. CASE RestsThen
  <2> DEFINE l == <<call.side, call.limit>>
             x == [id |-> call.id, quantity |-> remaining, lifetime |-> call.tif]
  <2>1. /\ pc = "matching" /\ pc' = "done" /\ UNCHANGED made
        /\ book' = [book EXCEPT ![l] = Append(@, x)]
    BY <1>7 DEF RestsThen, Gains, Unfilled
  <2>2. l \in Levels /\ \A p \in Prices : <<"SELL", p>> \in Levels /\ <<"SELL", p>> # l
    BY <1>4, <2>1 DEF GTCOrder, Levels, Sides
  <2>3. Through' = Through + 1
    BY <1>0, <2>1 DEF Through
  <2> HIDE DEF l, x
  <2>4. Cardinality(Places') = Cardinality(Places) + 1
    BY <1>0, <2>1, <2>2, PlaceAdded
  <2>5. \A p \in Prices : book'[<<"SELL", p>>] = <<>>
    BY <1>0, <2>1, <2>2 DEF BookShape
  <2> QED
    BY <1>0, <2>1, <2>3, <2>4, <2>5 DEF LatencyInv
<1>8. CASE Idles
  <2>1. Places' = Places /\ Through' = Through /\ book' = book
        /\ (pc' = "matching" => pc = "matching" /\ remaining' = remaining)
    BY <1>0, <1>8 DEF Idles, Places, Through
  <2> QED
    BY <1>0, <2>1 DEF LatencyInv
<1> QED
  BY <1>2, <1>5, <1>6, <1>7, <1>8

\* It ends only after all of its calls, and finds an order of each.
LEMMA LatencySucceeds ==
    ASSUME DriverInv, LatencyInv, exit # "EXIT_FAILURE", [BenchNext]_benchVars
    PROVE  exit' # "EXIT_FAILURE"
<1>1. CASE End
  <2>1. /\ pc = "idle" /\ made = ScriptLength /\ run \in Runs
        /\ exit' = IF Insists(run) /\ Cardinality(Places) # run.count
                   THEN "EXIT_FAILURE" ELSE "EXIT_SUCCESS"
    BY <1>1 DEF End, ScriptLength, DriverInv, Insists
  <2>2. Insists(run) => Cardinality(Places) = run.count
    <3>1. Insists(run) => run.count = ScriptLength
      BY <2>1, LatencyCalls
    <3>2. Insists(run) => Cardinality(Places) = made
      BY <2>1 DEF LatencyInv, Through
    <3> QED
      BY <2>1, <3>1, <3>2
  <2> QED
    BY <2>1, <2>2
<1>2. CASE exit' = exit
  BY <1>2
<1>3. End \/ exit' = exit
  BY DEF BenchNext, Call, Serve, driverVars, Ended, benchVars
<1> QED
  BY <1>1, <1>2, <1>3

-----------------------------------------------------------------------------
(* An aggressive batch: the untimed calls ask, the timed ones bid and are to *)
(* find what they want                                                      *)

AskInv ==
    Aggressive(run) =>
        /\ \A p \in Prices : book[<<"BUY", p>>] = <<>>
        /\ pc = "matching" /\ made <= Untimed => remaining = call.quantity

\* What is there for the timed call that is served.
Enough == pc = "matching" /\ made > Untimed /\ remaining > 0 => MarketableLevels(call) # {}

\* An untimed order comes to rest as a whole.
AskRests ==
    /\ pc = "matching" /\ pc' = "done" /\ made' = made /\ made <= Untimed
    /\ book' = [book EXCEPT ![<<"SELL", call.limit>>] =
                   Append(@, [id |-> call.id, quantity |-> call.quantity, lifetime |-> "GTC"])]

\* A timed order buys from one of the best asks.
BidBuys(l) ==
    /\ pc = "matching" /\ made > Untimed /\ remaining > 0
    /\ l \in MarketableLevels(call) /\ l[1] = "SELL" /\ 1 \in DOMAIN book[l]
    /\ \A other \in MarketableLevels(call) : ~(other[2] < l[2])
    /\ TakesWhole(l) \/ TakesPart(l)

LEMMA AskStarts ==
    ASSUME BenchInit
    PROVE  AskInv
<1>1. pc = "idle" /\ book = [l \in Levels |-> <<>>]
  BY DEF BenchInit, Init
<1>2. \A p \in Prices : <<"BUY", p>> \in Levels
  BY DEF Levels, Sides
<1> QED
  BY <1>1, <1>2 DEF AskInv

\* The call that is served is one of the script.
LEMMA AggressiveCall ==
    ASSUME DriverInv, NumberedInv, Aggressive(run), pc = "matching"
    PROVE  /\ made \in 1 .. ScriptLength /\ call = Request(made) /\ GTCOrder(call)
           /\ call.side = IF made <= Untimed THEN "SELL" ELSE "BUY"
           /\ remaining \in Nat /\ call.quantity \in Nat \ {0} /\ remaining <= call.quantity
<1>0. run \in Runs /\ made \in 0 .. ScriptLength /\ ScriptLength \in Nat
  BY ScriptIs DEF DriverInv
<1>1. made >= 1 /\ call = Request(made) /\ remaining \in 0 .. call.quantity
  BY DEF NumberedInv, Numbered
<1>2. made \in 1 .. ScriptLength
  BY <1>0, <1>1
<1>3. GTCOrder(call) /\ call.side = IF made <= Untimed THEN "SELL" ELSE "BUY"
  BY <1>0, <1>1, <1>2, AggressiveCalls
<1>4. call.quantity \in Nat \ {0}
  BY <1>3 DEF GTCOrder
<1> QED
  BY <1>1, <1>2, <1>3, <1>4

LEMMA AggressiveSteps ==
    ASSUME DriverInv, NumberedInv, AskInv, Enough, Aggressive(run), [BenchNext]_benchVars
    PROVE  /\ AskInv' /\ run' = run
           /\ \/ CallMade
              \/ AskRests
              \/ \E l \in Levels : BidBuys(l)
              \/ Idles /\ (pc = "matching" /\ made <= Untimed => pc' = "matching")
<1>0. /\ run \in Runs /\ made \in 0 .. ScriptLength /\ BookShape
      /\ ScriptLength \in Nat /\ Untimed \in Nat
      /\ \A p \in Prices : book[<<"BUY", p>>] = <<>>
      /\ pc = "matching" /\ made <= Untimed => remaining = call.quantity
  BY ScriptIs DEF DriverInv, AskInv
<1>1. /\ run' = run
      /\ \/ CallMade
         \/ Wants /\ (TakesWhole(BestLevel(call)) \/ TakesPart(BestLevel(call)))
         \/ RestsThen
         \/ Idles
  BY NumberedSteps DEF Numbered
<1>2. pc = "matching" =>
         /\ made \in 1 .. ScriptLength /\ GTCOrder(call)
         /\ call.side = IF made <= Untimed THEN "SELL" ELSE "BUY"
         /\ remaining \in Nat /\ call.quantity \in Nat \ {0}
  BY AggressiveCall
<1>3. Untimed' = Untimed /\ (Aggressive(run))'
  BY <1>1 DEF Untimed, Aggressive
<1>4. \A p \in Prices : <<"BUY", p>> \in Levels /\ <<"SELL", p>> \in Levels
  BY DEF Levels, Sides
<1>5. CASE CallMade
  <2>1. book' = book /\ remaining' = call'.quantity
    BY <1>5 DEF CallMade
  <2> QED
    BY <1>0, <1>1, <1>5, <2>1 DEF AskInv
<1>6. ASSUME Wants, NEW l, l = BestLevel(call), TakesWhole(l) \/ TakesPart(l)
      PROVE  AskInv' /\ l \in Levels /\ BidBuys(l)
  <2>1. pc = "matching" /\ MarketableLevels(call) # {} /\ remaining > 0
    BY <1>6 DEF Wants
  <2>2. /\ l \in MarketableLevels(call) /\ l \in Levels /\ 1 \in DOMAIN book[l]
        /\ \A other \in MarketableLevels(call) : ~Ahead(l[1], other[2], l[2])
    BY <1>0, <1>6, <2>1, BestLevelIsMarketable, BestPlaceIsThere
  <2>3. l[1] = Opposite(call.side) /\ book[l] # <<>> /\ l = <<l[1], l[2]>> /\ l[2] \in Prices
    BY <2>2 DEF MarketableLevels, Levels
  <2>4. made > Untimed /\ l[1] = "SELL"
    <3>1. l[1] # "BUY"
      BY <1>0, <2>3
    <3>2. call.side # "SELL"
      BY <2>3, <3>1 DEF Opposite
    <3>3. ~(made <= Untimed)
      BY <1>2, <2>1, <3>2
    <3> QED
      BY <1>0, <1>2, <2>1, <2>3, <3>1, <3>3 DEF Opposite
  <2>5. \A other \in MarketableLevels(call) : ~(other[2] < l[2])
    BY <2>2, <2>4 DEF Ahead
  <2>6. \A p \in Prices : book'[<<"BUY", p>>] = book[<<"BUY", p>>]
    <3> TAKE p \in Prices
    <3> DEFINE m == <<"BUY", p>>
    <3>1. m \in Levels /\ m # l
      <4>1. m \in Levels
        BY <1>4
      <4>2. m[1] = "BUY" /\ l[1] = "SELL" /\ "BUY" # "SELL"
        BY <2>4
      <4> HIDE DEF m
      <4> QED
        BY <4>1, <4>2
    <3>2. CASE TakesWhole(l)
      <4>1. book' = Without(<<l, 1>>)
        BY <3>2 DEF TakesWhole
      <4> HIDE DEF m
      <4>2. book'[m] = book[m]
        BY <1>0, <3>1, <4>1 DEF BookShape, Without
      <4> QED
        BY <4>2 DEF m
    <3>3. CASE TakesPart(l)
      <4> DEFINE x == [book[l][1] EXCEPT !.quantity = book[l][1].quantity - remaining]
      <4>1. book' = [book EXCEPT ![l] = [@ EXCEPT ![1] = x]]
        BY <3>3 DEF TakesPart
      <4> HIDE DEF m, x
      <4>2. book'[m] = book[m]
        BY <1>0, <3>1, <4>1 DEF BookShape
      <4> QED
        BY <4>2 DEF m
    <3> QED
      BY <1>6, <3>2, <3>3
  <2>7. made' = made
    BY <1>6 DEF TakesWhole, TakesPart
  <2>8. AskInv'
    BY <1>0, <1>2, <1>3, <2>1, <2>4, <2>6, <2>7 DEF AskInv
  <2>9. BidBuys(l)
    BY <1>6, <2>1, <2>2, <2>4, <2>5 DEF BidBuys
  <2> QED
    BY <2>2, <2>8, <2>9
<1>7. CASE RestsThen
  <2> DEFINE m == <<"SELL", call.limit>>
             x == [id |-> call.id, quantity |-> call.quantity, lifetime |-> "GTC"]
  <2>1. /\ pc = "matching" /\ pc' = "done" /\ made' = made /\ ~Wants /\ remaining > 0
        /\ book' = [book EXCEPT ![<<call.side, call.limit>>] =
                       Append(@, [id |-> call.id, quantity |-> remaining, lifetime |-> call.tif])]
    BY <1>7 DEF RestsThen, Gains, Unfilled
  <2>2. made <= Untimed
    <3>1. MarketableLevels(call) = {}
      BY <2>1 DEF Wants
    <3> QED
      BY <1>0, <1>2, <2>1, <3>1 DEF Enough
  <2>3. remaining = call.quantity /\ call.side = "SELL" /\ call.limit \in Prices
        /\ call.tif = "GTC"
    BY <1>0, <1>2, <2>1, <2>2 DEF GTCOrder, Limit
  <2>4. book' = [book EXCEPT ![m] = Append(@, x)]
    BY <2>1, <2>3
  <2>5. AskRests
    BY <2>1, <2>2, <2>4 DEF AskRests
  <2>6. \A p \in Prices : <<"BUY", p>> # m
    OBVIOUS
  <2> HIDE DEF m, x
  <2>7. \A p \in Prices : book'[<<"BUY", p>>] = <<>>
    BY <1>0, <1>4, <2>4, <2>6 DEF BookShape
  <2>8. AskInv'
    BY <1>3, <2>1, <2>7 DEF AskInv
  <2> QED
    BY <1>1, <2>5, <2>8
<1>8. CASE Idles
  <2>1. /\ book' = book /\ made' = made
        /\ \/ UNCHANGED <<pc, call, remaining>>
           \/ pc = "matching" /\ remaining = 0 /\ pc' = "done"
           \/ pc = "done" /\ pc' = "idle"
    BY <1>8 DEF Idles
  <2>2. AskInv'
    BY <1>0, <1>3, <2>1 DEF AskInv
  <2>3. pc = "matching" /\ made <= Untimed => pc' = "matching"
    BY <1>0, <1>2, <2>1
  <2> QED
    BY <1>1, <1>8, <2>2, <2>3
<1> QED
  BY <1>1, <1>5, <1>6, <1>7, <1>8

-----------------------------------------------------------------------------
(* What was set up and what was bought of it, w shares per timed call *)

\* The untimed calls whose orders rest.
Placed == IF Through <= Untimed THEN Through ELSE Untimed

\* What the timed calls asked for, and what they got.
Due(w) == (made - Untimed) * w
Sold(w) == IF made <= Untimed THEN 0
           ELSE Due(w) - (IF pc = "matching" THEN remaining ELSE 0)

\* A factor more is a summand more.
LEMMA OneMore ==
    ASSUME NEW n \in Nat, NEW w \in Nat
    PROVE  (n + 1) * w = n * w + w /\ n * w \in Nat
OBVIOUS

LEMMA NoMore ==
    ASSUME NEW n \in Nat, NEW k \in Nat, NEW w \in Nat, n <= k
    PROVE  n * w <= k * w /\ (n >= 1 => w <= n * w)
<1>1. k * w = n * w + (k - n) * w /\ k - n \in Nat
  OBVIOUS
<1>2. (k - n) * w \in Nat /\ n * w \in Nat
  BY <1>1
<1>3. ASSUME n >= 1 PROVE w <= n * w
  <2>1. n * w = w + (n - 1) * w /\ n - 1 \in Nat
    BY <1>3
  <2>2. (n - 1) * w \in Nat
    BY <2>1
  <2> QED
    BY <2>1, <2>2
<1> QED
  BY <1>1, <1>2, <1>3

\* The script asks for so much per timed call.
Asking(w) ==
    w \in Nat \ {0} /\ \A n \in Untimed + 1 .. ScriptLength : Request(n).quantity = w

\* No more is sold than was asked for, nor asked for than the batch asks for.
LEMMA SoldIs ==
    ASSUME DriverInv, NumberedInv, Aggressive(run), NEW w, Asking(w)
    PROVE  /\ Sold(w) \in Nat /\ Placed \in Nat /\ Timed * w \in Nat /\ Sold(w) <= Timed * w
           /\ made > Untimed => Due(w) \in Nat /\ Due(w) <= Timed * w
           /\ pc = "matching" /\ made > Untimed => Sold(w) + remaining = Due(w)
<1>1. /\ made \in 0 .. ScriptLength /\ Untimed \in Nat /\ Timed \in Nat
      /\ ScriptLength = Untimed + Timed
  BY ScriptIs DEF DriverInv
<1>2. w \in Nat \ {0}
  BY DEF Asking
<1>3. Timed * w \in Nat
  BY <1>1, <1>2
<1>4. pc = "matching" => made \in 1 .. ScriptLength /\ remaining \in Nat
                         /\ (made > Untimed => remaining <= w)
  <2> SUFFICES ASSUME pc = "matching"
               PROVE  made \in 1 .. ScriptLength /\ remaining \in Nat
                      /\ (made > Untimed => remaining <= w)
    OBVIOUS
  <2>1. /\ made \in 1 .. ScriptLength /\ call = Request(made)
        /\ remaining \in Nat /\ remaining <= call.quantity
    BY AggressiveCall
  <2>2. made > Untimed => made \in Untimed + 1 .. ScriptLength
    BY <1>1, <2>1
  <2> QED
    BY <2>1, <2>2 DEF Asking
<1>5. Placed \in Nat
  BY <1>1, <1>4 DEF Placed, Through
<1>6. CASE made <= Untimed
  BY <1>1, <1>3, <1>5, <1>6 DEF Sold
<1>7. CASE ~(made <= Untimed)
  <2>1. made - Untimed \in Nat /\ made - Untimed >= 1 /\ made - Untimed <= Timed
    BY <1>1, <1>7
  <2>2. Due(w) <= Timed * w /\ w <= Due(w)
    BY <1>1, <1>2, <2>1, NoMore DEF Due
  <2>3. Due(w) \in Nat
    BY <1>2, <2>1, OneMore DEF Due
  <2>4. Sold(w) = Due(w) - (IF pc = "matching" THEN remaining ELSE 0)
    BY <1>7 DEF Sold
  <2>5. made > Untimed
    BY <1>1, <1>7
  <2> QED
    BY <1>2, <1>3, <1>4, <1>5, <2>2, <2>3, <2>4, <2>5
<1> QED
  BY <1>6, <1>7

\* How a step counts.
LEMMA SoldSteps ==
    ASSUME DriverInv, NumberedInv, AskInv, Enough, Aggressive(run), NEW w, Asking(w),
           [BenchNext]_benchVars
    PROVE  /\ run' = run /\ BookShape /\ UNCHANGED Untimed
           /\ \/ book' = book /\ Placed' = Placed /\ Sold(w)' = Sold(w)
              \/ AskRests /\ Placed' = made /\ Placed = made - 1 /\ made \in 1 .. Untimed
                 /\ Sold(w)' = 0 /\ Sold(w) = 0
              \/ \E l \in Levels :
                    /\ BidBuys(l) /\ Placed' = Untimed /\ Placed = Untimed
                    /\ \/ TakesWhole(l) /\ Sold(w)' = Sold(w) + book[l][1].quantity
                          /\ book[l][1].quantity \in Nat \ {0}
                       \/ TakesPart(l) /\ Sold(w)' = Sold(w) + remaining
<1>1. /\ run \in Runs /\ made \in 0 .. ScriptLength /\ Untimed \in Nat /\ Timed \in Nat
      /\ ScriptLength = Untimed + Timed /\ BookShape
      /\ pc = "matching" /\ made <= Untimed => remaining = call.quantity
  BY ScriptIs DEF DriverInv, AskInv
<1>2. /\ run' = run
      /\ \/ CallMade
         \/ AskRests
         \/ \E l \in Levels : BidBuys(l)
         \/ Idles /\ (pc = "matching" /\ made <= Untimed => pc' = "matching")
  BY AggressiveSteps
<1>3. UNCHANGED Untimed
  BY <1>2 DEF Untimed
<1>4. pc = "matching" => made \in 1 .. ScriptLength /\ remaining \in Nat
  BY AggressiveCall
<1>5. Sold(w) \in Nat /\ (made > Untimed => Due(w) \in Nat)
      /\ (pc = "matching" /\ made > Untimed => Sold(w) + remaining = Due(w))
  BY SoldIs
<1>6. w \in Nat \ {0}
  BY DEF Asking
<1>7. /\ Due(w)' = (made' - Untimed) * w
      /\ Sold(w)' = IF made' <= Untimed THEN 0
                    ELSE Due(w)' - (IF pc' = "matching" THEN remaining' ELSE 0)
  BY <1>3 DEF Sold, Due
<1>8. CASE CallMade
  <2>1. /\ pc = "idle" /\ pc' = "matching" /\ made < ScriptLength /\ made' = made + 1
        /\ remaining' = Request(made + 1).quantity /\ book' = book
    BY <1>8 DEF CallMade
  <2>2. Through' = Through
    BY <1>1, <2>1 DEF Through
  <2>3. Placed' = Placed
    BY <1>3, <2>2 DEF Placed
  <2>4. CASE made' <= Untimed
    <3>1. made <= Untimed
      BY <1>1, <2>1, <2>4
    <3>2. Sold(w) = 0 /\ Sold(w)' = 0
      BY <1>7, <2>4, <3>1 DEF Sold
    <3> QED
      BY <1>1, <1>2, <1>3, <2>1, <2>3, <3>2
  <2>5. CASE ~(made' <= Untimed)
    <3>1. made + 1 \in Untimed + 1 .. ScriptLength
      BY <1>1, <2>1, <2>5
    <3>2. remaining' = w
      BY <2>1, <3>1 DEF Asking
    <3>3. made - Untimed \in Nat /\ made' - Untimed = (made - Untimed) + 1
      BY <1>1, <2>1, <3>1
    <3>4. Due(w)' = Due(w) + w /\ Due(w) \in Nat
      BY <1>6, <1>7, <3>3, OneMore DEF Due
    <3>5. Sold(w)' = Due(w)
      BY <1>6, <1>7, <2>1, <2>5, <3>2, <3>4
    <3>6. Sold(w) = Due(w)
      <4>1. CASE made <= Untimed
        <5>1. made - Untimed = 0
          BY <1>1, <3>3, <4>1
        <5> QED
          BY <1>6, <4>1, <5>1 DEF Sold, Due
      <4>2. CASE ~(made <= Untimed)
        BY <2>1, <3>4, <4>2 DEF Sold
      <4> QED
        BY <4>1, <4>2
    <3> QED
      BY <1>1, <1>2, <1>3, <2>1, <2>3, <3>5, <3>6
  <2> QED
    BY <1>1, <1>2, <1>3, <2>1, <2>3, <2>4, <2>5
<1>9. CASE AskRests
  <2>1. pc = "matching" /\ pc' = "done" /\ made' = made /\ made <= Untimed
    BY <1>9 DEF AskRests
  <2>2. made \in 1 .. Untimed
    BY <1>1, <1>4, <2>1
  <2>3. Through = made - 1 /\ Through' = made
    BY <2>1 DEF Through
  <2>4. Placed = made - 1 /\ Placed' = made
    BY <1>1, <1>3, <2>1, <2>2, <2>3 DEF Placed
  <2>5. Sold(w) = 0 /\ Sold(w)' = 0
    BY <1>7, <2>1 DEF Sold
  <2> QED
    BY <1>1, <1>2, <1>3, <1>9, <2>2, <2>4, <2>5
<1>10. ASSUME NEW l \in Levels, BidBuys(l)
       PROVE  /\ Placed' = Untimed /\ Placed = Untimed
              /\ \/ TakesWhole(l) /\ Sold(w)' = Sold(w) + book[l][1].quantity
                    /\ book[l][1].quantity \in Nat \ {0}
                 \/ TakesPart(l) /\ Sold(w)' = Sold(w) + remaining
  <2>1. /\ pc = "matching" /\ made > Untimed /\ 1 \in DOMAIN book[l]
        /\ TakesWhole(l) \/ TakesPart(l)
    BY <1>10 DEF BidBuys
  <2>2. made' = made /\ pc' \in {"matching", "done"}
    BY <2>1 DEF TakesWhole, TakesPart
  <2>3. Through \in {made - 1, made} /\ Through' \in {made - 1, made}
    BY <2>2 DEF Through
  <2>4. Placed = Untimed /\ Placed' = Untimed
    BY <1>1, <1>3, <2>1, <2>3 DEF Placed
  <2>5. Due(w)' = Due(w) /\ Due(w) \in Nat /\ Sold(w) + remaining = Due(w)
        /\ ~(made' <= Untimed)
    BY <1>1, <1>5, <1>7, <2>1, <2>2 DEF Due
  <2>6. book[l][1].quantity \in Nat \ {0}
    <3>1. OrderOf(book[l][1], Through)
      BY <2>1 DEF NumberedInv, Numbered
    <3> QED
      BY <3>1 DEF OrderOf
  <2>7. CASE TakesWhole(l)
    <3>1. pc' = "matching" /\ remaining' = remaining - book[l][1].quantity
      BY <2>7 DEF TakesWhole
    <3>2. Sold(w)' = Due(w) - (remaining - book[l][1].quantity)
      BY <1>7, <2>5, <3>1
    <3> QED
      BY <1>4, <1>5, <2>1, <2>4, <2>5, <2>6, <2>7, <3>2
  <2>8. CASE TakesPart(l)
    <3>1. pc' = "done"
      BY <2>8 DEF TakesPart
    <3>2. Sold(w)' = Due(w) - 0
      BY <1>7, <2>5, <3>1
    <3> QED
      BY <1>4, <1>5, <2>1, <2>4, <2>5, <2>8, <3>2
  <2> QED
    BY <2>1, <2>7, <2>8
<1>11. CASE Idles /\ (pc = "matching" /\ made <= Untimed => pc' = "matching")
  <2>1. /\ book' = book /\ made' = made
        /\ \/ UNCHANGED <<pc, call, remaining>>
           \/ pc = "matching" /\ remaining = 0 /\ pc' = "done" /\ ~(made <= Untimed)
           \/ pc = "done" /\ pc' = "idle"
    BY <1>11 DEF Idles
  <2>2. Placed' = Placed
    <3>1. CASE pc = "matching" /\ ~(made <= Untimed)
      <4>1. Through \in {made - 1, made} /\ Through' \in {made - 1, made}
        BY <2>1 DEF Through
      <4>2. Placed = Untimed /\ Placed' = Untimed
        BY <1>1, <1>3, <3>1, <4>1 DEF Placed
      <4> QED
        BY <4>2
    <3>2. CASE ~(pc = "matching" /\ ~(made <= Untimed))
      BY <1>3, <2>1, <3>2 DEF Placed, Through
    <3> QED
      BY <3>1, <3>2
  <2>3. Due(w)' = Due(w)
    BY <1>3, <2>1 DEF Due
  <2>4. Sold(w)' = Sold(w)
    BY <1>7, <2>1, <2>3 DEF Sold
  <2> QED
    BY <1>1, <1>2, <1>3, <2>1, <2>2, <2>4
<1> QED
  BY <1>1, <1>2, <1>3, <1>8, <1>9, <1>10, <1>11

-----------------------------------------------------------------------------
(* The asks that are left at a price: so many, of so many shares each *)

StockIs(p, n, q) ==
    /\ Len(book[<<"SELL", p>>]) = n
    /\ \A i \in DOMAIN book[<<"SELL", p>>] : book[<<"SELL", p>>][i].quantity = q

\* And that will be.
StockWillBe(p, n, q) ==
    /\ Len(book'[<<"SELL", p>>]) = n
    /\ \A i \in DOMAIN book'[<<"SELL", p>>] : book'[<<"SELL", p>>][i].quantity = q

LEMMA AskLevel ==
    ASSUME NEW p \in Prices
    PROVE  <<"SELL", p>> \in Levels /\ <<"SELL", p>>[2] = p /\ <<"SELL", p>>[1] = "SELL"
BY DEF Levels, Sides

LEMMA StockStays ==
    ASSUME NEW p, NEW n, NEW q, StockIs(p, n, q), book' = book
    PROVE  StockWillBe(p, n, q)
BY DEF StockIs, StockWillBe

LEMMA StockAfterWhole ==
    ASSUME BookShape, NEW p \in Prices, NEW n, NEW q, StockIs(p, n, q),
           NEW l \in Levels, 1 \in DOMAIN book[l], TakesWhole(l)
    PROVE  StockWillBe(p, n - (IF l = <<"SELL", p>> THEN 1 ELSE 0), q)
<1> DEFINE m == <<"SELL", p>>
<1>1. m \in Levels
  BY AskLevel
<1>2. book' = Without(<<l, 1>>)
  BY DEF TakesWhole
<1>3. Len(book[m]) = n /\ \A i \in DOMAIN book[m] : book[m][i].quantity = q
  BY DEF StockIs
<1> HIDE DEF m
<1>4. /\ Len(book'[m]) = Len(book[m]) - (IF m = l THEN 1 ELSE 0)
      /\ \A i \in DOMAIN book'[m] : \E j \in DOMAIN book[m] : book'[m][i] = book[m][j]
  BY <1>1, <1>2, QueuesAfterWhole
<1>5. Len(book'[m]) = n - (IF l = m THEN 1 ELSE 0)
      /\ \A i \in DOMAIN book'[m] : book'[m][i].quantity = q
  BY <1>3, <1>4
<1> QED
  BY <1>5 DEF StockWillBe, m

LEMMA StockAfterPart ==
    ASSUME BookShape, NumberedInv, Numbered,
           NEW p \in Prices, NEW n \in {0, 1}, NEW q, StockIs(p, n, q),
           NEW l \in Levels, 1 \in DOMAIN book[l], TakesPart(l),
           NEW left, n # 0 => left = IF l = <<"SELL", p>> THEN q - remaining ELSE q
    PROVE  StockWillBe(p, n, left)
<1> DEFINE m == <<"SELL", p>>
           x == [book[l][1] EXCEPT !.quantity = book[l][1].quantity - remaining]
<1>1. m \in Levels
  BY AskLevel
<1>2. Changes(l, x)
  BY DEF TakesPart, Changes
<1>3. Len(book[m]) = n /\ \A i \in DOMAIN book[m] : book[m][i].quantity = q
  BY DEF StockIs
<1>10. n # 0 => left = IF l = m THEN q - remaining ELSE q
  OBVIOUS
<1>4. x.quantity = book[l][1].quantity - remaining
  <2>1. OrderOf(book[l][1], Through)
    BY DEF NumberedInv
  <2> QED
    BY <2>1 DEF OrderOf
<1> HIDE DEF m, x
<1>5. PICK y : y = x
  OBVIOUS
<1>6. Changes(l, y)
  BY <1>2, <1>5
<1>7. /\ DOMAIN book'[m] = DOMAIN book[m] /\ Len(book'[m]) = Len(book[m])
      /\ \A i \in DOMAIN book[m] : book'[m][i] = IF m = l /\ i = 1 THEN y ELSE book[m][i]
  BY <1>1, <1>6, QueuesAfterPart
<1>8. DOMAIN book[m] = 1 .. n
  BY <1>1, <1>3, QueueIs
<1>9. ASSUME NEW i \in DOMAIN book'[m]
      PROVE  book'[m][i].quantity = left
  <2>0. n = 1 /\ left = IF l = m THEN q - remaining ELSE q
    BY <1>7, <1>8, <1>10
  <2>1. i = 1 /\ i \in DOMAIN book[m]
    BY <1>7, <1>8
  <2>2. CASE l = m
    <3>1. book'[m][i] = x
      BY <1>5, <1>7, <2>1, <2>2
    <3>2. book[l][1].quantity = q
      BY <1>3, <2>1, <2>2
    <3> QED
      BY <1>4, <2>0, <2>2, <3>1, <3>2
  <2>3. CASE l # m
    BY <1>3, <1>7, <2>0, <2>1, <2>3
  <2> QED
    BY <2>2, <2>3
<1> QED
  BY <1>3, <1>7, <1>9 DEF StockWillBe, m

LEMMA StockAfterAsk ==
    ASSUME BookShape, NEW p \in Prices, NEW n, NEW q, StockIs(p, n, q),
           AskRests, call.limit \in Prices, p = call.limit => call.quantity = q
    PROVE  StockWillBe(p, n + (IF p = call.limit THEN 1 ELSE 0), q)
<1> DEFINE m == <<"SELL", p>>
           l == <<"SELL", call.limit>>
           x == [id |-> call.id, quantity |-> call.quantity, lifetime |-> "GTC"]
<1>1. m \in Levels /\ l \in Levels /\ (m = l <=> p = call.limit)
  BY AskLevel
<1>2. Joins(l, x)
  BY DEF AskRests, Joins
<1>3. Len(book[m]) = n /\ \A i \in DOMAIN book[m] : book[m][i].quantity = q
  BY DEF StockIs
<1>4. x.quantity = call.quantity
  OBVIOUS
<1> HIDE DEF m, l, x
<1>5. /\ Len(book'[m]) = Len(book[m]) + (IF m = l THEN 1 ELSE 0)
      /\ \A i \in DOMAIN book'[m] :
            \/ \E j \in DOMAIN book[m] : book'[m][i] = book[m][j]
            \/ m = l /\ book'[m][i] = x
  BY <1>1, <1>2, QueuesAfterRest
<1>6. Len(book'[m]) = n + (IF p = call.limit THEN 1 ELSE 0)
      /\ \A i \in DOMAIN book'[m] : book'[m][i].quantity = q
  BY <1>1, <1>3, <1>4, <1>5
<1> QED
  BY <1>6 DEF StockWillBe, m

\* A bid finds the asks that are left at no more than its limit.
LEMMA AskIsMarketable ==
    ASSUME BookShape, NEW p \in Prices, NEW n \in Nat \ {0}, NEW q, StockIs(p, n, q),
           call.side = "BUY", call.limit \in Prices, p <= call.limit
    PROVE  <<"SELL", p>> \in MarketableLevels(call)
<1> DEFINE l == <<"SELL", p>>
<1>1. l \in Levels /\ l[1] = "SELL" /\ l[2] = p
  BY AskLevel
<1>2. Len(book[l]) = n
  BY DEF StockIs
<1> HIDE DEF l
<1>3. book[l] # <<>>
  BY <1>1, <1>2, QueueIs
<1>4. Crosses(call.side, call.limit, p)
  BY PriceRange, LaddersFit DEF Crosses, Ahead, Prices
<1> QED
  BY <1>1, <1>3, <1>4 DEF MarketableLevels, Opposite, l

\* A bid that buys does so at a price where asks are left.
LEMMA BidBuysAt ==
    ASSUME BookShape, NEW l \in Levels, BidBuys(l)
    PROVE  /\ l = <<"SELL", l[2]>> /\ l[2] \in Prices /\ 1 \in DOMAIN book[l]
           /\ \A n, q : StockIs(l[2], n, q) => n >= 1 /\ n \in Nat /\ book[l][1].quantity = q
<1>1. l[1] = "SELL" /\ 1 \in DOMAIN book[l]
  BY DEF BidBuys
<1>2. l = <<"SELL", l[2]>> /\ l[2] \in Prices
  BY <1>1 DEF Levels
<1>3. Len(book[l]) \in Nat /\ DOMAIN book[l] = 1 .. Len(book[l])
  BY QueueIs
<1>4. Len(book[l]) >= 1
  BY <1>1, <1>3
<1>5. ASSUME NEW n, NEW q, StockIs(l[2], n, q)
      PROVE  n >= 1 /\ n \in Nat /\ book[l][1].quantity = q
  <2>1. Len(book[l]) = n /\ \A i \in DOMAIN book[l] : book[l][i].quantity = q
    BY <1>2, <1>5 DEF StockIs
  <2> QED
    BY <1>1, <1>3, <1>4, <2>1
<1> QED
  BY <1>1, <1>2, <1>5

-----------------------------------------------------------------------------
(* One large ask *)

OfOneMaker(b) == \A p \in Prices : StockIs(p, IF p = 1 THEN Placed ELSE 0, b + 1 - Sold(1))

LEMMA MakerAsks ==
    ASSUME run \in Runs, NEW b \in Batches, run = FromOneMaker(b, "GTC")
    PROVE  Aggressive(run) /\ Asking(1)
<1>1. /\ b \in Nat \ {0} /\ Untimed = 1 /\ ScriptLength = b + 1
      /\ \A n \in 2 .. b + 1 : Request(n) = Limit(n, 1, 1, "BUY", "GTC")
  BY MakerCalls
<1>2. \A n \in Untimed + 1 .. ScriptLength : Request(n).quantity = 1
  BY <1>1 DEF Limit
<1> QED
  BY <1>2 DEF Aggressive, Asking

LEMMA MakerSuffices ==
    ASSUME DriverInv, NumberedInv, NEW b \in Batches, run = FromOneMaker(b, "GTC"), OfOneMaker(b)
    PROVE  Enough
<1> SUFFICES ASSUME pc = "matching", made > Untimed, remaining > 0
             PROVE  MarketableLevels(call) # {}
  BY DEF Enough
<1>0. run \in Runs /\ BookShape
  BY DEF DriverInv
<1>1. Aggressive(run)
  BY <1>0, MakerAsks
<1>2. /\ b \in Nat \ {0} /\ Untimed = 1 /\ ScriptLength = b + 1 /\ 1 \in Prices
      /\ \A n \in 2 .. b + 1 : Request(n) = Limit(n, 1, 1, "BUY", "GTC")
  BY <1>0, MakerCalls
<1>3. made \in 2 .. b + 1 /\ call = Request(made)
  BY <1>1, <1>2, AggressiveCall
<1>4. call.side = "BUY" /\ call.limit = 1
  <2>1. call = Limit(made, 1, 1, "BUY", "GTC")
    BY <1>2, <1>3
  <2> QED
    BY <2>1 DEF Limit
<1>5. Placed = 1
  BY <1>2, <1>3 DEF Placed, Through
<1>6. StockIs(1, 1, b + 1 - Sold(1))
  BY <1>2, <1>5 DEF OfOneMaker
<1>7. <<"SELL", 1>> \in MarketableLevels(call)
  BY <1>0, <1>2, <1>4, <1>6, AskIsMarketable
<1> QED
  BY <1>7

LEMMA MakerKept ==
    ASSUME DriverInv, NumberedInv, AskInv, NEW b \in Batches, run = FromOneMaker(b, "GTC"),
           OfOneMaker(b), [BenchNext]_benchVars
    PROVE  OfOneMaker(b)'
<1>0. run \in Runs /\ BookShape
  BY DEF DriverInv
<1>1. Aggressive(run) /\ Asking(1) /\ Enough
  BY <1>0, MakerAsks, MakerSuffices
<1>2. /\ b \in Nat \ {0} /\ Untimed = 1 /\ Timed = b /\ ScriptLength = b + 1 /\ 1 \in Prices
      /\ Request(1) = Limit(1, 1, b + 1, "SELL", "GTC")
  BY <1>0, MakerCalls
<1>3. /\ Sold(1) \in Nat /\ Placed \in Nat
      /\ made > Untimed => Due(1) \in Nat /\ Due(1) <= b
      /\ pc = "matching" /\ made > Untimed => Sold(1) + remaining = Due(1)
  <2>1. Timed * 1 = b
    BY <1>2
  <2> QED
    BY <1>1, <2>1, SoldIs
<1>4. \/ book' = book /\ Placed' = Placed /\ Sold(1)' = Sold(1)
      \/ AskRests /\ Placed' = made /\ Placed = made - 1 /\ made \in 1 .. Untimed
         /\ Sold(1)' = 0 /\ Sold(1) = 0
      \/ \E l \in Levels :
            /\ BidBuys(l) /\ Placed' = Untimed /\ Placed = Untimed
            /\ \/ TakesWhole(l)
               \/ TakesPart(l) /\ Sold(1)' = Sold(1) + remaining
  BY <1>1, SoldSteps
<1> DEFINE q == b + 1 - Sold(1)
           N(p) == IF p = 1 THEN Placed ELSE 0
<1>5. \A p \in Prices : StockIs(p, N(p), q)
  BY DEF OfOneMaker
<1> SUFFICES ASSUME NEW p \in Prices
             PROVE  StockWillBe(p, IF p = 1 THEN Placed' ELSE 0, b + 1 - Sold(1)')
  BY DEF OfOneMaker, StockIs, StockWillBe
<1>6. p = 1 \/ p # 1
  OBVIOUS
<1>7. CASE book' = book /\ Placed' = Placed /\ Sold(1)' = Sold(1)
  <2>1. StockWillBe(p, N(p), q)
    <3> HIDE DEF q, N
    <3> QED
      BY <1>5, <1>7, StockStays
  <2> QED
    BY <1>7, <2>1
<1>8. CASE AskRests /\ Placed' = made /\ Placed = made - 1 /\ made \in 1 .. Untimed
           /\ Sold(1)' = 0 /\ Sold(1) = 0
  <2>1. made = 1 /\ Placed = 0 /\ Placed' = 1 /\ q = b + 1
    BY <1>2, <1>8
  <2>2. call = Request(1)
    BY <1>1, <1>8, <2>1, AggressiveCall DEF AskRests
  <2>3. call.limit = 1 /\ call.quantity = b + 1
    BY <1>2, <2>2 DEF Limit
  <2>4. StockIs(p, 0, q)
    BY <1>5, <2>1
  <2> HIDE DEF q
  <2>5. StockWillBe(p, 0 + (IF p = call.limit THEN 1 ELSE 0), q)
    BY <1>0, <1>2, <1>8, <2>1, <2>3, <2>4, StockAfterAsk
  <2>6. 0 + (IF p = call.limit THEN 1 ELSE 0) = (IF p = 1 THEN Placed' ELSE 0)
        /\ q = b + 1 - Sold(1)'
    BY <1>2, <1>8, <2>1, <2>3
  <2> QED
    BY <2>5, <2>6
<1>9. ASSUME NEW l \in Levels, BidBuys(l), Placed' = Untimed, Placed = Untimed,
             TakesWhole(l) \/ (TakesPart(l) /\ Sold(1)' = Sold(1) + remaining)
      PROVE  StockWillBe(p, IF p = 1 THEN Placed' ELSE 0, b + 1 - Sold(1)')
  <2>1. pc = "matching" /\ made > Untimed /\ remaining > 0
    BY <1>9 DEF BidBuys
  <2>2. remaining \in Nat
    BY <1>1, <2>1, AggressiveCall
  <2>3. remaining < q
    BY <1>2, <1>3, <2>1, <2>2
  <2>4. /\ l = <<"SELL", l[2]>> /\ l[2] \in Prices /\ 1 \in DOMAIN book[l]
        /\ \A n, x : StockIs(l[2], n, x) => n >= 1 /\ n \in Nat /\ book[l][1].quantity = x
    BY <1>0, <1>9, BidBuysAt
  <2>5. StockIs(l[2], N(l[2]), q) /\ StockIs(p, N(p), q)
    BY <1>5, <2>4
  <2>6. N(p) \in {0, 1} /\ N(p) = IF p = 1 THEN Placed' ELSE 0
    BY <1>2, <1>9
  <2>10. l[2] = 1
    <3>1. N(l[2]) >= 1
      <4> HIDE DEF N, q
      <4> QED
        BY <2>4, <2>5
    <3> QED
      BY <3>1
  <2>7. book[l][1].quantity = q
    <3> HIDE DEF N, q
    <3> QED
      BY <2>4, <2>5
  <2>8. TakesPart(l) /\ Sold(1)' = Sold(1) + remaining
    <3>1. ASSUME TakesWhole(l) PROVE FALSE
      <4>1. q <= remaining
        BY <2>7, <3>1 DEF TakesWhole
      <4> QED
        BY <1>2, <1>3, <2>2, <2>3, <4>1
    <3> QED
      BY <1>9, <3>1
  <2>9. N(p) # 0 => b + 1 - Sold(1)' = IF l = <<"SELL", p>> THEN q - remaining ELSE q
    <3>1. N(p) # 0 => l = <<"SELL", p>>
      BY <2>4, <2>10
    <3>2. q - remaining = b + 1 - Sold(1)'
      BY <1>2, <1>3, <2>2, <2>8
    <3> QED
      BY <3>1, <3>2
  <2> DEFINE left == b + 1 - Sold(1)'
  <2>11. StockWillBe(p, N(p), left)
    <3>1. PICK x : x = left
      OBVIOUS
    <3>2. N(p) # 0 => x = IF l = <<"SELL", p>> THEN q - remaining ELSE q
      BY <2>9, <3>1
    <3> HIDE DEF N, q, left
    <3>3. StockWillBe(p, N(p), x)
      BY <1>0, <1>1, <2>4, <2>5, <2>6, <2>8, <3>2, StockAfterPart DEF Numbered
    <3> QED
      BY <3>1, <3>3
  <2> QED
    BY <2>6, <2>11
<1> QED
  BY <1>4, <1>7, <1>8, <1>9

-----------------------------------------------------------------------------
(* One level of asks *)

OfOneLevel == \A p \in Prices : StockIs(p, IF p = 1 THEN Placed - Sold(1) ELSE 0, 1)

LEMMA LevelAsks ==
    ASSUME run \in Runs, NEW b \in Batches, run = FromOneLevel(b, "GTC")
    PROVE  Aggressive(run) /\ Asking(1)
<1>1. /\ b \in Nat \ {0} /\ Untimed = b /\ ScriptLength = b + b
      /\ \A n \in b + 1 .. b + b : Request(n) = Limit(n, 1, 1, "BUY", "GTC")
  BY LevelCalls
<1>2. \A n \in Untimed + 1 .. ScriptLength : Request(n).quantity = 1
  BY <1>1 DEF Limit
<1> QED
  BY <1>2 DEF Aggressive, Asking

LEMMA LevelSuffices ==
    ASSUME DriverInv, NumberedInv, NEW b \in Batches, run = FromOneLevel(b, "GTC"), OfOneLevel
    PROVE  Enough
<1> SUFFICES ASSUME pc = "matching", made > Untimed, remaining > 0
             PROVE  MarketableLevels(call) # {}
  BY DEF Enough
<1>0. run \in Runs /\ BookShape
  BY DEF DriverInv
<1>1. Aggressive(run) /\ Asking(1)
  BY <1>0, LevelAsks
<1>2. /\ b \in Nat \ {0} /\ Untimed = b /\ Timed = b /\ ScriptLength = b + b /\ 1 \in Prices
      /\ \A n \in b + 1 .. b + b : Request(n) = Limit(n, 1, 1, "BUY", "GTC")
  BY <1>0, LevelCalls
<1>3. made \in b + 1 .. b + b /\ call = Request(made) /\ remaining \in Nat
  BY <1>1, <1>2, AggressiveCall
<1>4. call.side = "BUY" /\ call.limit = 1
  <2>1. call = Limit(made, 1, 1, "BUY", "GTC")
    BY <1>2, <1>3
  <2> QED
    BY <2>1 DEF Limit
<1>5. Placed = b
  BY <1>2, <1>3 DEF Placed, Through
<1>6. Sold(1) \in Nat /\ Sold(1) + remaining = Due(1) /\ Due(1) <= b /\ Due(1) \in Nat
  <2>1. Timed * 1 = b
    BY <1>2
  <2> QED
    BY <1>1, <2>1, SoldIs
<1>7. b - Sold(1) \in Nat \ {0}
  BY <1>2, <1>3, <1>6
<1>8. StockIs(1, b - Sold(1), 1)
  BY <1>2, <1>5 DEF OfOneLevel
<1>9. <<"SELL", 1>> \in MarketableLevels(call)
  BY <1>0, <1>2, <1>4, <1>7, <1>8, AskIsMarketable
<1> QED
  BY <1>9

LEMMA LevelKept ==
    ASSUME DriverInv, NumberedInv, AskInv, NEW b \in Batches, run = FromOneLevel(b, "GTC"),
           OfOneLevel, [BenchNext]_benchVars
    PROVE  OfOneLevel'
<1>0. run \in Runs /\ BookShape
  BY DEF DriverInv
<1>1. Aggressive(run) /\ Asking(1) /\ Enough
  BY <1>0, LevelAsks, LevelSuffices
<1>2. /\ b \in Nat \ {0} /\ Untimed = b /\ Timed = b /\ ScriptLength = b + b /\ 1 \in Prices
      /\ \A n \in 1 .. b : Request(n) = Limit(n, 1, 1, "SELL", "GTC")
  BY <1>0, LevelCalls
<1>3. Sold(1) \in Nat /\ Placed \in Nat
  BY <1>1, SoldIs
<1>4. \/ book' = book /\ Placed' = Placed /\ Sold(1)' = Sold(1)
      \/ AskRests /\ Placed' = made /\ Placed = made - 1 /\ made \in 1 .. Untimed
         /\ Sold(1)' = 0 /\ Sold(1) = 0
      \/ \E l \in Levels :
            /\ BidBuys(l) /\ Placed' = Untimed /\ Placed = Untimed
            /\ \/ TakesWhole(l) /\ Sold(1)' = Sold(1) + book[l][1].quantity
               \/ TakesPart(l)
  BY <1>1, SoldSteps
<1> DEFINE N(p) == IF p = 1 THEN Placed - Sold(1) ELSE 0
<1>5. \A p \in Prices : StockIs(p, N(p), 1)
  BY DEF OfOneLevel
<1> SUFFICES ASSUME NEW p \in Prices
             PROVE  StockWillBe(p, IF p = 1 THEN Placed' - Sold(1)' ELSE 0, 1)
  BY DEF OfOneLevel, StockIs, StockWillBe
<1>7. CASE book' = book /\ Placed' = Placed /\ Sold(1)' = Sold(1)
  <2>1. StockWillBe(p, N(p), 1)
    <3> HIDE DEF N
    <3> QED
      BY <1>5, <1>7, StockStays
  <2> QED
    BY <1>7, <2>1
<1>8. CASE AskRests /\ Placed' = made /\ Placed = made - 1 /\ made \in 1 .. Untimed
           /\ Sold(1)' = 0 /\ Sold(1) = 0
  <2>1. made \in 1 .. b
    BY <1>2, <1>8
  <2>2. call = Request(made)
    BY <1>1, <1>8, AggressiveCall DEF AskRests
  <2>3. call.limit = 1 /\ call.quantity = 1
    <3>1. call = Limit(made, 1, 1, "SELL", "GTC")
      BY <1>2, <2>1, <2>2
    <3> QED
      BY <3>1 DEF Limit
  <2>4. StockWillBe(p, N(p) + (IF p = call.limit THEN 1 ELSE 0), 1)
    <3> HIDE DEF N
    <3> QED
      BY <1>0, <1>2, <1>5, <1>8, <2>3, StockAfterAsk
  <2>5. N(p) + (IF p = call.limit THEN 1 ELSE 0) = IF p = 1 THEN Placed' - Sold(1)' ELSE 0
    BY <1>2, <1>8, <2>1, <2>3
  <2> QED
    BY <2>4, <2>5
<1>9. ASSUME NEW l \in Levels, BidBuys(l), Placed' = Untimed, Placed = Untimed,
             (TakesWhole(l) /\ Sold(1)' = Sold(1) + book[l][1].quantity) \/ TakesPart(l)
      PROVE  StockWillBe(p, IF p = 1 THEN Placed' - Sold(1)' ELSE 0, 1)
  <2>1. pc = "matching" /\ remaining > 0
    BY <1>9 DEF BidBuys
  <2>2. remaining \in Nat
    BY <1>1, <2>1, AggressiveCall
  <2>4. /\ l = <<"SELL", l[2]>> /\ l[2] \in Prices /\ 1 \in DOMAIN book[l]
        /\ \A n, x : StockIs(l[2], n, x) => n >= 1 /\ n \in Nat /\ book[l][1].quantity = x
    BY <1>0, <1>9, BidBuysAt
  <2>5. StockIs(l[2], N(l[2]), 1) /\ StockIs(p, N(p), 1)
    BY <1>5, <2>4
  <2>6. book[l][1].quantity = 1 /\ N(l[2]) >= 1
    <3> HIDE DEF N
    <3> QED
      BY <2>4, <2>5
  <2>7. l[2] = 1
    BY <2>6
  <2>8. TakesWhole(l) /\ Sold(1)' = Sold(1) + 1
    <3>1. ~TakesPart(l)
      BY <2>1, <2>2, <2>6 DEF TakesPart
    <3> QED
      BY <1>9, <2>6, <3>1
  <2>9. StockWillBe(p, N(p) - (IF l = <<"SELL", p>> THEN 1 ELSE 0), 1)
    <3> HIDE DEF N
    <3> QED
      BY <1>0, <2>4, <2>5, <2>8, StockAfterWhole
  <2>10. l = <<"SELL", p>> <=> p = 1
    BY <2>4, <2>7
  <2>11. N(p) - (IF l = <<"SELL", p>> THEN 1 ELSE 0) = IF p = 1 THEN Placed' - Sold(1)' ELSE 0
    BY <1>2, <1>3, <1>9, <2>8, <2>10
  <2> QED
    BY <2>9, <2>11
<1> QED
  BY <1>4, <1>7, <1>8, <1>9

-----------------------------------------------------------------------------
(* A level for each ask *)

OfLevels(d) == \A p \in Prices : StockIs(p, IF Sold(d) < p /\ p <= Placed THEN 1 ELSE 0, 1)

LEMMA SweepAsks ==
    ASSUME run \in Runs, NEW b \in Batches, NEW d \in Depths, run = Sweep(b, d, "GTC")
    PROVE  Aggressive(run) /\ Asking(d)
<1> DEFINE k == b * d
<1>1. /\ d \in Nat \ {0} /\ Untimed = k /\ ScriptLength = k + b
      /\ \A n \in k + 1 .. k + b : Request(n) = Limit(n, (n - k) * d, d, "BUY", "GTC")
  BY SweepCalls
<1> HIDE DEF k
<1>2. \A n \in Untimed + 1 .. ScriptLength : Request(n).quantity = d
  <2> TAKE n \in Untimed + 1 .. ScriptLength
  <2> DEFINE price == (n - k) * d
  <2>1. Request(n) = Limit(n, price, d, "BUY", "GTC")
    BY <1>1
  <2> HIDE DEF price
  <2> QED
    BY <2>1 DEF Limit
<1> QED
  BY <1>1, <1>2 DEF Aggressive, Asking

LEMMA SweepSuffices ==
    ASSUME DriverInv, NumberedInv, NEW b \in Batches, NEW d \in Depths,
           run = Sweep(b, d, "GTC"), OfLevels(d)
    PROVE  Enough
<1> SUFFICES ASSUME pc = "matching", made > Untimed, remaining > 0
             PROVE  MarketableLevels(call) # {}
  BY DEF Enough
<1>0. run \in Runs /\ BookShape
  BY DEF DriverInv
<1>1. Aggressive(run) /\ Asking(d)
  BY <1>0, SweepAsks
<1> DEFINE k == b * d
<1>2. /\ k \in Nat \ {0} /\ b \in Nat \ {0} /\ Untimed = k /\ Timed = b /\ ScriptLength = k + b
      /\ 1 .. k \subseteq Prices
      /\ \A n \in k + 1 .. k + b :
            /\ Request(n) = Limit(n, (n - k) * d, d, "BUY", "GTC")
            /\ (n - k) * d \in 1 .. k
  BY <1>0, SweepCalls
<1>3. /\ Sold(d) \in Nat /\ Sold(d) + remaining = Due(d) /\ Due(d) <= k /\ Due(d) \in Nat
      /\ Due(d) = (made - k) * d
  BY <1>1, <1>2, SoldIs DEF Due
<1> HIDE DEF k
<1>4. made \in k + 1 .. k + b /\ call = Request(made) /\ remaining \in Nat
  BY <1>1, <1>2, AggressiveCall
<1>5. call.side = "BUY" /\ call.limit = Due(d) /\ Due(d) \in Prices
  <2>1. call = Limit(made, (made - k) * d, d, "BUY", "GTC") /\ (made - k) * d \in 1 .. k
    BY <1>2, <1>4
  <2>2. call = Limit(made, Due(d), d, "BUY", "GTC") /\ Due(d) \in 1 .. k
    BY <1>3, <2>1
  <2> QED
    BY <1>2, <2>2 DEF Limit
<1>6. Placed = k
  BY <1>2, <1>4 DEF Placed, Through
<1> DEFINE p == Sold(d) + 1
<1>7. p \in 1 .. k /\ p <= Due(d) /\ Sold(d) < p
  BY <1>2, <1>3, <1>4
<1>8. p \in Prices /\ p <= Placed
  BY <1>2, <1>6, <1>7
<1> HIDE DEF p
<1>9. StockIs(p, 1, 1)
  BY <1>7, <1>8 DEF OfLevels
<1>10. <<"SELL", p>> \in MarketableLevels(call)
  BY <1>0, <1>5, <1>7, <1>8, <1>9, AskIsMarketable
<1> QED
  BY <1>10

LEMMA SweepKept ==
    ASSUME DriverInv, NumberedInv, AskInv, NEW b \in Batches, NEW d \in Depths,
           run = Sweep(b, d, "GTC"), OfLevels(d), [BenchNext]_benchVars
    PROVE  OfLevels(d)'
<1>0. run \in Runs /\ BookShape
  BY DEF DriverInv
<1>1. Aggressive(run) /\ Asking(d) /\ Enough
  BY <1>0, SweepAsks, SweepSuffices
<1> DEFINE k == b * d
<1>2. /\ k \in Nat \ {0} /\ Untimed = k /\ 1 .. k \subseteq Prices
      /\ \A n \in 1 .. k : Request(n) = Limit(n, n, 1, "SELL", "GTC")
  BY <1>0, SweepCalls
<1> HIDE DEF k
<1>3. Sold(d) \in Nat /\ Placed \in Nat
  BY <1>1, SoldIs
<1>4. \/ book' = book /\ Placed' = Placed /\ Sold(d)' = Sold(d)
      \/ AskRests /\ Placed' = made /\ Placed = made - 1 /\ made \in 1 .. Untimed
         /\ Sold(d)' = 0 /\ Sold(d) = 0
      \/ \E l \in Levels :
            /\ BidBuys(l) /\ Placed' = Untimed /\ Placed = Untimed
            /\ \/ TakesWhole(l) /\ Sold(d)' = Sold(d) + book[l][1].quantity
               \/ TakesPart(l)
  BY <1>1, SoldSteps
<1> DEFINE N(p) == IF Sold(d) < p /\ p <= Placed THEN 1 ELSE 0
<1>5. \A p \in Prices : StockIs(p, N(p), 1)
  BY DEF OfLevels
<1>6. Prices \subseteq Nat
  BY PriceRange, LaddersFit DEF Prices
<1> SUFFICES ASSUME NEW p \in Prices
             PROVE  StockWillBe(p, IF Sold(d)' < p /\ p <= Placed' THEN 1 ELSE 0, 1)
  BY DEF OfLevels, StockIs, StockWillBe
<1>7. CASE book' = book /\ Placed' = Placed /\ Sold(d)' = Sold(d)
  <2>1. StockWillBe(p, N(p), 1)
    <3> HIDE DEF N
    <3> QED
      BY <1>5, <1>7, StockStays
  <2> QED
    BY <1>7, <2>1
<1>8. CASE AskRests /\ Placed' = made /\ Placed = made - 1 /\ made \in 1 .. Untimed
           /\ Sold(d)' = 0 /\ Sold(d) = 0
  <2>1. made \in 1 .. k
    BY <1>2, <1>8
  <2>2. call = Request(made)
    BY <1>1, <1>8, AggressiveCall DEF AskRests
  <2>3. call.limit = made /\ call.quantity = 1 /\ made \in Prices
    <3>1. call = Limit(made, made, 1, "SELL", "GTC")
      BY <1>2, <2>1, <2>2
    <3> QED
      BY <1>2, <2>1, <3>1 DEF Limit
  <2>4. StockWillBe(p, N(p) + (IF p = call.limit THEN 1 ELSE 0), 1)
    <3> HIDE DEF N
    <3> QED
      BY <1>0, <1>5, <1>8, <2>3, StockAfterAsk
  <2>5. N(p) + (IF p = call.limit THEN 1 ELSE 0) = IF Sold(d)' < p /\ p <= Placed' THEN 1 ELSE 0
    <3>1. p \in Nat /\ made \in Nat \ {0}
      BY <1>2, <1>6, <2>1
    <3> QED
      BY <1>8, <2>3, <3>1
  <2> QED
    BY <2>4, <2>5
<1>9. ASSUME NEW l \in Levels, BidBuys(l), Placed' = Untimed, Placed = Untimed,
             (TakesWhole(l) /\ Sold(d)' = Sold(d) + book[l][1].quantity) \/ TakesPart(l)
      PROVE  StockWillBe(p, IF Sold(d)' < p /\ p <= Placed' THEN 1 ELSE 0, 1)
  <2>1. /\ pc = "matching" /\ remaining > 0 /\ made > Untimed
        /\ l \in MarketableLevels(call) /\ \A other \in MarketableLevels(call) : ~(other[2] < l[2])
    BY <1>9 DEF BidBuys
  <2>2. remaining \in Nat /\ call.side = "BUY" /\ call.limit \in Prices
    <3>1. Untimed \in Nat /\ made \in Nat
      BY <1>0, ScriptIs DEF DriverInv
    <3> QED
      BY <1>1, <2>1, <3>1, AggressiveCall DEF GTCOrder
  <2>4. /\ l = <<"SELL", l[2]>> /\ l[2] \in Prices /\ 1 \in DOMAIN book[l]
        /\ \A n, x : StockIs(l[2], n, x) => n >= 1 /\ n \in Nat /\ book[l][1].quantity = x
    BY <1>0, <1>9, BidBuysAt
  <2>5. StockIs(l[2], N(l[2]), 1) /\ StockIs(p, N(p), 1)
    BY <1>5, <2>4
  <2>6. book[l][1].quantity = 1 /\ N(l[2]) >= 1
    <3> HIDE DEF N
    <3> QED
      BY <2>4, <2>5
  <2>7. Sold(d) < l[2] /\ l[2] <= Placed /\ l[2] \in Nat
    <3>1. l[2] \in Nat
      BY <1>6, <2>4
    <3>2. N(l[2]) >= 1
      BY <2>6
    <3>3. CASE ~(Sold(d) < l[2] /\ l[2] <= Placed)
      <4>1. N(l[2]) = 0
        BY <3>3
      <4> QED
        BY <3>2, <4>1
    <3> QED
      BY <3>1, <3>3
  <2> DEFINE next == Sold(d) + 1
  <2>8. next \in 1 .. k /\ next <= l[2] /\ Sold(d) < next /\ next <= Placed
    BY <1>2, <1>3, <1>9, <2>7
  <2>9. next \in Prices /\ StockIs(next, 1, 1)
    BY <1>2, <1>5, <2>8
  <2>10. l[2] <= call.limit
    <3>1. Crosses(call.side, call.limit, l[2])
      BY <2>1 DEF MarketableLevels
    <3>2. call.limit # None
      BY <2>2, NoneIsNoValue, PriceRange DEF Prices, RequestPrices
    <3>3. ~(l[2] > call.limit) /\ call.limit \in Nat
      BY <1>6, <2>2, <3>1, <3>2 DEF Crosses, Ahead
    <3> QED
      BY <2>7, <3>3
  <2> HIDE DEF next
  <2>11. <<"SELL", next>> \in MarketableLevels(call)
    <3>1. next <= call.limit
      <4>1. next \in Nat /\ l[2] \in Nat /\ call.limit \in Nat
        BY <1>6, <2>2, <2>7, <2>9
      <4> QED
        BY <2>8, <2>10, <4>1
    <3> QED
      BY <1>0, <2>2, <2>9, <3>1, AskIsMarketable
  <2>12. l[2] = next
    <3>1. ~(next < l[2])
      <4>1. <<"SELL", next>>[2] = next
        BY <2>9, AskLevel
      <4> QED
        BY <2>1, <2>11, <4>1
    <3> QED
      BY <1>6, <2>7, <2>8, <2>9, <3>1
  <2>13. TakesWhole(l) /\ Sold(d)' = next
    <3>1. ~TakesPart(l)
      BY <2>1, <2>2, <2>6 DEF TakesPart
    <3> QED
      BY <1>9, <2>6, <3>1 DEF next
  <2>14. StockWillBe(p, N(p) - (IF l = <<"SELL", p>> THEN 1 ELSE 0), 1)
    <3> HIDE DEF N
    <3> QED
      BY <1>0, <2>4, <2>5, <2>13, StockAfterWhole
  <2>15. l = <<"SELL", p>> <=> p = next
    BY <2>4, <2>12
  <2>16. N(p) - (IF l = <<"SELL", p>> THEN 1 ELSE 0)
            = IF Sold(d)' < p /\ p <= Placed' THEN 1 ELSE 0
    <3>1. p \in Nat
      BY <1>6
    <3> QED
      BY <1>3, <1>9, <2>8, <2>13, <2>15, <3>1 DEF next
  <2> QED
    BY <2>14, <2>16
<1> QED
  BY <1>4, <1>7, <1>8, <1>9

-----------------------------------------------------------------------------
(* The measurement *)

\* The asks that an aggressive batch has left.
StockInv ==
    \A b \in Batches :
        /\ run = FromOneMaker(b, "GTC") => OfOneMaker(b)
        /\ run = FromOneLevel(b, "GTC") => OfOneLevel
        /\ \A d \in Depths : run = Sweep(b, d, "GTC") => OfLevels(d)

LEMMA StockStarts ==
    ASSUME BenchInit
    PROVE  StockInv
<1>1. pc = "idle" /\ made = 0 /\ book = [l \in Levels |-> <<>>] /\ run \in Runs
  BY DEF BenchInit, Init
<1>2. Untimed \in Nat
  BY <1>1, ScriptIs
<1>3. Placed = 0 /\ \A w : Sold(w) = 0
  BY <1>1, <1>2 DEF Placed, Through, Sold
<1>4. \A p \in Prices : \A q : StockIs(p, 0, q)
  <2> TAKE p \in Prices
  <2>1. <<"SELL", p>> \in Levels
    BY AskLevel
  <2>2. book[<<"SELL", p>>] = <<>>
    BY <1>1, <2>1
  <2> QED
    BY <2>2 DEF StockIs
<1>5. \A b : OfOneMaker(b)
  BY <1>3, <1>4 DEF OfOneMaker
<1>6. OfOneLevel
  BY <1>3, <1>4 DEF OfOneLevel
<1>7. \A d : OfLevels(d)
  <2>1. \A p \in Prices : ~(0 < p /\ p <= 0)
    BY PriceRange, LaddersFit DEF Prices
  <2> QED
    BY <1>3, <1>4, <2>1 DEF OfLevels
<1> QED
  BY <1>5, <1>6, <1>7 DEF StockInv

LEMMA StockKept ==
    ASSUME DriverInv, NumberedInv, AskInv, StockInv, run' = run, [BenchNext]_benchVars
    PROVE  StockInv'
<1>1. ASSUME NEW b \in Batches
      PROVE  /\ run' = FromOneMaker(b, "GTC") => OfOneMaker(b)'
             /\ run' = FromOneLevel(b, "GTC") => OfOneLevel'
             /\ \A d \in Depths : run' = Sweep(b, d, "GTC") => OfLevels(d)'
  <2>1. run' = FromOneMaker(b, "GTC") => OfOneMaker(b)'
    BY MakerKept DEF StockInv
  <2>2. run' = FromOneLevel(b, "GTC") => OfOneLevel'
    BY LevelKept DEF StockInv
  <2>3. \A d \in Depths : run' = Sweep(b, d, "GTC") => OfLevels(d)'
    BY SweepKept DEF StockInv
  <2> QED
    BY <2>1, <2>2, <2>3
<1> QED
  BY <1>1 DEF StockInv

\* An aggressive batch finds enough.
LEMMA StockSuffices ==
    ASSUME DriverInv, NumberedInv, StockInv, Aggressive(run)
    PROVE  Enough
<1>1. PICK b \in Batches :
        \/ run = FromOneMaker(b, "GTC")
        \/ run = FromOneLevel(b, "GTC")
        \/ \E d \in Depths : run = Sweep(b, d, "GTC")
  BY DEF Aggressive
<1>2. CASE run = FromOneMaker(b, "GTC")
  BY <1>2, MakerSuffices DEF StockInv
<1>3. CASE run = FromOneLevel(b, "GTC")
  BY <1>3, LevelSuffices DEF StockInv
<1>4. CASE \E d \in Depths : run = Sweep(b, d, "GTC")
  BY <1>4, SweepSuffices DEF StockInv
<1> QED
  BY <1>1, <1>2, <1>3, <1>4

\* So that what rests is counted.
LEMMA RestingIsCounted ==
    ASSUME DriverInv, NumberedInv, StockInv
    PROVE  RestsAsCounted
<1> SUFFICES ASSUME Unfilled
             PROVE  MayRest
  BY DEF RestsAsCounted
<1>1. pc = "matching" /\ ~Wants /\ remaining > 0 /\ call.tif \in Lifetimes
  BY DEF Unfilled
<1>2. /\ run \in Runs /\ made \in 0 .. ScriptLength
      /\ call.op = "modify" \/ (call.op = "submit" /\ call = Request(made) /\ made >= 1)
  BY <1>1 DEF DriverInv
<1>3. /\ Untimed \in Nat /\ Timed \in Nat /\ ScriptLength = Untimed + Timed
      /\ DOMAIN run.timed = 1 .. Timed
      /\ \A n \in 1 .. ScriptLength :
            Script[n] = IF n <= Untimed THEN run.setup[n] ELSE run.timed[n - Untimed]
  BY <1>2, ScriptIs
<1>4. CASE call.op = "modify"
  BY <1>1, <1>4 DEF MayRest
<1>5. CASE call.op = "submit" /\ call = Request(made) /\ made >= 1 /\ ~Counted(made)
  <2>1. made > Untimed /\ made \in 1 .. ScriptLength /\ ~(Untimed + Timed <= run.pool)
    BY <1>2, <1>3, <1>5 DEF Counted
  <2>2. (\A i \in DOMAIN run.timed : LeavesNone(run.timed[i])) \/ Aggressive(run)
    BY <1>2, <2>1, RunsFit DEF RunFits, Untimed, Timed
  <2>3. CASE Aggressive(run)
    <3>1. MarketableLevels(call) # {}
      BY <1>1, <2>1, <2>3, StockSuffices DEF Enough
    <3> QED
      BY <1>1, <3>1 DEF Wants
  <2>4. CASE \A i \in DOMAIN run.timed : LeavesNone(run.timed[i])
    <3> DEFINE i == made - Untimed
    <3>1. i \in 1 .. Timed /\ ~(made <= Untimed)
      BY <1>3, <2>1
    <3>2. Script[made] = run.timed[i]
      BY <1>3, <2>1, <3>1
    <3> HIDE DEF i
    <3>3. LeavesNone(Script[made])
      BY <1>3, <2>4, <3>1, <3>2
    <3>4. \E limit : call = [Script[made] EXCEPT !.limit = limit]
      BY <1>5 DEF Request
    <3>5. call.tif \notin Lifetimes
      BY <1>5, <3>3, <3>4 DEF LeavesNone
    <3> QED
      BY <1>1, <3>5
  <2> QED
    BY <2>2, <2>3, <2>4
<1>6. CASE Counted(made)
  BY <1>1, <1>6 DEF MayRest
<1> QED
  BY <1>2, <1>4, <1>5, <1>6

\* What every step keeps.
BenchInv ==
    /\ DriverInv /\ CountInv /\ exit # "EXIT_FAILURE"
    /\ NumberedInv /\ LatencyInv /\ AskInv /\ StockInv

LEMMA BenchStarts == BenchInit => BenchInv
BY DriverStarts, NumberedStarts, LatencyStarts, AskStarts, StockStarts DEF BenchInv

LEMMA BenchKept == BenchInv /\ [BenchNext]_benchVars => BenchInv'
<1> SUFFICES ASSUME BenchInv, [BenchNext]_benchVars
             PROVE  BenchInv'
  OBVIOUS
<1> USE DEF BenchInv
<1>1. RestsAsCounted
  BY RestingIsCounted
<1>2. DriverInv' /\ CountInv'
  BY <1>1, DriverSteps
<1>3. run' = run
  BY DEF BenchNext, Call, Serve, driverVars, End, Ended, benchVars
<1>4. (Numbered' <=> Numbered) /\ (Insists(run)' <=> Insists(run))
      /\ (Aggressive(run)' <=> Aggressive(run))
  BY <1>3 DEF Numbered, Insists, Aggressive
<1>5. NumberedInv'
  <2>1. CASE Numbered
    BY <2>1, NumberedKept
  <2>2. CASE ~Numbered
    BY <1>4, <2>2 DEF NumberedInv
  <2> QED
    BY <2>1, <2>2
<1>6. LatencyInv'
  <2>1. CASE Insists(run)
    BY <2>1, LatencyKept
  <2>2. CASE ~Insists(run)
    BY <1>4, <2>2 DEF LatencyInv
  <2> QED
    BY <2>1, <2>2
<1>7. AskInv'
  <2>1. CASE Aggressive(run)
    <3>1. Enough
      BY <2>1, StockSuffices
    <3> QED
      BY <2>1, <3>1, AggressiveSteps
  <2>2. CASE ~Aggressive(run)
    BY <1>4, <2>2 DEF AskInv
  <2> QED
    BY <2>1, <2>2
<1>8. StockInv'
  BY <1>3, StockKept
<1>9. (exit # "EXIT_FAILURE")'
  BY LatencySucceeds
<1> QED
  BY <1>2, <1>5, <1>6, <1>7, <1>8, <1>9

LEMMA SoundlyMeasured == BenchInv => MeasurementIsSound
<1> SUFFICES ASSUME BenchInv
             PROVE  MeasurementIsSound
  OBVIOUS
<1>1. run \in Runs /\ made \in 0 .. ScriptLength /\ BookShape /\ exit # "EXIT_FAILURE"
  BY DEF BenchInv, DriverInv
<1>2. CountedTo(made) \in Nat /\ CountedTo(made) <= run.pool /\ run.pool \in Nat
  BY <1>1, CountedFit, RunsFit DEF RunFits
<1>3. Cardinality(Places) \in Nat
  BY <1>1, FS_CardinalityType DEF BookShape
<1>4. Cardinality(Places) + (IF MayRest THEN 1 ELSE 0) <= CountedTo(made)
  BY DEF BenchInv, CountInv
<1>5. Cardinality(Places) <= run.pool
  BY <1>2, <1>3, <1>4
<1> QED
  BY <1>1, <1>5 DEF MeasurementIsSound

\* In every benchmark, whatever its batch size and depth, the orders that rest
\* never outnumber the blocks that the book was built with, so that no timed
\* call pays for growing the pool; and the latency program never ends by
\* finding another number of orders than it insists on.
THEOREM MeasurementsAreSound == BenchSpec => []MeasurementIsSound
<1>1. BenchInit => BenchInv
  BY BenchStarts
<1>2. BenchInv /\ [BenchNext]_benchVars => BenchInv'
  BY BenchKept
<1>3. BenchInv => MeasurementIsSound
  BY SoundlyMeasured
<1> QED
  BY <1>1, <1>2, <1>3, PTL DEF BenchSpec

=============================================================================

-------------------------- MODULE PriceLevelProofs --------------------------
(***************************************************************************)
(* What holds of PriceLevel for every finite set of blocks and every levels *)
(* and quantities.                                                         *)
(*                                                                         *)
(* A list is a sequence of distinct blocks, each linked to its neighbours  *)
(* by next_ and prev_ and to nothing outside (IsList).  Walk follows links  *)
(* by a recursive function; there is only one such function, so that of a   *)
(* list meets the list.  The invariant says that what is met from head_ is  *)
(* a list of exactly the orders of the level, that the caches are its sum   *)
(* and its number, and that while a level is walked everything before the   *)
(* cursor is GTC.  push_back appends, every other way off a level drops one *)
(* block, and the other steps write to no block that is on a level.        *)
(***************************************************************************)
EXTENDS PriceLevel, SumProofs, SequenceTheorems

-----------------------------------------------------------------------------
(* Chains *)

\* The n-th block of a sequence, and no block behind its ends.
At(s, n) == IF n \in DOMAIN s THEN s[n] ELSE None

Members(s) == {s[n] : n \in DOMAIN s}

IsDistinct(s) == \A m, n \in DOMAIN s : s[m] = s[n] => m = n

\* Each block of s links to the one after it, the last one to nothing.
Follows(s, links) == \A n \in DOMAIN s : links[s[n]] = At(s, n + 1)

\* What Walk looks up: the block that is met after so many links.
Meets(g, b, links) ==
    g = [n \in 0 .. Cardinality(Blocks) |->
            IF n = 0 THEN b ELSE IF g[n - 1] = None THEN None ELSE links[g[n - 1]]]

Met(b, links) == CHOOSE g : Meets(g, b, links)

\* Walk is what such a function says, as far as it meets blocks.
LEMMA UnfoldWalk ==
    ASSUME NEW b, NEW links
    PROVE  Walk(b, links) =
              [n \in 1 .. Cardinality({m \in 0 .. (Cardinality(Blocks) - 1) :
                                          Met(b, links)[m] # None})
                 |-> Met(b, links)[n - 1]]
BY DEF Walk, Met, Meets

\* A sequence without repetition has no more elements than there are blocks.
LEMMA ChainIsShort ==
    ASSUME NEW s \in Seq(Blocks), IsDistinct(s)
    PROVE  /\ Cardinality(Blocks) \in Nat
           /\ Len(s) <= Cardinality(Blocks)
<1>1. Len(s) \in Nat /\ DOMAIN s = 1 .. Len(s) /\ s \in [1 .. Len(s) -> Blocks]
  OBVIOUS
<1>2. s \in Injection(1 .. Len(s), Blocks)
  BY <1>1 DEF Injection, IsInjective, IsDistinct
<1>3. Cardinality(1 .. Len(s)) <= Cardinality(Blocks)
  BY <1>2, BlocksAreFinite, FS_Injection
<1>4. Cardinality(1 .. Len(s)) = Len(s)
  BY <1>1, FS_Interval
<1> QED
  BY <1>3, <1>4, BlocksAreFinite, FS_CardinalityType

\* The numbers below n.
LEMMA CardinalityBelow ==
    ASSUME NEW n \in Nat
    PROVE  Cardinality(0 .. (n - 1)) = n
<1>1. Cardinality(0 .. (n - 1)) = IF 0 > n - 1 THEN 0 ELSE (n - 1) - 0 + 1
  BY FS_Interval
<1> QED
  BY <1>1

\* There is one such function at most: two of them have no first difference.
LEMMA MeetsOnce ==
    ASSUME NEW b, NEW links, NEW g, NEW h, Cardinality(Blocks) \in Nat,
           Meets(g, b, links), Meets(h, b, links)
    PROVE  g = h
<1> DEFINE D == 0 .. Cardinality(Blocks)
           step(f, n) == IF n = 0 THEN b ELSE IF f[n - 1] = None THEN None ELSE links[f[n - 1]]
           bad == {n \in D : g[n] # h[n]}
<1>1. /\ DOMAIN g = D /\ DOMAIN h = D
      /\ \A n \in D : g[n] = step(g, n) /\ h[n] = step(h, n)
      /\ g = [n \in D |-> g[n]] /\ h = [n \in D |-> h[n]]
  BY DEF Meets
<1>2. SUFFICES ASSUME bad # {} PROVE FALSE
  <2> HIDE DEF step
  <2> QED BY <1>1
<1>3. PICK n \in bad : \A m \in bad : ~(<<m, n>> \in OpToRel(<, Nat))
  <2>1. bad \subseteq Nat
    OBVIOUS
  <2> HIDE DEF bad
  <2> QED BY <1>2, <2>1, NatLessThanWellFounded, WFMin
<1>4. n # 0
  BY <1>1
<1>5. n - 1 \in D /\ n \in D /\ n \in Nat /\ n - 1 \in Nat
  BY <1>4
<1>6. n - 1 \notin bad
  <2> HIDE DEF bad
  <2>1. <<n - 1, n>> \in OpToRel(<, Nat)
    BY <1>5 DEF OpToRel
  <2> QED
    BY <1>3, <2>1
<1>7. g[n - 1] = h[n - 1]
  BY <1>5, <1>6
<1> QED
  BY <1>1, <1>5, <1>7

\* Following the links from the first block of a sequence meets the sequence.
LEMMA WalkMeets ==
    ASSUME NEW s \in Seq(Blocks), IsDistinct(s), NEW links, Follows(s, links)
    PROVE  Walk(At(s, 1), links) = s
<1> DEFINE C == Cardinality(Blocks)
           w == [n \in 0 .. C |-> At(s, n + 1)]
           b == At(s, 1)
<1>1. C \in Nat /\ Len(s) \in Nat /\ Len(s) <= C /\ DOMAIN s = 1 .. Len(s)
  BY ChainIsShort
<1>2. \A n \in DOMAIN s : s[n] # None
  BY NoneIsNothing
<1>3. Meets(w, b, links)
  <2> SUFFICES ASSUME NEW n \in 0 .. C
               PROVE  w[n] = IF n = 0 THEN b ELSE IF w[n - 1] = None THEN None
                                                  ELSE links[w[n - 1]]
    BY DEF Meets
  <2>1. w[n] = At(s, n + 1)
    OBVIOUS
  <2>2. CASE n = 0
    BY <2>1, <2>2
  <2>3. CASE n # 0
    <3>1. n - 1 \in 0 .. C /\ n - 1 + 1 = n
      BY <1>1, <2>3
    <3>2. w[n - 1] = At(s, n)
      BY <3>1
    <3>3. CASE n \in DOMAIN s
      <4>1. w[n - 1] = s[n] /\ s[n] # None
        BY <1>2, <3>2, <3>3 DEF At
      <4>2. links[s[n]] = At(s, n + 1)
        BY <3>3 DEF Follows
      <4> HIDE DEF w
      <4> QED
        BY <2>1, <2>3, <4>1, <4>2
    <3>4. CASE n \notin DOMAIN s
      <4>1. w[n - 1] = None
        BY <3>2, <3>4 DEF At
      <4>2. n + 1 \notin DOMAIN s
        BY <1>1, <2>3, <3>4
      <4> HIDE DEF w
      <4> QED
        BY <2>1, <2>3, <4>1, <4>2 DEF At
    <3> QED
      BY <3>3, <3>4
  <2> QED
    BY <2>2, <2>3
<1> HIDE DEF b
<1>4. Met(b, links) = w
  <2>1. Meets(Met(b, links), b, links)
    BY <1>3 DEF Met
  <2> HIDE DEF w
  <2> QED
    BY <1>1, <1>3, <2>1, MeetsOnce
<1>5. {m \in 0 .. (C - 1) : w[m] # None} = 0 .. (Len(s) - 1)
  BY <1>1, <1>2 DEF At
<1>6. Cardinality(0 .. (Len(s) - 1)) = Len(s)
  BY <1>1, CardinalityBelow
<1>7. Walk(b, links) = [n \in 1 .. Len(s) |-> w[n - 1]]
  <2> HIDE DEF w
  <2> QED
    BY <1>4, <1>5, <1>6, UnfoldWalk
<1>8. \A n \in 1 .. Len(s) : w[n - 1] = s[n]
  BY <1>1 DEF At
<1>9. s = [n \in 1 .. Len(s) |-> s[n]]
  BY <1>1
<1> HIDE DEF w
<1> QED
  BY <1>7, <1>8, <1>9 DEF b

-----------------------------------------------------------------------------
(* Lists: chains by next_ and prev_ *)

IsList(s, first, last, nexts, prevs) ==
    /\ s \in Seq(Blocks)
    /\ IsDistinct(s)
    /\ first = At(s, 1)
    /\ last = At(s, Len(s))
    /\ \A n \in DOMAIN s : nexts[s[n]] = At(s, n + 1) /\ prevs[s[n]] = At(s, n - 1)

\* s without its k-th block; s from its k-th block on; s from its last block.
Without(s, k) == [n \in 1 .. (Len(s) - 1) |-> IF n < k THEN s[n] ELSE s[n + 1]]
From(s, k) == [n \in 1 .. (Len(s) + 1 - k) |-> s[n + k - 1]]
Backwards(s) == [n \in 1 .. Len(s) |-> s[Len(s) + 1 - n]]

\* Inside a sequence of blocks there are blocks, and nothing outside.
LEMMA AtFacts ==
    ASSUME NEW s \in Seq(Blocks)
    PROVE  /\ Len(s) \in Nat /\ DOMAIN s = 1 .. Len(s)
           /\ \A n \in DOMAIN s : At(s, n) = s[n] /\ s[n] \in Blocks /\ At(s, n) # None
           /\ \A n \in Int : n \notin DOMAIN s => At(s, n) = None
           /\ \A n : At(s, n) \in Blocks \cup {None}
BY NoneIsNothing DEF At

\* A block at the end.
LEMMA Appended ==
    ASSUME NEW s \in Seq(Blocks), NEW b \in Blocks
    PROVE  /\ Append(s, b) \in Seq(Blocks) /\ Len(Append(s, b)) = Len(s) + 1
           /\ \A n \in Int : At(Append(s, b), n) = IF n = Len(s) + 1 THEN b ELSE At(s, n)
           /\ Members(Append(s, b)) = Members(s) \cup {b}
           /\ IsDistinct(s) /\ b \notin Members(s) => IsDistinct(Append(s, b))
<1> DEFINE a == Append(s, b)
<1>1. /\ a \in Seq(Blocks) /\ Len(a) = Len(s) + 1 /\ Len(s) \in Nat
      /\ DOMAIN s = 1 .. Len(s) /\ DOMAIN a = 1 .. (Len(s) + 1)
      /\ \A n \in DOMAIN s : a[n] = s[n]
      /\ a[Len(s) + 1] = b
  OBVIOUS
<1> HIDE DEF a
<1>2. \A n \in Int : At(a, n) = IF n = Len(s) + 1 THEN b ELSE At(s, n)
  BY <1>1 DEF At
<1>3. Members(a) = Members(s) \cup {b}
  BY <1>1 DEF Members
<1>4. IsDistinct(s) /\ b \notin Members(s) => IsDistinct(a)
  BY <1>1 DEF Members, IsDistinct
<1> QED
  BY <1>1, <1>2, <1>3, <1>4 DEF a

\* A block less: the ones behind it move up.
LEMMA Dropped ==
    ASSUME NEW s \in Seq(Blocks), NEW k \in DOMAIN s
    PROVE  /\ Without(s, k) \in Seq(Blocks) /\ Len(Without(s, k)) = Len(s) - 1
           /\ \A n \in Int : At(Without(s, k), n) = IF n < k THEN At(s, n) ELSE At(s, n + 1)
           /\ IsDistinct(s) => IsDistinct(Without(s, k))
                               /\ Members(Without(s, k)) = Members(s) \ {s[k]}
<1> DEFINE w == Without(s, k)
<1>1. /\ Len(s) \in Nat /\ DOMAIN s = 1 .. Len(s) /\ k \in 1 .. Len(s)
      /\ \A n \in DOMAIN s : s[n] \in Blocks
  OBVIOUS
<1>2. /\ w = [n \in 1 .. (Len(s) - 1) |-> IF n < k THEN s[n] ELSE s[n + 1]]
      /\ Len(s) - 1 \in Nat
  BY <1>1 DEF Without
<1> HIDE DEF w
<1>3. \A n \in 1 .. (Len(s) - 1) : w[n] = (IF n < k THEN s[n] ELSE s[n + 1]) /\ w[n] \in Blocks
  BY <1>1, <1>2
<1>4. w \in Seq(Blocks) /\ Len(w) = Len(s) - 1 /\ DOMAIN w = 1 .. (Len(s) - 1)
  BY <1>2, <1>3
<1>5. \A n \in Int : At(w, n) = IF n < k THEN At(s, n) ELSE At(s, n + 1)
  BY <1>1, <1>3, <1>4 DEF At
<1>6. ASSUME IsDistinct(s)
      PROVE  IsDistinct(w) /\ Members(w) = Members(s) \ {s[k]}
  <2>1. ASSUME NEW m \in DOMAIN w, NEW n \in DOMAIN w, w[m] = w[n]
        PROVE  m = n
    <3>1. m \in Int /\ n \in Int /\ k \in Int
      BY <1>1, <1>4
    <3>2. PICK i \in DOMAIN s : i = (IF m < k THEN m ELSE m + 1) /\ w[m] = s[i]
      BY <1>1, <1>3, <1>4
    <3>3. PICK j \in DOMAIN s : j = (IF n < k THEN n ELSE n + 1) /\ w[n] = s[j]
      BY <1>1, <1>3, <1>4
    <3>4. i = j
      BY <1>6, <2>1, <3>2, <3>3 DEF IsDistinct
    <3> QED
      BY <3>1, <3>2, <3>3, <3>4
  <2>2. ASSUME NEW n \in DOMAIN w
        PROVE  w[n] \in Members(s) \ {s[k]}
    BY <1>1, <1>3, <1>4, <1>6 DEF IsDistinct, Members
  <2>3. ASSUME NEW n \in DOMAIN s, n # k
        PROVE  s[n] \in Members(w)
    <3>1. CASE n < k
      BY <1>1, <1>3, <1>4, <3>1 DEF Members
    <3>2. CASE n > k
      <4>1. n - 1 \in DOMAIN w /\ w[n - 1] = s[n]
        BY <1>1, <1>3, <1>4, <3>2
      <4> QED
        BY <4>1 DEF Members
    <3> QED
      BY <1>1, <2>3, <3>1, <3>2
  <2> QED
    BY <2>1, <2>2, <2>3 DEF IsDistinct, Members
<1> QED
  BY <1>4, <1>5, <1>6 DEF w

\* push_back: the last block links to the new one and the new one to it.
LEMMA ListGrows ==
    ASSUME NEW s, NEW first, NEW last, NEW nexts, NEW prevs,
           IsList(s, first, last, nexts, prevs),
           NEW b \in Blocks, b \notin Members(s), NEW nexts2, NEW prevs2,
           nexts2[b] = None, prevs2[b] = last,
           \A c \in Members(s) : /\ prevs2[c] = prevs[c]
                                 /\ nexts2[c] = IF c = last THEN b ELSE nexts[c]
    PROVE  IsList(Append(s, b), IF last = None THEN b ELSE first, b, nexts2, prevs2)
<1> DEFINE a == Append(s, b)
           size == Len(s)
<1>1. /\ s \in Seq(Blocks) /\ IsDistinct(s) /\ first = At(s, 1) /\ last = At(s, size)
      /\ \A n \in DOMAIN s : nexts[s[n]] = At(s, n + 1) /\ prevs[s[n]] = At(s, n - 1)
  BY DEF IsList
<1>2. /\ size \in Nat /\ DOMAIN s = 1 .. size
      /\ \A n \in DOMAIN s : At(s, n) = s[n] /\ s[n] \in Blocks /\ At(s, n) # None
      /\ \A n \in Int : n \notin DOMAIN s => At(s, n) = None
  BY <1>1, AtFacts
<1>3. /\ a \in Seq(Blocks) /\ Len(a) = size + 1 /\ IsDistinct(a)
      /\ \A n \in Int : At(a, n) = IF n = size + 1 THEN b ELSE At(s, n)
  BY <1>1, Appended
<1>4. DOMAIN a = 1 .. (size + 1) /\ \A n \in DOMAIN a : a[n] = At(a, n)
  BY <1>3 DEF At
<1> HIDE DEF a, size
<1>5. At(a, 1) = IF last = None THEN b ELSE first
  BY <1>1, <1>2, <1>3
<1>6. At(a, Len(a)) = b
  BY <1>2, <1>3
<1>7. ASSUME NEW n \in DOMAIN a
      PROVE  nexts2[a[n]] = At(a, n + 1) /\ prevs2[a[n]] = At(a, n - 1)
  <2>1. CASE n = size + 1
    <3>1. a[n] = b /\ At(a, n + 1) = None /\ At(a, n - 1) = At(s, size)
      BY <1>2, <1>3, <1>4, <2>1
    <3> QED
      BY <1>1, <3>1
  <2>2. CASE n # size + 1
    <3>1. n \in DOMAIN s /\ n \in Int /\ a[n] = s[n] /\ s[n] \in Members(s)
      BY <1>2, <1>3, <1>4, <2>2 DEF Members
    <3>2. prevs2[a[n]] = At(a, n - 1)
      BY <1>1, <1>2, <1>3, <3>1
    <3>3. s[n] = last <=> n = size
      BY <1>1, <1>2, <3>1 DEF IsDistinct
    <3>4. nexts2[a[n]] = At(a, n + 1)
      BY <1>1, <1>2, <1>3, <3>1, <3>3
    <3> QED
      BY <3>2, <3>4
  <2> QED
    BY <2>1, <2>2
<1> QED
  BY <1>3, <1>5, <1>6, <1>7 DEF IsList, a

\* remove_order and pop_front: the blocks on either side of the one that leaves
\* are linked to each other.
LEMMA ListShrinks ==
    ASSUME NEW s, NEW first, NEW last, NEW nexts, NEW prevs,
           IsList(s, first, last, nexts, prevs),
           NEW k \in DOMAIN s, NEW b, b = s[k], NEW nexts2, NEW prevs2,
           \A c \in Members(s) \ {b} :
              /\ nexts2[c] = IF c = prevs[b] THEN nexts[b] ELSE nexts[c]
              /\ prevs2[c] = IF c = nexts[b] THEN prevs[b] ELSE prevs[c]
    PROVE  IsList(Without(s, k), IF prevs[b] = None THEN nexts[b] ELSE first,
                                 IF nexts[b] = None THEN prevs[b] ELSE last, nexts2, prevs2)
<1> DEFINE w == Without(s, k)
           size == Len(s)
<1>1. /\ s \in Seq(Blocks) /\ IsDistinct(s) /\ first = At(s, 1) /\ last = At(s, size)
      /\ \A n \in DOMAIN s : nexts[s[n]] = At(s, n + 1) /\ prevs[s[n]] = At(s, n - 1)
  BY DEF IsList
<1>2. /\ size \in Nat
      /\ \A n \in DOMAIN s : At(s, n) = s[n] /\ s[n] \in Blocks /\ At(s, n) # None
      /\ \A n \in Int : n \notin DOMAIN s => At(s, n) = None
      /\ \A n : n \in DOMAIN s <=> n \in Int /\ 1 <= n /\ n <= size
  BY <1>1, AtFacts
<1>3. /\ w \in Seq(Blocks) /\ Len(w) = size - 1 /\ IsDistinct(w)
      /\ Members(w) = Members(s) \ {b}
      /\ \A n \in Int : At(w, n) = IF n < k THEN At(s, n) ELSE At(s, n + 1)
  BY <1>1, Dropped
<1>4. /\ \A n : n \in DOMAIN w <=> n \in Int /\ 1 <= n /\ n <= size - 1
      /\ \A n \in DOMAIN w : w[n] = At(w, n)
  BY <1>2, <1>3 DEF At
<1>5. /\ nexts[b] = At(s, k + 1) /\ prevs[b] = At(s, k - 1)
      /\ k \in Int /\ 1 <= k /\ k <= size
  BY <1>1, <1>2
<1> HIDE DEF w, size
<1>6. At(w, 1) = IF prevs[b] = None THEN nexts[b] ELSE first
  <2>1. At(w, 1) = IF k = 1 THEN At(s, 2) ELSE At(s, 1)
    BY <1>3, <1>5
  <2>2. At(s, k - 1) = None <=> k = 1
    BY <1>2, <1>5
  <2> QED
    BY <1>1, <1>5, <2>1, <2>2
<1>7. At(w, Len(w)) = IF nexts[b] = None THEN prevs[b] ELSE last
  <2>1. At(w, size - 1) = IF k = size THEN At(s, k - 1) ELSE At(s, size)
    <3>1. size - 1 \in Int /\ (size - 1) + 1 = size /\ (size - 1 < k <=> k = size)
      BY <1>2, <1>5
    <3>2. At(w, size - 1) = IF size - 1 < k THEN At(s, size - 1) ELSE At(s, (size - 1) + 1)
      BY <1>3, <3>1
    <3> QED
      BY <3>1, <3>2
  <2>2. At(s, k + 1) = None <=> k = size
    BY <1>2, <1>5
  <2> QED
    BY <1>1, <1>3, <1>5, <2>1, <2>2
<1>8. ASSUME NEW m \in DOMAIN s, m # k
      PROVE  /\ nexts2[s[m]] = IF m = k - 1 THEN At(s, k + 1) ELSE At(s, m + 1)
             /\ prevs2[s[m]] = IF m = k + 1 THEN At(s, k - 1) ELSE At(s, m - 1)
  <2>1. s[m] \in Members(s) \ {b} /\ s[m] # None
    BY <1>1, <1>2, <1>8 DEF IsDistinct, Members
  <2>2. \A n \in Int : s[m] = At(s, n) <=> m = n
    <3> SUFFICES ASSUME NEW n \in Int PROVE s[m] = At(s, n) <=> m = n
      OBVIOUS
    <3>1. CASE n \in DOMAIN s
      <4>1. s[m] = s[n] <=> m = n
        BY <1>1, <1>8, <3>1 DEF IsDistinct
      <4> QED
        BY <1>2, <3>1, <4>1
    <3>2. CASE n \notin DOMAIN s
      BY <1>2, <2>1, <3>2
    <3> QED
      BY <3>1, <3>2
  <2>3. k - 1 \in Int /\ k + 1 \in Int
    BY <1>5
  <2> QED
    BY <1>1, <1>5, <2>1, <2>2, <2>3
<1>9. ASSUME NEW n \in DOMAIN w
      PROVE  nexts2[w[n]] = At(w, n + 1) /\ prevs2[w[n]] = At(w, n - 1)
  <2>1. CASE n < k
    <3>1. n \in DOMAIN s /\ n # k /\ n \in Int /\ w[n] = s[n]
      BY <1>2, <1>3, <1>4, <2>1
    <3>2. /\ At(w, n - 1) = At(s, n - 1)
          /\ At(w, n + 1) = IF n = k - 1 THEN At(s, k + 1) ELSE At(s, n + 1)
      BY <1>3, <1>5, <2>1, <3>1
    <3>3. n # k + 1
      BY <1>5, <2>1, <3>1
    <3> QED
      BY <1>8, <3>1, <3>2, <3>3
  <2>2. CASE n >= k
    <3>1. n + 1 \in DOMAIN s /\ n \in Int
      BY <1>2, <1>4
    <3>2. w[n] = s[n + 1] /\ n + 1 # k /\ n + 1 # k - 1 /\ (n + 1 = k + 1 <=> n = k)
      <4>1. At(w, n) = At(s, n + 1)
        BY <1>3, <1>5, <2>2, <3>1
      <4>2. w[n] = s[n + 1]
        BY <1>2, <1>4, <3>1, <4>1
      <4> QED
        BY <1>5, <2>2, <3>1, <4>2
    <3>3. /\ nexts2[s[n + 1]] = At(s, n + 1 + 1)
          /\ prevs2[s[n + 1]] = IF n = k THEN At(s, k - 1) ELSE At(s, n + 1 - 1)
      BY <1>8, <3>1, <3>2
    <3>4. n + 1 + 1 = n + 2 /\ n + 1 - 1 = n
      BY <3>1
    <3>5. At(w, n + 1) = At(s, n + 2) /\ At(w, n - 1) = IF n = k THEN At(s, k - 1) ELSE At(s, n)
      <4>1. n + 1 \in Int /\ n - 1 \in Int /\ ~(n + 1 < k) /\ (n - 1 < k <=> n = k)
        BY <1>5, <2>2, <3>1
      <4>2. /\ At(w, n + 1) = At(s, n + 1 + 1)
            /\ At(w, n - 1) = IF n = k THEN At(s, n - 1) ELSE At(s, n - 1 + 1)
        BY <1>3, <4>1
      <4>3. n - 1 + 1 = n
        BY <3>1
      <4> QED
        BY <3>4, <4>2, <4>3
    <3> QED
      BY <3>2, <3>3, <3>4, <3>5
  <2> QED
    BY <1>4, <1>5, <2>1, <2>2
<1> QED
  BY <1>3, <1>6, <1>7, <1>9 DEF IsList, w

\* What is written to other blocks does not matter to a list.
LEMMA ListStays ==
    ASSUME NEW s, NEW first, NEW last, NEW nexts, NEW prevs,
           IsList(s, first, last, nexts, prevs), NEW nexts2, NEW prevs2,
           \A c \in Members(s) : nexts2[c] = nexts[c] /\ prevs2[c] = prevs[c]
    PROVE  IsList(s, first, last, nexts2, prevs2)
BY DEF IsList, Members

\* A list is met from its first block by the one link and from its last by the
\* other, and from any of its blocks on.
LEMMA ListIsWalked ==
    ASSUME NEW s, NEW first, NEW last, NEW nexts, NEW prevs,
           IsList(s, first, last, nexts, prevs)
    PROVE  /\ Walk(first, nexts) = s
           /\ Walk(last, prevs) = Backwards(s)
           /\ \A k \in 1 .. (Len(s) + 1) : Walk(At(s, k), nexts) = From(s, k)
<1> DEFINE size == Len(s)
<1>1. /\ s \in Seq(Blocks) /\ IsDistinct(s) /\ first = At(s, 1) /\ last = At(s, size)
      /\ \A n \in DOMAIN s : nexts[s[n]] = At(s, n + 1) /\ prevs[s[n]] = At(s, n - 1)
  BY DEF IsList
<1>2. /\ size \in Nat /\ DOMAIN s = 1 .. size
      /\ \A n \in DOMAIN s : At(s, n) = s[n] /\ s[n] \in Blocks /\ At(s, n) # None
      /\ \A n \in Int : n \notin DOMAIN s => At(s, n) = None
  BY <1>1, AtFacts
<1> HIDE DEF size
<1>3. Walk(first, nexts) = s
  BY <1>1, WalkMeets DEF Follows
<1>4. Walk(last, prevs) = Backwards(s)
  <2> DEFINE r == Backwards(s)
  <2>1. /\ r = [n \in 1 .. size |-> s[size + 1 - n]]
        /\ \A n \in 1 .. size : size + 1 - n \in DOMAIN s
    BY <1>2 DEF Backwards, size
  <2> HIDE DEF r
  <2>2. /\ \A n \in 1 .. size : r[n] = s[size + 1 - n] /\ r[n] \in Blocks
        /\ r \in Seq(Blocks) /\ DOMAIN r = 1 .. size
    BY <1>2, <2>1
  <2>3. \A n \in Int : At(r, n) = At(s, size + 1 - n)
    BY <1>2, <2>2 DEF At
  <2>4. IsDistinct(r)
    <3> SUFFICES ASSUME NEW m \in 1 .. size, NEW n \in 1 .. size, r[m] = r[n] PROVE m = n
      BY <2>2 DEF IsDistinct
    <3>1. size + 1 - m = size + 1 - n
      BY <1>1, <2>1, <2>2 DEF IsDistinct
    <3> QED
      BY <1>2, <3>1
  <2>5. Follows(r, prevs)
    <3> SUFFICES ASSUME NEW n \in 1 .. size PROVE prevs[r[n]] = At(r, n + 1)
      BY <2>2 DEF Follows
    <3>1. prevs[s[size + 1 - n]] = At(s, (size + 1 - n) - 1)
      BY <1>1, <2>1
    <3>2. (size + 1 - n) - 1 = size + 1 - (n + 1)
      BY <1>2
    <3> QED
      BY <2>2, <2>3, <3>1, <3>2
  <2>6. At(r, 1) = last
    BY <1>1, <1>2, <2>3
  <2>7. Walk(At(r, 1), prevs) = r
    BY <2>2, <2>4, <2>5, WalkMeets
  <2> QED
    BY <2>6, <2>7 DEF r
<1>5. ASSUME NEW k \in 1 .. (size + 1)
      PROVE  Walk(At(s, k), nexts) = From(s, k)
  <2> DEFINE r == From(s, k)
  <2>1. /\ r = [n \in 1 .. (size + 1 - k) |-> s[n + k - 1]]
        /\ \A n \in 1 .. (size + 1 - k) : n + k - 1 \in DOMAIN s
        /\ size + 1 - k \in Nat
    BY <1>2 DEF From, size
  <2> HIDE DEF r
  <2>2. /\ \A n \in 1 .. (size + 1 - k) : r[n] = s[n + k - 1] /\ r[n] \in Blocks
        /\ r \in Seq(Blocks) /\ DOMAIN r = 1 .. (size + 1 - k)
    BY <1>2, <2>1
  <2>3. \A n \in Nat : n > 0 => At(r, n) = At(s, n + k - 1)
    BY <1>2, <2>2 DEF At
  <2>4. IsDistinct(r)
    <3> SUFFICES ASSUME NEW m \in 1 .. (size + 1 - k), NEW n \in 1 .. (size + 1 - k), r[m] = r[n]
                 PROVE  m = n
      BY <2>2 DEF IsDistinct
    <3>1. m + k - 1 = n + k - 1
      BY <1>1, <2>1, <2>2 DEF IsDistinct
    <3> QED
      BY <1>2, <3>1
  <2>5. Follows(r, nexts)
    <3> SUFFICES ASSUME NEW n \in 1 .. (size + 1 - k) PROVE nexts[r[n]] = At(r, n + 1)
      BY <2>2 DEF Follows
    <3>1. nexts[s[n + k - 1]] = At(s, (n + k - 1) + 1)
      BY <1>1, <2>1
    <3>2. (n + k - 1) + 1 = (n + 1) + k - 1 /\ n + 1 \in Nat /\ n + 1 > 0
      BY <1>2
    <3> QED
      BY <2>2, <2>3, <3>1, <3>2
  <2>6. At(r, 1) = At(s, k)
    <3>1. 1 + k - 1 = k
      BY <1>2
    <3> QED
      BY <2>3, <3>1
  <2>7. Walk(At(r, 1), nexts) = r
    BY <2>2, <2>4, <2>5, WalkMeets
  <2> QED
    BY <2>6, <2>7 DEF r
<1> QED
  BY <1>3, <1>4, <1>5 DEF size

-----------------------------------------------------------------------------
(* The inductive invariant *)

ListTypes ==
    /\ head \in [PriceLevels -> Blocks \cup {None}]
    /\ tail \in [PriceLevels -> Blocks \cup {None}]
    /\ totalVolume \in [PriceLevels -> Int]
    /\ orderCount \in [PriceLevels -> Int]
    /\ constructed \subseteq Blocks
    /\ next \in [Blocks -> Blocks \cup {None}]
    /\ prev \in [Blocks -> Blocks \cup {None}]
    /\ level \in [Blocks -> PriceLevels \cup {None}]
    /\ quantity \in [Blocks -> Nat]
    /\ lifetime \in [Blocks -> Lifetimes]

WalkTypes ==
    /\ pc \in {"idle", "walking", "callback"}
    /\ pruning \in PriceLevels \cup {None}
    /\ ptr \in Blocks \cup {None}
    /\ following \in Blocks \cup {None}
    /\ result \in [ordersPruned : Nat, quantityPruned : Int]

Queues == [l \in PriceLevels |-> Queue(l)]

\* The lists of the levels are q and hold the orders of their levels.
Listed(q) ==
    \A l \in PriceLevels : /\ IsList(q[l], head[l], tail[l], next, prev)
                           /\ Members(q[l]) = OnLevel(l)

\* An order that is on no level has no block before it, as push_back expects.
Loose == \A b \in constructed : level[b] = None => prev[b] = None

LevelsSound == ListTypes /\ Listed(Queues) /\ CachesAgree /\ Loose

\* Where the walk goes on, and that no DAY order was passed over.
Cursor == IF pc = "callback" THEN following ELSE ptr

WalkIsAt(s, k) ==
    /\ k \in 1 .. (Len(s) + 1)
    /\ Cursor = At(s, k)
    /\ \A n \in DOMAIN s : n < k => lifetime[s[n]] = "GTC"

WalkSound ==
    /\ WalkTypes
    /\ pc = "idle" <=> pruning = None
    /\ pc # "idle" => \E k \in Nat : WalkIsAt(Queues[pruning], k)
    /\ pc = "callback" => ptr \in constructed /\ level[ptr] = None

LevelInv == LevelsSound /\ WalkSound

-----------------------------------------------------------------------------
(* What the steps have in common *)

\* The orders of a level are finitely many, with a sum and a number.
LEMMA LevelFacts ==
    ASSUME ListTypes
    PROVE  \A l \in PriceLevels :
              /\ OnLevel(l) \in SUBSET Blocks
              /\ IsFiniteSet(OnLevel(l))
              /\ \A b \in OnLevel(l) : b \in constructed /\ level[b] = l /\ quantity[b] \in Nat
              /\ SumFunctionOnSet(quantity, OnLevel(l)) \in Nat
              /\ Cardinality(OnLevel(l)) \in Nat
<1> SUFFICES ASSUME NEW l \in PriceLevels
             PROVE  /\ OnLevel(l) \in SUBSET Blocks
                    /\ IsFiniteSet(OnLevel(l))
                    /\ \A b \in OnLevel(l) : b \in constructed /\ level[b] = l /\ quantity[b] \in Nat
                    /\ SumFunctionOnSet(quantity, OnLevel(l)) \in Nat
                    /\ Cardinality(OnLevel(l)) \in Nat
  OBVIOUS
<1>1. /\ OnLevel(l) \in SUBSET Blocks
      /\ \A b \in OnLevel(l) : b \in constructed /\ level[b] = l /\ quantity[b] \in Nat
  BY DEF OnLevel, ListTypes
<1>2. IsFiniteSet(OnLevel(l))
  BY <1>1, BlocksAreFinite, FS_Subset
<1> QED
  BY <1>1, <1>2, SumNat, FS_CardinalityType

\* The lists after a step, whatever was done to the pointers, are what is met
\* when they are followed.
LEMMA QueuesAre ==
    ASSUME NEW q \in [PriceLevels -> Seq(Blocks)],
           \A l \in PriceLevels : /\ IsList(q[l], head'[l], tail'[l], next', prev')
                                  /\ Members(q[l]) = {b \in constructed' : level'[b] = l}
    PROVE  Queues' = q /\ Listed(Queues)'
<1>1. \A l \in PriceLevels : Walk(head'[l], next') = q[l]
  BY ListIsWalked
<1>2. Queues' = [l \in PriceLevels |-> Walk(head'[l], next')]
  BY DEF Queues, Queue
<1>3. Queues' = q
  BY <1>1, <1>2
<1>4. Listed(Queues)' = \A l \in PriceLevels :
                           /\ IsList(Queues'[l], head'[l], tail'[l], next', prev')
                           /\ Members(Queues'[l]) = {b \in constructed' : level'[b] = l}
  BY DEF Listed, OnLevel, IsList, Members, At, IsDistinct
<1> QED
  BY <1>3, <1>4

\* What the invariant says of the list of a level.
LEMMA QueueFacts ==
    ASSUME LevelsSound
    PROVE  /\ Queues \in [PriceLevels -> Seq(Blocks)]
           /\ \A l \in PriceLevels :
                 /\ Queues[l] = Queue(l)
                 /\ IsList(Queues[l], head[l], tail[l], next, prev)
                 /\ Members(Queues[l]) = OnLevel(l)
                 /\ Len(Queues[l]) \in Nat /\ DOMAIN Queues[l] = 1 .. Len(Queues[l])
                 /\ \A n \in DOMAIN Queues[l] :
                       /\ Queues[l][n] \in Blocks /\ Queues[l][n] \in constructed
                       /\ level[Queues[l][n]] = l
                 /\ \A b \in constructed : level[b] = l =>
                       \E n \in DOMAIN Queues[l] : Queues[l][n] = b
<1>1. \A l \in PriceLevels : /\ IsList(Queues[l], head[l], tail[l], next, prev)
                             /\ Members(Queues[l]) = OnLevel(l)
                             /\ Queues[l] = Queue(l)
  BY DEF LevelsSound, Listed, Queues
<1>2. \A l \in PriceLevels : Queues[l] \in Seq(Blocks)
  BY <1>1 DEF IsList
<1>3. Queues \in [PriceLevels -> Seq(Blocks)]
  BY <1>2 DEF Queues
<1>4. \A l \in PriceLevels : \A n \in DOMAIN Queues[l] :
         /\ Queues[l][n] \in Blocks /\ Queues[l][n] \in constructed /\ level[Queues[l][n]] = l
  BY <1>1, <1>2 DEF Members, OnLevel
<1>5. \A l \in PriceLevels : \A b \in constructed : level[b] = l =>
         \E n \in DOMAIN Queues[l] : Queues[l][n] = b
  BY <1>1 DEF Members, OnLevel
<1> QED
  BY <1>1, <1>2, <1>3, <1>4, <1>5

\* A step that leaves the orders on levels alone leaves the levels as they are.
LEMMA SameLevels ==
    ASSUME LevelsSound, UNCHANGED <<head, tail, totalVolume, orderCount>>,
           \A l \in PriceLevels : {b \in constructed' : level'[b] = l} = OnLevel(l),
           \A l \in PriceLevels : \A b \in OnLevel(l) :
              next'[b] = next[b] /\ prev'[b] = prev[b] /\ quantity'[b] = quantity[b]
    PROVE  Queues' = Queues /\ Listed(Queues)' /\ CachesAgree'
<1>1. ListTypes /\ CachesAgree
  BY DEF LevelsSound
<1>2. Queues \in [PriceLevels -> Seq(Blocks)]
  BY QueueFacts
<1>3. ASSUME NEW l \in PriceLevels
      PROVE  /\ IsList(Queues[l], head'[l], tail'[l], next', prev')
             /\ Members(Queues[l]) = {b \in constructed' : level'[b] = l}
  <2>1. IsList(Queues[l], head[l], tail[l], next, prev) /\ Members(Queues[l]) = OnLevel(l)
    BY QueueFacts
  <2>2. IsList(Queues[l], head[l], tail[l], next', prev')
    BY <2>1, ListStays
  <2> QED
    BY <2>1, <2>2
<1>4. Queues' = Queues /\ Listed(Queues)'
  <2>1. PICK q : q = Queues
    OBVIOUS
  <2> QED
    BY <1>2, <1>3, <2>1, QueuesAre
<1>5. ASSUME NEW l \in PriceLevels
      PROVE  /\ totalVolume'[l] = SumFunctionOnSet(quantity', OnLevel(l)')
             /\ orderCount'[l] = Cardinality(OnLevel(l)')
  <2>1. OnLevel(l)' = OnLevel(l)
    BY DEF OnLevel
  <2>2. SumFunctionOnSet(quantity, OnLevel(l)) = SumFunctionOnSet(quantity', OnLevel(l))
    BY <1>1, LevelFacts, SumSame
  <2> QED
    BY <1>1, <2>1, <2>2 DEF CachesAgree
<1> QED
  BY <1>4, <1>5 DEF CachesAgree

\* An order that loses some of its shares stays where it is, and the volume of
\* its level follows.
LEMMA ReduceKeepsLevels ==
    ASSUME LevelsSound, NEW l \in PriceLevels, NEW b \in OnLevel(l),
           NEW shares \in Nat, shares < quantity[b],
           quantity' = [quantity EXCEPT ![b] = @ - shares],
           totalVolume' = [totalVolume EXCEPT ![l] = @ - shares],
           UNCHANGED <<head, tail, orderCount, constructed, linkVars, lifetime>>
    PROVE  LevelsSound' /\ Queues' = Queues
<1>1. ListTypes /\ CachesAgree /\ Loose
  BY DEF LevelsSound
<1>2. b \in Blocks /\ b \in constructed /\ level[b] = l /\ quantity[b] \in Nat
  BY <1>1, LevelFacts
<1>3. UNCHANGED <<head, tail, orderCount, constructed, next, prev, level, lifetime>>
  BY DEF linkVars
<1>4. quantity'[b] = quantity[b] - shares /\ quantity[b] - shares \in Nat
      /\ \A c \in Blocks \ {b} : quantity'[c] = quantity[c]
  BY <1>1, <1>2 DEF ListTypes
<1>5. ListTypes'
  BY <1>1, <1>2, <1>3, <1>4 DEF ListTypes
<1>6. \A m \in PriceLevels : OnLevel(m)' = OnLevel(m)
  BY <1>3 DEF OnLevel
<1>7. ASSUME NEW m \in PriceLevels
      PROVE  totalVolume'[m] = SumFunctionOnSet(quantity', OnLevel(m))
  <2>1. /\ IsFiniteSet(OnLevel(m)) /\ OnLevel(m) \in SUBSET Blocks
        /\ \A c \in OnLevel(m) : quantity[c] \in Int /\ quantity'[c] \in Int
        /\ totalVolume[m] = SumFunctionOnSet(quantity, OnLevel(m)) /\ totalVolume[m] \in Int
    BY <1>1, <1>2, <1>4, LevelFacts DEF CachesAgree, ListTypes
  <2>2. CASE m = l
    <3>0. b \in OnLevel(m) /\ \A c \in OnLevel(m) : c # b => quantity'[c] = quantity[c]
      BY <1>4, <2>1, <2>2
    <3>1. SumFunctionOnSet(quantity', OnLevel(m))
             = SumFunctionOnSet(quantity, OnLevel(m)) - quantity[b] + quantity'[b]
      <4>1. PICK S : S = OnLevel(m)
        OBVIOUS
      <4>2. PICK f : f = quantity'
        OBVIOUS
      <4>3. /\ IsFiniteSet(S) /\ b \in S
            /\ \A c \in S : quantity[c] \in Int /\ f[c] \in Int /\ (c # b => f[c] = quantity[c])
        BY <2>1, <3>0, <4>1, <4>2
      <4>4. SumFunctionOnSet(f, S) = SumFunctionOnSet(quantity, S) - quantity[b] + f[b]
        BY ONLY <4>3, SumChange
      <4> QED
        BY <4>1, <4>2, <4>4
    <3>2. totalVolume'[m] = totalVolume[m] - shares
      BY <1>1, <2>2 DEF ListTypes
    <3> QED
      BY <1>2, <1>4, <2>1, <3>1, <3>2
  <2>3. CASE m # l
    <3>1. b \notin OnLevel(m)
      BY <1>2, <2>3 DEF OnLevel
    <3>2. SumFunctionOnSet(quantity, OnLevel(m)) = SumFunctionOnSet(quantity', OnLevel(m))
      BY <1>4, <2>1, <3>1, SumSame
    <3> QED
      BY <1>1, <2>1, <2>3, <3>2 DEF ListTypes
  <2> QED
    BY <2>2, <2>3
<1>8. CachesAgree'
  BY <1>1, <1>3, <1>6, <1>7 DEF CachesAgree
<1>9. Queues' = Queues /\ Listed(Queues)'
  BY <1>1, <1>3 DEF Queues, Queue, Listed, OnLevel, LevelsSound
<1> QED
  BY <1>1, <1>3, <1>5, <1>8, <1>9 DEF LevelsSound, Loose

\* push_back.
LEMMA JoinKeepsLevels ==
    ASSUME LevelsSound, NEW l \in PriceLevels, NEW b \in constructed, level[b] = None,
           \/ /\ tail[l] # None
              /\ prev' = [prev EXCEPT ![b] = tail[l]]
              /\ next' = [next EXCEPT ![tail[l]] = b, ![b] = None]
              /\ UNCHANGED head
           \/ /\ tail[l] = None
              /\ head' = [head EXCEPT ![l] = b]
              /\ next' = [next EXCEPT ![b] = None]
              /\ UNCHANGED prev,
           tail' = [tail EXCEPT ![l] = b],
           level' = [level EXCEPT ![b] = l],
           totalVolume' = [totalVolume EXCEPT ![l] = @ + quantity[b]],
           orderCount' = [orderCount EXCEPT ![l] = @ + 1],
           UNCHANGED <<constructed, quantity, lifetime>>
    PROVE  LevelsSound' /\ Queues' = [Queues EXCEPT ![l] = Append(@, b)]
<1>1. ListTypes /\ CachesAgree /\ Loose
  BY DEF LevelsSound
<1>2. b \in Blocks /\ quantity[b] \in Nat /\ l # None /\ b # None /\ prev[b] = None
      /\ tail[l] \in Blocks \cup {None}
  BY <1>1, NoneIsNothing DEF ListTypes, Loose
<1>3. /\ IsList(Queues[l], head[l], tail[l], next, prev) /\ Members(Queues[l]) = OnLevel(l)
      /\ Queues[l] \in Seq(Blocks) /\ Queues \in [PriceLevels -> Seq(Blocks)]
  BY QueueFacts
<1>4. b \notin OnLevel(l) /\ (tail[l] # None => tail[l] \in OnLevel(l))
  <2>1. b \notin OnLevel(l)
    BY <1>2 DEF OnLevel
  <2>2. tail[l] = At(Queues[l], Len(Queues[l]))
    BY <1>3 DEF IsList
  <2> QED
    BY <1>3, <2>1, <2>2 DEF At, Members
<1>5. /\ next'[b] = None /\ prev'[b] = tail[l] /\ tail'[l] = b
      /\ head'[l] = IF tail[l] = None THEN b ELSE head[l]
      /\ \A c \in Blocks \ {b} :
            prev'[c] = prev[c] /\ next'[c] = IF c = tail[l] THEN b ELSE next[c]
      /\ \A m \in PriceLevels \ {l} : head'[m] = head[m] /\ tail'[m] = tail[m]
  <2>1. CASE tail[l] # None
    <3>1. tail[l] # b /\ tail[l] \in Blocks
      BY <1>2, <1>4, <2>1
    <3> QED
      BY <1>1, <1>2, <2>1, <3>1 DEF ListTypes
  <2>2. CASE tail[l] = None
    BY <1>1, <1>2, <2>2, NoneIsNothing DEF ListTypes
  <2> QED
    BY <2>1, <2>2
<1>6. ListTypes'
  <2>1. /\ head' \in [PriceLevels -> Blocks \cup {None}]
        /\ next' \in [Blocks -> Blocks \cup {None}]
        /\ prev' \in [Blocks -> Blocks \cup {None}]
    BY <1>1, <1>2 DEF ListTypes
  <2>2. /\ tail' \in [PriceLevels -> Blocks \cup {None}]
        /\ level' \in [Blocks -> PriceLevels \cup {None}]
    BY <1>1, <1>2 DEF ListTypes
  <2>3. totalVolume' \in [PriceLevels -> Int] /\ orderCount' \in [PriceLevels -> Int]
    BY <1>1, <1>2 DEF ListTypes
  <2> QED
    BY <1>1, <2>1, <2>2, <2>3 DEF ListTypes
<1>7. /\ OnLevel(l)' = OnLevel(l) \cup {b}
      /\ \A m \in PriceLevels \ {l} : OnLevel(m)' = OnLevel(m)
  BY <1>1, <1>2, NoneIsNothing DEF OnLevel, ListTypes
<1> DEFINE q2 == [Queues EXCEPT ![l] = Append(@, b)]
<1>8. /\ q2 \in [PriceLevels -> Seq(Blocks)] /\ q2[l] = Append(Queues[l], b)
      /\ \A m \in PriceLevels \ {l} : q2[m] = Queues[m]
  <2>1. Append(Queues[l], b) \in Seq(Blocks)
    BY <1>2, <1>3
  <2> QED
    BY <1>3, <2>1
<1> HIDE DEF q2
<1>9. ASSUME NEW m \in PriceLevels
      PROVE  /\ IsList(q2[m], head'[m], tail'[m], next', prev')
             /\ Members(q2[m]) = {c \in constructed' : level'[c] = m}
  <2>0. {c \in constructed' : level'[c] = m} = OnLevel(m)'
    BY DEF OnLevel
  <2>1. CASE m = l
    <3>1. \A c \in Members(Queues[l]) : /\ prev'[c] = prev[c]
                                        /\ next'[c] = IF c = tail[l] THEN b ELSE next[c]
      BY <1>1, <1>3, <1>4, <1>5, LevelFacts
    <3>2. IsList(Append(Queues[l], b), IF tail[l] = None THEN b ELSE head[l], b, next', prev')
      BY <1>2, <1>3, <1>4, <1>5, <3>1, ListGrows
    <3>3. Members(Append(Queues[l], b)) = Members(Queues[l]) \cup {b}
      BY <1>2, <1>3, Appended
    <3>4. q2[m] = Append(Queues[l], b) /\ tail'[m] = b
          /\ head'[m] = IF tail[l] = None THEN b ELSE head[l]
      BY <1>5, <1>8, <2>1
    <3>5. Members(q2[m]) = OnLevel(m)'
      BY <1>3, <1>7, <2>1, <3>3, <3>4
    <3> QED
      BY <2>0, <3>2, <3>4, <3>5
  <2>2. CASE m # l
    <3>1. IsList(Queues[m], head[m], tail[m], next, prev) /\ Members(Queues[m]) = OnLevel(m)
      BY QueueFacts
    <3>2. ASSUME NEW c \in OnLevel(m)
          PROVE  c \in Blocks /\ c # b /\ c # tail[l]
      <4>1. c \in Blocks /\ level[c] = m /\ level[c] # None
        BY <1>1, LevelFacts, NoneIsNothing
      <4>2. tail[l] # None => level[tail[l]] = l
        BY <1>1, <1>4, LevelFacts
      <4> QED
        BY <2>2, <4>1, <4>2, NoneIsNothing
    <3>3. \A c \in Members(Queues[m]) : next'[c] = next[c] /\ prev'[c] = prev[c]
      BY <1>5, <3>1, <3>2
    <3>4. IsList(Queues[m], head[m], tail[m], next', prev')
      BY <3>1, <3>3, ListStays
    <3> QED
      BY <1>5, <1>7, <1>8, <2>0, <2>2, <3>1, <3>4
  <2> QED
    BY <2>1, <2>2
<1>10. Queues' = q2 /\ Listed(Queues)'
  <2>1. PICK q : q = q2
    OBVIOUS
  <2> QED
    BY <1>8, <1>9, <2>1, QueuesAre
<1>11. ASSUME NEW m \in PriceLevels
       PROVE  /\ totalVolume'[m] = SumFunctionOnSet(quantity, OnLevel(m)')
              /\ orderCount'[m] = Cardinality(OnLevel(m)')
  <2>1. /\ IsFiniteSet(OnLevel(m)) /\ \A c \in OnLevel(m) : quantity[c] \in Int
        /\ totalVolume[m] = SumFunctionOnSet(quantity, OnLevel(m))
        /\ orderCount[m] = Cardinality(OnLevel(m))
    BY <1>1, LevelFacts DEF CachesAgree
  <2>2. CASE m = l
    <3>1. totalVolume'[m] = totalVolume[m] + quantity[b] /\ orderCount'[m] = orderCount[m] + 1
      BY <1>1, <2>2 DEF ListTypes
    <3>2. SumFunctionOnSet(quantity, OnLevel(m) \cup {b})
             = SumFunctionOnSet(quantity, OnLevel(m)) + quantity[b]
      BY <1>2, <1>4, <2>1, <2>2, SumAdd
    <3>3. Cardinality(OnLevel(m) \cup {b}) = Cardinality(OnLevel(m)) + 1
      BY <1>4, <2>1, <2>2, FS_AddElement
    <3> QED
      BY <1>7, <2>1, <2>2, <3>1, <3>2, <3>3
  <2>3. CASE m # l
    BY <1>1, <1>7, <2>1, <2>3 DEF ListTypes
  <2> QED
    BY <2>2, <2>3
<1>12. CachesAgree'
  BY <1>11 DEF CachesAgree
<1>13. Loose'
  <2> SUFFICES ASSUME NEW c \in constructed, level'[c] = None PROVE prev'[c] = None
    BY DEF Loose
  <2>1. c # b /\ c \in Blocks
    BY <1>1, <1>2, NoneIsNothing DEF ListTypes
  <2>2. level[c] = None
    BY <1>1, <2>1 DEF ListTypes
  <2> QED
    BY <1>1, <1>5, <2>1, <2>2 DEF Loose
<1> QED
  BY <1>6, <1>10, <1>12, <1>13 DEF LevelsSound, q2

\* remove_order: the order leaves its list and its level.
LEMMA LeaveKeepsLevels ==
    ASSUME LevelsSound, NEW l \in PriceLevels, NEW k \in DOMAIN Queues[l],
           NEW b, b = Queues[l][k], Remove(l, b)
    PROVE  /\ LevelsSound' /\ Queues' = [Queues EXCEPT ![l] = Without(@, k)]
           /\ b \in constructed /\ level'[b] = None
           /\ UNCHANGED <<constructed, quantity, lifetime>>
<1>1. ListTypes /\ CachesAgree /\ Loose
  BY DEF LevelsSound
<1>2. /\ IsList(Queues[l], head[l], tail[l], next, prev) /\ Members(Queues[l]) = OnLevel(l)
      /\ Queues[l] \in Seq(Blocks) /\ Queues \in [PriceLevels -> Seq(Blocks)]
      /\ b \in Blocks /\ b \in constructed /\ level[b] = l
  BY QueueFacts
<1>3. quantity[b] \in Nat /\ l # None /\ next[b] \in Blocks \cup {None}
      /\ prev[b] \in Blocks \cup {None} /\ b \in OnLevel(l)
  BY <1>1, <1>2, NoneIsNothing DEF ListTypes, OnLevel
<1>4. /\ UNCHANGED <<constructed, quantity, lifetime>>
      /\ head' = IF prev[b] = None THEN [head EXCEPT ![l] = next[b]] ELSE head
      /\ tail' = IF next[b] = None THEN [tail EXCEPT ![l] = prev[b]] ELSE tail
      /\ next' = [c \in Blocks |->
            IF c = b THEN None ELSE IF c = prev[b] THEN next[b] ELSE next[c]]
      /\ prev' = [c \in Blocks |->
            IF c = b THEN None ELSE IF c = next[b] THEN prev[b] ELSE prev[c]]
      /\ level' = [level EXCEPT ![b] = None]
      /\ totalVolume' = [totalVolume EXCEPT ![l] = @ - quantity[b]]
      /\ orderCount' = [orderCount EXCEPT ![l] = @ - 1]
  BY DEF Remove, TailAfter, PrevAfter, Detached
<1>5. /\ head'[l] = IF prev[b] = None THEN next[b] ELSE head[l]
      /\ tail'[l] = IF next[b] = None THEN prev[b] ELSE tail[l]
      /\ \A m \in PriceLevels \ {l} : head'[m] = head[m] /\ tail'[m] = tail[m]
      /\ level'[b] = None /\ \A c \in Blocks \ {b} : level'[c] = level[c]
      /\ next'[b] = None /\ prev'[b] = None
      /\ \A c \in Blocks \ {b} :
            /\ next'[c] = IF c = prev[b] THEN next[b] ELSE next[c]
            /\ prev'[c] = IF c = next[b] THEN prev[b] ELSE prev[c]
  BY <1>1, <1>2, <1>4 DEF ListTypes
\* Its neighbours are on the level too.
<1>6. /\ next[b] # None => next[b] \in OnLevel(l)
      /\ prev[b] # None => prev[b] \in OnLevel(l)
  <2>1. next[b] = At(Queues[l], k + 1) /\ prev[b] = At(Queues[l], k - 1)
    BY <1>2 DEF IsList
  <2> QED
    BY <1>2, <2>1 DEF At, Members
<1>7. ListTypes'
  <2>1. /\ head' \in [PriceLevels -> Blocks \cup {None}]
        /\ tail' \in [PriceLevels -> Blocks \cup {None}]
        /\ level' \in [Blocks -> PriceLevels \cup {None}]
    BY <1>1, <1>3, <1>4 DEF ListTypes
  <2>2. next' \in [Blocks -> Blocks \cup {None}] /\ prev' \in [Blocks -> Blocks \cup {None}]
    BY <1>1, <1>3, <1>4 DEF ListTypes
  <2>3. totalVolume' \in [PriceLevels -> Int] /\ orderCount' \in [PriceLevels -> Int]
    BY <1>1, <1>3, <1>4 DEF ListTypes
  <2> QED
    BY <1>1, <1>4, <2>1, <2>2, <2>3 DEF ListTypes
<1>8. /\ OnLevel(l)' = OnLevel(l) \ {b}
      /\ \A m \in PriceLevels \ {l} : OnLevel(m)' = OnLevel(m)
  BY <1>1, <1>2, <1>3, <1>4, <1>5, NoneIsNothing DEF OnLevel, ListTypes
<1> DEFINE q2 == [Queues EXCEPT ![l] = Without(@, k)]
<1>9. /\ q2 \in [PriceLevels -> Seq(Blocks)] /\ q2[l] = Without(Queues[l], k)
      /\ \A m \in PriceLevels \ {l} : q2[m] = Queues[m]
  <2>1. Without(Queues[l], k) \in Seq(Blocks)
    BY <1>2, Dropped
  <2> QED
    BY <1>2, <2>1
<1> HIDE DEF q2
<1>10. ASSUME NEW m \in PriceLevels
       PROVE  /\ IsList(q2[m], head'[m], tail'[m], next', prev')
              /\ Members(q2[m]) = {c \in constructed' : level'[c] = m}
  <2>0. {c \in constructed' : level'[c] = m} = OnLevel(m)'
    BY DEF OnLevel
  <2>1. CASE m = l
    <3>1. \A c \in Members(Queues[l]) \ {b} :
             /\ next'[c] = IF c = prev[b] THEN next[b] ELSE next[c]
             /\ prev'[c] = IF c = next[b] THEN prev[b] ELSE prev[c]
      BY <1>1, <1>2, <1>5, LevelFacts
    <3>2. IsList(Without(Queues[l], k), IF prev[b] = None THEN next[b] ELSE head[l],
                                        IF next[b] = None THEN prev[b] ELSE tail[l], next', prev')
      <4>1. PICK n2 : n2 = next'
        OBVIOUS
      <4>2. PICK p2 : p2 = prev'
        OBVIOUS
      <4>3. \A c \in Members(Queues[l]) \ {b} :
               /\ n2[c] = IF c = prev[b] THEN next[b] ELSE next[c]
               /\ p2[c] = IF c = next[b] THEN prev[b] ELSE prev[c]
        BY <3>1, <4>1, <4>2
      <4>4. PICK s : s = Queues[l]
        OBVIOUS
      <4>5. /\ IsList(s, head[l], tail[l], next, prev) /\ k \in DOMAIN s /\ b = s[k]
            /\ \A c \in Members(s) \ {b} :
                  /\ n2[c] = IF c = prev[b] THEN next[b] ELSE next[c]
                  /\ p2[c] = IF c = next[b] THEN prev[b] ELSE prev[c]
        BY <1>2, <4>3, <4>4
      <4>6. IsList(Without(s, k), IF prev[b] = None THEN next[b] ELSE head[l],
                                  IF next[b] = None THEN prev[b] ELSE tail[l], n2, p2)
        BY ONLY <4>5, ListShrinks
      <4> QED
        BY <4>1, <4>2, <4>4, <4>6
    <3>3. IsDistinct(Queues[l])
      BY <1>2 DEF IsList
    <3>4. Members(Without(Queues[l], k)) = Members(Queues[l]) \ {b}
      BY <1>2, <3>3, Dropped
    <3>5. q2[m] = Without(Queues[l], k)
          /\ head'[m] = (IF prev[b] = None THEN next[b] ELSE head[l])
          /\ tail'[m] = (IF next[b] = None THEN prev[b] ELSE tail[l])
      BY <1>5, <1>9, <2>1
    <3>6. Members(q2[m]) = OnLevel(m)'
      BY <1>2, <1>8, <2>1, <3>4, <3>5
    <3> QED
      BY <2>0, <3>2, <3>5, <3>6
  <2>2. CASE m # l
    <3>1. IsList(Queues[m], head[m], tail[m], next, prev) /\ Members(Queues[m]) = OnLevel(m)
      BY QueueFacts
    <3>2. ASSUME NEW c \in OnLevel(m)
          PROVE  c \in Blocks \ {b} /\ c # prev[b] /\ c # next[b]
      <4>1. c \in Blocks /\ level[c] = m /\ c # None
        BY <1>1, LevelFacts, NoneIsNothing
      <4>2. (next[b] # None => level[next[b]] = l) /\ (prev[b] # None => level[prev[b]] = l)
        BY <1>1, <1>6, LevelFacts
      <4> QED
        BY <1>2, <2>2, <4>1, <4>2
    <3>3. \A c \in Members(Queues[m]) : next'[c] = next[c] /\ prev'[c] = prev[c]
      BY <1>5, <3>1, <3>2
    <3>4. IsList(Queues[m], head[m], tail[m], next', prev')
      BY <3>1, <3>3, ListStays
    <3> QED
      BY <1>5, <1>8, <1>9, <2>0, <2>2, <3>1, <3>4
  <2> QED
    BY <2>1, <2>2
<1>11. Queues' = q2 /\ Listed(Queues)'
  <2>1. PICK q : q = q2
    OBVIOUS
  <2> QED
    BY <1>9, <1>10, <2>1, QueuesAre
<1>12. ASSUME NEW m \in PriceLevels
       PROVE  /\ totalVolume'[m] = SumFunctionOnSet(quantity, OnLevel(m)')
              /\ orderCount'[m] = Cardinality(OnLevel(m)')
  <2>1. /\ IsFiniteSet(OnLevel(m)) /\ \A c \in OnLevel(m) : quantity[c] \in Int
        /\ totalVolume[m] = SumFunctionOnSet(quantity, OnLevel(m))
        /\ orderCount[m] = Cardinality(OnLevel(m))
        /\ totalVolume[m] \in Int /\ orderCount[m] \in Int
    BY <1>1, LevelFacts DEF CachesAgree, ListTypes
  <2>2. CASE m = l
    <3>1. totalVolume'[m] = totalVolume[m] - quantity[b] /\ orderCount'[m] = orderCount[m] - 1
      BY <1>1, <1>4, <2>2 DEF ListTypes
    <3>2. PICK S : S = OnLevel(m)
      OBVIOUS
    <3>3. /\ SumFunctionOnSet(quantity, S) = quantity[b] + SumFunctionOnSet(quantity, S \ {b})
          /\ SumFunctionOnSet(quantity, S \ {b}) \in Int
      <4>1. IsFiniteSet(S) /\ IsFiniteSet(S \ {b}) /\ b \in S /\ \A c \in S : quantity[c] \in Int
        BY <1>3, <2>1, <2>2, <3>2, FS_RemoveElement
      <4> QED
        BY <4>1, SumRemove, SumInt
    <3>4. Cardinality(S \ {b}) = Cardinality(S) - 1
      BY <1>3, <2>1, <2>2, <3>2, FS_RemoveElement
    <3>5. OnLevel(m)' = S \ {b}
      BY <1>8, <2>2, <3>2
    <3> QED
      BY <1>3, <2>1, <3>1, <3>2, <3>3, <3>4, <3>5
  <2>3. CASE m # l
    BY <1>1, <1>4, <1>8, <2>1, <2>3 DEF ListTypes
  <2> QED
    BY <2>2, <2>3
<1>13. CachesAgree'
  BY <1>4, <1>12 DEF CachesAgree
<1>14. Loose'
  <2> SUFFICES ASSUME NEW c \in constructed, level'[c] = None PROVE prev'[c] = None
    BY <1>4 DEF Loose
  <2>1. CASE c = b
    BY <1>5, <2>1
  <2>2. CASE c # b
    <3>1. c \in Blocks /\ level[c] = None /\ prev[c] = None
      BY <1>1, <1>5, <2>2 DEF ListTypes, Loose
    <3>2. next[b] # c
      BY <1>1, <1>3, <1>6, <3>1, LevelFacts, NoneIsNothing
    <3> QED
      BY <1>5, <2>2, <3>1, <3>2
  <2> QED
    BY <2>1, <2>2
<1> QED
  BY <1>2, <1>4, <1>5, <1>7, <1>11, <1>13, <1>14 DEF LevelsSound, q2

\* pop_front is remove_order of the first order.
LEMMA PopIsRemoval ==
    ASSUME LevelsSound, NEW l \in PriceLevels, NEW b, b = head[l], b # None,
           \/ /\ next[b] # None
              /\ head' = [head EXCEPT ![l] = next[b]]
              /\ prev' = [prev EXCEPT ![next[b]] = None, ![b] = None]
              /\ UNCHANGED tail
           \/ /\ next[b] = None
              /\ head' = [head EXCEPT ![l] = None]
              /\ tail' = [tail EXCEPT ![l] = None]
              /\ prev' = [prev EXCEPT ![b] = None],
           next' = [next EXCEPT ![b] = None],
           Detached(l, b), UNCHANGED <<constructed, quantity, lifetime>>
    PROVE  1 \in DOMAIN Queues[l] /\ b = Queues[l][1] /\ Remove(l, b)
<1>1. ListTypes
  BY DEF LevelsSound
<1>2. IsList(Queues[l], head[l], tail[l], next, prev) /\ Queues[l] \in Seq(Blocks)
  BY QueueFacts
<1>3. 1 \in DOMAIN Queues[l] /\ b = Queues[l][1] /\ b \in Blocks
  <2>1. head[l] = At(Queues[l], 1)
    BY <1>2 DEF IsList
  <2> QED
    BY <1>2, <2>1 DEF At
<1>4. prev[b] = None
  <2>1. prev[b] = At(Queues[l], 1 - 1)
    BY <1>2, <1>3 DEF IsList
  <2> QED
    BY <1>2, <2>1 DEF At
<1>5. None \notin Blocks /\ next[b] \in Blocks \cup {None}
  BY <1>1, <1>3, NoneIsNothing DEF ListTypes
<1>6. next' = [c \in Blocks |-> IF c = b THEN None ELSE IF c = prev[b] THEN next[b] ELSE next[c]]
  <2>1. \A c \in Blocks : c # prev[b]
    BY <1>4, <1>5
  <2>2. DOMAIN next = Blocks
    BY <1>1 DEF ListTypes
  <2> QED
    BY <2>1, <2>2, Zenon
<1>7. CASE next[b] # None
  <2>1. prev' = PrevAfter(b)
    BY <1>1, <1>3, <1>4, <1>5, <1>7 DEF ListTypes, PrevAfter
  <2> QED
    BY <1>3, <1>4, <1>6, <1>7, <2>1 DEF Remove, TailAfter
<1>8. CASE next[b] = None
  <2>1. prev' = PrevAfter(b)
    BY <1>1, <1>3, <1>4, <1>5, <1>8 DEF ListTypes, PrevAfter
  <2> QED
    BY <1>3, <1>4, <1>6, <1>8, <2>1 DEF Remove, TailAfter
<1> QED
  BY <1>7, <1>8

\* The block of an order that is on no level can be given back.
LEMMA FreeKeepsLevels ==
    ASSUME LevelsSound, NEW b \in constructed, level[b] = None, Free(b)
    PROVE  LevelsSound' /\ Queues' = Queues /\ UNCHANGED <<level, lifetime>>
<1>1. ListTypes /\ Loose
  BY DEF LevelsSound
<1>2. PICK link \in (Blocks \ constructed) \cup {None} : next' = [next EXCEPT ![b] = link]
  BY DEF Free
<1>3. /\ constructed' = constructed \ {b}
      /\ UNCHANGED <<head, tail, totalVolume, orderCount, prev, level, quantity, lifetime>>
  BY DEF Free, levelVars
<1>4. b \in Blocks /\ \A c \in Blocks \ {b} : next'[c] = next[c]
  BY <1>1, <1>2 DEF ListTypes
<1>5. ListTypes'
  BY <1>1, <1>2, <1>3, <1>4 DEF ListTypes
<1>6. \A l \in PriceLevels : {c \in constructed' : level'[c] = l} = OnLevel(l)
  BY <1>3, NoneIsNothing DEF OnLevel
<1>7. \A l \in PriceLevels : \A c \in OnLevel(l) :
         next'[c] = next[c] /\ prev'[c] = prev[c] /\ quantity'[c] = quantity[c]
  BY <1>1, <1>3, <1>4, LevelFacts, NoneIsNothing
<1>8. Queues' = Queues /\ Listed(Queues)' /\ CachesAgree'
  BY <1>3, <1>6, <1>7, SameLevels
<1>9. Loose'
  BY <1>1, <1>3 DEF Loose
<1> QED
  BY <1>3, <1>5, <1>8, <1>9 DEF LevelsSound

\* A step of the walk that touches no order.
LEMMA StandStill ==
    ASSUME LevelsSound, UNCHANGED <<levelVars, constructed, linkVars, quantity, lifetime>>
    PROVE  LevelsSound' /\ Queues' = Queues
<1>1. UNCHANGED <<head, tail, totalVolume, orderCount, constructed, next, prev, level,
                  quantity, lifetime>>
  BY DEF levelVars, linkVars
<1>2. Queues' = Queues
  BY <1>1 DEF Queues, Queue
<1>3. ListTypes' /\ CachesAgree' /\ Loose'
  BY <1>1 DEF LevelsSound, ListTypes, CachesAgree, Loose, OnLevel
<1>4. Listed(Queues)'
  BY <1>1, <1>2 DEF LevelsSound, Listed, OnLevel
<1> QED
  BY <1>2, <1>3, <1>4 DEF LevelsSound

\* Between the walks there is nothing to keep.
LEMMA IdleKeepsWalk ==
    ASSUME WalkSound, pc = "idle", UNCHANGED walkVars
    PROVE  WalkSound'
BY DEF WalkSound, WalkTypes, walkVars

\* While a level is walked the cursor is one of its orders, or has passed them.
LEMMA WalkFacts ==
    ASSUME LevelInv, pc # "idle"
    PROVE  /\ pruning \in PriceLevels /\ Queues[pruning] \in Seq(Blocks)
           /\ IsList(Queues[pruning], head[pruning], tail[pruning], next, prev)
           /\ \E k \in 1 .. (Len(Queues[pruning]) + 1) :
                 /\ WalkIsAt(Queues[pruning], k)
                 /\ Cursor # None => /\ k \in DOMAIN Queues[pruning]
                                     /\ Cursor = Queues[pruning][k]
                                     /\ next[Cursor] = At(Queues[pruning], k + 1)
                 /\ Cursor = None => k = Len(Queues[pruning]) + 1
<1>1. LevelsSound /\ WalkSound /\ pruning \in PriceLevels
  BY DEF LevelInv, WalkSound, WalkTypes
<1>2. PICK k \in Nat : WalkIsAt(Queues[pruning], k)
  BY <1>1 DEF WalkSound
<1>3. /\ IsList(Queues[pruning], head[pruning], tail[pruning], next, prev)
      /\ Queues[pruning] \in Seq(Blocks)
  BY <1>1, QueueFacts
<1>4. k \in 1 .. (Len(Queues[pruning]) + 1) /\ Cursor = At(Queues[pruning], k)
  BY <1>2 DEF WalkIsAt
<1>5. \A n \in DOMAIN Queues[pruning] : Queues[pruning][n] # None
  BY <1>3, NoneIsNothing
<1>6. Cursor # None => /\ k \in DOMAIN Queues[pruning] /\ Cursor = Queues[pruning][k]
                       /\ next[Cursor] = At(Queues[pruning], k + 1)
  BY <1>3, <1>4 DEF At, IsList
<1>7. Cursor = None => k = Len(Queues[pruning]) + 1
  BY <1>3, <1>4, <1>5 DEF At
<1> QED
  BY <1>1, <1>2, <1>3, <1>4, <1>6, <1>7

-----------------------------------------------------------------------------
(* The invariant holds *)

\* Every list is empty at first.
LEMMA InitGivesLevelInv == Init => LevelInv
<1> SUFFICES ASSUME Init PROVE LevelInv
  OBVIOUS
<1>1. ListTypes
  BY DEF Init, ListTypes, Lifetimes
<1>2. ASSUME NEW l \in PriceLevels
      PROVE  OnLevel(l) = {} /\ IsList(<<>>, head[l], tail[l], next, prev) /\ Queues[l] = <<>>
  <2>1. OnLevel(l) = {} /\ head[l] = None /\ tail[l] = None
    BY <1>2 DEF Init, OnLevel
  <2>2. <<>> \in Seq(Blocks) /\ DOMAIN <<>> = {}
    OBVIOUS
  <2>3. IsList(<<>>, head[l], tail[l], next, prev)
    BY <2>1, <2>2 DEF IsList, IsDistinct, At
  <2>4. Walk(head[l], next) = <<>>
    BY <2>3, ListIsWalked
  <2> QED
    BY <2>1, <2>3, <2>4 DEF Queues, Queue
<1>3. Listed(Queues)
  BY <1>2 DEF Listed, Members
<1>4. CachesAgree
  BY <1>2, SumEmpty, FS_EmptySet DEF CachesAgree, Init
<1>5. Loose
  BY DEF Loose, Init
<1>6. WalkSound
  <2>1. NothingPruned \in [ordersPruned : Nat, quantityPruned : Int]
    BY DEF NothingPruned
  <2> QED
    BY <2>1 DEF WalkSound, WalkTypes, Init
<1> QED
  BY <1>1, <1>3, <1>4, <1>5, <1>6 DEF LevelInv, LevelsSound

\* A new order is on no level, and the block it takes was on none.
LEMMA ConstructKeeps == ASSUME LevelInv, Construct PROVE LevelInv'
<1>1. LevelsSound /\ ListTypes /\ Loose /\ WalkSound /\ pc = "idle"
  BY DEF LevelInv, LevelsSound, Construct
<1>2. PICK b \in Blocks \ constructed, shares \in Quantities, life \in Lifetimes :
          /\ constructed' = constructed \cup {b}
          /\ next' = [next EXCEPT ![b] = None]
          /\ prev' = [prev EXCEPT ![b] = None]
          /\ level' = [level EXCEPT ![b] = None]
          /\ quantity' = [quantity EXCEPT ![b] = shares]
          /\ lifetime' = [lifetime EXCEPT ![b] = life]
  BY DEF Construct
<1>3. UNCHANGED <<head, tail, totalVolume, orderCount>> /\ UNCHANGED walkVars
  BY DEF Construct, levelVars
<1>4. shares \in Nat
  BY QuantitiesArePositive
<1>5. ListTypes'
  <2>1. /\ next' \in [Blocks -> Blocks \cup {None}] /\ prev' \in [Blocks -> Blocks \cup {None}]
        /\ level' \in [Blocks -> PriceLevels \cup {None}]
    BY <1>1, <1>2 DEF ListTypes
  <2>2. quantity' \in [Blocks -> Nat] /\ lifetime' \in [Blocks -> Lifetimes]
    BY <1>1, <1>2, <1>4 DEF ListTypes
  <2> QED
    BY <1>1, <1>2, <1>3, <2>1, <2>2 DEF ListTypes
<1>6. \A c \in Blocks \ {b} : /\ next'[c] = next[c] /\ prev'[c] = prev[c]
                              /\ level'[c] = level[c] /\ quantity'[c] = quantity[c]
  BY <1>1, <1>2 DEF ListTypes
<1>7. level'[b] = None /\ prev'[b] = None
  BY <1>1, <1>2 DEF ListTypes
<1>8. \A l \in PriceLevels : {c \in constructed' : level'[c] = l} = OnLevel(l)
  <2>1. constructed \subseteq Blocks
    BY <1>1 DEF ListTypes
  <2> QED
    BY <1>2, <1>6, <1>7, <2>1, NoneIsNothing DEF OnLevel
<1>9. \A l \in PriceLevels : \A c \in OnLevel(l) :
         next'[c] = next[c] /\ prev'[c] = prev[c] /\ quantity'[c] = quantity[c]
  <2>1. \A l \in PriceLevels : \A c \in OnLevel(l) : c \in Blocks \ {b}
    BY <1>1, LevelFacts
  <2> QED
    BY <1>6, <2>1
<1>10. Queues' = Queues /\ Listed(Queues)' /\ CachesAgree'
  BY <1>1, <1>3, <1>8, <1>9, SameLevels
<1>11. Loose'
  BY <1>1, <1>2, <1>6, <1>7 DEF Loose, ListTypes
<1> QED
  BY <1>1, <1>3, <1>5, <1>10, <1>11, IdleKeepsWalk DEF LevelInv, LevelsSound

\* An order that is given back was on no level.
LEMMA DestroyKeeps == ASSUME LevelInv, Destroy PROVE LevelInv'
<1>1. LevelsSound /\ WalkSound /\ pc = "idle" /\ UNCHANGED walkVars
  BY DEF LevelInv, Destroy
<1>2. PICK b \in constructed : level[b] = None /\ Free(b)
  BY DEF Destroy
<1> QED
  BY <1>1, <1>2, FreeKeepsLevels, IdleKeepsWalk DEF LevelInv

\* Which order of which level a call concerns, and the lists it leaves.
LEMMA PushBackJoins ==
    ASSUME LevelsSound, PushBack
    PROVE  /\ LevelsSound'
           /\ \E l \in PriceLevels, b \in constructed :
                 level[b] = None /\ Queues' = [Queues EXCEPT ![l] = Append(@, b)]
<1>1. PICK l \in PriceLevels, b \in constructed :
          /\ level[b] = None
          /\ \/ /\ tail[l] # None
                /\ prev' = [prev EXCEPT ![b] = tail[l]]
                /\ next' = [next EXCEPT ![tail[l]] = b, ![b] = None]
                /\ UNCHANGED head
             \/ /\ tail[l] = None
                /\ head' = [head EXCEPT ![l] = b]
                /\ next' = [next EXCEPT ![b] = None]
                /\ UNCHANGED prev
          /\ tail' = [tail EXCEPT ![l] = b]
          /\ level' = [level EXCEPT ![b] = l]
          /\ totalVolume' = [totalVolume EXCEPT ![l] = @ + quantity[b]]
          /\ orderCount' = [orderCount EXCEPT ![l] = @ + 1]
  BY DEF PushBack, Counted
<1>2. UNCHANGED <<constructed, quantity, lifetime>>
  BY DEF PushBack
<1>3. LevelsSound' /\ Queues' = [Queues EXCEPT ![l] = Append(@, b)]
  BY <1>1, <1>2, JoinKeepsLevels
<1> QED
  BY <1>1, <1>3

\* push_back.
LEMMA PushBackKeeps == ASSUME LevelInv, PushBack PROVE LevelInv'
<1>1. LevelsSound /\ WalkSound /\ pc = "idle" /\ UNCHANGED walkVars
  BY DEF LevelInv, PushBack
<1> QED
  BY <1>1, PushBackJoins, IdleKeepsWalk DEF LevelInv

\* pop_front: the first order leaves.
LEMMA PopFrontLeaves ==
    ASSUME LevelsSound, PopFront
    PROVE  /\ LevelsSound'
           /\ \E l \in PriceLevels : \E k \in DOMAIN Queues[l] :
                 Queues' = [Queues EXCEPT ![l] = Without(@, k)]
<1>1. PICK l \in PriceLevels :
          LET front == head[l]
          IN  /\ front # None
              /\ \/ /\ next[front] # None
                    /\ head' = [head EXCEPT ![l] = next[front]]
                    /\ prev' = [prev EXCEPT ![next[front]] = None, ![front] = None]
                    /\ UNCHANGED tail
                 \/ /\ next[front] = None
                    /\ head' = [head EXCEPT ![l] = None]
                    /\ tail' = [tail EXCEPT ![l] = None]
                    /\ prev' = [prev EXCEPT ![front] = None]
              /\ next' = [next EXCEPT ![front] = None]
              /\ Detached(l, front)
  BY DEF PopFront
<1>2. UNCHANGED <<constructed, quantity, lifetime>>
  BY DEF PopFront
<1>3. PICK b : b = head[l]
  OBVIOUS
<1>4. 1 \in DOMAIN Queues[l] /\ b = Queues[l][1] /\ Remove(l, b)
  BY <1>1, <1>2, <1>3, PopIsRemoval
<1>5. LevelsSound' /\ Queues' = [Queues EXCEPT ![l] = Without(@, 1)]
  BY <1>4, LeaveKeepsLevels
<1> QED
  BY <1>4, <1>5

\* pop_front.
LEMMA PopFrontKeeps == ASSUME LevelInv, PopFront PROVE LevelInv'
<1>1. LevelsSound /\ WalkSound /\ pc = "idle" /\ UNCHANGED walkVars
  BY DEF LevelInv, PopFront
<1> QED
  BY <1>1, PopFrontLeaves, IdleKeepsWalk DEF LevelInv

\* remove_order: the order leaves from wherever it stands.
LEMMA RemoveOrderLeaves ==
    ASSUME LevelsSound, RemoveOrder
    PROVE  /\ LevelsSound'
           /\ \E l \in PriceLevels : \E k \in DOMAIN Queues[l] :
                 Queues' = [Queues EXCEPT ![l] = Without(@, k)]
<1>1. PICK b \in constructed : level[b] # None /\ Remove(level[b], b)
  BY DEF RemoveOrder
<1>2. PICK l \in PriceLevels : l = level[b]
  BY <1>1 DEF LevelsSound, ListTypes
<1>3. PICK k \in DOMAIN Queues[l] : Queues[l][k] = b
  BY <1>2, QueueFacts
<1>4. LevelsSound' /\ Queues' = [Queues EXCEPT ![l] = Without(@, k)]
  BY <1>1, <1>2, <1>3, LeaveKeepsLevels
<1> QED
  BY <1>4

\* remove_order.
LEMMA RemoveOrderKeeps == ASSUME LevelInv, RemoveOrder PROVE LevelInv'
<1>1. LevelsSound /\ WalkSound /\ pc = "idle" /\ UNCHANGED walkVars
  BY DEF LevelInv, RemoveOrder
<1> QED
  BY <1>1, RemoveOrderLeaves, IdleKeepsWalk DEF LevelInv

\* take_shares_from_first and reduce_order_quantity.
LEMMA SharesLeave ==
    ASSUME LevelsSound, TakeSharesFromFirst \/ ReduceOrderQuantity
    PROVE  /\ LevelsSound' /\ Queues' = Queues /\ UNCHANGED <<constructed, lifetime, level>>
           /\ \E l \in PriceLevels : \E b \in OnLevel(l), shares \in Quantities :
                 shares < quantity[b] /\ quantity' = [quantity EXCEPT ![b] = @ - shares]
<1>1. ListTypes
  BY DEF LevelsSound
<1>2. CASE TakeSharesFromFirst
  <2>1. PICK l \in PriceLevels, taken \in Quantities :
          /\ head[l] # None
          /\ taken < quantity[head[l]]
          /\ quantity' = [quantity EXCEPT ![head[l]] = @ - taken]
          /\ totalVolume' = [totalVolume EXCEPT ![l] = @ - taken]
    BY <1>2 DEF TakeSharesFromFirst
  <2>2. PICK b : b = head[l]
    OBVIOUS
  <2>3. b \in OnLevel(l)
    <3>1. /\ IsList(Queues[l], head[l], tail[l], next, prev) /\ Queues[l] \in Seq(Blocks)
          /\ Members(Queues[l]) = OnLevel(l)
      BY QueueFacts
    <3>2. b = At(Queues[l], 1)
      BY <2>2, <3>1 DEF IsList
    <3> QED
      BY <2>1, <2>2, <3>1, <3>2 DEF At, Members
  <2>4. UNCHANGED <<head, tail, orderCount, constructed, linkVars, lifetime>>
    BY <1>2 DEF TakeSharesFromFirst
  <2>5. taken \in Nat
    BY QuantitiesArePositive
  <2>6. LevelsSound' /\ Queues' = Queues
    BY <2>1, <2>2, <2>3, <2>4, <2>5, ReduceKeepsLevels
  <2> QED
    BY <2>1, <2>2, <2>3, <2>4, <2>6 DEF linkVars
<1>3. CASE ReduceOrderQuantity
  <2>1. PICK b \in constructed, reduced \in Quantities :
          /\ level[b] # None
          /\ reduced < quantity[b]
          /\ quantity' = [quantity EXCEPT ![b] = @ - reduced]
          /\ totalVolume' = [totalVolume EXCEPT ![level[b]] = @ - reduced]
    BY <1>3 DEF ReduceOrderQuantity, VolumeReduced
  <2>2. PICK l \in PriceLevels : l = level[b]
    BY <1>1, <2>1 DEF ListTypes
  <2>3. b \in OnLevel(l)
    BY <2>2 DEF OnLevel
  <2>4. UNCHANGED <<head, tail, orderCount, constructed, linkVars, lifetime>>
    BY <1>3 DEF ReduceOrderQuantity
  <2>5. reduced \in Nat
    BY QuantitiesArePositive
  <2>6. LevelsSound' /\ Queues' = Queues
    BY <2>1, <2>2, <2>3, <2>4, <2>5, ReduceKeepsLevels
  <2> QED
    BY <2>1, <2>3, <2>4, <2>6 DEF linkVars
<1> QED
  BY <1>2, <1>3

\* take_shares_from_first and reduce_order_quantity.
LEMMA SharesLeaveKeeps ==
    ASSUME LevelInv, TakeSharesFromFirst \/ ReduceOrderQuantity PROVE LevelInv'
<1>1. LevelsSound /\ WalkSound /\ pc = "idle" /\ UNCHANGED walkVars
  BY DEF LevelInv, TakeSharesFromFirst, ReduceOrderQuantity
<1> QED
  BY <1>1, SharesLeave, IdleKeepsWalk DEF LevelInv

\* The walk starts at the first order.
LEMMA StartPruningKeeps == ASSUME LevelInv, StartPruning PROVE LevelInv'
<1>1. PICK l \in PriceLevels : pruning' = l /\ ptr' = head[l]
  BY DEF StartPruning
<1>2. /\ LevelsSound /\ WalkSound /\ pc' = "walking" /\ result' = NothingPruned
      /\ UNCHANGED <<levelVars, constructed, linkVars, quantity, lifetime, following>>
  BY DEF LevelInv, StartPruning
<1>3. LevelsSound' /\ Queues' = Queues
  BY <1>2, StandStill
<1>4. /\ IsList(Queues[l], head[l], tail[l], next, prev) /\ Len(Queues[l]) \in Nat
      /\ DOMAIN Queues[l] = 1 .. Len(Queues[l])
  BY <1>2, QueueFacts
<1>5. WalkIsAt(Queues[pruning], 1)'
  <2>1. Cursor' = At(Queues[l], 1)
    BY <1>1, <1>2, <1>4 DEF Cursor, IsList
  <2>2. 1 \in 1 .. (Len(Queues[l]) + 1) /\ \A n \in DOMAIN Queues[l] : ~(n < 1)
    BY <1>4
  <2>3. Queues'[pruning'] = Queues[l]
    BY <1>1, <1>3
  <2> QED
    BY <2>1, <2>2, <2>3 DEF WalkIsAt, At
<1>6. WalkTypes'
  <2>1. NothingPruned \in [ordersPruned : Nat, quantityPruned : Int]
    BY DEF NothingPruned
  <2>2. head[l] \in Blocks \cup {None}
    BY <1>2 DEF LevelsSound, ListTypes
  <2> QED
    BY <1>1, <1>2, <2>1, <2>2 DEF WalkSound, WalkTypes
<1>7. pruning' # None
  BY <1>1, NoneIsNothing
<1>8. \E k \in Nat : WalkIsAt(Queues[pruning], k)'
  BY <1>5
<1>9. WalkSound'
  BY <1>2, <1>6, <1>7, <1>8 DEF WalkSound
<1> QED
  BY <1>3, <1>9 DEF LevelInv

\* The walk passes a GTC order.
LEMMA KeepOrderKeeps == ASSUME LevelInv, KeepOrder PROVE LevelInv'
<1>1. /\ LevelsSound /\ WalkSound /\ pc = "walking" /\ ptr # None /\ lifetime[ptr] = "GTC"
      /\ ptr' = next[ptr]
      /\ UNCHANGED <<levelVars, constructed, linkVars, quantity, lifetime,
                     pc, pruning, following, result>>
  BY DEF LevelInv, KeepOrder
<1>2. LevelsSound' /\ Queues' = Queues
  BY <1>1, StandStill
<1>3. PICK s : s = Queues[pruning]
  OBVIOUS
<1>4. PICK k \in 1 .. (Len(s) + 1) :
         WalkIsAt(s, k) /\ k \in DOMAIN s /\ ptr = s[k] /\ next[ptr] = At(s, k + 1)
  BY <1>1, <1>3, WalkFacts DEF Cursor
<1>5. s \in Seq(Blocks)
  BY <1>1, <1>3, WalkFacts
<1>6. WalkIsAt(Queues[pruning], k + 1)'
  <2>1. Queues'[pruning'] = s /\ lifetime' = lifetime /\ Cursor' = At(s, k + 1)
    BY <1>1, <1>2, <1>3, <1>4 DEF Cursor
  <2>2. k + 1 \in 1 .. (Len(s) + 1)
    BY <1>4, <1>5
  <2>3. \A n \in DOMAIN s : n < k + 1 => lifetime[s[n]] = "GTC"
    BY <1>1, <1>4, <1>5 DEF WalkIsAt
  <2> QED
    BY <2>1, <2>2, <2>3 DEF WalkIsAt, At
<1>7. WalkTypes'
  <2>1. next[ptr] \in Blocks \cup {None}
    BY <1>4, <1>5 DEF At
  <2> QED
    BY <1>1, <2>1 DEF WalkSound, WalkTypes
<1>8. \E n \in Nat : WalkIsAt(Queues[pruning], n)'
  <2>1. k + 1 \in Nat
    BY <1>4, <1>5
  <2> QED
    BY <1>6, <2>1
<1>9. WalkSound'
  BY <1>1, <1>7, <1>8 DEF WalkSound
<1> QED
  BY <1>2, <1>9 DEF LevelInv

\* A sum that wraps is still a number.
LEMMA WrappedIsInt == \A n \in Int : Wrapped(n) \in Int
BY QuantitiesArePositive DEF Wrapped

\* The order the walk stands on, and the lists without it.
LEMMA PruneOrderLeaves ==
    ASSUME LevelInv, PruneOrder
    PROVE  /\ LevelsSound' /\ UNCHANGED <<constructed, quantity, lifetime, pruning, ptr>>
           /\ ptr \in constructed /\ level'[ptr] = None
           /\ pruning \in PriceLevels /\ lifetime[ptr] = "DAY"
           /\ Queues[pruning] \in Seq(Blocks)
           /\ \E k \in DOMAIN Queues[pruning] :
                 /\ ptr = Queues[pruning][k]
                 /\ WalkIsAt(Queues[pruning], k)
                 /\ following' = At(Queues[pruning], k + 1)
                 /\ Queues' = [Queues EXCEPT ![pruning] = Without(@, k)]
<1>1. /\ LevelsSound /\ WalkSound /\ pc = "walking" /\ ptr # None /\ lifetime[ptr] = "DAY"
      /\ following' = next[ptr] /\ Remove(pruning, ptr) /\ UNCHANGED <<pruning, ptr>>
  BY DEF LevelInv, PruneOrder
<1>2. pruning \in PriceLevels /\ Queues[pruning] \in Seq(Blocks)
  BY <1>1, WalkFacts
<1>3. PICK k \in DOMAIN Queues[pruning] :
         /\ WalkIsAt(Queues[pruning], k) /\ ptr = Queues[pruning][k]
         /\ next[ptr] = At(Queues[pruning], k + 1)
  BY <1>1, WalkFacts DEF Cursor
<1>4. /\ LevelsSound' /\ Queues' = [Queues EXCEPT ![pruning] = Without(@, k)]
      /\ ptr \in constructed /\ level'[ptr] = None
      /\ UNCHANGED <<constructed, quantity, lifetime>>
  <2>0. PICK b : b = ptr
    OBVIOUS
  <2>1. PICK l \in PriceLevels : l = pruning
    BY <1>2
  <2>2. k \in DOMAIN Queues[l] /\ b = Queues[l][k] /\ Remove(l, b)
    BY <1>1, <1>3, <2>0, <2>1
  <2>3. /\ LevelsSound' /\ Queues' = [Queues EXCEPT ![l] = Without(@, k)]
        /\ b \in constructed /\ level'[b] = None
        /\ UNCHANGED <<constructed, quantity, lifetime>>
    BY <1>1, <2>2, LeaveKeepsLevels
  <2> QED
    BY <2>0, <2>1, <2>3
<1> QED
  BY <1>1, <1>2, <1>3, <1>4

\* The walk takes a DAY order, having read where it goes on: that order moves up
\* to the place of the one that is taken.
LEMMA PruneOrderKeeps == ASSUME LevelInv, PruneOrder PROVE LevelInv'
<1>1. /\ LevelsSound /\ WalkSound /\ pc' = "callback"
  BY DEF LevelInv, PruneOrder
<1>2. /\ LevelsSound' /\ UNCHANGED <<constructed, quantity, lifetime, pruning, ptr>>
      /\ ptr \in constructed /\ level'[ptr] = None
      /\ pruning \in PriceLevels /\ Queues[pruning] \in Seq(Blocks)
  BY PruneOrderLeaves
<1>3. PICK s : s = Queues[pruning]
  OBVIOUS
<1>4. PICK k \in DOMAIN s :
         /\ WalkIsAt(s, k) /\ following' = At(s, k + 1)
         /\ Queues' = [Queues EXCEPT ![pruning] = Without(@, k)]
  BY <1>3, PruneOrderLeaves
<1>5. Queues'[pruning'] = Without(s, k)
  <2>1. Queues \in [PriceLevels -> Seq(Blocks)]
    BY <1>1, QueueFacts
  <2> QED
    BY <1>2, <1>3, <1>4, <2>1
<1>6. /\ s \in Seq(Blocks) /\ Len(s) \in Nat /\ DOMAIN s = 1 .. Len(s) /\ k \in Int
      /\ 1 <= k /\ k <= Len(s)
  BY <1>2, <1>3, <1>4
<1>7. /\ Without(s, k) \in Seq(Blocks) /\ Len(Without(s, k)) = Len(s) - 1
      /\ \A n \in Int : At(Without(s, k), n) = IF n < k THEN At(s, n) ELSE At(s, n + 1)
  BY <1>6, Dropped
<1>8. WalkIsAt(Queues[pruning], k)'
  <2>1. Cursor' = At(Without(s, k), k)
    BY <1>1, <1>4, <1>6, <1>7 DEF Cursor
  <2>2. k \in 1 .. (Len(Without(s, k)) + 1)
    BY <1>6, <1>7
  <2>3. ASSUME NEW n \in DOMAIN Without(s, k), n < k
        PROVE  lifetime'[Without(s, k)[n]] = "GTC"
    <3>1. n \in DOMAIN s /\ n \in Int
      <4>1. DOMAIN Without(s, k) = 1 .. (Len(s) - 1)
        BY DEF Without
      <4> QED
        BY <1>6, <2>3, <4>1
    <3>2. Without(s, k)[n] = s[n]
      BY <1>7, <2>3, <3>1 DEF At
    <3> QED
      BY <1>2, <1>4, <2>3, <3>1, <3>2 DEF WalkIsAt
  <2> QED
    BY <1>5, <2>1, <2>2, <2>3 DEF WalkIsAt, At
<1>9. WalkTypes'
  <2>1. PICK shares \in SharesWith(quantity[ptr]) :
          result' = [ordersPruned |-> result.ordersPruned + 1, quantityPruned |-> shares]
    BY DEF PruneOrder
  <2>2. quantity[ptr] \in Nat /\ result \in [ordersPruned : Nat, quantityPruned : Int]
    BY <1>1, <1>2 DEF LevelsSound, ListTypes, WalkSound, WalkTypes
  <2>3. shares \in Int
    BY <2>1, <2>2, WrappedIsInt DEF SharesWith
  <2>4. result' \in [ordersPruned : Nat, quantityPruned : Int]
    BY <2>1, <2>2, <2>3
  <2>5. following' \in Blocks \cup {None}
    BY <1>4, <1>6 DEF At
  <2> QED
    BY <1>1, <1>2, <2>4, <2>5 DEF WalkSound, WalkTypes
<1>10. WalkSound'
  <2>1. k \in Nat
    BY <1>6
  <2>2. pruning' # None
    BY <1>2, NoneIsNothing
  <2>3. ptr' \in constructed' /\ level'[ptr'] = None
    BY <1>2
  <2> QED
    BY <1>1, <1>8, <1>9, <2>1, <2>2, <2>3 DEF WalkSound
<1> QED
  BY <1>2, <1>10 DEF LevelInv

\* The block of the order that was taken goes, and the walk goes on at the order
\* it noted before, which is still on the level.
LEMMA CallbackKeeps == ASSUME LevelInv, Callback PROVE LevelInv'
<1>1. /\ LevelsSound /\ WalkSound /\ pc = "callback" /\ Free(ptr) /\ ptr' = following
      /\ following' = None /\ pc' = "walking" /\ UNCHANGED <<pruning, result>>
  BY DEF LevelInv, Callback, Following
<1>2. ptr \in constructed /\ level[ptr] = None
  BY <1>1 DEF WalkSound
<1>3. LevelsSound' /\ Queues' = Queues /\ UNCHANGED lifetime
  BY <1>1, <1>2, FreeKeepsLevels
<1>4. Cursor' = Cursor
  BY <1>1 DEF Cursor
<1>5. ASSUME NEW k \in Nat, WalkIsAt(Queues[pruning], k)
      PROVE  WalkIsAt(Queues[pruning], k)'
  BY <1>1, <1>3, <1>4, <1>5 DEF WalkIsAt, At
<1>6. WalkTypes'
  BY <1>1 DEF WalkSound, WalkTypes
<1>7. WalkSound'
  BY <1>1, <1>5, <1>6 DEF WalkSound
<1> QED
  BY <1>3, <1>7 DEF LevelInv

\* The walk has passed the last order.
LEMMA FinishPruningKeeps == ASSUME LevelInv, FinishPruning PROVE LevelInv'
<1>1. /\ LevelsSound /\ WalkSound /\ pc' = "idle" /\ pruning' = None /\ result' = NothingPruned
      /\ UNCHANGED <<levelVars, constructed, linkVars, quantity, lifetime, ptr, following>>
  BY DEF LevelInv, FinishPruning
<1>2. LevelsSound'
  BY <1>1, StandStill
<1>3. NothingPruned \in [ordersPruned : Nat, quantityPruned : Int]
  BY DEF NothingPruned
<1> QED
  BY <1>1, <1>2, <1>3 DEF LevelInv, WalkSound, WalkTypes

\* No step of the specification leaves the invariant.
LEMMA LevelInvKept == ASSUME LevelInv, [Next]_vars PROVE LevelInv'
<1>1. CASE UNCHANGED vars
  <2>1. UNCHANGED <<levelVars, constructed, linkVars, quantity, lifetime, walkVars>>
    BY <1>1 DEF vars, levelVars, linkVars, walkVars
  <2>2. LevelsSound' /\ Queues' = Queues /\ UNCHANGED <<lifetime, constructed, level, walkVars>>
    BY <2>1, StandStill DEF LevelInv, linkVars
  <2> QED
    BY <2>2 DEF LevelInv, WalkSound, WalkTypes, WalkIsAt, Cursor, At, walkVars
<1> QED
  BY <1>1, ConstructKeeps, DestroyKeeps, PushBackKeeps, PopFrontKeeps, RemoveOrderKeeps,
     SharesLeaveKeeps, StartPruningKeeps, KeepOrderKeeps, PruneOrderKeeps, CallbackKeeps,
     FinishPruningKeeps DEF Next

\* It holds of every state.
LEMMA LevelInvHolds == Spec => []LevelInv
BY InitGivesLevelInv, LevelInvKept, PTL DEF Spec

\* For any blocks, levels and quantities: the pointers lead to blocks or
\* nowhere, volumes and counts are never negative, and the walk is in one of
\* its states.
THEOREM LevelTypeCorrect == Spec => []TypeOK
<1>1. LevelInv => TypeOK
  <2> SUFFICES ASSUME LevelInv PROVE TypeOK
    OBVIOUS
  <2>1. ListTypes /\ CachesAgree /\ WalkTypes
    BY DEF LevelInv, LevelsSound, WalkSound
  <2>2. \A l \in PriceLevels : totalVolume[l] \in Nat /\ orderCount[l] \in Nat
    BY <2>1, LevelFacts DEF CachesAgree
  <2>3. totalVolume \in [PriceLevels -> Nat] /\ orderCount \in [PriceLevels -> Nat]
    BY <2>1, <2>2 DEF ListTypes
  <2> QED
    BY <2>1, <2>3 DEF TypeOK, ListTypes, WalkTypes
<1> QED
  BY <1>1, LevelInvHolds, PTL

\* A list without repetition is as long as the set of its orders is large.
LEMMA MembersCounted ==
    ASSUME NEW s \in Seq(Blocks), IsDistinct(s)
    PROVE  Cardinality(Members(s)) = Len(s)
<1> DEFINE f == [n \in 1 .. Len(s) |-> s[n]]
<1>1. Len(s) \in Nat /\ DOMAIN s = 1 .. Len(s)
  OBVIOUS
<1>2. f \in [1 .. Len(s) -> Members(s)]
  BY <1>1 DEF Members
<1>3. \A m, n \in 1 .. Len(s) : f[m] = f[n] => m = n
  BY <1>1 DEF IsDistinct
<1>4. \A b \in Members(s) : \E n \in 1 .. Len(s) : f[n] = b
  BY <1>1 DEF Members
<1> HIDE DEF f
<1>5. ExistsBijection(1 .. Len(s), Members(s))
  BY <1>2, <1>3, <1>4 DEF ExistsBijection, Bijection, Injection, Surjection, IsInjective
<1> QED
  BY <1>1, <1>5, FS_CountingElements

\* push_back, pop_front, remove_order and prune_day_orders keep the list of
\* every level the same in both directions, hold in it exactly the orders of
\* the level, and keep its volume and its count exact: for any blocks, levels
\* and quantities, and at every step of a walk that frees what it stands on.
THEOREM LevelsAreSound == Spec => []ListsAreSound
<1>1. LevelInv => ListsAreSound
  <2> SUFFICES ASSUME LevelInv, NEW l \in PriceLevels
               PROVE  LET forward  == Queue(l)
                          backward == Walk(tail[l], prev)
                      IN  /\ DOMAIN forward = 1 .. Cardinality(OnLevel(l))
                          /\ {forward[i] : i \in DOMAIN forward} = OnLevel(l)
                          /\ forward # <<>> => next[forward[Cardinality(OnLevel(l))]] = None
                          /\ backward = [i \in DOMAIN forward |->
                                             forward[Cardinality(OnLevel(l)) + 1 - i]]
    BY DEF ListsAreSound, ListsMirror, LevelInv, LevelsSound
  <2> DEFINE s == Queues[l]
  <2>1. /\ IsList(s, head[l], tail[l], next, prev) /\ Members(s) = OnLevel(l)
        /\ s \in Seq(Blocks) /\ Queue(l) = s
        /\ Len(s) \in Nat /\ DOMAIN s = 1 .. Len(s)
    BY QueueFacts DEF LevelInv
  <2> HIDE DEF s
  <2>2. Cardinality(OnLevel(l)) = Len(s)
    BY <2>1, MembersCounted DEF IsList
  <2>3. Walk(tail[l], prev) = Backwards(s)
    BY <2>1, ListIsWalked
  <2>4. s # <<>> => next[s[Len(s)]] = None
    <3> SUFFICES ASSUME s # <<>> PROVE next[s[Len(s)]] = None
      OBVIOUS
    <3>1. Len(s) \in DOMAIN s
      BY <2>1
    <3>2. next[s[Len(s)]] = At(s, Len(s) + 1)
      BY <2>1, <3>1 DEF IsList
    <3> QED
      BY <2>1, <3>2 DEF At
  <2> QED
    BY <2>1, <2>2, <2>3, <2>4 DEF Members, Backwards
<1> QED
  BY <1>1, LevelInvHolds, PTL

\* For any blocks, levels and quantities: prune_day_orders never stands on a
\* block it has freed or that is on no level, and passes no DAY order over.
THEOREM WalkIsComplete == Spec => []WalkMissesNoOrder
<1>1. LevelInv => WalkMissesNoOrder
  <2> SUFFICES ASSUME LevelInv, pc # "idle"
               PROVE  /\ Ahead \subseteq OnLevel(pruning)
                      /\ \A b \in OnLevel(pruning) : lifetime[b] = "DAY" => b \in Ahead
    BY DEF WalkMissesNoOrder
  <2> DEFINE s == Queues[pruning]
  <2>1. /\ pruning \in PriceLevels /\ s \in Seq(Blocks)
        /\ IsList(s, head[pruning], tail[pruning], next, prev)
    BY WalkFacts
  <2>2. PICK k \in 1 .. (Len(s) + 1) : WalkIsAt(s, k)
    BY WalkFacts
  <2>3. Members(s) = OnLevel(pruning) /\ Len(s) \in Nat /\ DOMAIN s = 1 .. Len(s)
    BY <2>1, QueueFacts DEF LevelInv
  <2> HIDE DEF s
  <2>4. Walk(Cursor, next) = From(s, k)
    BY <2>1, <2>2, ListIsWalked DEF WalkIsAt
  <2>5. Ahead = {From(s, k)[i] : i \in DOMAIN From(s, k)}
    BY <2>4 DEF Ahead, Cursor
  <2>6. Ahead \subseteq Members(s)
    BY <2>2, <2>3, <2>5 DEF From, Members
  <2>7. ASSUME NEW n \in DOMAIN s, lifetime[s[n]] = "DAY"
        PROVE  s[n] \in Ahead
    <3>1. n >= k
      BY <2>2, <2>3, <2>7 DEF WalkIsAt
    <3>2. /\ n + 1 - k \in 1 .. (Len(s) + 1 - k)
          /\ (n + 1 - k) + k - 1 = n
      BY <2>2, <2>3, <3>1
    <3> QED
      BY <2>5, <3>2 DEF From
  <2> QED
    BY <2>3, <2>6, <2>7 DEF Members
<1> QED
  BY <1>1, LevelInvHolds, PTL

-----------------------------------------------------------------------------
(* What the totals of a walk say *)

\* No sum of the shares of distinct orders reaches the end of Quantity.
TotalsFit ==
    \E most \in Nat : /\ Quantities \subseteq 0 .. most
                      /\ most * Cardinality(Blocks) < QuantityEnd

\* A sum is at most the largest value times the number of values.
LEMMA SumIsAtMost ==
    ASSUME NEW S, IsFiniteSet(S), NEW most \in Nat, NEW f,
           \A x \in S : f[x] \in Nat /\ f[x] <= most
    PROVE  SumFunctionOnSet(f, S) <= most * Cardinality(S)
<1> DEFINE Bad == {s \in SUBSET S : ~(SumFunctionOnSet(f, s) <= most * Cardinality(s))}
<1>1. SUFFICES ASSUME Bad # {} PROVE FALSE
  OBVIOUS
<1>2. PICK B \in Bad : \A U \in SUBSET B : U \in Bad => U = B
  <2>1. Bad \subseteq SUBSET S
    OBVIOUS
  <2> HIDE DEF Bad
  <2> QED BY <1>1, <2>1, SmallestSet
<1>3. IsFiniteSet(B) /\ B \subseteq S
  BY FS_Subset, B \in SUBSET S
<1>4. B # {}
  <2> SUFFICES ASSUME B = {} PROVE FALSE
    OBVIOUS
  <2>1. SumFunctionOnSet(f, B) = 0 /\ Cardinality(B) = 0
    BY SumEmpty, FS_EmptySet
  <2> QED
    BY <2>1
<1>5. PICK e \in B : TRUE
  BY <1>4
<1> DEFINE r == B \ {e}
<1>6. IsFiniteSet(r) /\ Cardinality(r) = Cardinality(B) - 1 /\ Cardinality(B) \in Nat
  BY <1>3, FS_RemoveElement, FS_CardinalityType
<1>7. SumFunctionOnSet(f, r) <= most * Cardinality(r)
  <2>1. r \in SUBSET S /\ r \notin Bad
    BY <1>2, <1>3, <1>5
  <2> HIDE DEF r
  <2> QED
    BY <2>1
<1>8. /\ SumFunctionOnSet(f, B) = f[e] + SumFunctionOnSet(f, r)
      /\ SumFunctionOnSet(f, r) \in Int
  <2>1. (\A x \in B : f[x] \in Int) /\ \A x \in r : f[x] \in Int
    BY <1>3
  <2> QED
    BY <1>3, <1>6, <2>1, SumRemove, SumInt
<1>9. most * Cardinality(B) = most * (Cardinality(B) - 1) + most
  BY <1>6
<1>10. f[e] \in Nat /\ f[e] <= most
  BY <1>3
<1>11. most * (Cardinality(B) - 1) \in Int /\ most * Cardinality(B) \in Int
  BY <1>6
<1>12. ~(SumFunctionOnSet(f, B) <= most * Cardinality(B))
  OBVIOUS
<1> HIDE DEF r, Bad
<1> QED
  BY <1>6, <1>7, <1>8, <1>9, <1>10, <1>11, <1>12

\* What was counted and what is still on the level is never more than fits.
TotalsInv(most) ==
    /\ \A b \in constructed : quantity[b] <= most
    /\ pc # "idle" => /\ result.quantityPruned \in Nat
                      /\ result.quantityPruned + totalVolume[pruning] <= most * Cardinality(Blocks)

\* The volume of a level is the sum of distinct orders, so it fits.
LEMMA LevelFits ==
    ASSUME LevelInv, NEW most \in Nat, TotalsInv(most), NEW l \in PriceLevels
    PROVE  totalVolume[l] \in Nat /\ totalVolume[l] <= most * Cardinality(Blocks)
<1>1. ListTypes /\ CachesAgree
  BY DEF LevelInv, LevelsSound
<1>2. /\ OnLevel(l) \in SUBSET Blocks /\ IsFiniteSet(OnLevel(l))
      /\ \A b \in OnLevel(l) : quantity[b] \in Nat /\ quantity[b] <= most
      /\ totalVolume[l] = SumFunctionOnSet(quantity, OnLevel(l)) /\ totalVolume[l] \in Nat
  BY <1>1, LevelFacts DEF CachesAgree, TotalsInv
<1>3. totalVolume[l] <= most * Cardinality(OnLevel(l))
  BY <1>2, SumIsAtMost
<1>4. /\ Cardinality(OnLevel(l)) \in Nat /\ Cardinality(Blocks) \in Nat
      /\ Cardinality(OnLevel(l)) <= Cardinality(Blocks)
  BY <1>2, BlocksAreFinite, FS_Subset, FS_CardinalityType
<1>5. ASSUME NEW m \in Nat, NEW n \in Nat, m <= n
      PROVE  most * m <= most * n
  <2>1. most * n = most * m + most * (n - m)
    OBVIOUS
  <2>2. n - m \in Nat /\ most * m \in Nat
    BY <1>5
  <2>3. most * (n - m) \in Nat
    BY <2>2
  <2> QED
    BY <2>1, <2>2, <2>3
<1>6. most * Cardinality(OnLevel(l)) \in Nat /\ most * Cardinality(Blocks) \in Nat
  BY <1>4
<1> QED
  BY <1>2, <1>3, <1>4, <1>5, <1>6

\* A sum of shares is never negative.
LEMMA VolumesAreNatural ==
    ListTypes => \A l \in PriceLevels : SumFunctionOnSet(quantity, OnLevel(l)) \in Nat
BY LevelFacts

\* The step of prune_day_orders that takes an order: it is a DAY order, and the
\* volume of the level falls by its shares, and its count by one.
LEMMA PruneOrderCounts ==
    ASSUME LevelInv, PruneOrder
    PROVE  /\ lifetime[ptr] = "DAY" /\ ptr \in constructed /\ pruning \in PriceLevels
           /\ quantity[ptr] \in Nat /\ UNCHANGED <<constructed, quantity, pruning>>
           /\ totalVolume[pruning] \in Nat /\ orderCount[pruning] \in Nat
           /\ totalVolume'[pruning] = totalVolume[pruning] - quantity[ptr]
           /\ totalVolume'[pruning] \in Nat
           /\ orderCount'[pruning] = orderCount[pruning] - 1
           /\ result.ordersPruned \in Nat /\ result.quantityPruned \in Int
           /\ \E shares \in {result.quantityPruned + quantity[ptr],
                             Wrapped(result.quantityPruned + quantity[ptr])} :
                 result' = [ordersPruned |-> result.ordersPruned + 1, quantityPruned |-> shares]
<1>1. /\ lifetime[ptr] = "DAY" /\ ptr \in constructed /\ pruning \in PriceLevels
      /\ UNCHANGED <<constructed, quantity, pruning>> /\ LevelsSound'
  BY PruneOrderLeaves
<1>2. ListTypes /\ CachesAgree /\ WalkTypes
  BY DEF LevelInv, LevelsSound, WalkSound
<1>3. quantity[ptr] \in Nat /\ totalVolume[pruning] \in Nat /\ orderCount[pruning] \in Nat
  BY <1>1, <1>2, LevelFacts DEF ListTypes, CachesAgree
<1>4. /\ totalVolume' = [totalVolume EXCEPT ![pruning] = @ - quantity[ptr]]
      /\ orderCount' = [orderCount EXCEPT ![pruning] = @ - 1]
  BY DEF PruneOrder, Remove, Detached
<1>5. /\ totalVolume'[pruning] = totalVolume[pruning] - quantity[ptr]
      /\ orderCount'[pruning] = orderCount[pruning] - 1
  BY <1>1, <1>2, <1>4 DEF ListTypes
<1>6. totalVolume'[pruning] \in Nat
  <2>1. (ListTypes /\ CachesAgree)'
    BY <1>1 DEF LevelsSound
  <2>2. (ListTypes => \A l \in PriceLevels : SumFunctionOnSet(quantity, OnLevel(l)) \in Nat)'
    BY VolumesAreNatural, PTL
  <2> QED
    BY <1>1, <2>1, <2>2 DEF CachesAgree
<1>7. result.ordersPruned \in Nat /\ result.quantityPruned \in Int
  BY <1>2 DEF WalkTypes
<1>8. \E shares \in {result.quantityPruned + quantity[ptr],
                     Wrapped(result.quantityPruned + quantity[ptr])} :
         result' = [ordersPruned |-> result.ordersPruned + 1, quantityPruned |-> shares]
  BY DEF PruneOrder, SharesWith
<1> QED
  BY <1>1, <1>3, <1>5, <1>6, <1>7, <1>8

\* Then the total is the sum, whichever way the compiler adds.
LEMMA TotalsAdd ==
    ASSUME NEW most \in Nat, most * Cardinality(Blocks) < QuantityEnd,
           LevelInv, TotalsInv(most), PruneOrder
    PROVE  /\ result'.ordersPruned = result.ordersPruned + 1
           /\ result'.quantityPruned = result.quantityPruned + quantity[ptr]
<1>1. /\ quantity[ptr] \in Nat /\ totalVolume[pruning] \in Nat /\ totalVolume'[pruning] \in Nat
      /\ totalVolume'[pruning] = totalVolume[pruning] - quantity[ptr]
  BY PruneOrderCounts
<1>2. PICK shares \in {result.quantityPruned + quantity[ptr],
                       Wrapped(result.quantityPruned + quantity[ptr])} :
         result' = [ordersPruned |-> result.ordersPruned + 1, quantityPruned |-> shares]
  BY PruneOrderCounts
<1>3. /\ result.quantityPruned \in Nat
      /\ result.quantityPruned + totalVolume[pruning] <= most * Cardinality(Blocks)
  BY DEF PruneOrder, TotalsInv
<1>4. Cardinality(Blocks) \in Nat
  BY BlocksAreFinite, FS_CardinalityType
<1>5. most * Cardinality(Blocks) \in Nat
  BY <1>4
<1>6. /\ result.quantityPruned + quantity[ptr] \in Nat
      /\ result.quantityPruned + quantity[ptr] < QuantityEnd
  BY <1>1, <1>3, <1>5, QuantitiesArePositive
<1>7. ASSUME NEW n \in Nat, n < QuantityEnd
      PROVE  Wrapped(n) = n
  <2>1. QuantityEnd \in Nat /\ n + QuantityEnd \in Nat /\ n + QuantityEnd < 2 * QuantityEnd
    BY <1>7, QuantitiesArePositive
  <2>2. (n + QuantityEnd) % (2 * QuantityEnd) = n + QuantityEnd
    BY <2>1
  <2> QED
    BY <2>1, <2>2 DEF Wrapped
<1>8. Wrapped(result.quantityPruned + quantity[ptr]) = result.quantityPruned + quantity[ptr]
  BY <1>6, <1>7
<1> QED
  BY <1>2, <1>8

\* What a walk adds to its total it takes from the level.
LEMMA TotalsInvKept ==
    ASSUME NEW most \in Nat, Quantities \subseteq 0 .. most,
           most * Cardinality(Blocks) < QuantityEnd,
           LevelInv, TotalsInv(most), [Next]_vars
    PROVE  TotalsInv(most)'
<1>0. ListTypes /\ CachesAgree /\ WalkTypes
  BY DEF LevelInv, LevelsSound, WalkSound
<1>1. CASE Construct
  <2>1. PICK b \in Blocks \ constructed, shares \in Quantities :
           constructed' = constructed \cup {b} /\ quantity' = [quantity EXCEPT ![b] = shares]
    BY <1>1 DEF Construct
  <2>2. pc' = "idle"
    BY <1>1 DEF Construct, walkVars
  <2>3. \A c \in constructed' : quantity'[c] <= most
    BY <1>0, <2>1 DEF TotalsInv, ListTypes
  <2> QED
    BY <2>2, <2>3 DEF TotalsInv
<1>2. CASE Destroy
  BY <1>2 DEF Destroy, Free, walkVars, TotalsInv
<1>3. CASE PushBack \/ PopFront \/ RemoveOrder
  BY <1>3 DEF PushBack, PopFront, RemoveOrder, Remove, walkVars, TotalsInv
<1>4. CASE TakeSharesFromFirst \/ ReduceOrderQuantity
  <2>1. pc' = "idle"
    BY <1>4 DEF TakeSharesFromFirst, ReduceOrderQuantity, walkVars
  <2>2. constructed' = constructed
    BY <1>4, SharesLeave DEF LevelInv
  <2>3. PICK l \in PriceLevels : \E b \in OnLevel(l), shares \in Quantities :
           shares < quantity[b] /\ quantity' = [quantity EXCEPT ![b] = @ - shares]
    BY <1>4, SharesLeave DEF LevelInv
  <2>4. PICK b \in OnLevel(l), shares \in Quantities :
           shares < quantity[b] /\ quantity' = [quantity EXCEPT ![b] = @ - shares]
    BY <2>3
  <2>5. shares \in Nat /\ b \in Blocks
    <3>1. shares \in Nat
      BY QuantitiesArePositive
    <3>2. b \in Blocks
      BY <1>0, LevelFacts
    <3> QED
      BY <3>1, <3>2
  <2>6. \A c \in constructed : quantity[c] \in Nat /\ quantity[c] <= most /\ c \in Blocks
    BY <1>0 DEF TotalsInv, ListTypes
  <2>7. \A c \in constructed : quantity'[c] <= most
    BY <1>0, <2>4, <2>5, <2>6 DEF ListTypes
  <2> QED
    BY <2>1, <2>2, <2>7 DEF TotalsInv
<1>5. CASE StartPruning
  <2>1. PICK l \in PriceLevels : pruning' = l
    BY <1>5 DEF StartPruning
  <2>2. /\ result'.quantityPruned = 0 /\ totalVolume' = totalVolume
        /\ constructed' = constructed /\ quantity' = quantity
    BY <1>5 DEF StartPruning, NothingPruned, levelVars
  <2>3. totalVolume[l] \in Nat /\ totalVolume[l] <= most * Cardinality(Blocks)
    BY LevelFits
  <2> QED
    BY <2>1, <2>2, <2>3 DEF TotalsInv
<1>6. CASE KeepOrder
  BY <1>6 DEF KeepOrder, TotalsInv, levelVars
<1>7. CASE PruneOrder
  <2>1. /\ quantity[ptr] \in Nat /\ UNCHANGED <<constructed, quantity, pruning>>
        /\ totalVolume[pruning] \in Nat /\ totalVolume'[pruning] \in Nat
        /\ totalVolume'[pruning] = totalVolume[pruning] - quantity[ptr]
    BY <1>7, PruneOrderCounts
  <2>2. result'.quantityPruned = result.quantityPruned + quantity[ptr]
    BY <1>7, TotalsAdd
  <2>3. /\ result.quantityPruned \in Nat
        /\ result.quantityPruned + totalVolume[pruning] <= most * Cardinality(Blocks)
    BY <1>7 DEF PruneOrder, TotalsInv
  <2>4. Cardinality(Blocks) \in Nat
    BY BlocksAreFinite, FS_CardinalityType
  <2>5. most * Cardinality(Blocks) \in Nat
    BY <2>4
  <2>6. /\ result'.quantityPruned \in Nat
        /\ result'.quantityPruned + totalVolume'[pruning] <= most * Cardinality(Blocks)
    BY <2>1, <2>2, <2>3, <2>5
  <2> QED
    BY <2>1, <2>6 DEF TotalsInv
<1>8. CASE Callback
  BY <1>8 DEF Callback, Free, levelVars, TotalsInv
<1>9. CASE FinishPruning
  BY <1>9 DEF FinishPruning, TotalsInv
<1>10. CASE UNCHANGED vars
  BY <1>10 DEF vars, TotalsInv
<1> QED
  BY <1>1, <1>2, <1>3, <1>4, <1>5, <1>6, <1>7, <1>8, <1>9, <1>10 DEF Next

\* The step that the property is about.
LEMMA TotalsStep ==
    ASSUME NEW most \in Nat, most * Cardinality(Blocks) < QuantityEnd,
           LevelInv, TotalsInv(most), [Next]_vars
    PROVE  [pc = "walking" /\ pc' = "callback" =>
              /\ lifetime[ptr] = "DAY"
              /\ result'.ordersPruned - result.ordersPruned
                    = orderCount[pruning] - orderCount'[pruning]
              /\ result'.quantityPruned - result.quantityPruned
                    = totalVolume[pruning] - totalVolume'[pruning]]_vars
<1> SUFFICES ASSUME pc = "walking", pc' = "callback"
             PROVE  /\ lifetime[ptr] = "DAY"
                    /\ result'.ordersPruned - result.ordersPruned
                          = orderCount[pruning] - orderCount'[pruning]
                    /\ result'.quantityPruned - result.quantityPruned
                          = totalVolume[pruning] - totalVolume'[pruning]
  OBVIOUS
<1>1. PruneOrder
  BY DEF Next, Construct, Destroy, PushBack, PopFront, RemoveOrder, TakeSharesFromFirst,
         ReduceOrderQuantity, StartPruning, KeepOrder, Callback, FinishPruning, vars
<1>2. /\ lifetime[ptr] = "DAY" /\ quantity[ptr] \in Nat
      /\ totalVolume[pruning] \in Nat /\ orderCount[pruning] \in Nat
      /\ totalVolume'[pruning] = totalVolume[pruning] - quantity[ptr]
      /\ orderCount'[pruning] = orderCount[pruning] - 1
      /\ result.ordersPruned \in Nat /\ result.quantityPruned \in Int
  BY <1>1, PruneOrderCounts
<1>3. /\ result'.ordersPruned = result.ordersPruned + 1
      /\ result'.quantityPruned = result.quantityPruned + quantity[ptr]
  BY <1>1, TotalsAdd
<1> QED
  BY <1>2, <1>3

\* "accumulates stats": for any blocks and levels, and whatever quantities of
\* distinct orders cannot reach the end of Quantity together, prune_day_orders
\* takes DAY orders only, and what it reports grows by what the level loses.
\* (Without the hypothesis it does not: the total is a signed Quantity.)
THEOREM LevelTotalsAreExact ==
    ASSUME TotalsFit
    PROVE  Spec => PruneTotalsAreExact
<1>1. PICK most \in Nat : /\ Quantities \subseteq 0 .. most
                          /\ most * Cardinality(Blocks) < QuantityEnd
  BY DEF TotalsFit
<1>2. Init => TotalsInv(most)
  BY DEF Init, TotalsInv
<1>3. LevelInv /\ TotalsInv(most) /\ [Next]_vars => TotalsInv(most)'
  BY <1>1, TotalsInvKept
<1>4. LevelInv /\ TotalsInv(most) /\ [Next]_vars =>
         [pc = "walking" /\ pc' = "callback" =>
            /\ lifetime[ptr] = "DAY"
            /\ result'.ordersPruned - result.ordersPruned
                  = orderCount[pruning] - orderCount'[pruning]
            /\ result'.quantityPruned - result.quantityPruned
                  = totalVolume[pruning] - totalVolume'[pruning]]_vars
  BY <1>1, TotalsStep
<1> QED
  BY <1>2, <1>3, <1>4, LevelInvHolds, PTL DEF Spec, PruneTotalsAreExact

-----------------------------------------------------------------------------
(* The lists implement queues *)

\* What FifoLevels sees in the blocks.
Heap ==
    [b \in Blocks |->
        IF b \in constructed THEN [quantity |-> quantity[b], lifetime |-> lifetime[b]]
                             ELSE None]

\* Taking a block out of a sequence is RemoveAt of the community module.
LEMMA DroppedIsRemoved ==
    ASSUME NEW s \in Seq(Blocks), NEW k \in DOMAIN s
    PROVE  Promise!RemoveAt(s, k) = Without(s, k)
<1> DEFINE a == SubSeq(s, 1, k - 1)
           c == SubSeq(s, k + 1, Len(s))
<1>1. Len(s) \in Nat /\ DOMAIN s = 1 .. Len(s) /\ k \in Int /\ 1 <= k /\ k <= Len(s)
  OBVIOUS
<1>2. /\ a \in Seq(Blocks) /\ Len(a) = k - 1
      /\ \A n \in 1 .. (k - 1) : a[n] = s[n]
  BY <1>1
<1>3. /\ c \in Seq(Blocks) /\ Len(c) = Len(s) - k
      /\ \A n \in 1 .. (Len(s) - k) : c[n] = s[k + n]
  BY <1>1
<1> DEFINE w == a \o c
<1>4. /\ w \in Seq(Blocks) /\ Len(w) = Len(a) + Len(c)
      /\ \A n \in 1 .. Len(a) + Len(c) : w[n] = IF n <= Len(a) THEN a[n] ELSE c[n - Len(a)]
  <2> HIDE DEF a, c
  <2> QED
    BY <1>2, <1>3, ConcatProperties
<1>5. Promise!RemoveAt(s, k) = w
  BY DEF Promise!RemoveAt
<1> HIDE DEF a, c, w
<1>6. Len(w) = Len(s) - 1 /\ DOMAIN w = 1 .. (Len(s) - 1)
  BY <1>1, <1>2, <1>3, <1>4
<1>7. ASSUME NEW n \in 1 .. (Len(s) - 1)
      PROVE  w[n] = IF n < k THEN s[n] ELSE s[n + 1]
  <2>1. w[n] = IF n <= k - 1 THEN a[n] ELSE c[n - (k - 1)]
    BY <1>1, <1>2, <1>3, <1>4
  <2>2. CASE n < k
    BY <1>1, <1>2, <2>1, <2>2
  <2>3. CASE n >= k
    <3>1. /\ n - (k - 1) \in 1 .. (Len(s) - k) /\ k + (n - (k - 1)) = n + 1
          /\ ~(n <= k - 1) /\ ~(n < k)
      BY <1>1, <2>3
    <3>2. c[n - (k - 1)] = s[n + 1]
      BY <1>3, <3>1
    <3> QED
      BY <2>1, <3>1, <3>2
  <2> QED
    BY <1>1, <2>2, <2>3
<1>8. w = [n \in 1 .. (Len(s) - 1) |-> w[n]]
  BY <1>4, <1>6
<1> QED
  BY <1>5, <1>7, <1>8 DEF Without

\* A block that holds an order is never taken for one that holds none.
LEMMA HeapFacts ==
    ASSUME ListTypes
    PROVE  \A b \in Blocks :
              /\ b \in constructed =>
                    /\ Heap[b] = [quantity |-> quantity[b], lifetime |-> lifetime[b]]
                    /\ Heap[b] # None
              /\ b \notin constructed => Heap[b] = None
<1> SUFFICES ASSUME NEW b \in constructed PROVE Heap[b] # None
  BY DEF Heap
<1>1. quantity[b] \in Nat /\ lifetime[b] \in Lifetimes /\ b \in Blocks
  BY DEF ListTypes
<1>2. [quantity |-> quantity[b], lifetime |-> lifetime[b]]
         \in [quantity : Nat, lifetime : Lifetimes]
  BY <1>1
<1> QED
  BY <1>1, <1>2, NoneIsNoOrder DEF Heap

\* An order is queued when it is on a level.
LEMMA QueuedIsOnLevel ==
    ASSUME LevelsSound, NEW b \in constructed
    PROVE  Promise!Queued(b) <=> level[b] # None
<1>1. Promise!Queued(b) <=> \E l \in PriceLevels : \E n \in DOMAIN Queues[l] : Queues[l][n] = b
  BY DEF Promise!Queued, Queues
<1>2. level[b] \in PriceLevels \cup {None}
  BY DEF LevelsSound, ListTypes
<1> QED
  BY <1>1, <1>2, QueueFacts, NoneIsNothing

\* A step that shows nothing.
LEMMA NothingShown ==
    ASSUME Heap' = Heap, Queues' = Queues, pruning' = pruning
    PROVE  UNCHANGED Promise!vars
BY DEF Promise!vars, Heap, Queues

\* The orders that are on levels are met as they were.
LEMMA QueuesKept == ASSUME LevelInv, Construct PROVE Queues' = Queues
<1>1. LevelsSound /\ ListTypes
  BY DEF LevelInv, LevelsSound
<1>2. PICK b \in Blocks \ constructed :
          /\ constructed' = constructed \cup {b}
          /\ next' = [next EXCEPT ![b] = None]
          /\ prev' = [prev EXCEPT ![b] = None]
          /\ level' = [level EXCEPT ![b] = None]
          /\ \E shares \in Quantities : quantity' = [quantity EXCEPT ![b] = shares]
  BY DEF Construct
<1>3. UNCHANGED <<head, tail, totalVolume, orderCount>>
  BY DEF Construct, levelVars
<1>4. \A l \in PriceLevels : \A c \in OnLevel(l) : c \in Blocks \ {b}
  BY <1>1, <1>2, LevelFacts
<1>5. \A l \in PriceLevels : \A c \in OnLevel(l) :
         next'[c] = next[c] /\ prev'[c] = prev[c] /\ quantity'[c] = quantity[c]
  BY <1>1, <1>2, <1>4 DEF ListTypes
<1>6. \A l \in PriceLevels : {c \in constructed' : level'[c] = l} = OnLevel(l)
  BY <1>1, <1>2, NoneIsNothing DEF OnLevel, ListTypes
<1> QED
  BY <1>1, <1>3, <1>5, <1>6, SameLevels

\* Destroy and Callback: an order that is queued nowhere goes.
LEMMA FreeImplements ==
    ASSUME LevelsSound, NEW b \in constructed, level[b] = None, Free(b), pruning' = pruning
    PROVE  Promise!Destroy
<1>1. Queues' = Queues /\ ListTypes
  BY FreeKeepsLevels DEF LevelsSound
<1>2. constructed' = constructed \ {b} /\ UNCHANGED <<quantity, lifetime>> /\ b \in Blocks
  BY <1>1 DEF Free, ListTypes
<1>3. Heap' = [Heap EXCEPT ![b] = None]
  BY <1>2 DEF Heap
<1>4. Heap[b] # None /\ ~Promise!Queued(b)
  BY <1>1, <1>2, HeapFacts, QueuedIsOnLevel
<1> QED
  BY <1>1, <1>2, <1>3, <1>4 DEF Promise!Destroy, Heap, Queues

\* Construct.
LEMMA ConstructImplements == ASSUME LevelInv, Construct PROVE Promise!Construct
<1>1. LevelsSound /\ ListTypes
  BY DEF LevelInv, LevelsSound
<1>2. PICK b \in Blocks \ constructed, shares \in Quantities, life \in Lifetimes :
          /\ constructed' = constructed \cup {b}
          /\ next' = [next EXCEPT ![b] = None]
          /\ prev' = [prev EXCEPT ![b] = None]
          /\ level' = [level EXCEPT ![b] = None]
          /\ quantity' = [quantity EXCEPT ![b] = shares]
          /\ lifetime' = [lifetime EXCEPT ![b] = life]
  BY DEF Construct
<1>3. Heap[b] = None
  BY <1>2, HeapFacts, <1>1
<1>4. Heap' = [Heap EXCEPT ![b] = [quantity |-> shares, lifetime |-> life]]
  BY <1>1, <1>2 DEF Heap, ListTypes
<1>5. Queues' = Queues
  BY QueuesKept
<1>6. pruning' = pruning
  BY DEF Construct, walkVars
<1> QED
  BY <1>2, <1>3, <1>4, <1>5, <1>6 DEF Promise!Construct, Heap, Queues, Lifetimes

\* An order leaves a queue.
LEMMA LeaveImplements ==
    ASSUME LevelsSound, NEW l \in PriceLevels, NEW k \in DOMAIN Queues[l],
           Queues' = [Queues EXCEPT ![l] = Without(@, k)],
           UNCHANGED <<constructed, quantity, lifetime, pruning>>,
           pruning # None => l = pruning /\ lifetime[Queues[l][k]] = "DAY"
    PROVE  Promise!Leave
<1>1. /\ Queues[l] \in Seq(Blocks) /\ Queues \in [PriceLevels -> Seq(Blocks)]
      /\ Queues[l][k] \in Blocks /\ Queues[l][k] \in constructed /\ ListTypes
  BY QueueFacts DEF LevelsSound
<1>2. Promise!RemoveAt(Queues[l], k) = Without(Queues[l], k)
  BY <1>1, DroppedIsRemoved
<1>3. Queues' = [Queues EXCEPT ![l] = Promise!RemoveAt(@, k)]
  BY <1>1, <1>2
<1>4. Heap' = Heap
  BY DEF Heap
<1>5. pruning # None => l = pruning /\ Heap[Queues[l][k]].lifetime = "DAY"
  <2>1. PICK b \in constructed : b = Queues[l][k] /\ b \in Blocks
    BY <1>1
  <2>2. Heap[b] = [quantity |-> quantity[b], lifetime |-> lifetime[b]]
    BY <1>1, <2>1, HeapFacts
  <2>3. Heap[b].lifetime = lifetime[b]
    BY <2>2
  <2> QED
    BY <2>1, <2>3
<1> QED
  BY <1>3, <1>4, <1>5 DEF Promise!Leave, Heap, Queues

\* push_back: an order that is queued nowhere joins at the back.
LEMMA JoinImplements == ASSUME LevelInv, PushBack PROVE Promise!Join
<1>1. LevelsSound /\ ListTypes /\ pc = "idle" /\ pruning = None
  BY DEF LevelInv, LevelsSound, WalkSound, PushBack
<1>2. PICK l \in PriceLevels, b \in constructed :
         level[b] = None /\ Queues' = [Queues EXCEPT ![l] = Append(@, b)]
  BY <1>1, PushBackJoins
<1>3. UNCHANGED <<constructed, quantity, lifetime, pruning>> /\ b \in Blocks
  BY <1>1 DEF PushBack, walkVars, ListTypes
<1>4. Heap' = Heap
  BY <1>3 DEF Heap
<1>5. Heap[b] # None /\ ~Promise!Queued(b)
  BY <1>1, <1>2, <1>3, HeapFacts, QueuedIsOnLevel
<1> QED
  BY <1>1, <1>2, <1>3, <1>4, <1>5 DEF Promise!Join, Heap, Queues

\* pop_front and remove_order: an order leaves its queue.
LEMMA IdleLeaveImplements ==
    ASSUME LevelInv, PopFront \/ RemoveOrder
    PROVE  Promise!Leave
<1>1. LevelsSound /\ pc = "idle" /\ pruning = None
  BY DEF LevelInv, WalkSound, PopFront, RemoveOrder
<1>2. UNCHANGED <<constructed, quantity, lifetime, pruning>>
  BY DEF PopFront, RemoveOrder, Remove, walkVars
<1>3. PICK l \in PriceLevels : \E k \in DOMAIN Queues[l] :
         Queues' = [Queues EXCEPT ![l] = Without(@, k)]
  BY <1>1, PopFrontLeaves, RemoveOrderLeaves
<1>4. PICK k \in DOMAIN Queues[l] : Queues' = [Queues EXCEPT ![l] = Without(@, k)]
  BY <1>3
<1> QED
  BY <1>1, <1>2, <1>4, LeaveImplements

\* The walk: a DAY order leaves the queue that is pruned.
LEMMA PruneImplements == ASSUME LevelInv, PruneOrder PROVE Promise!Leave
<1>1. /\ LevelsSound /\ UNCHANGED <<constructed, quantity, lifetime, pruning>>
      /\ pruning \in PriceLevels /\ lifetime[ptr] = "DAY"
  BY PruneOrderLeaves DEF LevelInv
<1>2. PICK k \in DOMAIN Queues[pruning] :
         ptr = Queues[pruning][k] /\ Queues' = [Queues EXCEPT ![pruning] = Without(@, k)]
  BY PruneOrderLeaves
<1>3. PICK l \in PriceLevels : l = pruning
  BY <1>1
<1>4. /\ k \in DOMAIN Queues[l] /\ Queues' = [Queues EXCEPT ![l] = Without(@, k)]
      /\ lifetime[Queues[l][k]] = "DAY"
  BY <1>1, <1>2, <1>3
<1> QED
  BY <1>1, <1>3, <1>4, LeaveImplements

\* take_shares_from_first and reduce_order_quantity leave the order some shares.
LEMMA ShrinkImplements ==
    ASSUME LevelInv, TakeSharesFromFirst \/ ReduceOrderQuantity
    PROVE  Promise!Shrink
<1>1. LevelsSound /\ ListTypes /\ pc = "idle" /\ pruning = None
  BY DEF LevelInv, LevelsSound, WalkSound, TakeSharesFromFirst, ReduceOrderQuantity
<1>2. Queues' = Queues /\ UNCHANGED <<constructed, lifetime, level, pruning>>
  BY <1>1, SharesLeave DEF TakeSharesFromFirst, ReduceOrderQuantity, walkVars
<1>3. PICK l \in PriceLevels : \E b \in OnLevel(l), shares \in Quantities :
         shares < quantity[b] /\ quantity' = [quantity EXCEPT ![b] = @ - shares]
  BY <1>1, SharesLeave
<1>4. PICK b \in OnLevel(l), shares \in Quantities :
         shares < quantity[b] /\ quantity' = [quantity EXCEPT ![b] = @ - shares]
  BY <1>3
<1>5. b \in Blocks /\ b \in constructed /\ level[b] = l /\ quantity[b] \in Nat
  BY <1>1, LevelFacts
<1>6. shares \in Nat /\ shares >= 1
  BY QuantitiesArePositive
<1> DEFINE left == quantity[b] - shares
<1>7. left \in 1 .. (quantity[b] - 1) /\ quantity' = [quantity EXCEPT ![b] = left]
  BY <1>4, <1>5, <1>6
<1> HIDE DEF left
<1>8. Heap[b] = [quantity |-> quantity[b], lifetime |-> lifetime[b]]
  BY <1>1, <1>5, HeapFacts
<1>9. Heap[b].quantity = quantity[b]
      /\ [Heap[b] EXCEPT !.quantity = left] = [quantity |-> left, lifetime |-> lifetime[b]]
  BY <1>8
<1>10. Heap' = [Heap EXCEPT ![b] = [quantity |-> left, lifetime |-> lifetime[b]]]
  BY <1>1, <1>2, <1>5, <1>7 DEF Heap, ListTypes
<1>11. Heap' = [Heap EXCEPT ![b].quantity = left]
  BY <1>9, <1>10
<1>12. Promise!Queued(b)
  BY <1>1, <1>5, QueuedIsOnLevel, NoneIsNothing
<1>13. left \in 1 .. (Heap[b].quantity - 1)
  BY <1>7, <1>9
<1> QED
  BY <1>1, <1>2, <1>5, <1>11, <1>12, <1>13 DEF Promise!Shrink, Heap, Queues

\* A walk starts.
LEMMA StartImplements == ASSUME LevelInv, StartPruning PROVE Promise!StartPruning
<1>1. pruning = None /\ pruning' \in PriceLevels /\ LevelsSound
      /\ UNCHANGED <<levelVars, constructed, linkVars, quantity, lifetime>>
  BY DEF LevelInv, WalkSound, StartPruning
<1>2. Queues' = Queues /\ Heap' = Heap
  BY <1>1, StandStill DEF Heap
<1> QED
  BY <1>1, <1>2 DEF Promise!StartPruning, Heap, Queues

\* The walk ends behind the last order: every order that is left is a GTC one.
LEMMA FinishImplements == ASSUME LevelInv, FinishPruning PROVE Promise!StopPruning
<1>1. /\ LevelsSound /\ ListTypes /\ pc = "walking" /\ ptr = None /\ pruning' = None
      /\ UNCHANGED <<levelVars, constructed, linkVars, quantity, lifetime>>
  BY DEF LevelInv, LevelsSound, FinishPruning
<1>2. Queues' = Queues /\ Heap' = Heap
  BY <1>1, StandStill DEF Heap
<1>3. pruning \in PriceLevels
  BY <1>1, WalkFacts
<1>4. PICK s : s = Queues[pruning]
  OBVIOUS
<1>5. s \in Seq(Blocks) /\ Len(s) \in Nat /\ DOMAIN s = 1 .. Len(s)
      /\ \A n \in DOMAIN s : s[n] \in Blocks /\ s[n] \in constructed
  BY <1>1, <1>3, <1>4, QueueFacts
<1>6. WalkIsAt(s, Len(s) + 1)
  BY <1>1, <1>4, WalkFacts DEF Cursor
<1>7. \A n \in DOMAIN s : lifetime[s[n]] = "GTC"
  BY <1>5, <1>6 DEF WalkIsAt
<1>8. ASSUME NEW n \in DOMAIN s
      PROVE  Heap[s[n]].lifetime = "GTC"
  <2>1. Heap[s[n]] = [quantity |-> quantity[s[n]], lifetime |-> lifetime[s[n]]]
    BY <1>1, <1>5, HeapFacts
  <2>2. Heap[s[n]].lifetime = lifetime[s[n]]
    BY <2>1
  <2> QED
    BY <1>7, <2>2
<1>9. pruning # None
  BY <1>3, NoneIsNothing
<1>10. \A n \in DOMAIN Queues[pruning] : Heap[Queues[pruning][n]].lifetime = "GTC"
  BY <1>4, <1>8
<1> QED
  BY <1>1, <1>2, <1>9, <1>10 DEF Promise!StopPruning, Heap, Queues

\* The initial states are those of FifoLevels.
LEMMA LevelInitImplements == Init => Promise!Init
<1> SUFFICES ASSUME Init PROVE Promise!Init
  OBVIOUS
<1>1. LevelsSound
  BY InitGivesLevelInv DEF LevelInv
<1>2. ASSUME NEW l \in PriceLevels
      PROVE  Queues[l] = <<>>
  <2>1. Queues[l] \in Seq(Blocks) /\ Members(Queues[l]) = OnLevel(l)
    BY <1>1, QueueFacts
  <2>2. Members(Queues[l]) = {}
    BY <2>1 DEF Init, OnLevel
  <2>3. Len(Queues[l]) \in Nat /\ DOMAIN Queues[l] = 1 .. Len(Queues[l])
    BY <2>1
  <2>4. Len(Queues[l]) = 0
    <3> SUFFICES ASSUME Len(Queues[l]) # 0 PROVE FALSE
      OBVIOUS
    <3>1. 1 \in DOMAIN Queues[l]
      BY <2>3
    <3> QED
      BY <2>2, <3>1 DEF Members
  <2> QED
    BY <2>1, <2>4
<1>3. Queues = [l \in PriceLevels |-> <<>>]
  BY <1>2 DEF Queues
<1>4. Heap = [b \in Blocks |-> None]
  BY DEF Heap, Init
<1>5. pruning = None
  BY DEF Init
<1> QED
  BY <1>3, <1>4, <1>5 DEF Promise!Init, Heap, Queues

\* Every step is one of FifoLevels, or shows nothing.
LEMMA LevelStepImplements ==
    ASSUME LevelInv, [Next]_vars
    PROVE  [Promise!Next]_Promise!vars
<1>1. CASE Construct
  BY <1>1, ConstructImplements DEF Promise!Next
<1>2. CASE Destroy
  <2>1. LevelsSound /\ pruning' = pruning
    BY <1>2 DEF LevelInv, Destroy, walkVars
  <2>2. PICK b \in constructed : level[b] = None /\ Free(b)
    BY <1>2 DEF Destroy
  <2>3. Promise!Destroy
    BY <2>1, <2>2, FreeImplements
  <2> QED
    BY <2>3 DEF Promise!Next
<1>3. CASE PushBack
  BY <1>3, JoinImplements DEF Promise!Next
<1>4. CASE PopFront \/ RemoveOrder
  BY <1>4, IdleLeaveImplements DEF Promise!Next
<1>5. CASE TakeSharesFromFirst \/ ReduceOrderQuantity
  BY <1>5, ShrinkImplements DEF Promise!Next
<1>6. CASE StartPruning
  BY <1>6, StartImplements DEF Promise!Next
<1>7. CASE KeepOrder
  <2>1. LevelsSound /\ pruning' = pruning
        /\ UNCHANGED <<levelVars, constructed, linkVars, quantity, lifetime>>
    BY <1>7 DEF LevelInv, KeepOrder
  <2>2. Queues' = Queues /\ Heap' = Heap
    BY <2>1, StandStill DEF Heap
  <2> QED
    BY <2>1, <2>2, NothingShown
<1>8. CASE PruneOrder
  BY <1>8, PruneImplements DEF Promise!Next
<1>9. CASE Callback
  <2>1. LevelsSound /\ ptr \in constructed /\ level[ptr] = None /\ Free(ptr) /\ pruning' = pruning
    BY <1>9 DEF LevelInv, WalkSound, Callback
  <2>2. Promise!Destroy
    <3>1. PICK b \in constructed : b = ptr
      BY <2>1
    <3> QED
      BY <2>1, <3>1, FreeImplements
  <2> QED
    BY <2>2 DEF Promise!Next
<1>10. CASE FinishPruning
  BY <1>10, FinishImplements DEF Promise!Next
<1>11. CASE UNCHANGED vars
  <2>1. LevelsSound /\ pruning' = pruning
        /\ UNCHANGED <<levelVars, constructed, linkVars, quantity, lifetime>>
    BY <1>11 DEF LevelInv, vars, levelVars, linkVars
  <2>2. Queues' = Queues /\ Heap' = Heap
    BY <2>1, StandStill DEF Heap
  <2> QED
    BY <2>1, <2>2, NothingShown
<1> QED
  BY <1>1, <1>2, <1>3, <1>4, <1>5, <1>6, <1>7, <1>8, <1>9, <1>10, <1>11 DEF Next

\* For any blocks, levels and quantities: the pointers of PriceLevel implement
\* queues, which orders join at the back and leave from anywhere without
\* disturbing the others, and a walk takes the DAY orders and leaves none.
THEOREM LevelImplementsFifo == Spec => ImplementsFifoLevels
<1>1. Init => Promise!Init
  BY LevelInitImplements
<1>2. LevelInv /\ [Next]_vars => [Promise!Next]_Promise!vars
  BY LevelStepImplements
<1> QED
  BY <1>1, <1>2, LevelInvHolds, PTL DEF Spec, ImplementsFifoLevels, Promise!Spec

=============================================================================

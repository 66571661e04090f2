-------------------------- MODULE OrderBookProofs ---------------------------
(***************************************************************************)
(* What holds of OrderBook for every set of ids, blocks and quantities and *)
(* every price range, proved with TLAPS.                                   *)
(***************************************************************************)
EXTENDS OrderBook, SumProofs, SequenceTheorems, WellFoundedInduction, TLAPS

\* RemoveAt drops one element and closes the gap.
LEMMA RemoveAtProperties ==
    ASSUME NEW S, NEW q \in Seq(S), NEW k \in 1 .. Len(q)
    PROVE  /\ RemoveAt(q, k) \in Seq(S)
           /\ Len(RemoveAt(q, k)) = Len(q) - 1
           /\ \A i \in 1 .. Len(q) - 1 :
                 RemoveAt(q, k)[i] = IF i < k THEN q[i] ELSE q[i + 1]
<1> DEFINE front == SubSeq(q, 1, k - 1)
           back  == SubSeq(q, k + 1, Len(q))
<1>1. /\ front \in Seq(S)
      /\ Len(front) = k - 1
      /\ \A i \in 1 .. k - 1 : front[i] = q[i]
  <2>1. \A i \in 1 .. k - 1 : q[i] \in S
    OBVIOUS
  <2> QED
    BY <2>1, SubSeqProperties
<1>2. /\ back \in Seq(S)
      /\ Len(back) = Len(q) - k
      /\ \A i \in 1 .. Len(q) - k : back[i] = q[k + i]
  <2>1. \A i \in k + 1 .. Len(q) : q[i] \in S
    OBVIOUS
  <2> QED
    BY <2>1, SubSeqProperties
<1>0. RemoveAt(q, k) = front \o back
  BY DEF RemoveAt
<1> HIDE DEF front, back
<1>3. /\ front \o back \in Seq(S)
      /\ Len(front \o back) = Len(front) + Len(back)
      /\ \A i \in 1 .. Len(front) + Len(back) :
            (front \o back)[i] = IF i <= Len(front) THEN front[i] ELSE back[i - Len(front)]
  <2>1. front \in Seq(S) /\ back \in Seq(S)
    BY <1>1, <1>2
  <2> QED
    BY ONLY <2>1, ConcatProperties
<1>4. \A i \in 1 .. Len(q) - 1 : (front \o back)[i] = IF i < k THEN q[i] ELSE q[i + 1]
  <2> TAKE i \in 1 .. Len(q) - 1
  <2>1. i \in 1 .. Len(front) + Len(back)
    BY <1>1, <1>2
  <2>2. (front \o back)[i] = IF i <= Len(front) THEN front[i] ELSE back[i - Len(front)]
    BY <1>3, <2>1
  <2>3. CASE i < k
    BY <1>1, <2>2, <2>3
  <2>4. CASE ~(i < k)
    <3>1. i - (k - 1) \in 1 .. Len(q) - k /\ k + (i - (k - 1)) = i + 1
      BY <2>4
    <3>2. back[i - (k - 1)] = q[i + 1]
      BY <1>2, <3>1
    <3> QED
      BY <1>1, <2>2, <2>4, <3>2
  <2> QED
    BY <2>3, <2>4
<1>5. Len(front \o back) = Len(q) - 1
  BY <1>1, <1>2, <1>3
<1> QED
  BY <1>0, <1>3, <1>4, <1>5

\* A non-empty set of prices has an element that no other is ahead of.
LEMMA BestExists ==
    ASSUME NEW side \in Sides, NEW S \in SUBSET Prices, S # {}
    PROVE  \E p \in S : \A other \in S : ~Ahead(side, other, p)
<1> DEFINE rank(p) == IF side = "BUY" THEN MaxPrice - p ELSE p - MinPrice
           R == {rank(p) : p \in S}
<1>1. R \subseteq Nat /\ R # {}
  <2>1. \A p \in S : rank(p) \in Nat
    BY PriceRange DEF Prices
  <2> QED
    BY <2>1
<1>2. PICK least \in R : \A r \in R : ~(<<r, least>> \in OpToRel(<, Nat))
  BY <1>1, NatLessThanWellFounded, WFMin
<1>3. \A r \in R : ~(r < least)
  BY <1>1, <1>2 DEF OpToRel
<1>4. PICK p \in S : least = rank(p)
  OBVIOUS
<1>5. ASSUME NEW other \in S
      PROVE  ~Ahead(side, other, p)
  <2>1. ~(rank(other) < rank(p))
    BY <1>3, <1>4
  <2> QED
    BY <2>1, PriceRange DEF Ahead, Prices
<1> QED
  BY <1>5

\* A scan finds a non-empty level no better than its start and, among those,
\* the best one; it finds none only if there is none.
LEMMA BestFromProperties ==
    ASSUME NEW q, NEW side \in Sides, NEW start \in Prices,
           NEW found, found = BestFrom(q, side, start)
    PROVE  /\ found \in Prices \cup {None}
           /\ found = None => \A p \in Prices : q[<<side, p>>] # <<>> => Ahead(side, p, start)
           /\ found # None =>
                 /\ q[<<side, found>>] # <<>>
                 /\ \A p \in Prices : q[<<side, p>>] # <<>> =>
                       Ahead(side, p, start) \/ ~Ahead(side, p, found)
<1> DEFINE seen == {p \in Prices : q[<<side, p>>] # <<>> /\ ~Ahead(side, p, start)}
<1>1. None \notin Prices
  BY NoneIsNoValue, PriceRange DEF Prices, RequestPrices
<1>2. CASE seen = {}
  <2>1. found = None
    BY <1>2 DEF BestFrom
  <2> QED
    BY <1>2, <2>1
<1>3. CASE seen # {}
  <2>1. found = CHOOSE p \in seen : \A other \in seen : ~Ahead(side, other, p)
    BY <1>3 DEF BestFrom
  <2>2. \E p \in seen : \A other \in seen : ~Ahead(side, other, p)
    BY <1>3, BestExists
  <2>3. found \in seen /\ \A other \in seen : ~Ahead(side, other, found)
    BY <2>1, <2>2
  <2> QED
    BY <1>1, <2>3
<1> QED
  BY <1>2, <1>3

-----------------------------------------------------------------------------
(* The map, the pool and the levels *)

BookType ==
    /\ idToOrder \in [OrderIds -> Blocks \cup {None}]
    /\ heap \in [Blocks -> RestingOrders \cup {None}]
    /\ queue \in [Levels -> Seq(Blocks)]

\* Taking an order out of its level, the map and the pool keeps the three in
\* agreement and makes no level non-empty.
LEMMA TakeOutKeepsCoherence ==
    ASSUME BookType, Coherent,
           NEW l \in Levels, NEW i \in DOMAIN queue[l], TakeOut(l, i)
    PROVE  /\ BookType'
           /\ Coherent'
           /\ \A m \in Levels : queue'[m] # <<>> => queue[m] # <<>>
           /\ \A m \in Levels \ {l} : queue'[m] = queue[m]
           /\ idToOrder'[heap[queue[l][i]].id] = None
           /\ \A id \in OrderIds : idToOrder[id] = None => idToOrder'[id] = None
<1> DEFINE b == queue[l][i]
           src(m, j) == IF m = l /\ j >= i THEN j + 1 ELSE j
<1>1. /\ b \in Blocks /\ heap[b] \in RestingOrders
      /\ heap[b].level = l /\ heap[b].id \in OrderIds /\ idToOrder[heap[b].id] = b
  <2>1. b \in Blocks
    BY DEF BookType
  <2>2. b \in Live /\ heap[b].level = l /\ idToOrder[heap[b].id] = b
    BY DEF Coherent, QueuesMatchPool, MapMatchesPool
  <2>3. heap[b] \in RestingOrders
    BY <2>1, <2>2 DEF BookType, Live
  <2> QED
    BY <2>1, <2>2, <2>3 DEF RestingOrders
<1>2. /\ queue' = [queue EXCEPT ![l] = RemoveAt(@, i)]
      /\ heap' = [heap EXCEPT ![b] = None]
      /\ idToOrder' = [idToOrder EXCEPT ![heap[b].id] = None]
  BY DEF TakeOut, Retire
<1> HIDE DEF b
<1>3. /\ RemoveAt(queue[l], i) \in Seq(Blocks)
      /\ Len(RemoveAt(queue[l], i)) = Len(queue[l]) - 1
      /\ \A j \in 1 .. Len(queue[l]) - 1 :
            RemoveAt(queue[l], i)[j] = IF j < i THEN queue[l][j] ELSE queue[l][j + 1]
  <2>1. queue[l] \in Seq(Blocks) /\ i \in 1 .. Len(queue[l])
    BY DEF BookType
  <2> QED
    BY <2>1, RemoveAtProperties
<1>4. BookType'
  BY <1>1, <1>2, <1>3 DEF BookType
<1>5. \A m \in Levels \ {l} : queue'[m] = queue[m]
  BY <1>2 DEF BookType
<1>6. \A m \in Levels : \A j \in DOMAIN queue'[m] :
         src(m, j) \in DOMAIN queue[m] /\ queue'[m][j] = queue[m][src(m, j)]
               /\ (m = l => src(m, j) # i)
  <2> SUFFICES ASSUME NEW m \in Levels, NEW j \in DOMAIN queue'[m]
               PROVE  src(m, j) \in DOMAIN queue[m] /\ queue'[m][j] = queue[m][src(m, j)]
                          /\ (m = l => src(m, j) # i)
    OBVIOUS
  <2>1. CASE m = l
    <3>1. queue'[l] = RemoveAt(queue[l], i)
      BY <1>2 DEF BookType
    <3>2. j \in 1 .. Len(queue[l]) - 1 /\ i \in 1 .. Len(queue[l])
      BY <1>3, <2>1, <3>1 DEF BookType
    <3> QED
      BY <1>3, <2>1, <3>1, <3>2 DEF BookType
  <2>2. CASE m # l
    BY <1>5, <2>2
  <2> QED
    BY <2>1, <2>2
<1>7. \A m \in Levels : \A j \in DOMAIN queue'[m] : queue'[m][j] # b
  <2> SUFFICES ASSUME NEW m \in Levels, NEW j \in DOMAIN queue'[m], queue'[m][j] = b
               PROVE  FALSE
    OBVIOUS
  <2>1. src(m, j) \in DOMAIN queue[m] /\ queue[m][src(m, j)] = b /\ (m = l => src(m, j) # i)
    BY <1>6
  <2>2. m = l
    BY <1>1, <2>1 DEF Coherent, QueuesMatchPool
  <2> QED
    BY <2>1, <2>2 DEF Coherent, QueuesMatchPool, b
<1>8. Live' = Live \ {b} /\ \A c \in Live' : heap'[c] = heap[c]
  BY <1>1, <1>2 DEF BookType, Live
<1>9. MapMatchesPool'
  BY <1>1, <1>2, <1>8, NoneIsNoBlock DEF Coherent, MapMatchesPool, BookType, RestingOrders, Live
<1>10. ASSUME NEW m \in Levels, NEW j \in DOMAIN queue'[m]
       PROVE  /\ queue'[m][j] \in Live'
              /\ heap'[queue'[m][j]].level = m
              /\ heap'[queue'[m][j]].side = m[1]
              /\ \A k \in DOMAIN queue'[m] : queue'[m][j] = queue'[m][k] => j = k
  <2>1. /\ src(m, j) \in DOMAIN queue[m]
        /\ queue'[m][j] = queue[m][src(m, j)]
    BY <1>6
  <2>2. /\ queue[m][src(m, j)] \in Live
        /\ heap[queue[m][src(m, j)]].level = m
        /\ heap[queue[m][src(m, j)]].side = m[1]
    BY <2>1 DEF Coherent, QueuesMatchPool
  <2>3. queue'[m][j] \in Live'
    BY <1>7, <1>8, <2>1, <2>2
  <2>4. ASSUME NEW k \in DOMAIN queue'[m], queue'[m][j] = queue'[m][k]
        PROVE  j = k
    <3>1. src(m, k) \in DOMAIN queue[m] /\ queue'[m][k] = queue[m][src(m, k)]
      BY <1>6
    <3>2. \A x, y \in DOMAIN queue[m] : queue[m][x] = queue[m][y] => x = y
      BY DEF Coherent, QueuesMatchPool
    <3>3. src(m, j) = src(m, k)
      BY <2>1, <2>4, <3>1, <3>2
    <3>4. j \in Int /\ k \in Int /\ i \in Int
      BY <1>4 DEF BookType
    <3> QED
      BY <3>3, <3>4
  <2> QED
    BY <1>8, <2>1, <2>2, <2>3, <2>4
<1>11. ASSUME NEW c \in Live'
       PROVE  \E j \in DOMAIN queue'[heap'[c].level] : queue'[heap'[c].level][j] = c
  <2> DEFINE m == heap[c].level
  <2>1. c \in Live /\ c # b /\ heap'[c].level = m
    BY <1>8
  <2>2. m \in Levels
    BY <2>1 DEF Live, BookType, RestingOrders
  <2>3. PICK k \in DOMAIN queue[m] : queue[m][k] = c
    BY <2>1 DEF Coherent, QueuesMatchPool
  <2>4. CASE m # l
    BY <1>5, <2>1, <2>2, <2>3, <2>4
  <2>5. CASE m = l
    <3> DEFINE j == IF k < i THEN k ELSE k - 1
    <3>1. k # i
      BY <2>1, <2>3, <2>5 DEF b
    <3>2. k \in 1 .. Len(queue[l]) /\ i \in 1 .. Len(queue[l])
      BY <2>5 DEF BookType
    <3>3. queue'[l] = RemoveAt(queue[l], i)
      BY <1>2 DEF BookType
    <3>4. j \in 1 .. Len(queue[l]) - 1 /\ RemoveAt(queue[l], i)[j] = queue[l][k]
      <4>1. Len(queue[l]) \in Nat
        BY DEF BookType
      <4>2. j \in 1 .. Len(queue[l]) - 1 /\ (IF j < i THEN j ELSE j + 1) = k
        BY <3>1, <3>2, <4>1
      <4> QED
        BY <1>3, <4>2
    <3>5. j \in DOMAIN queue'[l] /\ queue'[l][j] = c
      BY <1>3, <2>3, <2>5, <3>3, <3>4
    <3> QED
      BY <2>1, <2>5, <3>5
  <2> QED
    BY <2>4, <2>5
<1>12. QueuesMatchPool'
  BY <1>10, <1>11 DEF QueuesMatchPool
<1>13. RestingOrdersHaveShares'
  BY <1>8 DEF Coherent, RestingOrdersHaveShares
<1>14. \A m \in Levels : queue'[m] # <<>> => queue[m] # <<>>
  <2> SUFFICES ASSUME NEW m \in Levels, queue[m] = <<>>
               PROVE  queue'[m] = <<>>
    OBVIOUS
  <2>1. m # l
    BY DEF BookType
  <2> QED
    BY <1>5, <2>1
<1> QED
  BY <1>1, <1>2, <1>4, <1>5, <1>9, <1>12, <1>13, <1>14 DEF Coherent, BookType, b

\* An order placed under a free id joins the three consistently and touches
\* no other level.
LEMMA PlaceOrderKeepsCoherence ==
    ASSUME BookType, Coherent,
           NEW id \in OrderIds, idToOrder[id] = None,
           NEW quantity \in Nat, quantity > 0, NEW lifetime \in Lifetimes,
           NEW side \in Sides, NEW price \in Prices,
           PlaceOrder(id, quantity, lifetime, side, price)
    PROVE  /\ BookType'
           /\ Coherent'
           /\ queue'[<<side, price>>] # <<>>
           /\ \A m \in Levels \ {<<side, price>>} : queue'[m] = queue[m]
<1> DEFINE l == <<side, price>>
           order == [id |-> id, quantity |-> quantity, lifetime |-> lifetime,
                     side |-> side, level |-> l]
<1>1. l \in Levels
  BY DEF Levels
<1>2. order \in RestingOrders
  BY <1>1 DEF RestingOrders
<1>3. PICK b \in Blocks :
         /\ heap[b] = None
         /\ heap' = [heap EXCEPT ![b] = order]
         /\ queue' = [queue EXCEPT ![l] = Append(@, b)]
         /\ idToOrder' = [idToOrder EXCEPT ![id] = b]
  BY DEF PlaceOrder, PushBack
<1>a. order # None
  BY <1>2, NoneIsNoOrder
<1>4. /\ order.id = id /\ order.quantity = quantity
      /\ order.level = l /\ order.side = l[1]
  OBVIOUS
<1> HIDE DEF order
<1>5. BookType'
  BY <1>1, <1>2, <1>3 DEF BookType
<1>6. /\ Live' = Live \cup {b} /\ b \notin Live /\ b # None
      /\ heap'[b] = order /\ \A c \in Live : heap'[c] = heap[c] /\ c # b
  BY <1>3, <1>a, NoneIsNoBlock DEF BookType, Live
<1>7. /\ \A m \in Levels \ {l} : queue'[m] = queue[m]
      /\ queue'[l] = Append(queue[l], b)
  BY <1>1, <1>3 DEF BookType
<1>8. MapMatchesPool'
  <2>1. ASSUME NEW other \in OrderIds, idToOrder'[other] # None
        PROVE  idToOrder'[other] \in Live' /\ heap'[idToOrder'[other]].id = other
    <3>1. CASE other = id
      BY <1>3, <1>4, <1>6, <3>1 DEF BookType
    <3>2. CASE other # id
      <4>1. idToOrder'[other] = idToOrder[other]
        BY <1>3, <3>2 DEF BookType
      <4> QED
        BY <1>6, <2>1, <4>1 DEF Coherent, MapMatchesPool
    <3> QED
      BY <3>1, <3>2
  <2>2. ASSUME NEW c \in Live'
        PROVE  idToOrder'[heap'[c].id] = c
    <3>1. CASE c = b
      BY <1>3, <1>4, <1>6, <3>1 DEF BookType
    <3>2. CASE c # b
      <4>1. c \in Live /\ heap'[c] = heap[c] /\ c \in Blocks
        BY <1>6, <3>2 DEF Live
      <4>2. idToOrder[heap[c].id] = c /\ heap[c].id \in OrderIds
        BY <4>1 DEF Coherent, MapMatchesPool, BookType, RestingOrders, Live
      <4>3. heap[c].id # id
        BY <4>1, <4>2, NoneIsNoBlock
      <4> QED
        BY <1>3, <4>1, <4>2, <4>3 DEF BookType
    <3> QED
      BY <3>1, <3>2
  <2> QED
    BY <2>1, <2>2 DEF MapMatchesPool
<1>9. /\ queue[l] \in Seq(Blocks) /\ Len(queue[l]) \in Nat
      /\ queue'[l] # <<>>
      /\ DOMAIN queue'[l] = 1 .. Len(queue[l]) + 1
      /\ \A j \in 1 .. Len(queue[l]) : queue'[l][j] = queue[l][j]
      /\ queue'[l][Len(queue[l]) + 1] = b
  <2>1. queue[l] \in Seq(Blocks) /\ queue'[l] = Append(queue[l], b)
    BY <1>1, <1>7 DEF BookType
  <2> DEFINE s == queue[l]
             t == queue'[l]
  <2>2. s \in Seq(Blocks) /\ t = Append(s, b)
    BY <2>1
  <2> HIDE DEF s, t
  <2>3. t \in Seq(Blocks) /\ t # <<>> /\ Len(t) = Len(s) + 1 /\ t[Len(s) + 1] = b
    BY <2>2, AppendProperties
  <2>4. \A j \in 1 .. Len(s) : t[j] = s[j]
    BY <2>2, AppendProperties
  <2>5. DOMAIN t = 1 .. Len(s) + 1 /\ Len(s) \in Nat
    BY <2>2, <2>3
  <2> QED
    BY <2>2, <2>3, <2>4, <2>5 DEF s, t
<1>10. ASSUME NEW m \in Levels, NEW j \in DOMAIN queue'[m]
       PROVE  \/ j \in DOMAIN queue[m] /\ queue'[m][j] = queue[m][j]
              \/ m = l /\ j = Len(queue[l]) + 1 /\ queue'[m][j] = b
  <2>1. CASE m = l
    BY <1>9, <2>1
  <2>2. CASE m # l
    BY <1>7, <2>2
  <2> QED
    BY <2>1, <2>2
<1>11. ASSUME NEW m \in Levels, NEW j \in DOMAIN queue'[m]
       PROVE  /\ queue'[m][j] \in Live'
              /\ heap'[queue'[m][j]].level = m
              /\ heap'[queue'[m][j]].side = m[1]
              /\ \A k \in DOMAIN queue'[m] : queue'[m][j] = queue'[m][k] => j = k
  <2>1. CASE m = l /\ j = Len(queue[l]) + 1 /\ queue'[m][j] = b
    <3>1. ASSUME NEW k \in DOMAIN queue'[m], queue'[m][k] = b
          PROVE  j = k
      BY <1>6, <1>10, <2>1, <3>1 DEF Coherent, QueuesMatchPool
    <3> QED
      BY <1>4, <1>6, <2>1, <3>1
  <2>2. CASE j \in DOMAIN queue[m] /\ queue'[m][j] = queue[m][j]
    <3>1. /\ queue[m][j] \in Live
          /\ heap[queue[m][j]].level = m
          /\ heap[queue[m][j]].side = m[1]
      BY <2>2 DEF Coherent, QueuesMatchPool
    <3>2. ASSUME NEW k \in DOMAIN queue'[m], queue'[m][j] = queue'[m][k]
          PROVE  j = k
      <4>1. queue'[m][k] # b
        BY <1>6, <2>2, <3>1, <3>2
      <4>2. k \in DOMAIN queue[m] /\ queue'[m][k] = queue[m][k]
        BY <1>10, <4>1
      <4>3. \A x, y \in DOMAIN queue[m] : queue[m][x] = queue[m][y] => x = y
        BY DEF Coherent, QueuesMatchPool
      <4> QED
        BY <2>2, <3>2, <4>2, <4>3
    <3> QED
      BY <1>6, <2>2, <3>1, <3>2
  <2> QED
    BY <1>10, <2>1, <2>2
<1>12. ASSUME NEW c \in Live'
       PROVE  \E j \in DOMAIN queue'[heap'[c].level] : queue'[heap'[c].level][j] = c
  <2>1. CASE c = b
    <3>1. heap'[c].level = l
      BY <1>4, <1>6, <2>1
    <3>2. Len(queue[l]) + 1 \in DOMAIN queue'[l] /\ queue'[l][Len(queue[l]) + 1] = c
      BY <1>9, <2>1
    <3> QED
      BY <3>1, <3>2
  <2>2. CASE c # b
    <3>1. c \in Live /\ heap'[c] = heap[c]
      BY <1>6, <2>2
    <3>2. heap[c].level \in Levels
      BY <3>1 DEF Live, BookType, RestingOrders
    <3>3. PICK j \in DOMAIN queue[heap[c].level] : queue[heap[c].level][j] = c
      BY <3>1 DEF Coherent, QueuesMatchPool
    <3>4. CASE heap[c].level = l
      <4>1. j \in 1 .. Len(queue[l]) /\ queue[l][j] = c
        BY <1>9, <3>3, <3>4
      <4>2. j \in DOMAIN queue'[l] /\ queue'[l][j] = c
        BY <1>9, <4>1
      <4>3. heap'[c].level = l
        BY <3>1, <3>4
      <4> QED
        BY <4>2, <4>3
    <3>5. CASE heap[c].level # l
      BY <1>7, <3>1, <3>2, <3>3, <3>5
    <3> QED
      BY <3>4, <3>5
  <2> QED
    BY <2>1, <2>2
<1>13. QueuesMatchPool'
  BY <1>11, <1>12 DEF QueuesMatchPool
<1>14. RestingOrdersHaveShares'
  BY <1>4, <1>6 DEF Coherent, RestingOrdersHaveShares
<1> QED
  BY <1>5, <1>7, <1>8, <1>9, <1>13, <1>14 DEF Coherent

\* Taking part of an order's shares changes nothing but its quantity.
LEMMA ReduceKeepsCoherence ==
    ASSUME BookType, Coherent,
           NEW b \in Live, NEW shares \in Nat, shares < heap[b].quantity,
           heap' = [heap EXCEPT ![b].quantity = @ - shares],
           UNCHANGED <<queue, idToOrder>>
    PROVE  BookType' /\ Coherent'
<1>1. b \in Blocks /\ heap[b] \in RestingOrders
  BY DEF Live, BookType
<1>2. /\ heap'[b] \in RestingOrders
      /\ heap'[b].id = heap[b].id /\ heap'[b].side = heap[b].side
      /\ heap'[b].level = heap[b].level
      /\ heap'[b].quantity > 0
      /\ \A c \in Blocks \ {b} : heap'[c] = heap[c]
  <2>1. /\ heap'[b] = [heap[b] EXCEPT !.quantity = @ - shares]
        /\ \A c \in Blocks \ {b} : heap'[c] = heap[c]
    BY <1>1 DEF BookType
  <2>2. heap[b].quantity - shares \in Nat /\ heap[b].quantity - shares > 0
    BY <1>1 DEF RestingOrders
  <2> QED
    BY <1>1, <2>1, <2>2 DEF RestingOrders
<1>3. BookType'
  BY <1>1, <1>2 DEF BookType
<1>4. /\ Live' = Live
      /\ \A c \in Live : /\ heap'[c].id = heap[c].id
                         /\ heap'[c].side = heap[c].side
                         /\ heap'[c].level = heap[c].level
                         /\ heap[c].quantity > 0 => heap'[c].quantity > 0
  BY <1>1, <1>2, NoneIsNoOrder DEF Live
<1>5. MapMatchesPool'
  BY <1>4 DEF Coherent, MapMatchesPool
<1>6. QueuesMatchPool'
  BY <1>4 DEF Coherent, QueuesMatchPool
<1>7. RestingOrdersHaveShares'
  BY <1>4 DEF Coherent, RestingOrdersHaveShares
<1> QED
  BY <1>3, <1>5, <1>6, <1>7 DEF Coherent

-----------------------------------------------------------------------------
(* The cached best prices *)

BestType == best \in [Sides -> Prices \cup {None}]

\* No non-empty level of the ladder q is ahead of its best price.
Bounded(q, side) ==
    \A p \in Prices : q[<<side, p>>] # <<>> =>
        best[side] # None /\ ~Ahead(side, p, best[side])

\* The level the best price names is not empty.
Backed(q, side) == best[side] # None => q[<<side, best[side]>>] # <<>>

LEMMA NoneIsNoPrice == None \notin Prices
BY NoneIsNoValue, PriceRange DEF Prices, RequestPrices

\* Being ahead is a strict total order.
LEMMA AheadIsOrder ==
    ASSUME NEW side \in Sides, NEW p \in Prices, NEW q \in Prices, NEW r \in Prices
    PROVE  /\ ~Ahead(side, p, p)
           /\ Ahead(side, p, q) => ~Ahead(side, q, p)
           /\ ~Ahead(side, p, q) /\ ~Ahead(side, q, r) => ~Ahead(side, p, r)
BY PriceRange DEF Ahead, Prices

\* After orders have left the level at price, and only that level, the
\* conditional rescan repairs the best price of the ladder.
LEMMA BestAfterRemovalIsBest ==
    ASSUME BestType, NEW q, NEW side \in Sides, NEW price \in Prices,
           \A m \in Levels : q[m] # <<>> => queue[m] # <<>>,
           \A m \in Levels \ {<<side, price>>} : q[m] = queue[m],
           \A s \in Sides : Bounded(queue, s),
           best[side] # price => Backed(queue, side),
           best' = BestAfterRemoval(q, side, price)
    PROVE  /\ BestType'
           /\ \A s \in Sides : /\ \A p \in Prices : q[<<s, p>>] # <<>> =>
                                     best'[s] # None /\ ~Ahead(s, p, best'[s])
                               /\ s # side => best'[s] = best[s]
           /\ best'[side] # None => q[<<side, best'[side]>>] # <<>>
<1>1. \A s \in Sides, p \in Prices : <<s, p>> \in Levels
  BY DEF Levels
<1>2. \A s \in Sides : Bounded(q, s)
  BY <1>1 DEF Bounded
<1>3. CASE best[side] = price /\ q[<<side, price>>] = <<>>
  <2> DEFINE found == BestFrom(q, side, price)
  <2>1. best' = [best EXCEPT ![side] = found]
    BY <1>3 DEF BestAfterRemoval
  <2>2. /\ found \in Prices \cup {None}
        /\ found = None => \A p \in Prices : q[<<side, p>>] # <<>> => Ahead(side, p, price)
        /\ found # None =>
              /\ q[<<side, found>>] # <<>>
              /\ \A p \in Prices : q[<<side, p>>] # <<>> =>
                    Ahead(side, p, price) \/ ~Ahead(side, p, found)
    BY BestFromProperties
  <2> HIDE DEF found
  <2>3. best'[side] = found /\ \A s \in Sides \ {side} : best'[s] = best[s]
    BY <2>1 DEF BestType
  <2>4. BestType'
    BY <2>1, <2>2 DEF BestType
  <2>5. \A p \in Prices : q[<<side, p>>] # <<>> => ~Ahead(side, p, price)
    BY <1>2, <1>3 DEF Bounded
  <2>6. \A p \in Prices : q[<<side, p>>] # <<>> => found # None /\ ~Ahead(side, p, found)
    BY <2>2, <2>5
  <2> QED
    BY <1>2, <2>2, <2>3, <2>4, <2>6 DEF Bounded
<1>4. CASE ~(best[side] = price /\ q[<<side, price>>] = <<>>)
  <2>1. best' = best
    BY <1>4 DEF BestAfterRemoval
  <2>2. best[side] # None => q[<<side, best[side]>>] # <<>>
    <3>1. CASE best[side] = price
      BY <1>4, <3>1
    <3>2. CASE best[side] # price
      <4> SUFFICES ASSUME best[side] # None
                   PROVE  q[<<side, best[side]>>] # <<>>
        OBVIOUS
      <4>1. best[side] \in Prices
        BY DEF BestType
      <4>2. <<side, best[side]>> \in Levels \ {<<side, price>>}
        BY <1>1, <3>2, <4>1
      <4> QED
        BY <3>2, <4>2 DEF Backed
    <3> QED
      BY <3>1, <3>2
  <2> QED
    BY <1>2, <2>1, <2>2 DEF Bounded, BestType
<1> QED
  BY <1>3, <1>4

\* After an order has come to rest at price, the conditional assignment
\* repairs the best price of its ladder.
LEMMA BestAfterPlacingIsBest ==
    ASSUME BestType, NEW q, NEW side \in Sides, NEW price \in Prices,
           q[<<side, price>>] # <<>>,
           \A m \in Levels \ {<<side, price>>} : q[m] = queue[m],
           \A s \in Sides : Bounded(queue, s) /\ Backed(queue, s),
           best' = BestAfterPlacing(side, price)
    PROVE  /\ BestType'
           /\ \A s \in Sides :
                 /\ \A p \in Prices : q[<<s, p>>] # <<>> =>
                       best'[s] # None /\ ~Ahead(s, p, best'[s])
                 /\ best'[s] # None => q[<<s, best'[s]>>] # <<>>
<1>1. BestType'
  BY DEF BestType, BestAfterPlacing
<1>2. ASSUME NEW s \in Sides \ {side}
      PROVE  /\ \A p \in Prices : q[<<s, p>>] # <<>> =>
                   best'[s] # None /\ ~Ahead(s, p, best'[s])
             /\ best'[s] # None => q[<<s, best'[s]>>] # <<>>
  <2>1. best'[s] = best[s]
    BY DEF BestType, BestAfterPlacing
  <2>2. \A p \in Prices : q[<<s, p>>] = queue[<<s, p>>]
    BY DEF Levels
  <2> QED
    BY <2>1, <2>2 DEF Bounded, Backed, BestType
<1>3. \A p \in Prices \ {price} : q[<<side, p>>] = queue[<<side, p>>]
  BY DEF Levels
<1>4. CASE best[side] = None \/ Ahead(side, price, best[side])
  <2>1. best'[side] = price
    BY <1>4 DEF BestType, BestAfterPlacing
  <2>2. ASSUME NEW p \in Prices, q[<<side, p>>] # <<>>
        PROVE  ~Ahead(side, p, price)
    <3>1. CASE p = price
      BY <3>1, AheadIsOrder
    <3>2. CASE p # price
      <4>1. best[side] \in Prices /\ ~Ahead(side, p, best[side])
        BY <1>3, <2>2, <3>2 DEF Bounded, BestType
      <4>2. Ahead(side, price, best[side])
        BY <1>4, <4>1, NoneIsNoPrice
      <4> QED
        BY <4>1, <4>2, AheadIsOrder
    <3> QED
      BY <3>1, <3>2
  <2> QED
    BY <1>1, <1>2, <2>1, <2>2, NoneIsNoPrice
<1>5. CASE ~(best[side] = None \/ Ahead(side, price, best[side]))
  <2>1. best' = best /\ best[side] \in Prices
    BY <1>5 DEF BestType, BestAfterPlacing
  <2>2. \A p \in Prices : q[<<side, p>>] # <<>> => ~Ahead(side, p, best[side])
    BY <1>3, <1>5 DEF Bounded
  <2>3. q[<<side, best[side]>>] # <<>>
    BY <1>3, <1>5, <2>1 DEF Backed
  <2> QED
    BY <1>1, <1>2, <1>5, <2>1, <2>2, <2>3
<1> QED
  BY <1>4, <1>5

-----------------------------------------------------------------------------
(* The inductive invariant *)

VolumeType == volume \in [Levels -> Int]

Submissions ==
    [status : SubmitStatuses \cup {None}, quantityFilled : Nat, executions : Seq(Executions)]
Outcomes == [status : OutcomeStatuses \cup {None}, quantity : Nat]
Cursors == [side : Sides \cup {None}, price : MinPrice .. (MaxPrice + 1), index : Nat]
PruneTotals ==
    [ordersPruned : Nat, sharesErased : Int, priceLevelsErased : Nat, quantityPruned : Int]

CallType ==
    /\ pc \in {"idle", "resubmit", "matching", "pruning", "done"}
    /\ call \in Calls
    /\ remaining \in Nat
    /\ submission \in Submissions
    /\ outcome \in Outcomes
    /\ cursor \in Cursors
    /\ pruned \in PruneTotals

Accepted == LimitRequests \cup MarketRequests \cup ModifyRequests

\* What the running call may rely on: the taker's id stays free until it
\* rests, its limit is on the ladder, and a resubmission is a GTC or DAY order.
CallInv ==
    /\ pc = "matching" =>
          /\ call \in Accepted
          /\ idToOrder[call.id] = None
          /\ call.limit # None => call.limit \in Prices
          /\ outcome.status = "RESUBMITTED" => call.tif \in Lifetimes
    /\ pc = "resubmit" =>
          /\ call \in ModifyRequests
          /\ idToOrder[call.id] = None
          /\ call.limit \in Prices
    /\ pc = "idle" => outcome = NoOutcome /\ submission = NoSubmission
    /\ pc = "pruning" => cursor.side \in Sides /\ outcome = NoOutcome
    /\ ModificationCompletes

\* What holds of any book, matched or replayed.
SoundBook == BookType /\ VolumeType /\ BestType /\ Coherent /\ BestPriceIsBest

BookInv == BookType /\ VolumeType /\ BestType /\ Coherent /\ BestPriceIsBest /\ NotCrossed

IInv == BookInv /\ CallType /\ CallInv

LEMMA TypeOKParts == TypeOK <=> BookType /\ VolumeType /\ BestType /\ CallType
BY DEF TypeOK, BookType, VolumeType, BestType, CallType, Submissions, Outcomes, Cursors,
       PruneTotals

LEMMA RequestFields ==
    ASSUME NEW req \in Accepted
    PROVE  /\ req.id \in OrderIds /\ req.side \in Sides /\ Opposite(req.side) \in Sides
           /\ Opposite(req.side) # req.side
           /\ req.quantity \in Nat
           /\ req.op \in {"submit", "modify"}
           /\ req.tif \in TimesInForce \cup {None}
           /\ req.tif \in TimesInForce => req.limit # None
           /\ req \in ModifyRequests => req.tif \in Lifetimes
           /\ req \in Calls
           /\ Plain(req.op) \in Calls
<1>1. \A p \in RequestPrices \cup Prices : p # None
  BY NoneIsNoValue, PriceRange DEF RequestPrices, Prices
<1>2. None \notin TimesInForce
  BY NoneIsNoValue
<1>3. req \in Calls
  BY DEF Accepted, Calls
<1>4. CASE req \in LimitRequests
  BY <1>1, <1>2, <1>3, <1>4, NaturalQuantities
     DEF LimitRequests, ModifyRequests, Sides, Opposite, TimesInForce, Lifetimes, Calls
<1>5. CASE req \in MarketRequests
  BY <1>1, <1>2, <1>3, <1>5, NaturalQuantities
     DEF MarketRequests, ModifyRequests, Sides, Opposite, TimesInForce, Lifetimes, Calls
<1>6. CASE req \in ModifyRequests
  BY <1>1, <1>2, <1>3, <1>6, NaturalQuantities
     DEF ModifyRequests, Sides, Opposite, TimesInForce, Lifetimes, Calls
<1> QED
  BY <1>4, <1>5, <1>6 DEF Accepted

\* A call that only looks at the book keeps what is true of the book.
LEMMA BookUnchanged ==
    ASSUME BookInv, UNCHANGED bookVars,
           pc = "pruning" => pc' = "pruning" /\ cursor'.side = cursor.side
    PROVE  BookInv'
<1>1. BookType' /\ VolumeType' /\ BestType' /\ MapMatchesPool' /\ NotCrossed'
  BY DEF BookInv, bookVars, BookType, VolumeType, BestType, Coherent, MapMatchesPool, NotCrossed,
         Live
<1>2. QueuesMatchPool' /\ RestingOrdersHaveShares'
  BY DEF BookInv, bookVars, Coherent, QueuesMatchPool, RestingOrdersHaveShares, Live
<1>3. BestPriceIsBest'
  BY DEF BookInv, bookVars, BestPriceIsBest
<1> QED
  BY <1>1, <1>2, <1>3 DEF BookInv, Coherent

LEMMA InitIInv == Init => IInv
<1> SUFFICES ASSUME Init
             PROVE  IInv
  OBVIOUS
<1>1. BookType /\ VolumeType /\ BestType
  BY DEF Init, BookType, VolumeType, BestType
<1>2. Live = {} /\ \A l \in Levels : queue[l] = <<>>
  BY DEF Init, Live
<1>3. Coherent
  BY <1>2 DEF Init, Coherent, MapMatchesPool, QueuesMatchPool, RestingOrdersHaveShares
<1>4. BestPriceIsBest /\ NotCrossed
  BY <1>2 DEF Init, BestPriceIsBest, NotCrossed, Levels, Sides
<1>5. CallType
  BY PriceRange, NaturalQuantities
     DEF Init, CallType, Submissions, Outcomes, Cursors, PruneTotals, NoSubmission, NoOutcome,
         NothingCounted, NoCursor, Calls
<1>6. CallInv
  <2>1. None # "RESUBMITTED" \/ pc # "done"
    BY DEF Init
  <2> QED
    BY <2>1 DEF Init, CallInv, ModificationCompletes
<1> QED
  BY <1>1, <1>3, <1>4, <1>5, <1>6 DEF IInv, BookInv

-----------------------------------------------------------------------------
(* Submissions *)

LEMMA SubmitKeepsIInv ==
    ASSUME IInv, NEW req \in LimitRequests \cup MarketRequests, pc = "idle",
           RejectSubmission(req) \/ KillSubmission(req) \/ StartMatching(req)
    PROVE  IInv'
<1> USE DEF IInv
<1>1. req \in Accepted
  BY DEF Accepted
<1>2. outcome = NoOutcome
  BY DEF CallInv
<1>3. UNCHANGED <<bookVars, outcome, cursor, pruned>> /\ pc' \in {"done", "matching"}
  BY DEF RejectSubmission, KillSubmission, StartMatching
<1>4. BookInv'
  BY <1>3, BookUnchanged
<1>5. CASE StartMatching(req)
  <2>1. CallType'
    BY <1>1, <1>5, RequestFields DEF StartMatching, CallType
  <2>2. idToOrder[req.id] = None /\ (req.limit # None => req.limit \in Prices)
    BY <1>5 DEF StartMatching, Rejected
  <2>3. CallInv'
    BY <1>1, <1>2, <1>3, <1>5, <2>2, NoneIsNoStatus
       DEF StartMatching, CallInv, ModificationCompletes, NoOutcome, OutcomeStatuses, bookVars
  <2> QED
    BY <1>4, <2>1, <2>3
<1>6. CASE RejectSubmission(req) \/ KillSubmission(req)
  <2>1. /\ pc' = "done" /\ call' = Plain(req.op) /\ remaining' = remaining
        /\ submission' \in {[NoSubmission EXCEPT !.status = "REJECTED"],
                            [NoSubmission EXCEPT !.status = "KILLED"]}
    BY <1>6 DEF RejectSubmission, KillSubmission
  <2>2. submission' \in Submissions
    <3>1. NoSubmission \in Submissions
      BY DEF NoSubmission, Submissions
    <3>2. \A st \in SubmitStatuses : [NoSubmission EXCEPT !.status = st] \in Submissions
      BY <3>1 DEF Submissions
    <3> QED
      BY <2>1, <3>2 DEF SubmitStatuses
  <2>3. CallType'
    BY <1>1, <1>3, <2>1, <2>2, RequestFields DEF CallType
  <2>4. CallInv'
    BY <1>2, <1>3, <2>1, NoneIsNoStatus
       DEF CallInv, ModificationCompletes, NoOutcome, OutcomeStatuses
  <2> QED
    BY <1>4, <2>3, <2>4
<1> QED
  BY <1>5, <1>6

\* The resubmission of a modified order passes every check.
LEMMA ResubmitKeepsIInv ==
    ASSUME IInv, Resubmit
    PROVE  IInv'
<1> USE DEF IInv
<1>1. /\ pc = "resubmit" /\ call \in ModifyRequests /\ call \in Accepted
      /\ idToOrder[call.id] = None /\ call.limit \in Prices
  BY DEF Resubmit, CallInv, Accepted
<1>2. call.tif \in Lifetimes
  BY <1>1, RequestFields
<1>3. ~Rejected(call) /\ call.tif # "FOK"
  BY <1>1, <1>2 DEF Rejected, Lifetimes
<1>4. StartMatching(call)
  BY <1>3 DEF Resubmit, RejectSubmission, KillSubmission
<1>5. BookInv'
  BY <1>1, <1>4, BookUnchanged DEF StartMatching
<1>6. CallType'
  BY <1>1, <1>4, RequestFields DEF StartMatching, CallType
<1>7. CallInv'
  BY <1>1, <1>2, <1>4 DEF StartMatching, CallInv, ModificationCompletes, bookVars
<1> QED
  BY <1>5, <1>6, <1>7

-----------------------------------------------------------------------------
(* The match loop *)

\* What an iteration finds: the best level of the other side has a front
\* order, and its price is one the taker accepts.
LEMMA MatchableFacts ==
    ASSUME IInv, pc = "matching", Matchable
    PROVE  /\ MatchingSide \in Sides
           /\ best[MatchingSide] \in Prices
           /\ BestLevel \in Levels
           /\ queue[BestLevel] # <<>>
           /\ 1 \in DOMAIN queue[BestLevel]
           /\ TakingOrder = queue[BestLevel][1]
           /\ TakingOrder \in Live
           /\ heap[TakingOrder] \in RestingOrders
           /\ heap[TakingOrder].quantity > 0
           /\ call \in Accepted
<1> USE DEF IInv, BookInv
<1>1. call \in Accepted /\ MatchingSide \in Sides
  BY RequestFields DEF CallInv, MatchingSide
<1>2. best[MatchingSide] \in Prices
  BY <1>1 DEF Matchable, BestType
<1>3. BestLevel \in Levels
  BY <1>1, <1>2 DEF BestLevel, Levels
<1>4. queue[BestLevel] # <<>>
  BY <1>1 DEF BestPriceIsBest, Matchable, BestLevel
<1>5. 1 \in DOMAIN queue[BestLevel] /\ TakingOrder = queue[BestLevel][1]
  BY <1>3, <1>4 DEF BookType, TakingOrder
<1>6. TakingOrder \in Live
  BY <1>3, <1>5 DEF Coherent, QueuesMatchPool
<1>7. heap[TakingOrder] \in RestingOrders
  BY <1>6 DEF Live, BookType
<1>8. heap[TakingOrder].quantity > 0
  BY <1>6 DEF Coherent, RestingOrdersHaveShares
<1> QED
  BY <1>1, <1>2, <1>3, <1>4, <1>5, <1>6, <1>7, <1>8

\* Crediting an execution yields a well-formed result.
LEMMA CreditedType ==
    ASSUME IInv, pc = "matching", Matchable, NEW shares \in Nat
    PROVE  Credited(shares) \in Submissions
<1>1. Execution(shares) \in Executions
  BY MatchableFacts DEF Execution, Executions, RestingOrders
<1>2. submission \in Submissions
  BY DEF IInv, CallType
<1>3. Append(submission.executions, Execution(shares)) \in Seq(Executions)
  BY <1>1, <1>2 DEF Submissions
<1>4. submission.quantityFilled + shares \in Nat
  BY <1>2 DEF Submissions
<1>5. \A n \in Nat, e \in Seq(Executions) :
         [submission EXCEPT !.quantityFilled = n, !.executions = e] \in Submissions
  BY <1>2 DEF Submissions
<1> QED
  BY <1>3, <1>4, <1>5 DEF Credited

LEMMA TakePartKeepsIInv ==
    ASSUME IInv, TakePart
    PROVE  IInv'
<1> USE DEF IInv, BookInv
<1>1. pc = "matching" /\ Matchable /\ pc' = "done"
  BY DEF TakePart
<1>2. /\ remaining \in Nat /\ remaining < heap[TakingOrder].quantity
  BY <1>1, MatchableFacts DEF TakePart, CallType, RestingOrders
<1>3. BookType' /\ Coherent'
  BY <1>1, <1>2, MatchableFacts, ReduceKeepsCoherence DEF TakePart
<1>4. VolumeType'
  BY <1>1, <1>2, MatchableFacts DEF TakePart, Lowered, VolumeType
<1>5. BestType' /\ BestPriceIsBest' /\ NotCrossed'
  BY <1>1 DEF TakePart, BestType, BestPriceIsBest, NotCrossed
<1>6. CallType'
  <2>1. Credited(remaining) \in Submissions
    BY <1>1, <1>2, CreditedType
  <2>2. submission' \in Submissions
    BY <2>1 DEF TakePart, Submissions, SubmitStatuses
  <2> QED
    BY <2>2 DEF TakePart, CallType
<1>7. CallInv'
  <2>1. submission'.status = "FILLED"
    BY <1>1, <1>2, CreditedType DEF TakePart, Submissions
  <2> QED
    BY <1>1, <2>1 DEF CallInv, ModificationCompletes
<1> QED
  BY <1>3, <1>4, <1>5, <1>6, <1>7

LEMMA TakeWholeKeepsIInv ==
    ASSUME IInv, TakeWhole
    PROVE  IInv'
<1> USE DEF IInv, BookInv
<1>1. pc = "matching" /\ Matchable /\ pc' = "matching" /\ call' = call
  BY DEF TakeWhole
<1>2. TakeOut(BestLevel, 1)
  BY DEF TakeWhole
<1>3. /\ BookType' /\ Coherent'
      /\ \A m \in Levels : queue'[m] # <<>> => queue[m] # <<>>
      /\ \A m \in Levels \ {BestLevel} : queue'[m] = queue[m]
      /\ \A id \in OrderIds : idToOrder[id] = None => idToOrder'[id] = None
  BY <1>1, <1>2, MatchableFacts, TakeOutKeepsCoherence
<1>4. VolumeType'
  BY <1>1, <1>2, MatchableFacts DEF TakeOut, Lowered, VolumeType, RestingOrders
<1>5. BestType' /\ BestPriceIsBest'
  <2>1. /\ \A s \in Sides : Bounded(queue, s)
        /\ \A s \in Sides : Backed(queue, s)
    BY <1>1 DEF BestPriceIsBest, Bounded, Backed
  <2>2. best' = BestAfterRemoval(queue', MatchingSide, best[MatchingSide])
    BY DEF TakeWhole
  <2>3. /\ BestType'
        /\ \A s \in Sides : /\ \A p \in Prices : queue'[<<s, p>>] # <<>> =>
                                  best'[s] # None /\ ~Ahead(s, p, best'[s])
                            /\ s # MatchingSide => best'[s] = best[s]
        /\ best'[MatchingSide] # None => queue'[<<MatchingSide, best'[MatchingSide]>>] # <<>>
    BY <1>1, <1>3, <2>1, <2>2, MatchableFacts, BestAfterRemovalIsBest DEF BestLevel
  <2>4. ASSUME NEW s \in Sides, s # MatchingSide, best'[s] # None
        PROVE  queue'[<<s, best'[s]>>] # <<>>
    <3>1. best'[s] = best[s] /\ best[s] \in Prices
      BY <2>3, <2>4 DEF BestType
    <3>2. <<s, best[s]>> \in Levels \ {BestLevel}
      BY <2>4, <3>1 DEF Levels, BestLevel
    <3> QED
      BY <1>3, <2>1, <2>4, <3>1, <3>2 DEF Backed
  <2> QED
    BY <2>3, <2>4 DEF BestPriceIsBest
<1>6. NotCrossed'
  BY <1>3 DEF NotCrossed, Levels, Sides
<1>7. CallType'
  <2>1. heap[TakingOrder].quantity \in Nat
    BY <1>1, MatchableFacts DEF RestingOrders
  <2>2. submission' \in Submissions
    BY <1>1, <2>1, CreditedType DEF TakeWhole
  <2> QED
    BY <1>1, <2>1, <2>2 DEF TakeWhole, CallType
<1>8. CallInv'
  BY <1>1, <1>3, RequestFields DEF CallInv, TakeWhole, ModificationCompletes
<1> QED
  BY <1>3, <1>4, <1>5, <1>6, <1>7, <1>8

LEMMA FinishKeepsIInv ==
    ASSUME IInv, FinishFilled \/ FinishCanceled
    PROVE  IInv'
<1> USE DEF IInv
<1>1. /\ pc = "matching" /\ pc' = "done"
      /\ UNCHANGED <<bookVars, call, remaining, outcome, cursor, pruned>>
  BY DEF FinishFilled, FinishCanceled
<1>2. PICK st \in SubmitStatuses : submission' = [submission EXCEPT !.status = st]
  BY DEF FinishFilled, FinishCanceled, SubmitStatuses
<1>3. submission \in Submissions
  BY DEF CallType
<1>4. BookInv'
  BY <1>1, BookUnchanged
<1>5. CallType'
  <2>1. submission' \in Submissions
    BY <1>2, <1>3 DEF Submissions
  <2> QED
    BY <1>1, <2>1 DEF CallType
<1>6. ModificationCompletes'
  <2> SUFFICES ASSUME outcome.status = "RESUBMITTED"
               PROVE  submission'.status = "FILLED"
    BY <1>1 DEF ModificationCompletes
  <2>1. call.tif \in Lifetimes
    BY <1>1 DEF CallInv
  <2>2. call.tif # "IOC" /\ call.tif # None
    BY <2>1, NoneIsNoValue DEF Lifetimes, TimesInForce
  <2>3. FinishFilled
    BY <2>2 DEF FinishCanceled
  <2> QED
    BY <1>3, <2>3 DEF FinishFilled, Submissions
<1>7. CallInv'
  BY <1>1, <1>6 DEF CallInv
<1> QED
  BY <1>4, <1>5, <1>7

\* An order that comes to rest does not cross: the loop stopped because no
\* order of the other side is within its limit.
LEMMA FinishRestingKeepsIInv ==
    ASSUME IInv, FinishResting
    PROVE  IInv'
<1> USE DEF IInv, BookInv
<1> DEFINE side == call.side
           price == call.limit
           other == Opposite(call.side)
<1>1. /\ pc = "matching" /\ pc' = "done" /\ ~Matchable /\ remaining > 0
      /\ call.tif \in Lifetimes
      /\ PlaceOrder(call.id, remaining, call.tif, side, price)
      /\ UNCHANGED <<call, remaining, outcome, cursor, pruned>>
  BY DEF FinishResting
<1>2. /\ call.id \in OrderIds /\ idToOrder[call.id] = None
      /\ side \in Sides /\ other \in Sides /\ other # side
      /\ price \in Prices /\ remaining \in Nat
      /\ <<side, price>> \in Levels
  BY <1>1, RequestFields DEF CallInv, CallType, Lifetimes, TimesInForce, Levels
<1>3. /\ best' = BestAfterPlacing(side, price)
      /\ volume' = [volume EXCEPT ![<<side, price>>] = @ + remaining]
  BY <1>1 DEF PlaceOrder
<1>4. /\ BookType'
      /\ Coherent'
      /\ queue'[<<side, price>>] # <<>>
      /\ \A m \in Levels \ {<<side, price>>} : queue'[m] = queue[m]
  <2> DEFINE id == call.id
             lifetime == call.tif
             shares == remaining
  <2>1. /\ BookType /\ Coherent
        /\ id \in OrderIds /\ idToOrder[id] = None
        /\ shares \in Nat /\ shares > 0
        /\ lifetime \in Lifetimes /\ side \in Sides /\ price \in Prices
        /\ PlaceOrder(id, shares, lifetime, side, price)
    BY <1>1, <1>2
  <2> HIDE DEF IInv, BookInv, side, price, id, lifetime, shares
  <2> QED
    BY ONLY <2>1, PlaceOrderKeepsCoherence
<1>5. VolumeType'
  <2>1. volume \in [Levels -> Int] /\ remaining \in Int
    BY <1>2 DEF VolumeType
  <2> HIDE DEF side, price
  <2>2. volume' \in [Levels -> Int]
    BY ONLY <1>2, <1>3, <2>1
  <2> QED
    BY <2>2 DEF VolumeType
<1>6. BestType' /\ BestPriceIsBest'
  <2>1. \A s \in Sides : Bounded(queue, s) /\ Backed(queue, s)
    BY <1>1 DEF BestPriceIsBest, Bounded, Backed
  <2>2. /\ BestType'
        /\ \A s \in Sides :
              /\ \A p \in Prices : queue'[<<s, p>>] # <<>> =>
                    best'[s] # None /\ ~Ahead(s, p, best'[s])
              /\ best'[s] # None => queue'[<<s, best'[s]>>] # <<>>
    BY <1>2, <1>3, <1>4, <2>1, BestAfterPlacingIsBest
  <2> QED
    BY <2>2 DEF BestPriceIsBest
<1>7. NotCrossed'
  <2>1. \A q \in Prices : queue[<<other, q>>] # <<>> => Ahead(side, q, price) /\ q # price
    <3> SUFFICES ASSUME NEW q \in Prices, queue[<<other, q>>] # <<>>
                 PROVE  Ahead(side, q, price) /\ q # price
      OBVIOUS
    <3>1. best[other] # None /\ ~Ahead(other, q, best[other])
      BY <1>2 DEF BestPriceIsBest
    <3>2. best[other] \in Prices
      BY <1>2, <3>1 DEF BestType
    <3>3. Ahead(side, best[other], price)
      BY <1>1, <3>1 DEF Matchable, MatchingSide, Crosses
    <3>4. (side = "BUY" /\ other = "SELL") \/ (side = "SELL" /\ other = "BUY")
      BY <1>2 DEF Sides, Opposite
    <3> QED
      BY <1>2, <3>1, <3>2, <3>3, <3>4, PriceRange DEF Ahead, Prices
  <2>2. ASSUME NEW bid \in Prices, NEW ask \in Prices,
               queue'[<<"BUY", bid>>] # <<>>, queue'[<<"SELL", ask>>] # <<>>
        PROVE  bid < ask
    <3>1. <<"BUY", bid>> \in Levels /\ <<"SELL", ask>> \in Levels
      BY DEF Levels, Sides
    <3>2. CASE <<"BUY", bid>> = <<side, price>>
      <4>1. other = "SELL" /\ bid = price /\ side = "BUY"
        BY <3>2 DEF Opposite
      <4>2. queue[<<"SELL", ask>>] # <<>>
        BY <1>4, <2>2, <3>1, <4>1
      <4>3. Ahead("BUY", ask, bid)
        BY <2>1, <4>1, <4>2
      <4> QED
        BY <4>3 DEF Ahead
    <3>3. CASE <<"SELL", ask>> = <<side, price>>
      <4>1. other = "BUY" /\ ask = price /\ side = "SELL"
        BY <3>3 DEF Opposite
      <4>2. queue[<<"BUY", bid>>] # <<>>
        BY <1>4, <2>2, <3>1, <4>1
      <4>3. Ahead("SELL", bid, ask)
        BY <2>1, <4>1, <4>2
      <4> QED
        BY <4>3 DEF Ahead
    <3>4. CASE <<"BUY", bid>> # <<side, price>> /\ <<"SELL", ask>> # <<side, price>>
      BY <1>4, <2>2, <3>1, <3>4 DEF NotCrossed
    <3> QED
      BY <3>2, <3>3, <3>4
  <2> QED
    BY <2>2 DEF NotCrossed
<1>8. PICK st \in {"RESTING", "PARTIALLY_FILLED_RESTING"} :
         submission' = [submission EXCEPT !.status = st]
  BY DEF FinishResting
<1>9. submission' \in Submissions /\ submission'.status = st
  BY <1>8 DEF CallType, Submissions, SubmitStatuses
<1>10. CallType'
  BY <1>1, <1>9 DEF CallType
<1>11. CallInv'
  BY <1>1, <1>9 DEF CallInv, ModificationCompletes
<1> QED
  BY <1>4, <1>5, <1>6, <1>7, <1>10, <1>11

-----------------------------------------------------------------------------
(* Cancels and modifications *)

\* Cancelling a resting order, as both cancel_order and modify_order do.
LEMMA CancelRestingKeepsSoundBook ==
    ASSUME SoundBook, NEW id \in OrderIds, idToOrder[id] # None, pc # "pruning",
           CancelResting(id)
    PROVE  /\ SoundBook'
           /\ \A m \in Levels : queue'[m] # <<>> => queue[m] # <<>>
           /\ idToOrder'[id] = None
           /\ heap[idToOrder[id]] \in RestingOrders
<1> USE DEF SoundBook
<1> DEFINE b == idToOrder[id]
           l == heap[b].level
<1>1. /\ b \in Live /\ heap[b] \in RestingOrders /\ heap[b].id = id
      /\ l \in Levels
  <2>1. b \in Live /\ heap[b].id = id
    BY DEF Coherent, MapMatchesPool
  <2> QED
    BY <2>1 DEF Live, BookType, RestingOrders
<1>2. PICK i \in DOMAIN queue[l] : queue[l][i] = b /\ TakeOut(l, i)
  BY DEF CancelResting
<1>3. /\ heap[b].side = l[1] /\ l[1] \in Sides /\ l[2] \in Prices
      /\ l = <<heap[b].side, l[2]>>
  <2>1. heap[b].side = l[1]
    BY <1>1, <1>2 DEF Coherent, QueuesMatchPool
  <2> QED
    BY <1>1, <2>1 DEF Levels
<1>4. best' = BestAfterRemoval(queue', heap[b].side, l[2])
  BY DEF CancelResting
<1> HIDE DEF b, l
<1>5. /\ BookType'
      /\ Coherent'
      /\ \A m \in Levels : queue'[m] # <<>> => queue[m] # <<>>
      /\ \A m \in Levels \ {l} : queue'[m] = queue[m]
      /\ idToOrder'[id] = None
  BY <1>1, <1>2, TakeOutKeepsCoherence
<1>6. VolumeType'
  BY <1>1, <1>2 DEF TakeOut, Lowered, VolumeType, RestingOrders
<1>7. BestType' /\ BestPriceIsBest'
  <2>1. /\ \A s \in Sides : Bounded(queue, s)
        /\ \A s \in Sides : Backed(queue, s)
    BY DEF BestPriceIsBest, Bounded, Backed
  <2> DEFINE side == heap[b].side
  <2>2. side \in Sides
    BY <1>3
  <2>3. /\ BestType'
        /\ \A s \in Sides : /\ \A p \in Prices : queue'[<<s, p>>] # <<>> =>
                                  best'[s] # None /\ ~Ahead(s, p, best'[s])
                            /\ s # side => best'[s] = best[s]
        /\ best'[side] # None => queue'[<<side, best'[side]>>] # <<>>
    <3>1. /\ BestType /\ l[2] \in Prices
          /\ \A m \in Levels \ {<<side, l[2]>>} : queue'[m] = queue[m]
          /\ best' = BestAfterRemoval(queue', side, l[2])
      BY <1>3, <1>4, <1>5
    <3> HIDE DEF side
    <3> QED
      BY ONLY <1>5, <2>1, <2>2, <3>1, BestAfterRemovalIsBest
  <2>4. ASSUME NEW s \in Sides, s # side, best'[s] # None
        PROVE  queue'[<<s, best'[s]>>] # <<>>
    <3>1. best'[s] = best[s] /\ best[s] \in Prices
      BY <2>3, <2>4 DEF BestType
    <3>2. <<s, best[s]>> \in Levels \ {l}
      BY <1>3, <2>4, <3>1 DEF Levels
    <3> QED
      BY <1>5, <2>1, <2>4, <3>1, <3>2 DEF Backed
  <2> QED
    BY <2>3, <2>4 DEF BestPriceIsBest
<1> QED
  BY <1>1, <1>5, <1>6, <1>7 DEF b

LEMMA CancelRestingKeepsBookInv ==
    ASSUME BookInv, NEW id \in OrderIds, idToOrder[id] # None, pc # "pruning",
           CancelResting(id)
    PROVE  /\ BookInv'
           /\ idToOrder'[id] = None
           /\ heap[idToOrder[id]] \in RestingOrders
<1>1. /\ SoundBook'
      /\ \A m \in Levels : queue'[m] # <<>> => queue[m] # <<>>
      /\ idToOrder'[id] = None
      /\ heap[idToOrder[id]] \in RestingOrders
  BY CancelRestingKeepsSoundBook DEF BookInv, SoundBook
<1>2. NotCrossed'
  BY <1>1 DEF BookInv, NotCrossed, Levels, Sides
<1> QED
  BY <1>1, <1>2 DEF BookInv, SoundBook

LEMMA CancelKeepsIInv ==
    ASSUME IInv, CancelNotFound \/ CancelOrder
    PROVE  IInv'
<1> USE DEF IInv
<1>1. /\ pc = "idle" /\ pc' = "done" /\ call' = Plain("cancel")
      /\ UNCHANGED <<remaining, submission, cursor, pruned>>
  BY DEF CancelNotFound, CancelOrder
<1>2. BookInv' /\ outcome' \in Outcomes /\ outcome'.status # "RESUBMITTED"
  <2>1. CASE CancelNotFound
    BY <1>1, <2>1, BookUnchanged DEF CancelNotFound, NoOutcome, Outcomes, OutcomeStatuses
  <2>2. CASE CancelOrder
    <3>1. PICK id \in OrderIds :
             /\ idToOrder[id] # None
             /\ CancelResting(id)
             /\ outcome' = [status |-> "CANCELED", quantity |-> heap[idToOrder[id]].quantity]
      BY <2>2 DEF CancelOrder
    <3>2. BookInv' /\ heap[idToOrder[id]] \in RestingOrders
      BY <1>1, <3>1, CancelRestingKeepsBookInv
    <3> QED
      BY <3>1, <3>2 DEF RestingOrders, Outcomes, OutcomeStatuses
  <2> QED
    BY <1>1, <2>1, <2>2 DEF CancelNotFound, CancelOrder
<1>3. Plain("cancel") \in Calls
  BY DEF Calls
<1>4. CallType'
  BY <1>1, <1>2, <1>3 DEF CallType
<1>5. CallInv'
  BY <1>1, <1>2 DEF CallInv, ModificationCompletes
<1> QED
  BY <1>2, <1>4, <1>5

LEMMA ModifyKeepsIInv ==
    ASSUME IInv, ModifyRefused \/ ModifyOrder
    PROVE  IInv'
<1> USE DEF IInv
<1>1. Plain("modify") \in Calls
  BY DEF Calls
<1>2. CASE ModifyRefused
  <2>1. /\ pc = "idle" /\ pc' = "done" /\ call' = Plain("modify")
        /\ UNCHANGED <<bookVars, remaining, submission, cursor, pruned>>
        /\ outcome' \in Outcomes /\ outcome'.status # "RESUBMITTED"
    BY <1>2 DEF ModifyRefused, NoOutcome, Outcomes, OutcomeStatuses
  <2>2. BookInv'
    BY <2>1, BookUnchanged
  <2>3. CallType' /\ CallInv'
    BY <1>1, <2>1 DEF CallType, CallInv, ModificationCompletes
  <2> QED
    BY <2>2, <2>3
<1>3. CASE ModifyOrder
  <2>1. PICK id \in OrderIds, newPrice \in Prices, newQuantity \in Quantities :
           /\ idToOrder[id] # None
           /\ CancelResting(id)
           /\ LET order == heap[idToOrder[id]]
              IN  IF newQuantity > 0
                  THEN /\ pc' = "resubmit"
                       /\ call' = [op |-> "modify", id |-> id, side |-> order.side,
                                   limit |-> newPrice, quantity |-> newQuantity,
                                   tif |-> order.lifetime]
                       /\ outcome' = [status |-> "RESUBMITTED", quantity |-> order.quantity]
                  ELSE /\ pc' = "done"
                       /\ call' = Plain("modify")
                       /\ outcome' = [status |-> "CANCELED", quantity |-> order.quantity]
    BY <1>3 DEF ModifyOrder
  <2>2. pc = "idle" /\ UNCHANGED <<remaining, submission, cursor, pruned>>
    BY <1>3 DEF ModifyOrder
  <2> DEFINE order == heap[idToOrder[id]]
  <2>3. BookInv' /\ idToOrder'[id] = None /\ order \in RestingOrders
    BY <2>1, <2>2, CancelRestingKeepsBookInv
  <2> HIDE DEF order
  <2>4. CASE newQuantity > 0
    <3>1. /\ pc' = "resubmit"
          /\ call' = [op |-> "modify", id |-> id, side |-> order.side,
                      limit |-> newPrice, quantity |-> newQuantity, tif |-> order.lifetime]
          /\ outcome' = [status |-> "RESUBMITTED", quantity |-> order.quantity]
      BY <2>1, <2>4 DEF order
    <3>2. call' \in ModifyRequests /\ call'.id = id /\ call'.limit = newPrice
      BY <2>3, <3>1 DEF ModifyRequests, RestingOrders
    <3>3. outcome' \in Outcomes
      BY <2>3, <3>1 DEF Outcomes, OutcomeStatuses, RestingOrders
    <3>4. CallType'
      BY <2>2, <3>1, <3>2, <3>3 DEF CallType, Calls
    <3>5. CallInv'
      BY <2>3, <3>1, <3>2 DEF CallInv, ModificationCompletes
    <3> QED
      BY <2>3, <3>4, <3>5
  <2>5. CASE ~(newQuantity > 0)
    <3>1. /\ pc' = "done" /\ call' = Plain("modify")
          /\ outcome' = [status |-> "CANCELED", quantity |-> order.quantity]
      BY <2>1, <2>5 DEF order
    <3>2. outcome' \in Outcomes /\ outcome'.status # "RESUBMITTED"
      BY <2>3, <3>1 DEF Outcomes, OutcomeStatuses, RestingOrders
    <3>3. CallType' /\ CallInv'
      BY <1>1, <2>2, <3>1, <3>2 DEF CallType, CallInv, ModificationCompletes
    <3> QED
      BY <2>3, <3>3
  <2> QED
    BY <2>4, <2>5
<1> QED
  BY <1>2, <1>3

-----------------------------------------------------------------------------
(* The session end *)

LEMMA WrappedIsInt == \A n \in Int : Wrapped(n) \in Int
BY QuantityIsSigned DEF Wrapped

\* A sum that a Quantity holds comes out as it is.
LEMMA WrappedIsExact == \A n \in Nat : n < QuantityEnd => Wrapped(n) = n
<1> TAKE n \in Nat
<1> HAVE n < QuantityEnd
<1>1. QuantityEnd \in Nat /\ QuantityEnd > 0
  BY QuantityIsSigned
<1>2. (n + QuantityEnd) % (2 * QuantityEnd) = n + QuantityEnd
  BY <1>1
<1> QED
  BY <1>1, <1>2 DEF Wrapped

LEMMA CountIsInt ==
    ASSUME pruned.quantityPruned \in Int, NEW shares \in Int
    PROVE  SharesWith(shares) \subseteq Int
BY WrappedIsInt DEF SharesWith

LEMMA CountIsExact ==
    ASSUME NEW shares, pruned.quantityPruned + shares \in Nat,
           pruned.quantityPruned + shares < QuantityEnd
    PROVE  SharesWith(shares) = {pruned.quantityPruned + shares}
BY WrappedIsExact DEF SharesWith

\* The walk stays on the ladder it is on and inside the price range.
LEMMA CursorFacts ==
    ASSUME IInv, pc = "pruning"
    PROVE  /\ cursor \in Cursors /\ cursor.side \in Sides
           /\ AtLevel => CursorLevel \in Levels
           /\ NextLevel.side = cursor.side
           /\ AtLevel => NextLevel \in Cursors
           /\ \A n \in Nat : /\ [cursor EXCEPT !.index = n] \in Cursors
                             /\ [cursor EXCEPT !.index = n].side = cursor.side
           /\ NoCursor \in Cursors
           /\ \A s \in Sides : StartOf(s) \in Cursors /\ StartOf(s).side = s
<1>1. cursor \in Cursors /\ cursor.side \in Sides
  BY DEF IInv, CallType, CallInv
<1>2. AtLevel => CursorLevel \in Levels
  BY <1>1, PriceRange DEF AtLevel, CursorLevel, Levels, Cursors, Prices
<1>3. NextLevel.side = cursor.side /\ (AtLevel => NextLevel \in Cursors)
  <2>1. \A p \in MinPrice .. (MaxPrice + 1), n \in Nat :
           [cursor EXCEPT !.price = p, !.index = n] \in Cursors
    BY <1>1 DEF Cursors
  <2>2. AtLevel => cursor.price + 1 \in MinPrice .. (MaxPrice + 1)
    BY <1>1, PriceRange DEF AtLevel, Cursors
  <2>3. NextLevel.side = cursor.side
    BY <1>1 DEF NextLevel, Cursors
  <2> QED
    BY <2>1, <2>2, <2>3 DEF NextLevel
<1>4. \A n \in Nat : /\ [cursor EXCEPT !.index = n] \in Cursors
                     /\ [cursor EXCEPT !.index = n].side = cursor.side
  BY <1>1 DEF Cursors
<1>5. NoCursor \in Cursors /\ \A s \in Sides : StartOf(s) \in Cursors /\ StartOf(s).side = s
  BY PriceRange DEF NoCursor, StartOf, Cursors
<1> QED
  BY <1>1, <1>2, <1>3, <1>4, <1>5

LEMMA SessionEndKeepsIInv ==
    ASSUME IInv, SessionEnd
    PROVE  IInv'
<1> USE DEF IInv
<1>1. /\ pc = "idle" /\ call' = Plain("session")
      /\ UNCHANGED <<bookVars, remaining, submission, outcome, pruned>>
  BY DEF SessionEnd
<1>2. BookInv'
  BY <1>1, BookUnchanged
<1>3. Plain("session") \in Calls /\ outcome = NoOutcome
  BY <1>1 DEF Calls, CallInv
<1>4. \/ pc' = "pruning" /\ cursor' \in {StartOf("BUY"), StartOf("SELL")}
      \/ pc' = "done" /\ cursor' = cursor
  BY DEF SessionEnd
<1>5. \A s \in Sides : StartOf(s) \in Cursors /\ StartOf(s).side = s
  BY PriceRange DEF StartOf, Cursors
<1>6. CallType'
  BY <1>1, <1>3, <1>4, <1>5 DEF CallType, Sides
<1>7. CallInv'
  BY <1>1, <1>3, <1>4, <1>5, NoneIsNoStatus
     DEF CallInv, ModificationCompletes, NoOutcome, OutcomeStatuses, Sides
<1> QED
  BY <1>2, <1>6, <1>7

LEMMA WalkKeepsIInv ==
    ASSUME IInv, EnterLevel \/ KeepOrder \/ LeaveLevel
    PROVE  IInv'
<1> USE DEF IInv
<1>1. /\ pc = "pruning" /\ AtLevel
      /\ UNCHANGED <<bookVars, pc, call, remaining, submission, outcome>>
  BY DEF EnterLevel, KeepOrder, LeaveLevel, AtOrder, AtLevel
<1>2. \/ cursor' = NextLevel
      \/ \E n \in Nat : cursor' = [cursor EXCEPT !.index = n]
  BY DEF EnterLevel, KeepOrder, LeaveLevel, CallType, Cursors
<1>3. cursor' \in Cursors /\ cursor'.side = cursor.side
  BY <1>1, <1>2, CursorFacts
<1>4. BookInv'
  BY <1>1, <1>3, BookUnchanged
<1>5. pruned' \in PruneTotals
  <2>1. pruned \in PruneTotals
    BY DEF CallType
  <2>2. /\ pruned.sharesErased \in Int /\ pruned.quantityPruned \in Int
        /\ pruned.priceLevelsErased + 1 \in Nat
    BY <2>1 DEF PruneTotals
  <2>3. CASE EnterLevel
    <3>1. pruned' = pruned \/ pruned' = [pruned EXCEPT !.quantityPruned = 0]
      BY <2>3 DEF EnterLevel
    <3> QED
      BY <2>1, <3>1 DEF PruneTotals
  <2>4. CASE KeepOrder
    BY <2>1, <2>4 DEF KeepOrder
  <2>5. CASE LeaveLevel
    <3>1. \E t \in PruneTotals : pruned' = [t EXCEPT !.sharesErased = @ + pruned.quantityPruned]
      <4>1. CountedIfErased \in PruneTotals
        BY <2>1, <2>2 DEF CountedIfErased, PruneTotals
      <4> QED
        BY <2>5, <4>1 DEF LeaveLevel
    <3>2. PICK t \in PruneTotals : pruned' = [t EXCEPT !.sharesErased = @ + pruned.quantityPruned]
      BY <3>1
    <3>3. t.sharesErased + pruned.quantityPruned \in Int
      BY <2>2, <3>2 DEF PruneTotals
    <3> QED
      BY <3>2, <3>3 DEF PruneTotals
  <2> QED
    BY <2>3, <2>4, <2>5
<1>6. CallType' /\ CallInv'
  BY <1>1, <1>3, <1>5 DEF CallType, CallInv, ModificationCompletes
<1> QED
  BY <1>4, <1>6

LEMMA PruneOrderKeepsIInv ==
    ASSUME IInv, PruneOrder
    PROVE  IInv'
<1> USE DEF IInv, BookInv
<1> DEFINE l == CursorLevel
           b == CursorBlock
<1>1. /\ pc = "pruning" /\ AtLevel /\ l \in Levels /\ cursor.index \in DOMAIN queue[l]
      /\ cursor.side \in Sides
  BY CursorFacts DEF PruneOrder, AtOrder, AtLevel
<1>2. /\ TakeOut(l, cursor.index)
      /\ UNCHANGED <<best, pc, call, remaining, submission, outcome, cursor>>
  BY DEF PruneOrder
<1>3. b = queue[l][cursor.index] /\ b \in Live /\ heap[b] \in RestingOrders
  BY <1>1 DEF CursorBlock, Coherent, QueuesMatchPool, BookType, Live
<1>4. l = <<cursor.side, cursor.price>>
  BY DEF CursorLevel
<1> HIDE DEF l, b
<1>5. /\ BookType'
      /\ Coherent'
      /\ \A m \in Levels : queue'[m] # <<>> => queue[m] # <<>>
      /\ \A m \in Levels \ {l} : queue'[m] = queue[m]
  BY <1>1, <1>2, TakeOutKeepsCoherence
<1>6. VolumeType'
  BY <1>1, <1>2, <1>3 DEF TakeOut, Lowered, VolumeType, RestingOrders
<1>7. BestType'
  BY <1>2 DEF BestType
<1>8. BestPriceIsBest'
  <2>1. ASSUME NEW side \in Sides, NEW p \in Prices, queue'[<<side, p>>] # <<>>
        PROVE  best'[side] # None /\ ~Ahead(side, p, best'[side])
    BY <1>2, <1>5, <2>1 DEF BestPriceIsBest, Levels
  <2>2. ASSUME NEW side \in Sides, side # cursor.side, best[side] # None
        PROVE  queue'[<<side, best[side]>>] # <<>>
    <3>1. best[side] \in Prices
      BY <2>2 DEF BestType
    <3>2. <<side, best[side]>> \in Levels \ {l}
      BY <1>4, <2>2, <3>1 DEF Levels
    <3>3. queue[<<side, best[side]>>] # <<>>
      BY <2>2 DEF BestPriceIsBest
    <3> QED
      BY <1>5, <3>2, <3>3
  <2> QED
    BY <1>1, <1>2, <2>1, <2>2 DEF BestPriceIsBest
<1>9. NotCrossed'
  BY <1>5 DEF NotCrossed, Levels, Sides
<1>10. pruned' \in PruneTotals
  <2>1. heap[b].quantity \in Nat /\ pruned \in PruneTotals
    BY <1>3 DEF RestingOrders, CallType
  <2>2. \A n \in Nat, e \in Int :
           [pruned EXCEPT !.ordersPruned = n, !.quantityPruned = e] \in PruneTotals
    BY <2>1 DEF PruneTotals
  <2>3. pruned.ordersPruned + 1 \in Nat /\ pruned.quantityPruned \in Int
    BY <2>1 DEF PruneTotals
  <2>4. SharesWith(heap[b].quantity) \subseteq Int
    BY <2>1, <2>3, CountIsInt
  <2>5. PICK shares \in SharesWith(heap[b].quantity) :
           pruned' = [pruned EXCEPT !.ordersPruned = @ + 1, !.quantityPruned = shares]
    BY DEF PruneOrder, b
  <2> QED
    BY <2>2, <2>3, <2>4, <2>5
<1>11. CallType' /\ CallInv'
  BY <1>1, <1>2, <1>10 DEF CallType, CallInv, ModificationCompletes
<1> QED
  BY <1>5, <1>6, <1>7, <1>8, <1>9, <1>11

\* The repair after the last level leaves the ladder with its true best price.
LEMMA FinishLadderKeepsIInv ==
    ASSUME IInv, FinishLadder
    PROVE  IInv'
<1> USE DEF IInv, BookInv
<1> DEFINE side == cursor.side
<1>1. /\ pc = "pruning" /\ outcome = NoOutcome /\ side \in Sides
      /\ UNCHANGED <<idToOrder, heap, queue, volume, call, remaining, submission, outcome, pruned>>
  BY DEF FinishLadder, CallInv
<1>2. \/ pc' = "pruning" /\ cursor' = StartOf("SELL")
      \/ pc' = "done" /\ cursor' = NoCursor
  BY <1>1 DEF FinishLadder
<1>3. BookType' /\ VolumeType' /\ Coherent' /\ NotCrossed'
  BY <1>1 DEF BookType, VolumeType, Coherent, MapMatchesPool, QueuesMatchPool,
              RestingOrdersHaveShares, NotCrossed, Live
<1>4. BestType' /\ BestPriceIsBest'
  <2>1. /\ \A s \in Sides : Bounded(queue, s)
        /\ \A s \in Sides \ {side} : Backed(queue, s)
    BY DEF BestPriceIsBest, Bounded, Backed
  <2>2. CASE best[side] = None
    <3>1. best' = best
      BY <2>2 DEF FinishLadder
    <3> QED
      BY <1>1, <2>1, <2>2, <3>1 DEF BestType, BestPriceIsBest, Bounded, Backed
  <2>3. CASE best[side] # None
    <3>1. best' = BestAfterRemoval(queue, side, best[side]) /\ best[side] \in Prices
      BY <1>1, <2>3 DEF FinishLadder, BestType
    <3>2. /\ BestType'
          /\ \A s \in Sides : /\ \A p \in Prices : queue[<<s, p>>] # <<>> =>
                                    best'[s] # None /\ ~Ahead(s, p, best'[s])
                              /\ s # side => best'[s] = best[s]
          /\ best'[side] # None => queue[<<side, best'[side]>>] # <<>>
      <4> HIDE DEF side
      <4>1. BestType
        OBVIOUS
      <4>2. \A m \in Levels : queue[m] # <<>> => queue[m] # <<>>
        OBVIOUS
      <4> QED
        BY ONLY <1>1, <2>1, <3>1, <4>1, <4>2, BestAfterRemovalIsBest
    <3> QED
      BY <1>1, <2>1, <3>2 DEF BestPriceIsBest, Backed
  <2> QED
    BY <2>2, <2>3
<1>5. CallType'
  BY <1>1, <1>2, CursorFacts DEF CallType, Sides
<1>6. CallInv'
  BY <1>1, <1>2, CursorFacts, NoneIsNoStatus
     DEF CallInv, ModificationCompletes, NoOutcome, OutcomeStatuses, Sides
<1> QED
  BY <1>3, <1>4, <1>5, <1>6

LEMMA ReturnKeepsIInv ==
    ASSUME IInv, Return
    PROVE  IInv'
<1> USE DEF IInv
<1>1. BookInv'
  BY BookUnchanged DEF Return
<1>2. /\ NoCall \in Calls /\ NoSubmission \in Submissions /\ NoOutcome \in Outcomes
      /\ NothingCounted \in PruneTotals
  BY DEF Calls, NoSubmission, Submissions, NoOutcome, Outcomes, NothingCounted, PruneTotals
<1>3. CallType'
  BY <1>2 DEF CallType, Return
<1>4. CallInv'
  BY DEF CallInv, ModificationCompletes, Return
<1> QED
  BY <1>1, <1>3, <1>4

-----------------------------------------------------------------------------
(* The theorems *)

LEMMA NextKeepsIInv ==
    ASSUME IInv, [Next]_vars
    PROVE  IInv'
<1>1. CASE SubmitOrder
  BY <1>1, SubmitKeepsIInv DEF SubmitOrder
<1>2. CASE CancelNotFound \/ CancelOrder
  BY <1>2, CancelKeepsIInv
<1>3. CASE ModifyRefused \/ ModifyOrder
  BY <1>3, ModifyKeepsIInv
<1>4. CASE SessionEnd
  BY <1>4, SessionEndKeepsIInv
<1>5. CASE Resubmit
  BY <1>5, ResubmitKeepsIInv
<1>6. CASE TakePart
  BY <1>6, TakePartKeepsIInv
<1>7. CASE TakeWhole
  BY <1>7, TakeWholeKeepsIInv
<1>8. CASE FinishFilled \/ FinishCanceled
  BY <1>8, FinishKeepsIInv
<1>9. CASE FinishResting
  BY <1>9, FinishRestingKeepsIInv
<1>10. CASE EnterLevel \/ KeepOrder \/ LeaveLevel
  BY <1>10, WalkKeepsIInv
<1>11. CASE PruneOrder
  BY <1>11, PruneOrderKeepsIInv
<1>12. CASE FinishLadder
  BY <1>12, FinishLadderKeepsIInv
<1>13. CASE Return
  BY <1>13, ReturnKeepsIInv
<1>14. CASE UNCHANGED vars
  <2>1. UNCHANGED bookVars
    BY <1>14 DEF vars, bookVars
  <2>2. UNCHANGED <<pc, call, remaining, submission, outcome, cursor, pruned>>
    BY <1>14 DEF vars
  <2>3. BookInv'
    BY <2>1, <2>2, BookUnchanged DEF IInv
  <2>4. CallType' /\ CallInv'
    BY <2>1, <2>2 DEF IInv, CallType, CallInv, ModificationCompletes, bookVars
  <2> QED
    BY <2>3, <2>4 DEF IInv
<1> QED
  BY <1>1, <1>2, <1>3, <1>4, <1>5, <1>6, <1>7, <1>8, <1>9, <1>10, <1>11, <1>12, <1>13, <1>14
     DEF Next, Calling, Running

\* The strengthening holds in every reachable state.
LEMMA IInvHolds == Spec => []IInv
<1>1. IInv /\ [Next]_vars => IInv'
  BY NextKeepsIInv
<1> QED
  BY InitIInv, <1>1, PTL DEF Spec

\* Whatever is called in whatever order, every variable keeps its type: the
\* volumes and best prices, the map, the pool and the result under construction.
THEOREM TypeCorrect == Spec => []TypeOK
<1>1. IInv => TypeOK
  BY TypeOKParts DEF IInv, BookInv
<1> QED
  BY IInvHolds, <1>1, PTL

\* The id map, the memory pool and the FIFO queues of Orderbook.cpp describe
\* the same resting orders after every step of every call.
THEOREM BookCoherent == Spec => []Coherent
<1>1. IInv => Coherent
  BY DEF IInv, BookInv
<1> QED
  BY IInvHolds, <1>1, PTL

\* The cached best price of either ladder is never stale between two calls or
\* two iterations of the match loop.
THEOREM BestPriceCorrect == Spec => []BestPriceIsBest
<1>1. IInv => BestPriceIsBest
  BY DEF IInv, BookInv
<1> QED
  BY IInvHolds, <1>1, PTL

\* Submissions, cancels, modifications and session ends never leave a bid at
\* or above an ask in the book.
THEOREM NeverCrossed == Spec => []NotCrossed
<1>1. IInv => NotCrossed
  BY DEF IInv, BookInv
<1> QED
  BY IInvHolds, <1>1, PTL

\* modify_order cancels first and resubmits second; the resubmission is never
\* refused, so the order is not lost in between.
THEOREM ModifyNeverLoses == Spec => []ModificationCompletes
<1>1. IInv => ModificationCompletes
  BY DEF IInv, CallInv
<1> QED
  BY IInvHolds, <1>1, PTL

-----------------------------------------------------------------------------
(* Queues *)

\* No order of a level overtakes another.
NoOvertaking(l) ==
    \A i, j \in DOMAIN queue'[l] :
        i < j /\ (\E k \in DOMAIN queue[l] : queue[l][k] = queue'[l][j]) =>
            Precedes(queue[l], queue'[l][i], queue'[l][j])

LEMMA SameQueueNoOvertaking ==
    ASSUME NEW l, queue'[l] = queue[l]
    PROVE  NoOvertaking(l)
BY DEF NoOvertaking, Precedes

LEMMA TakeOutNoOvertaking ==
    ASSUME BookType, NEW l \in Levels, NEW k \in DOMAIN queue[l], TakeOut(l, k)
    PROVE  \A m \in Levels : NoOvertaking(m)
<1>1. /\ queue'[l] = RemoveAt(queue[l], k)
      /\ \A m \in Levels \ {l} : queue'[m] = queue[m]
  BY DEF TakeOut, BookType
<1>2. queue[l] \in Seq(Blocks) /\ k \in 1 .. Len(queue[l])
  BY DEF BookType
<1>3. /\ RemoveAt(queue[l], k) \in Seq(Blocks)
      /\ Len(RemoveAt(queue[l], k)) = Len(queue[l]) - 1
      /\ \A i \in 1 .. Len(queue[l]) - 1 :
            RemoveAt(queue[l], k)[i] = IF i < k THEN queue[l][i] ELSE queue[l][i + 1]
  BY <1>2, RemoveAtProperties
<1>4. NoOvertaking(l)
  <2> SUFFICES ASSUME NEW i \in DOMAIN queue'[l], NEW j \in DOMAIN queue'[l], i < j
               PROVE  Precedes(queue[l], queue'[l][i], queue'[l][j])
    BY DEF NoOvertaking
  <2> DEFINE was(n) == IF n < k THEN n ELSE n + 1
  <2>1. i \in 1 .. Len(queue[l]) - 1 /\ j \in 1 .. Len(queue[l]) - 1
    BY <1>1, <1>3
  <2>2. /\ was(i) \in DOMAIN queue[l] /\ was(j) \in DOMAIN queue[l]
        /\ was(i) < was(j)
    BY <1>2, <2>1
  <2>3. queue'[l][i] = queue[l][was(i)] /\ queue'[l][j] = queue[l][was(j)]
    BY <1>1, <1>3, <2>1
  <2> HIDE DEF was
  <2> QED
    BY <2>2, <2>3 DEF Precedes
<1> QED
  BY <1>1, <1>4, SameQueueNoOvertaking

LEMMA PlaceOrderNoOvertaking ==
    ASSUME BookType, Coherent, NEW id, NEW quantity, NEW lifetime,
           NEW side \in Sides, NEW price \in Prices,
           PlaceOrder(id, quantity, lifetime, side, price)
    PROVE  \A m \in Levels : NoOvertaking(m)
<1> DEFINE l == <<side, price>>
<1>1. l \in Levels
  BY DEF Levels
<1>2. PICK b \in Blocks : heap[b] = None /\ queue' = [queue EXCEPT ![l] = PushBack(@, b)]
  BY DEF PlaceOrder
<1> HIDE DEF l
<1>3. /\ queue'[l] = Append(queue[l], b)
      /\ \A m \in Levels \ {l} : queue'[m] = queue[m]
  BY <1>1, <1>2 DEF PushBack, BookType
<1>4. \A k \in DOMAIN queue[l] : queue[l][k] # b
  BY <1>1, <1>2 DEF Coherent, QueuesMatchPool, Live
<1>5. NoOvertaking(l)
  <2> SUFFICES ASSUME NEW i \in DOMAIN queue'[l], NEW j \in DOMAIN queue'[l], i < j,
                      NEW k \in DOMAIN queue[l], queue[l][k] = queue'[l][j]
               PROVE  Precedes(queue[l], queue'[l][i], queue'[l][j])
    BY DEF NoOvertaking
  <2>1. queue[l] \in Seq(Blocks)
    BY <1>1 DEF BookType
  <2>2. j # Len(queue[l]) + 1
    BY <1>2, <1>3, <1>4, <2>1
  <2>3. i \in DOMAIN queue[l] /\ j \in DOMAIN queue[l]
    BY <1>2, <1>3, <2>1, <2>2
  <2>4. queue'[l][i] = queue[l][i] /\ queue'[l][j] = queue[l][j]
    BY <1>2, <1>3, <2>1, <2>3
  <2> QED
    BY <2>3, <2>4 DEF Precedes
<1> QED
  BY <1>3, <1>5, SameQueueNoOvertaking

LEMMA CancelRestingNoOvertaking ==
    ASSUME BookInv, NEW id \in OrderIds, idToOrder[id] # None, CancelResting(id)
    PROVE  \A m \in Levels : NoOvertaking(m)
<1> USE DEF BookInv
<1> DEFINE l == heap[idToOrder[id]].level
<1>1. l \in Levels
  BY DEF Coherent, MapMatchesPool, Live, BookType, RestingOrders
<1>2. PICK i \in DOMAIN queue[l] : TakeOut(l, i)
  BY DEF CancelResting
<1> HIDE DEF l
<1> QED
  BY <1>1, <1>2, TakeOutNoOvertaking

\* The steps that leave every queue alone.
LEMMA OtherStepsKeepQueues ==
    ASSUME \/ SubmitOrder \/ CancelNotFound \/ ModifyRefused \/ SessionEnd \/ Resubmit
           \/ TakePart \/ FinishFilled \/ FinishCanceled
           \/ EnterLevel \/ KeepOrder \/ LeaveLevel \/ FinishLadder \/ Return
           \/ UNCHANGED vars
    PROVE  queue' = queue
BY DEF SubmitOrder, Resubmit, RejectSubmission, KillSubmission, StartMatching,
       CancelNotFound, ModifyRefused, SessionEnd, TakePart, FinishFilled, FinishCanceled,
       EnterLevel, KeepOrder, LeaveLevel, FinishLadder, Return, vars, bookVars

LEMMA NextNoOvertaking ==
    ASSUME IInv, [Next]_vars
    PROVE  \A l \in Levels : NoOvertaking(l)
<1> USE DEF IInv, BookInv
<1>1. CASE TakeWhole
  BY <1>1, MatchableFacts, TakeOutNoOvertaking DEF TakeWhole
<1>2. CASE FinishResting
  <2>1. call.side \in Sides /\ call.limit \in Prices
    BY <1>2, RequestFields DEF FinishResting, CallInv, Lifetimes, TimesInForce
  <2> QED
    BY <1>2, <2>1, PlaceOrderNoOvertaking DEF FinishResting
<1>3. CASE CancelOrder
  BY <1>3, CancelRestingNoOvertaking DEF CancelOrder
<1>4. CASE ModifyOrder
  BY <1>4, CancelRestingNoOvertaking DEF ModifyOrder
<1>5. CASE PruneOrder
  <2>1. CursorLevel \in Levels /\ cursor.index \in DOMAIN queue[CursorLevel]
    BY <1>5, CursorFacts DEF PruneOrder, AtOrder, AtLevel
  <2> QED
    BY <1>5, <2>1, TakeOutNoOvertaking DEF PruneOrder
<1>6. CASE ~(TakeWhole \/ FinishResting \/ CancelOrder \/ ModifyOrder \/ PruneOrder)
  <2>1. queue' = queue
    BY <1>6, OtherStepsKeepQueues DEF Next, Calling, Running
  <2> QED
    BY <2>1, SameQueueNoOvertaking
<1> QED
  BY <1>1, <1>2, <1>3, <1>4, <1>5, <1>6

-----------------------------------------------------------------------------
(* Trades *)

\* The front order of the best level has priority over the rest of its ladder.
LEMMA TakingOrderHasPriority ==
    ASSUME IInv, pc = "matching", Matchable
    PROVE  /\ heap[TakingOrder].side = Opposite(call.side)
           /\ Crosses(call.side, call.limit, heap[TakingOrder].level[2])
           /\ \A c \in Live \ {TakingOrder} :
                 heap[c].side = heap[TakingOrder].side => HasPriority(TakingOrder, c)
<1> USE DEF IInv, BookInv
<1> DEFINE b == TakingOrder
           side == MatchingSide
<1>1. /\ side \in Sides /\ best[side] \in Prices
      /\ BestLevel = <<side, best[side]>> /\ BestLevel \in Levels
      /\ 1 \in DOMAIN queue[BestLevel] /\ b = queue[BestLevel][1]
  BY MatchableFacts DEF BestLevel
<1>2. heap[b].side = side /\ heap[b].level = BestLevel
  BY <1>1 DEF Coherent, QueuesMatchPool
<1>3. Crosses(call.side, call.limit, heap[b].level[2])
  BY <1>1, <1>2 DEF Matchable
<1>4. ASSUME NEW c \in Live \ {b}, heap[c].side = heap[b].side
      PROVE  HasPriority(b, c)
  <2> DEFINE l == heap[c].level
             p == l[2]
  <2>1. l \in Levels /\ heap[c] \in RestingOrders
    BY DEF Live, BookType, RestingOrders
  <2>2. PICK j \in DOMAIN queue[l] : queue[l][j] = c
    BY DEF Coherent, QueuesMatchPool
  <2>3. l[1] = side /\ p \in Prices /\ l = <<side, p>>
    BY <1>2, <1>4, <2>1, <2>2 DEF Coherent, QueuesMatchPool, Levels
  <2>4. queue[l] # <<>>
    BY <2>1, <2>2 DEF BookType
  <2>5. ~Ahead(side, p, best[side])
    BY <1>1, <2>3, <2>4 DEF BestPriceIsBest
  <2>6. CASE p = best[side]
    <3>1. l = BestLevel
      BY <1>1, <2>3, <2>6
    <3>2. j # 1
      BY <1>1, <2>2, <3>1
    <3>3. j \in Nat /\ 1 < j
      BY <2>1, <2>2, <3>2 DEF BookType
    <3>4. Precedes(queue[BestLevel], b, c)
      BY <1>1, <2>2, <3>1, <3>3 DEF Precedes
    <3> QED
      BY <1>2, <3>1, <3>4 DEF HasPriority
  <2>7. CASE p # best[side]
    <3>1. Ahead(side, best[side], p)
      BY <1>1, <2>3, <2>5, <2>7, PriceRange DEF Ahead, Prices
    <3>2. heap[b].level[2] = best[side]
      BY <1>1, <1>2
    <3> QED
      BY <1>2, <3>1, <3>2 DEF HasPriority
  <2> QED
    BY <2>6, <2>7
<1> QED
  BY <1>2, <1>3, <1>4 DEF MatchingSide

\* Only a trade takes shares from an order while a call matches, and only from
\* the front order of the best level.
LEMMA OnlyTakingOrderShrinks ==
    ASSUME IInv, [Next]_vars, pc = "matching", NEW b \in Live, Shrinks(b)
    PROVE  Matchable /\ b = TakingOrder
<1> USE DEF IInv, BookInv
<1>1. heap[b] \in RestingOrders /\ heap[b] # None /\ b \in Blocks /\ heap[b].quantity \in Nat
  BY DEF Live, BookType, RestingOrders
<1>2. heap'[b] # heap[b]
  BY <1>1 DEF Shrinks
<1>3. CASE TakePart
  BY <1>1, <1>2, <1>3 DEF TakePart, BookType
<1>4. CASE TakeWhole
  BY <1>1, <1>2, <1>4, MatchableFacts DEF TakeWhole, TakeOut, Retire, BookType
<1>5. CASE FinishResting
  BY <1>1, <1>2, <1>5 DEF FinishResting, PlaceOrder, BookType
<1>6. CASE FinishFilled \/ FinishCanceled \/ UNCHANGED vars
  BY <1>2, <1>6 DEF FinishFilled, FinishCanceled, vars, bookVars
<1>7. ~(Calling \/ Resubmit \/ EnterLevel \/ KeepOrder \/ PruneOrder \/ LeaveLevel
          \/ FinishLadder \/ Return)
  BY DEF Calling, SubmitOrder, CancelNotFound, CancelOrder, ModifyRefused, ModifyOrder,
         SessionEnd, Resubmit, EnterLevel, KeepOrder, PruneOrder, LeaveLevel, FinishLadder,
         Return, AtOrder, AtLevel
<1> QED
  BY <1>3, <1>4, <1>5, <1>6, <1>7 DEF Next, Running

-----------------------------------------------------------------------------
(* The theorems *)

\* On any ladder: shares are taken only from the resting order that has priority
\* over all others of its side, and only within the limit of the taker.
THEOREM TradesRespectPriority == Spec => PriceTimePriority
<1> DEFINE Fair(b) ==
        /\ heap[b].side = Opposite(call.side)
        /\ Crosses(call.side, call.limit, heap[b].level[2])
        /\ \A c \in Live \ {b} : heap[c].side = heap[b].side => HasPriority(b, c)
<1>1. ASSUME IInv, [Next]_vars, pc = "matching", NEW b \in Live, Shrinks(b)
      PROVE  Fair(b)
  BY <1>1, OnlyTakingOrderShrinks, TakingOrderHasPriority
<1>2. IInv /\ [Next]_vars => [pc = "matching" => \A b \in Live : Shrinks(b) => Fair(b)]_vars
  BY <1>1
<1> QED
  BY IInvHolds, <1>2, PTL DEF Spec, PriceTimePriority

\* In queues of any length: no fill, cancel, modification or prune lets an order
\* overtake another, and nobody joins a queue other than at its end.
THEOREM NobodyOvertakes == Spec => QueuePlaceIsKept
<1>1. IInv /\ [Next]_vars =>
         [\A l \in Levels : \A i, j \in DOMAIN queue'[l] :
             i < j /\ (\E k \in DOMAIN queue[l] : queue[l][k] = queue'[l][j]) =>
                 Precedes(queue[l], queue'[l][i], queue'[l][j])]_vars
  BY NextNoOvertaking DEF NoOvertaking
<1> QED
  BY IInvHolds, <1>1, PTL DEF Spec, QueuePlaceIsKept

-----------------------------------------------------------------------------
(* Where the shares are: the cached volumes, the liquidity a fill-or-kill    *)
(* order counts, what a result reports and what the session end adds up.    *)
(* All of it is told in terms of Held, the shares in each block, summed      *)
(* over a set of blocks; a step of the book adds a block, removes one or     *)
(* takes some shares out of one.                                             *)

\* The shares in each block.
Held == [b \in Blocks |-> IF heap[b] = None THEN 0 ELSE heap[b].quantity]

\* The blocks of the orders that rest on level l.
OnLevel(l) == {b \in Live : heap[b].level = l}

HeldOn(l) == SumFunctionOnSet(Held, OnLevel(l))

VolumesAreHeld == \A l \in Levels : volume[l] = HeldOn(l)

LEMMA HeldType ==
    ASSUME BookType
    PROVE  /\ Held \in [Blocks -> Nat]
           /\ \A b \in Live : Held[b] = heap[b].quantity
BY DEF Held, BookType, RestingOrders, Live

LEMMA LevelsAreFinite == IsFiniteSet(Levels)
<1>1. IsFiniteSet(Prices)
  BY PriceRange, FS_Interval DEF Prices
<1>2. IsFiniteSet(Sides)
  <2>1. IsFiniteSet({} \cup {"BUY"})
    BY FS_EmptySet, FS_AddElement
  <2>2. IsFiniteSet(({} \cup {"BUY"}) \cup {"SELL"})
    BY <2>1, FS_AddElement
  <2>3. Sides = ({} \cup {"BUY"}) \cup {"SELL"}
    BY DEF Sides
  <2> QED
    BY <2>2, <2>3
<1> QED
  BY <1>1, <1>2, FS_Product DEF Levels

\* There are finitely many levels, with a sequence of blocks on each, and
\* every order that rests is on one of them.
LEMMA LiveIsFinite ==
    ASSUME BookType, Coherent
    PROVE  IsFiniteSet(Live)
<1> DEFINE img(l) == {queue[l][i] : i \in 1 .. Len(queue[l])}
           Img == {img(l) : l \in Levels}
<1>1. \A l \in Levels : IsFiniteSet(img(l))
  <2> TAKE l \in Levels
  <2>1. Len(queue[l]) \in Nat /\ DOMAIN queue[l] = 1 .. Len(queue[l])
    BY DEF BookType
  <2>2. IsFiniteSet(1 .. Len(queue[l]))
    BY <2>1, FS_Interval
  <2>3. queue[l] \in Surjection(1 .. Len(queue[l]), img(l))
    BY <2>1 DEF Surjection, BookType
  <2> HIDE DEF img
  <2> QED
    BY <2>2, <2>3, FS_Surjection
<1>2. IsFiniteSet(Levels)
  BY LevelsAreFinite
<1>3. IsFiniteSet(Img)
  <2> DEFINE f == [l \in Levels |-> img(l)]
  <2>1. f \in Surjection(Levels, Img)
    <3> HIDE DEF img
    <3> QED BY DEF Surjection
  <2> HIDE DEF f, Img
  <2> QED
    BY <1>2, <2>1, FS_Surjection
<1>4. IsFiniteSet(UNION Img)
  <2>1. \A T \in Img : IsFiniteSet(T)
    BY <1>1
  <2> HIDE DEF Img
  <2> QED
    BY <1>3, <2>1, FS_UNION
<1>5. Live \in SUBSET (UNION Img)
  <2> SUFFICES ASSUME NEW b \in Live PROVE b \in UNION Img
    OBVIOUS
  <2>1. heap[b].level \in Levels
    BY DEF Live, BookType, RestingOrders
  <2>2. PICK i \in DOMAIN queue[heap[b].level] : queue[heap[b].level][i] = b
    BY DEF Coherent, QueuesMatchPool
  <2>3. b \in img(heap[b].level)
    BY <2>1, <2>2 DEF BookType
  <2> QED
    BY <2>1, <2>3
<1> QED
  BY <1>4, <1>5, FS_Subset

-----------------------------------------------------------------------------
(* What a step does to the orders that rest *)

Keeps == UNCHANGED <<heap, volume>>

Removes(b) ==
    /\ b \in Live
    /\ heap' = [heap EXCEPT ![b] = None]
    /\ volume' = [volume EXCEPT ![heap[b].level] = @ - heap[b].quantity]

Reduces(b, shares) ==
    /\ b \in Live
    /\ shares \in Nat /\ shares < heap[b].quantity
    /\ heap' = [heap EXCEPT ![b].quantity = @ - shares]
    /\ volume' = [volume EXCEPT ![heap[b].level] = @ - shares]

Adds(b, order) ==
    /\ b \in Blocks /\ heap[b] = None /\ order \in RestingOrders
    /\ heap' = [heap EXCEPT ![b] = order]
    /\ volume' = [volume EXCEPT ![order.level] = @ + order.quantity]

LEMMA TakeOutRemoves ==
    ASSUME BookType, Coherent, NEW l \in Levels, NEW i \in DOMAIN queue[l], TakeOut(l, i)
    PROVE  Removes(queue[l][i])
<1>1. queue[l][i] \in Live /\ heap[queue[l][i]].level = l
  BY DEF Coherent, QueuesMatchPool
<1> QED
  BY <1>1 DEF Removes, TakeOut, Lowered, Retire

LEMMA CancelRemoves ==
    ASSUME BookType, Coherent, NEW id \in OrderIds, idToOrder[id] # None, CancelResting(id)
    PROVE  Removes(idToOrder[id])
<1> DEFINE l == heap[idToOrder[id]].level
<1>1. l \in Levels
  BY DEF Coherent, MapMatchesPool, Live, BookType, RestingOrders
<1>2. PICK i \in DOMAIN queue[l] : queue[l][i] = idToOrder[id] /\ TakeOut(l, i)
  BY DEF CancelResting
<1> HIDE DEF l
<1> QED
  BY <1>1, <1>2, TakeOutRemoves

LEMMA TakePartReduces ==
    ASSUME IInv, TakePart
    PROVE  Reduces(TakingOrder, remaining)
<1> USE DEF IInv, BookInv
<1>1. TakingOrder \in Live /\ heap[TakingOrder] \in RestingOrders /\ BestLevel \in Levels
      /\ TakingOrder = queue[BestLevel][1] /\ 1 \in DOMAIN queue[BestLevel]
  BY MatchableFacts DEF TakePart
<1>2. heap[TakingOrder].level = BestLevel
  BY <1>1 DEF Coherent, QueuesMatchPool
<1> QED
  BY <1>1, <1>2 DEF TakePart, Reduces, Lowered, CallType

LEMMA TakeWholeRemoves ==
    ASSUME IInv, TakeWhole
    PROVE  Removes(TakingOrder)
<1> USE DEF IInv, BookInv
<1>1. BestLevel \in Levels /\ TakingOrder = queue[BestLevel][1] /\ 1 \in DOMAIN queue[BestLevel]
  BY MatchableFacts DEF TakeWhole
<1> QED
  BY <1>1, TakeOutRemoves DEF TakeWhole

LEMMA PruneOrderRemoves ==
    ASSUME IInv, PruneOrder
    PROVE  Removes(CursorBlock)
<1> USE DEF IInv, BookInv
<1>1. CursorLevel \in Levels
  BY CursorFacts DEF PruneOrder, AtOrder, AtLevel
<1> QED
  BY <1>1, TakeOutRemoves DEF PruneOrder, AtOrder, CursorBlock

LEMMA RestingAdds ==
    ASSUME IInv, FinishResting
    PROVE  \E b \in Blocks :
              Adds(b, [id |-> call.id, quantity |-> remaining, lifetime |-> call.tif,
                       side |-> call.side, level |-> <<call.side, call.limit>>])
<1> USE DEF IInv, BookInv
<1>1. call.id \in OrderIds /\ call.side \in Sides /\ call.limit \in Prices
      /\ call.tif \in Lifetimes /\ remaining \in Nat
  BY RequestFields, NoneIsNoValue DEF FinishResting, CallInv, CallType, Lifetimes, TimesInForce
<1>2. [id |-> call.id, quantity |-> remaining, lifetime |-> call.tif,
       side |-> call.side, level |-> <<call.side, call.limit>>] \in RestingOrders
  BY <1>1 DEF RestingOrders, Levels
<1>3. PICK b \in Blocks :
         /\ heap[b] = None
         /\ heap' = [heap EXCEPT ![b] =
               [id |-> call.id, quantity |-> remaining, lifetime |-> call.tif,
                side |-> call.side, level |-> <<call.side, call.limit>>]]
  BY DEF FinishResting, PlaceOrder
<1>4. volume' = [volume EXCEPT ![<<call.side, call.limit>>] = @ + remaining]
  BY DEF FinishResting, PlaceOrder
<1> QED
  BY <1>2, <1>3, <1>4 DEF Adds

\* Blocks whose shares stay the same hold the same shares together.
LEMMA SumOfUntouched ==
    ASSUME BookType, Coherent, BookType', NEW S \in SUBSET Live,
           \A c \in S : heap'[c] = heap[c]
    PROVE  SumFunctionOnSet(Held', S) = SumFunctionOnSet(Held, S)
<1>1. IsFiniteSet(S)
  BY LiveIsFinite, FS_Subset
<1>2. \A c \in S : Held[c] \in Int /\ Held'[c] = Held[c]
  <2> TAKE c \in S
  <2>1. c \in Blocks /\ c \in Live
    BY DEF Live
  <2>2. Held[c] \in Nat
    BY <2>1, HeldType
  <2>3. Held'[c] = Held[c]
    BY <2>1 DEF Held
  <2> QED
    BY <2>2, <2>3
<1> QED
  BY <1>1, <1>2, SumSame

LEMMA SumIsNat ==
    ASSUME BookType, Coherent, NEW S \in SUBSET Live
    PROVE  IsFiniteSet(S) /\ SumFunctionOnSet(Held, S) \in Nat
<1>1. IsFiniteSet(S)
  BY LiveIsFinite, FS_Subset
<1>2. \A c \in S : Held[c] \in Nat
  BY HeldType DEF Live
<1> QED
  BY <1>1, <1>2, SumNat

LEMMA RemovesSums ==
    ASSUME BookType, Coherent, BookType', NEW b, Removes(b)
    PROVE  /\ Live' = Live \ {b}
           /\ \A c \in Live' : heap'[c] = heap[c]
           /\ heap[b].quantity \in Nat
           /\ \A S \in SUBSET Live :
                 SumFunctionOnSet(Held', S \ {b}) =
                    SumFunctionOnSet(Held, S) - (IF b \in S THEN heap[b].quantity ELSE 0)
<1>1. Live' = Live \ {b} /\ \A c \in Live' : heap'[c] = heap[c]
  BY DEF Removes, Live, BookType
<1>2. heap[b].quantity \in Nat /\ Held[b] = heap[b].quantity
  BY HeldType DEF Removes, Live, BookType, RestingOrders
<1>3. ASSUME NEW S \in SUBSET Live
      PROVE  SumFunctionOnSet(Held', S \ {b}) =
                SumFunctionOnSet(Held, S) - (IF b \in S THEN heap[b].quantity ELSE 0)
  <2> DEFINE r == S \ {b}
  <2>1. r \in SUBSET Live /\ \A c \in r : heap'[c] = heap[c]
    BY <1>1
  <2>2. SumFunctionOnSet(Held', r) = SumFunctionOnSet(Held, r)
    <3> HIDE DEF r
    <3> QED BY <2>1, SumOfUntouched
  <2>3. IsFiniteSet(S) /\ SumFunctionOnSet(Held, r) \in Nat
    <3> HIDE DEF r
    <3> QED BY <2>1, SumIsNat
  <2>4. \A c \in S : Held[c] \in Int
    BY HeldType DEF Live
  <2>5. CASE b \in S
    <3>1. SumFunctionOnSet(Held, S) = Held[b] + SumFunctionOnSet(Held, r)
      BY ONLY <2>3, <2>4, <2>5, SumRemove
    <3> HIDE DEF r
    <3>2. SumFunctionOnSet(Held', r) =
                SumFunctionOnSet(Held, S) - (IF b \in S THEN heap[b].quantity ELSE 0)
      BY <1>2, <2>2, <2>3, <2>5, <3>1
    <3> USE DEF r
    <3> QED BY <3>2
  <2>6. CASE b \notin S
    <3>1. r = S
      BY <2>6
    <3> HIDE DEF r
    <3>2. SumFunctionOnSet(Held', r) =
                SumFunctionOnSet(Held, S) - (IF b \in S THEN heap[b].quantity ELSE 0)
      BY <2>2, <2>3, <2>6, <3>1
    <3> USE DEF r
    <3> QED BY <3>2
  <2> QED
    BY <2>5, <2>6
<1> QED
  BY <1>1, <1>2, <1>3

LEMMA ReducesSums ==
    ASSUME BookType, Coherent, BookType', NEW b, NEW shares, Reduces(b, shares)
    PROVE  /\ Live' = Live
           /\ \A c \in Live : heap'[c].level = heap[c].level /\ (c # b => heap'[c] = heap[c])
           /\ \A S \in SUBSET Live :
                 SumFunctionOnSet(Held', S) =
                    SumFunctionOnSet(Held, S) - (IF b \in S THEN shares ELSE 0)
<1>1. b \in Live /\ b \in Blocks /\ heap[b] \in RestingOrders /\ heap[b] # None
  BY DEF Reduces, Live, BookType
<1>2. heap'[b] = [heap[b] EXCEPT !.quantity = @ - shares] /\ \A c \in Blocks \ {b} : heap'[c] = heap[c]
  BY <1>1 DEF Reduces, BookType
<1>3. heap'[b] \in RestingOrders /\ heap'[b].level = heap[b].level
      /\ heap'[b].quantity = heap[b].quantity - shares
  BY <1>1, <1>2 DEF Reduces, RestingOrders
<1>4. Live' = Live
  BY <1>1, <1>2, <1>3, NoneIsNoOrder DEF Live
<1>5. \A c \in Live : heap'[c].level = heap[c].level /\ (c # b => heap'[c] = heap[c])
  BY <1>2, <1>3 DEF Live
<1>6. Held'[b] = Held[b] - shares /\ Held[b] \in Nat /\ shares \in Nat
  <2>1. Held'[b] = heap'[b].quantity /\ Held[b] = heap[b].quantity
    BY <1>1, <1>3, NoneIsNoOrder DEF Held
  <2> QED
    BY <1>1, <1>3, <2>1, HeldType DEF Reduces
<1>7. ASSUME NEW S \in SUBSET Live
      PROVE  SumFunctionOnSet(Held', S) =
                SumFunctionOnSet(Held, S) - (IF b \in S THEN shares ELSE 0)
  <2>1. IsFiniteSet(S) /\ SumFunctionOnSet(Held, S) \in Nat
    BY SumIsNat
  <2>2. CASE b \in S
    <3>1. \A c \in S : Held[c] \in Int /\ Held'[c] \in Int /\ (c # b => Held'[c] = Held[c])
      <4> TAKE c \in S
      <4>1. c \in Blocks
        BY DEF Live
      <4>2. Held[c] \in Nat /\ Held'[c] \in Nat
        <5>1. Held' \in [Blocks -> Nat]
          BY DEF Held, BookType, RestingOrders
        <5> QED
          BY <4>1, <5>1, HeldType
      <4>3. c # b => Held'[c] = Held[c]
        BY <1>2, <4>1 DEF Held
      <4> QED
        BY <4>2, <4>3
    <3>2. SumFunctionOnSet(Held', S) = SumFunctionOnSet(Held, S) - Held[b] + Held'[b]
      BY ONLY <2>1, <2>2, <3>1, SumChange
    <3> QED
      BY <1>6, <2>1, <2>2, <3>2
  <2>3. CASE b \notin S
    <3>1. \A c \in S : heap'[c] = heap[c]
      BY <1>5, <2>3
    <3> QED
      BY <2>1, <2>3, <3>1, SumOfUntouched
  <2> QED
    BY <2>2, <2>3
<1> QED
  BY <1>4, <1>5, <1>7

LEMMA AddsSums ==
    ASSUME BookType, Coherent, BookType', Coherent', NEW b, NEW order, Adds(b, order)
    PROVE  /\ Live' = Live \cup {b} /\ b \notin Live
           /\ heap'[b] = order
           /\ \A c \in Live : heap'[c] = heap[c]
           /\ \A S \in SUBSET Live :
                 /\ SumFunctionOnSet(Held', S) = SumFunctionOnSet(Held, S)
                 /\ SumFunctionOnSet(Held', S \cup {b}) =
                       SumFunctionOnSet(Held, S) + order.quantity
<1>1. b \in Blocks /\ heap[b] = None /\ heap'[b] = order /\ order # None
      /\ \A c \in Blocks \ {b} : heap'[c] = heap[c]
  BY NoneIsNoOrder DEF Adds, BookType
<1>2. Live' = Live \cup {b} /\ b \notin Live /\ \A c \in Live : heap'[c] = heap[c]
  BY <1>1 DEF Live
<1>3. ASSUME NEW S \in SUBSET Live
      PROVE  /\ SumFunctionOnSet(Held', S) = SumFunctionOnSet(Held, S)
             /\ SumFunctionOnSet(Held', S \cup {b}) =
                   SumFunctionOnSet(Held, S) + order.quantity
  <2>1. SumFunctionOnSet(Held', S) = SumFunctionOnSet(Held, S)
    BY <1>2, SumOfUntouched
  <2>2. IsFiniteSet(S) /\ b \notin S
    BY <1>2, SumIsNat
  <2>3. Held'[b] = order.quantity
    BY <1>1 DEF Held
  <2>4. \A c \in S \cup {b} : Held'[c] \in Int
    <3>1. Held' \in [Blocks -> Nat]
      BY DEF Held, BookType, RestingOrders
    <3> QED
      BY <1>1, <3>1 DEF Live
  <2>5. SumFunctionOnSet(Held', S \cup {b}) = SumFunctionOnSet(Held', S) + Held'[b]
    BY ONLY <2>2, <2>4, SumAdd
  <2> QED
    BY <2>1, <2>3, <2>5
<1> QED
  BY <1>1, <1>2, <1>3

-----------------------------------------------------------------------------
(* The cached volumes *)

LEMMA EffectsKeepVolumes ==
    ASSUME SoundBook, SoundBook', VolumesAreHeld,
           \/ Keeps
           \/ \E b \in Blocks : Removes(b)
           \/ \E b \in Blocks, shares \in Nat : Reduces(b, shares)
           \/ \E b \in Blocks, order \in RestingOrders : Adds(b, order)
    PROVE  VolumesAreHeld'
<1> USE DEF SoundBook
<1> SUFFICES ASSUME NEW l \in Levels PROVE volume'[l] = HeldOn(l)'
  BY DEF VolumesAreHeld
<1>1. OnLevel(l) \in SUBSET Live /\ volume[l] = HeldOn(l) /\ HeldOn(l) \in Nat
  BY SumIsNat DEF OnLevel, VolumesAreHeld, HeldOn
<1>2. CASE Keeps
  <2>1. HeldOn(l)' = HeldOn(l)
    BY <1>2 DEF Keeps, HeldOn, Held, OnLevel, Live
  <2> QED
    BY <1>1, <1>2, <2>1 DEF Keeps
<1>3. ASSUME NEW b \in Blocks, Removes(b)
      PROVE  volume'[l] = HeldOn(l)'
  <2>1. OnLevel(l)' = OnLevel(l) \ {b}
    BY <1>3, RemovesSums DEF OnLevel
  <2>2. SumFunctionOnSet(Held', OnLevel(l) \ {b}) =
           HeldOn(l) - (IF b \in OnLevel(l) THEN heap[b].quantity ELSE 0)
    BY <1>1, <1>3, RemovesSums DEF HeldOn
  <2>3. HeldOn(l)' = HeldOn(l) - (IF b \in OnLevel(l) THEN heap[b].quantity ELSE 0)
    BY <2>1, <2>2 DEF HeldOn
  <2>4. b \in OnLevel(l) <=> heap[b].level = l
    BY <1>3 DEF OnLevel, Removes
  <2>5. heap[b].quantity \in Nat
    BY <1>3, RemovesSums
  <2> QED
    BY <1>1, <1>3, <2>3, <2>4, <2>5 DEF Removes, VolumeType
<1>4. ASSUME NEW b \in Blocks, NEW shares \in Nat, Reduces(b, shares)
      PROVE  volume'[l] = HeldOn(l)'
  <2>1. OnLevel(l)' = OnLevel(l)
    BY <1>4, ReducesSums DEF OnLevel
  <2>2. SumFunctionOnSet(Held', OnLevel(l)) =
           HeldOn(l) - (IF b \in OnLevel(l) THEN shares ELSE 0)
    BY <1>1, <1>4, ReducesSums DEF HeldOn
  <2>3. HeldOn(l)' = HeldOn(l) - (IF b \in OnLevel(l) THEN shares ELSE 0)
    BY <2>1, <2>2 DEF HeldOn
  <2>4. b \in OnLevel(l) <=> heap[b].level = l
    BY <1>4 DEF OnLevel, Reduces
  <2> QED
    BY <1>1, <1>4, <2>3, <2>4 DEF Reduces, VolumeType
<1>5. ASSUME NEW b \in Blocks, NEW order \in RestingOrders, Adds(b, order)
      PROVE  volume'[l] = HeldOn(l)'
  <2>1. OnLevel(l)' = IF order.level = l THEN OnLevel(l) \cup {b} ELSE OnLevel(l)
    BY <1>5, AddsSums DEF OnLevel
  <2>2. /\ SumFunctionOnSet(Held', OnLevel(l)) = HeldOn(l)
        /\ SumFunctionOnSet(Held', OnLevel(l) \cup {b}) = HeldOn(l) + order.quantity
    BY <1>1, <1>5, AddsSums DEF HeldOn
  <2>3. HeldOn(l)' = HeldOn(l) + (IF order.level = l THEN order.quantity ELSE 0)
    BY <1>1, <2>1, <2>2 DEF HeldOn
  <2>4. order.quantity \in Nat
    BY DEF RestingOrders
  <2> QED
    BY <1>1, <1>5, <2>3, <2>4 DEF Adds, VolumeType
<1> QED
  BY <1>2, <1>3, <1>4, <1>5

LEMMA NextKeepsVolumes ==
    ASSUME IInv, VolumesAreHeld, [Next]_vars
    PROVE  VolumesAreHeld'
<1> USE DEF IInv
<1>1. IInv'
  BY NextKeepsIInv
<1> SUFFICES \/ Keeps
             \/ \E b \in Blocks : Removes(b)
             \/ \E b \in Blocks, shares \in Nat : Reduces(b, shares)
             \/ \E b \in Blocks, order \in RestingOrders : Adds(b, order)
  BY <1>1, EffectsKeepVolumes DEF BookInv, SoundBook
<1>2. CASE CancelOrder \/ ModifyOrder
  <2>1. PICK id \in OrderIds : idToOrder[id] # None /\ CancelResting(id)
    BY <1>2 DEF CancelOrder, ModifyOrder
  <2>2. Removes(idToOrder[id])
    BY <2>1, CancelRemoves DEF BookInv
  <2> QED
    BY <2>2 DEF Removes, Live
<1>3. CASE TakePart
  BY <1>3, TakePartReduces DEF Reduces, Live
<1>4. CASE TakeWhole
  BY <1>4, TakeWholeRemoves DEF Removes, Live
<1>5. CASE PruneOrder
  BY <1>5, PruneOrderRemoves DEF Removes, Live
<1>6. CASE FinishResting
  BY <1>6, RestingAdds DEF Adds
<1>7. CASE SubmitOrder \/ Resubmit
  BY <1>7 DEF SubmitOrder, Resubmit, RejectSubmission, KillSubmission, StartMatching, bookVars, Keeps
<1>8. CASE \/ CancelNotFound \/ ModifyRefused \/ SessionEnd \/ FinishFilled \/ FinishCanceled
           \/ EnterLevel \/ KeepOrder \/ LeaveLevel \/ Return
  BY <1>8 DEF CancelNotFound, ModifyRefused, SessionEnd, FinishFilled, FinishCanceled,
              EnterLevel, KeepOrder, LeaveLevel, Return, bookVars, Keeps
<1>9. CASE FinishLadder \/ UNCHANGED vars
  BY <1>9 DEF FinishLadder, vars, Keeps
<1> QED
  BY <1>2, <1>3, <1>4, <1>5, <1>6, <1>7, <1>8, <1>9 DEF Next, Calling, Running

LEMMA InitVolumes == Init => VolumesAreHeld
<1> SUFFICES ASSUME Init, NEW l \in Levels PROVE volume[l] = HeldOn(l)
  BY DEF VolumesAreHeld
<1>1. OnLevel(l) = {} /\ volume[l] = 0
  BY DEF Init, OnLevel, Live
<1> QED
  BY <1>1, SumEmpty DEF HeldOn

LEMMA VolumesAreHeldHolds == Spec => []VolumesAreHeld
<1>1. Init => VolumesAreHeld
  BY InitVolumes
<1>2. IInv /\ VolumesAreHeld /\ [Next]_vars => VolumesAreHeld'
  BY NextKeepsVolumes
<1> QED
  BY <1>1, <1>2, IInvHolds, PTL DEF Spec

\* The shares on a level, added up along its queue, are those its blocks hold.
LEMMA QueueHolds ==
    ASSUME BookType, Coherent, NEW l \in Levels
    PROVE  SumFunction([i \in DOMAIN queue[l] |-> heap[queue[l][i]].quantity]) = HeldOn(l)
<1> DEFINE f == [i \in DOMAIN queue[l] |-> heap[queue[l][i]].quantity]
<1>1. queue[l] \in [DOMAIN queue[l] -> OnLevel(l)]
  BY DEF BookType, OnLevel, Coherent, QueuesMatchPool
<1>2. \A i, j \in DOMAIN queue[l] : queue[l][i] = queue[l][j] => i = j
  BY DEF Coherent, QueuesMatchPool
<1>3. \A b \in OnLevel(l) : \E i \in DOMAIN queue[l] : queue[l][i] = b
  BY DEF OnLevel, Coherent, QueuesMatchPool
<1>4. \A i \in DOMAIN queue[l] : f[i] \in Int /\ Held[queue[l][i]] = f[i]
  <2> TAKE i \in DOMAIN queue[l]
  <2>1. queue[l][i] \in Live
    BY DEF Coherent, QueuesMatchPool
  <2>2. f[i] = heap[queue[l][i]].quantity
    OBVIOUS
  <2> QED
    BY <2>1, <2>2, HeldType DEF Live
<1>5. IsFiniteSet(DOMAIN queue[l]) /\ DOMAIN f = DOMAIN queue[l]
  BY FS_Interval DEF BookType
<1> HIDE DEF f
<1>6. SumFunctionOnSet(f, DOMAIN queue[l]) = SumFunctionOnSet(Held, OnLevel(l))
  BY ONLY <1>1, <1>2, <1>3, <1>4, <1>5, SumBijection
<1>7. SumFunction(f) = HeldOn(l)
  BY <1>5, <1>6 DEF SumFunction, HeldOn
<1> QED
  BY <1>7 DEF f

\* totalVolume_ of every level is the sum of the shares of the orders in its
\* list, through every partial fill, fill, cancel, modification and prune.
THEOREM VolumesAreSums == Spec => []VolumeIsSum
<1>1. IInv /\ VolumesAreHeld => VolumeIsSum
  BY QueueHolds DEF IInv, BookInv, VolumesAreHeld, VolumeIsSum
<1> QED
  BY IInvHolds, VolumesAreHeldHolds, <1>1, PTL

-----------------------------------------------------------------------------
(* The liquidity that a fill-or-kill order counts *)

\* The resting orders of a side that a limit reaches.
Within(side, limit) == {b \in Live : heap[b].side = side /\ ~Ahead(side, limit, heap[b].level[2])}

\* The volumes counted from the best price to the limit are the shares of all
\* orders that the limit reaches.
LEMMA CountedIsHeld ==
    ASSUME BookInv, VolumesAreHeld, NEW side \in Sides, NEW limit \in Prices
    PROVE  /\ pc # "pruning" =>
                 (best[side] # None /\ ~Ahead(side, limit, best[side])
                    <=> Within(side, limit) # {})
           /\ best[side] # None =>
                 SumFunctionOnSet(volume, MarketableLevels(side, limit)) =
                    SumFunctionOnSet(Held, Within(side, limit))
<1> USE DEF BookInv
<1>0. \A b \in Live : /\ heap[b] \in RestingOrders
                      /\ heap[b].level \in Levels
                      /\ heap[b].side = heap[b].level[1]
                      /\ heap[b].level = <<heap[b].side, heap[b].level[2]>>
                      /\ heap[b].level[2] \in Prices
                      /\ queue[heap[b].level] # <<>>
  <2> TAKE b \in Live
  <2>1. heap[b] \in RestingOrders
    BY DEF Live, BookType
  <2>2. heap[b].level \in Levels
    BY <2>1 DEF RestingOrders
  <2>3. PICK i \in DOMAIN queue[heap[b].level] : queue[heap[b].level][i] = b
    BY DEF Coherent, QueuesMatchPool
  <2>4. queue[heap[b].level] # <<>>
    BY <2>3
  <2>5. heap[b].side = heap[b].level[1]
    BY <2>2, <2>3 DEF Coherent, QueuesMatchPool
  <2>6. heap[b].level = <<heap[b].level[1], heap[b].level[2]>> /\ heap[b].level[2] \in Prices
    BY <2>2 DEF Levels
  <2> QED
    BY <2>1, <2>2, <2>4, <2>5, <2>6
<1>1. \A b \in Live : heap[b].side = side =>
         /\ best[side] \in Prices /\ best[side] # None
         /\ ~Ahead(side, heap[b].level[2], best[side])
  <2> SUFFICES ASSUME NEW b \in Live, heap[b].side = side
               PROVE  /\ best[side] \in Prices /\ best[side] # None
                      /\ ~Ahead(side, heap[b].level[2], best[side])
    OBVIOUS
  <2>1. heap[b].level[2] \in Prices /\ queue[<<side, heap[b].level[2]>>] # <<>>
    BY <1>0
  <2>2. best[side] # None /\ ~Ahead(side, heap[b].level[2], best[side])
    BY <2>1 DEF BestPriceIsBest
  <2> QED
    BY <2>2 DEF BestType
<1>2. ASSUME Within(side, limit) # {}
      PROVE  best[side] # None /\ ~Ahead(side, limit, best[side])
  <2>1. PICK b \in Live : heap[b].side = side /\ ~Ahead(side, limit, heap[b].level[2])
    BY <1>2 DEF Within
  <2>2. heap[b].level[2] \in Prices
    BY <1>0
  <2> QED
    BY <1>1, <2>1, <2>2, PriceRange DEF Ahead, Prices
<1>3. ASSUME best[side] # None, pc # "pruning", ~Ahead(side, limit, best[side])
      PROVE  Within(side, limit) # {}
  <2> DEFINE l == <<side, best[side]>>
  <2>1. l \in Levels
    BY <1>3 DEF BestType, Levels
  <2>2. queue[l] # <<>>
    BY <1>3 DEF BestPriceIsBest
  <2>3. 1 \in DOMAIN queue[l]
    BY <2>1, <2>2 DEF BookType
  <2>4. queue[l][1] \in Live /\ heap[queue[l][1]].level = l /\ heap[queue[l][1]].side = side
    BY <2>1, <2>3 DEF Coherent, QueuesMatchPool
  <2> QED
    BY <1>3, <2>4 DEF Within
<1>4. ASSUME best[side] # None
      PROVE  SumFunctionOnSet(volume, MarketableLevels(side, limit)) =
                SumFunctionOnSet(Held, Within(side, limit))
  <2> DEFINE T == MarketableLevels(side, limit)
             k == [b \in Live |-> heap[b].level]
             reached == Classes(Live, k, T)
  <2>1. reached = Within(side, limit)
    <3>1. ASSUME NEW b \in Live, k[b] \in T
          PROVE  b \in Within(side, limit)
      <4>1. heap[b].level = <<heap[b].side, heap[b].level[2]>> /\ k[b] = heap[b].level
        BY <1>0
      <4>2. PICK p \in Prices : heap[b].level = <<side, p>> /\ ~Ahead(side, limit, p)
        BY <3>1, <4>1 DEF MarketableLevels
      <4> QED
        BY <4>1, <4>2 DEF Within
    <3>2. ASSUME NEW b \in Within(side, limit)
          PROVE  b \in Live /\ k[b] \in T
      <4>1. b \in Live /\ heap[b].side = side /\ ~Ahead(side, limit, heap[b].level[2])
        BY DEF Within
      <4>2. heap[b].level = <<side, heap[b].level[2]>> /\ heap[b].level[2] \in Prices
        BY <1>0, <4>1
      <4>3. ~Ahead(side, heap[b].level[2], best[side])
        BY <1>1, <4>1
      <4> QED
        BY <4>1, <4>2, <4>3 DEF MarketableLevels
    <3> HIDE DEF T, k
    <3> QED
      BY <3>1, <3>2 DEF Classes, Within
  <2>2. T \subseteq Levels
    BY DEF MarketableLevels, Levels
  <2>3. IsFiniteSet(T)
    BY <2>2, LevelsAreFinite, FS_Subset
  <2>4. \A t \in T : volume[t] = SumFunctionOnSet(Held, Class(Live, k, t))
    <3> TAKE t \in T
    <3>1. OnLevel(t) = Class(Live, k, t)
      BY DEF OnLevel, Class
    <3>2. volume[t] = SumFunctionOnSet(Held, OnLevel(t))
      BY <2>2 DEF VolumesAreHeld, HeldOn
    <3> HIDE DEF k
    <3> QED
      BY <3>1, <3>2
  <2>5. IsFiniteSet(Live) /\ \A b \in Live : Held[b] \in Int
    BY LiveIsFinite, HeldType DEF Live
  <2>6. SumFunctionOnSet(volume, T) = SumFunctionOnSet(Held, reached)
    <3> HIDE DEF T, k
    <3> QED BY ONLY <2>3, <2>4, <2>5, SumPartition
  <2> HIDE DEF reached
  <2> QED
    BY <2>1, <2>6
<1> QED
  BY <1>2, <1>3, <1>4

-----------------------------------------------------------------------------
(* What a result reports *)

\* The shares of a list of executions.
Total(executions) == SumFunction([i \in DOMAIN executions |-> executions[i].executedQuantity])

LEMMA TotalOfNone == Total(<<>>) = 0
<1> DEFINE f == [i \in DOMAIN <<>> |-> <<>>[i].executedQuantity]
<1>1. DOMAIN f = {}
  OBVIOUS
<1> HIDE DEF f
<1>2. SumFunction(f) = 0
  BY <1>1, SumEmpty DEF SumFunction
<1> QED
  BY <1>2 DEF Total, f

LEMMA TotalOfAppend ==
    ASSUME NEW s \in Seq(Executions), NEW e \in Executions
    PROVE  Total(Append(s, e)) = Total(s) + e.executedQuantity /\ Total(s) \in Nat
<1> DEFINE n == Len(s)
           t == Append(s, e)
           f == [i \in DOMAIN s |-> s[i].executedQuantity]
           g == [i \in DOMAIN t |-> t[i].executedQuantity]
           D == 1 .. n
<1>1. /\ n \in Nat /\ DOMAIN s = D /\ DOMAIN t = D \cup {n + 1} /\ n + 1 \notin D
      /\ t[n + 1] = e /\ \A i \in D : t[i] = s[i]
      /\ \A i \in D : s[i].executedQuantity \in Nat
      /\ e.executedQuantity \in Nat
  <2>1. n \in Nat /\ DOMAIN s = D
    OBVIOUS
  <2>2. DOMAIN t = 1 .. n + 1 /\ t[n + 1] = e /\ \A i \in D : t[i] = s[i]
    OBVIOUS
  <2>3. 1 .. n + 1 = D \cup {n + 1} /\ n + 1 \notin D
    BY <2>1
  <2>4. \A i \in D : s[i].executedQuantity \in Nat
    <3> TAKE i \in D
    <3>1. s[i] \in Executions
      BY <2>1
    <3> QED
      BY <3>1 DEF Executions
  <2>5. e.executedQuantity \in Nat
    BY DEF Executions
  <2> HIDE DEF t, n, D
  <2> QED
    BY <2>1, <2>2, <2>3, <2>4, <2>5
<1> HIDE DEF t, n, D
<1>2. /\ DOMAIN f = D /\ DOMAIN g = D \cup {n + 1}
      /\ g[n + 1] = e.executedQuantity
      /\ \A i \in D : f[i] \in Nat /\ g[i] = f[i]
  BY <1>1
<1>3. IsFiniteSet(D)
  BY <1>1, FS_Interval DEF D
<1>4. SumFunction(f) = SumFunctionOnSet(f, D) /\ SumFunction(g) = SumFunctionOnSet(g, D \cup {n + 1})
  <2> HIDE DEF f, g
  <2> QED BY <1>2 DEF SumFunction
<1>5. SumFunctionOnSet(g, D \cup {n + 1}) = SumFunctionOnSet(g, D) + g[n + 1]
  <2> HIDE DEF f, g
  <2>1. \A x \in D \cup {n + 1} : g[x] \in Int
    BY <1>1, <1>2
  <2> QED BY <1>1, <1>3, <2>1, SumAdd
<1>6. SumFunctionOnSet(f, D) = SumFunctionOnSet(g, D) /\ SumFunctionOnSet(f, D) \in Nat
  <2> HIDE DEF f, g
  <2>1. \A x \in D : f[x] \in Int /\ g[x] = f[x]
    BY <1>2
  <2> QED BY <1>2, <1>3, <2>1, SumSame, SumNat
<1>7. SumFunction(g) = SumFunction(f) + e.executedQuantity /\ SumFunction(f) \in Nat
  <2> HIDE DEF f, g
  <2> QED BY <1>2, <1>4, <1>5, <1>6
<1> QED
  BY <1>7 DEF Total, t

\* While a taker is being matched its result has no status yet, what it has
\* filled and what remains make up what it asked for, the executions add up to
\* what is filled, and a fill-or-kill order still has in reach what it needs.
Balanced ==
    pc = "matching" =>
        /\ submission.status = None
        /\ submission.quantityFilled + remaining = call.quantity
        /\ submission.quantityFilled = Total(submission.executions)
        /\ \A i \in DOMAIN submission.executions :
              Crosses(call.side, call.limit, submission.executions[i].makerPrice)
        /\ call.tif = "FOK" =>
              remaining <= SumFunctionOnSet(Held, Within(Opposite(call.side), call.limit))

ResultInv ==
    /\ Balanced
    /\ pc = "resubmit" => submission = NoSubmission
    /\ pc = "pruning" => call.side = None /\ call.tif = None
    /\ ResultTellsWhatHappened
    /\ FillOrKillFillsAll

\* A request that is refused or killed leaves nothing to report.
LEMMA RefusalTells ==
    ASSUME IInv, NEW req \in Accepted, RejectSubmission(req) \/ KillSubmission(req)
    PROVE  ResultInv'
<1>1. pc' = "done" /\ call' = Plain(req.op)
  BY DEF RejectSubmission, KillSubmission
<1>2. call'.side = None /\ call'.tif = None
  BY <1>1 DEF Plain, NoCall
<1> QED
  BY <1>1, <1>2, NoneIsNoValue
     DEF ResultInv, Balanced, ResultTellsWhatHappened, FillOrKillFillsAll, TimesInForce

LEMMA StartTells ==
    ASSUME IInv, VolumesAreHeld, NEW req \in Accepted, pc # "pruning",
           submission = NoSubmission, StartMatching(req)
    PROVE  ResultInv'
<1> USE DEF IInv
<1>1. /\ pc' = "matching" /\ call' = req /\ remaining' = req.quantity
      /\ UNCHANGED <<bookVars, submission, cursor>>
  BY DEF StartMatching
<1>2. /\ submission'.status = None /\ submission'.quantityFilled = 0
      /\ submission'.executions = <<>>
  BY <1>1 DEF NoSubmission
<1>3. ASSUME req.tif = "FOK"
      PROVE  remaining' <= SumFunctionOnSet(Held, Within(Opposite(req.side), req.limit))'
  <2> DEFINE side == Opposite(req.side)
  <2>1. Liquid(req)
    BY <1>3 DEF StartMatching
  <2>2. side \in Sides /\ req.limit \in Prices
    BY <1>3, RequestFields DEF StartMatching, Rejected, TimesInForce
  <2>3. /\ best[side] # None
        /\ SumFunctionOnSet(volume, MarketableLevels(side, req.limit)) >= req.quantity
    BY <2>1 DEF Liquid, HasSufficientMarketableLiquidity
  <2>4. SumFunctionOnSet(volume, MarketableLevels(side, req.limit))
           = SumFunctionOnSet(Held, Within(side, req.limit))
    BY <2>2, <2>3, CountedIsHeld
  <2>5. SumFunctionOnSet(Held, Within(side, req.limit)) \in Nat
    BY SumIsNat DEF BookInv, Within
  <2>6. SumFunctionOnSet(Held, Within(side, req.limit))'
           = SumFunctionOnSet(Held, Within(side, req.limit))
    BY <1>1 DEF Held, Within, Live, bookVars
  <2>7. req.quantity \in Nat
    BY RequestFields
  <2> QED
    BY <1>1, <2>3, <2>4, <2>5, <2>6, <2>7
<1>4. Balanced'
  BY <1>1, <1>2, <1>3, TotalOfNone, RequestFields DEF Balanced
<1> QED
  BY <1>1, <1>4 DEF ResultInv, ResultTellsWhatHappened, FillOrKillFillsAll

\* What the next trade means to the result.
LEMMA CreditedTells ==
    ASSUME IInv, Balanced, pc = "matching", Matchable, NEW shares \in Nat
    PROVE  LET s == Credited(shares)
           IN  /\ s.status = None
               /\ s.quantityFilled = submission.quantityFilled + shares
               /\ s.quantityFilled \in Nat
               /\ s.quantityFilled = Total(s.executions)
               /\ \A i \in DOMAIN s.executions :
                     Crosses(call.side, call.limit, s.executions[i].makerPrice)
<1> USE DEF IInv
<1> DEFINE s == Credited(shares)
           old == submission.executions
           e == Execution(shares)
<1>1. submission \in Submissions /\ old \in Seq(Executions)
  BY DEF CallType, Submissions
<1>2. s.status = None /\ s.quantityFilled = submission.quantityFilled + shares
      /\ s.executions = Append(old, e)
  BY <1>1 DEF Credited, Submissions, Balanced
<1>3. e \in Executions /\ e.executedQuantity = shares /\ e.makerPrice = best[MatchingSide]
  BY MatchableFacts DEF Execution, Executions, RestingOrders
<1> HIDE DEF s, e
<1>4. Total(s.executions) = Total(old) + shares
  BY <1>1, <1>2, <1>3, TotalOfAppend
<1>5. submission.quantityFilled = Total(old) /\ submission.quantityFilled \in Nat
  BY <1>1 DEF Balanced, Submissions
<1>6. \A i \in DOMAIN s.executions :
         Crosses(call.side, call.limit, s.executions[i].makerPrice)
  <2> SUFFICES ASSUME NEW i \in DOMAIN Append(old, e)
               PROVE  Crosses(call.side, call.limit, Append(old, e)[i].makerPrice)
    BY <1>2
  <2>1. CASE i \in DOMAIN old
    <3>1. Append(old, e)[i] = old[i]
      BY <1>1, <2>1
    <3> QED
      BY <2>1, <3>1 DEF Balanced
  <2>2. CASE i \notin DOMAIN old
    <3>1. Append(old, e)[i] = e
      BY <1>1, <2>2
    <3> QED
      BY <1>3, <3>1 DEF Matchable
  <2> QED
    BY <2>1, <2>2
<1>7. /\ s.status = None
      /\ s.quantityFilled = submission.quantityFilled + shares
      /\ s.quantityFilled \in Nat
      /\ s.quantityFilled = Total(s.executions)
  BY <1>2, <1>4, <1>5
<1> QED
  BY <1>6, <1>7 DEF s

LEMMA TakePartTells ==
    ASSUME IInv, ResultInv, TakePart
    PROVE  ResultInv'
<1> USE DEF IInv
<1>1. /\ pc = "matching" /\ Matchable /\ pc' = "done" /\ remaining \in Nat
      /\ UNCHANGED <<idToOrder, call>>
      /\ submission' = [Credited(remaining) EXCEPT !.status = "FILLED"]
  BY DEF TakePart, CallType
<1> DEFINE s == Credited(remaining)
<1>2. /\ s.quantityFilled = submission.quantityFilled + remaining
      /\ s.quantityFilled = Total(s.executions)
      /\ \A i \in DOMAIN s.executions :
            Crosses(call.side, call.limit, s.executions[i].makerPrice)
  BY <1>1, CreditedTells DEF ResultInv
<1>3. s \in Submissions
  BY <1>1, CreditedType
<1> HIDE DEF s
<1>4. /\ submission'.status = "FILLED" /\ submission'.quantityFilled = s.quantityFilled
      /\ submission'.executions = s.executions
  BY <1>1, <1>3 DEF Submissions, s
<1>5. s.quantityFilled = call.quantity
  BY <1>1, <1>2 DEF ResultInv, Balanced
<1>6. idToOrder'[call'.id] = None
  BY <1>1 DEF CallInv
<1>7. ResultTellsWhatHappened'
  <2>1. Total(submission'.executions) = submission'.quantityFilled
    BY <1>2, <1>4
  <2> QED
    BY <1>1, <1>2, <1>4, <1>5, <1>6, <2>1 DEF ResultTellsWhatHappened, Total
<1>8. FillOrKillFillsAll'
  BY <1>1, <1>4, <1>5 DEF FillOrKillFillsAll
<1> QED
  BY <1>1, <1>7, <1>8 DEF ResultInv, Balanced

LEMMA TakeWholeTells ==
    ASSUME IInv, IInv', ResultInv, TakeWhole
    PROVE  ResultInv'
<1> USE DEF IInv, BookInv
<1> DEFINE b == TakingOrder
           shares == heap[b].quantity
           side == Opposite(call.side)
           near == Within(side, call.limit)
<1>1. /\ pc = "matching" /\ Matchable /\ shares <= remaining
      /\ UNCHANGED <<pc, call>>
      /\ submission' = Credited(shares) /\ remaining' = remaining - shares
  BY DEF TakeWhole
<1>2. b \in Live /\ shares \in Nat /\ remaining \in Nat /\ side \in Sides
  BY <1>1, MatchableFacts DEF CallType, RestingOrders, MatchingSide
<1>3. Removes(b)
  BY TakeWholeRemoves
<1>4. heap[b].side = side /\ heap[b].level[2] = best[side]
  <2>1. BestLevel \in Levels /\ 1 \in DOMAIN queue[BestLevel] /\ b = queue[BestLevel][1]
    BY <1>1, MatchableFacts
  <2>2. heap[b].level = BestLevel /\ heap[b].side = BestLevel[1]
    BY <2>1 DEF Coherent, QueuesMatchPool
  <2> QED
    BY <2>2 DEF BestLevel, MatchingSide
<1> HIDE DEF b
<1>5. ASSUME call.tif = "FOK"
      PROVE  remaining' <= SumFunctionOnSet(Held, Within(Opposite(call.side), call.limit))'
  <2>1. call \in Accepted /\ call.limit # None
    BY <1>1, <1>5, RequestFields DEF CallInv, TimesInForce
  <2>2. b \in near
    <3>1. ~Ahead(side, call.limit, best[side])
      BY <1>1, <2>1, RequestFields DEF Matchable, MatchingSide, Crosses, Ahead, Opposite, Sides
    <3> QED
      BY <1>2, <1>4, <3>1 DEF Within
  <2>3. near \in SUBSET Live
    BY DEF Within
  <2>4. near' = near \ {b}
    BY <1>1, <1>3, RemovesSums DEF Within
  <2>5. SumFunctionOnSet(Held', near \ {b}) = SumFunctionOnSet(Held, near) - shares
    <3> HIDE DEF near
    <3> QED BY <1>3, <2>2, <2>3, RemovesSums
  <2>6. SumFunctionOnSet(Held, near)' = SumFunctionOnSet(Held, near) - shares
    <3> HIDE DEF near
    <3> QED BY <2>4, <2>5
  <2>7. SumFunctionOnSet(Held, near) \in Nat
    <3> HIDE DEF near
    <3> QED BY <2>3, SumIsNat
  <2>8. remaining <= SumFunctionOnSet(Held, near)
    BY <1>1, <1>5 DEF ResultInv, Balanced
  <2>9. remaining' <= SumFunctionOnSet(Held, near)'
    <3> HIDE DEF near, shares
    <3> QED BY <1>1, <1>2, <2>6, <2>7, <2>8
  <2> QED
    BY <2>9
<1>6. /\ submission'.status = None
      /\ submission'.quantityFilled = submission.quantityFilled + shares
      /\ submission'.quantityFilled \in Nat
      /\ submission'.quantityFilled = Total(submission'.executions)
      /\ \A i \in DOMAIN submission'.executions :
            Crosses(call.side, call.limit, submission'.executions[i].makerPrice)
  <2> HIDE DEF shares
  <2> QED BY <1>1, <1>2, CreditedTells DEF ResultInv
<1>7. submission'.quantityFilled + remaining' = call.quantity
  <2>1. submission.quantityFilled + remaining = call.quantity /\ submission.quantityFilled \in Nat
    BY <1>1 DEF ResultInv, Balanced, CallType, Submissions
  <2> QED
    BY <1>1, <1>2, <1>6, <2>1
<1>8. Balanced'
  BY <1>1, <1>5, <1>6, <1>7 DEF Balanced
<1> QED
  BY <1>1, <1>8 DEF ResultInv, ResultTellsWhatHappened, FillOrKillFillsAll

\* A fill-or-kill order is not left with anything: where shares remain, some
\* order in reach holds them, and the best price is at least as good.
LEMMA FillOrKillIsFilled ==
    ASSUME IInv, VolumesAreHeld, Balanced, pc = "matching", call.tif = "FOK", ~Matchable
    PROVE  remaining = 0
<1> USE DEF IInv
<1> DEFINE side == Opposite(call.side)
           near == Within(side, call.limit)
<1>1. SUFFICES ASSUME remaining > 0 PROVE FALSE
  BY DEF CallType
<1>2. call \in Accepted /\ call.limit \in Prices /\ side \in Sides /\ call.side \in Sides
  BY RequestFields DEF CallInv, TimesInForce
<1>3. near # {}
  <2>1. remaining <= SumFunctionOnSet(Held, near) /\ remaining \in Nat
    BY DEF Balanced, CallType
  <2> HIDE DEF near
  <2>2. near = {} => SumFunctionOnSet(Held, near) = 0
    BY SumEmpty
  <2> QED
    BY <1>1, <2>1, <2>2
<1>4. best[side] # None /\ ~Ahead(side, call.limit, best[side])
  BY <1>2, <1>3, CountedIsHeld
<1>5. best[side] \in Prices
  BY <1>2, <1>4 DEF BookInv, BestType
<1> QED
  BY <1>1, <1>2, <1>4, <1>5 DEF Matchable, MatchingSide, Crosses, Ahead, Opposite, Sides

LEMMA FinishTells ==
    ASSUME IInv, VolumesAreHeld, ResultInv, FinishFilled \/ FinishCanceled
    PROVE  ResultInv'
<1> USE DEF IInv
<1>1. /\ pc = "matching" /\ ~Matchable /\ pc' = "done"
      /\ UNCHANGED <<bookVars, call, remaining>>
      /\ submission \in Submissions /\ remaining \in Nat
  BY DEF FinishFilled, FinishCanceled, CallType
<1>2. /\ submission.quantityFilled + remaining = call.quantity
      /\ submission.quantityFilled = Total(submission.executions)
      /\ submission.quantityFilled \in Nat
      /\ \A i \in DOMAIN submission.executions :
            Crosses(call.side, call.limit, submission.executions[i].makerPrice)
  BY <1>1 DEF ResultInv, Balanced, Submissions
<1>3. /\ submission'.quantityFilled = submission.quantityFilled
      /\ submission'.executions = submission.executions
      /\ FinishFilled => remaining = 0 /\ submission'.status = "FILLED"
      /\ FinishCanceled =>
            /\ remaining > 0 /\ call.tif \in {"IOC", None}
            /\ submission'.status =
                 IF remaining < call.quantity THEN "PARTIALLY_FILLED_CANCELED" ELSE "CANCELED"
  <2>1. FinishFilled => remaining = 0
    BY <1>1, FillOrKillIsFilled DEF FinishFilled, ResultInv
  <2> QED
    BY <1>1, <2>1 DEF FinishFilled, FinishCanceled, Submissions
<1>4. idToOrder'[call'.id] = None
  BY <1>1 DEF CallInv, bookVars
<1>5. Total(submission'.executions) = submission'.quantityFilled
  BY <1>2, <1>3
<1>6. ResultTellsWhatHappened'
  BY <1>1, <1>2, <1>3, <1>4, <1>5 DEF ResultTellsWhatHappened, Total
<1>7. FillOrKillFillsAll'
  BY <1>1, <1>2, <1>3, NoneIsNoValue DEF FillOrKillFillsAll, TimesInForce
<1> QED
  BY <1>1, <1>6, <1>7 DEF ResultInv, Balanced

LEMMA FinishRestingTells ==
    ASSUME IInv, ResultInv, FinishResting
    PROVE  ResultInv'
<1> USE DEF IInv, BookInv
<1>1. /\ pc = "matching" /\ pc' = "done" /\ UNCHANGED call
      /\ submission \in Submissions /\ remaining \in Nat /\ remaining > 0
      /\ call.tif \in Lifetimes /\ call.id \in OrderIds
  BY RequestFields DEF FinishResting, CallType, CallInv
<1>2. /\ submission.quantityFilled + remaining = call.quantity
      /\ submission.quantityFilled = Total(submission.executions)
      /\ submission.quantityFilled \in Nat
      /\ \A i \in DOMAIN submission.executions :
            Crosses(call.side, call.limit, submission.executions[i].makerPrice)
  BY <1>1 DEF ResultInv, Balanced, Submissions
<1>3. /\ submission'.quantityFilled = submission.quantityFilled
      /\ submission'.executions = submission.executions
      /\ submission'.status =
           IF remaining < call.quantity THEN "PARTIALLY_FILLED_RESTING" ELSE "RESTING"
  BY <1>1 DEF FinishResting, Submissions
<1>4. idToOrder'[call'.id] # None /\ heap'[idToOrder'[call'.id]].quantity = remaining
  <2>1. PICK b \in Blocks :
           /\ heap' = [heap EXCEPT ![b] =
                 [id |-> call.id, quantity |-> remaining, lifetime |-> call.tif,
                  side |-> call.side, level |-> <<call.side, call.limit>>]]
           /\ idToOrder' = [idToOrder EXCEPT ![call.id] = b]
    BY DEF FinishResting, PlaceOrder
  <2>2. idToOrder'[call.id] = b /\ heap'[b].quantity = remaining
    BY <1>1, <2>1 DEF BookType
  <2> QED
    BY <1>1, <2>2, NoneIsNoBlock
<1>5. Total(submission'.executions) = submission'.quantityFilled
  BY <1>2, <1>3
<1>6. ResultTellsWhatHappened'
  BY <1>1, <1>2, <1>3, <1>4, <1>5 DEF ResultTellsWhatHappened, Total
<1>7. FillOrKillFillsAll'
  BY <1>1 DEF FillOrKillFillsAll, Lifetimes
<1> QED
  BY <1>1, <1>6, <1>7 DEF ResultInv, Balanced

\* The other calls leave no request behind.
LEMMA OthersTell ==
    ASSUME IInv, ResultInv,
           \/ CancelNotFound \/ CancelOrder \/ ModifyRefused \/ ModifyOrder \/ SessionEnd
           \/ EnterLevel \/ KeepOrder \/ PruneOrder \/ LeaveLevel \/ FinishLadder \/ Return
    PROVE  ResultInv'
<1>1. \A op : Plain(op).side = None /\ Plain(op).tif = None
  BY DEF Plain, NoCall
<1>2. CASE CancelNotFound \/ CancelOrder \/ ModifyRefused \/ SessionEnd
  <2>1. pc' \in {"done", "pruning"} /\ \E op : call' = Plain(op)
    BY <1>2 DEF CancelNotFound, CancelOrder, ModifyRefused, SessionEnd
  <2>2. call'.side = None /\ call'.tif = None
    BY <1>1, <2>1
  <2> QED
    BY <2>1, <2>2, NoneIsNoValue
       DEF ResultInv, Balanced, ResultTellsWhatHappened, FillOrKillFillsAll, TimesInForce
<1>3. CASE ModifyOrder
  <2>1. UNCHANGED submission /\ submission = NoSubmission
    BY <1>3 DEF ModifyOrder, IInv, CallInv
  <2>2. pc' = "resubmit" \/ (pc' = "done" /\ call' = Plain("modify"))
    BY <1>3 DEF ModifyOrder
  <2>3. pc' = "done" => call'.side = None /\ call'.tif = None
    BY <1>1, <2>2
  <2> QED
    BY <2>1, <2>2, <2>3, NoneIsNoValue
       DEF ResultInv, Balanced, ResultTellsWhatHappened, FillOrKillFillsAll, TimesInForce
<1>4. CASE EnterLevel \/ KeepOrder \/ PruneOrder \/ LeaveLevel \/ FinishLadder
  <2>1. pc = "pruning" /\ UNCHANGED call /\ pc' \in {"pruning", "done"}
    BY <1>4 DEF EnterLevel, KeepOrder, PruneOrder, LeaveLevel, FinishLadder, AtOrder, AtLevel
  <2>2. call'.side = None /\ call'.tif = None
    BY <2>1 DEF ResultInv
  <2> QED
    BY <2>1, <2>2, NoneIsNoValue
       DEF ResultInv, Balanced, ResultTellsWhatHappened, FillOrKillFillsAll, TimesInForce
<1>5. CASE Return
  BY <1>5 DEF Return, ResultInv, Balanced, ResultTellsWhatHappened, FillOrKillFillsAll
<1> QED
  BY <1>2, <1>3, <1>4, <1>5

LEMMA NextKeepsResultInv ==
    ASSUME IInv, VolumesAreHeld, ResultInv, [Next]_vars
    PROVE  ResultInv'
<1>1. IInv'
  BY NextKeepsIInv
<1>2. CASE SubmitOrder
  <2>1. PICK req \in LimitRequests \cup MarketRequests :
           RejectSubmission(req) \/ KillSubmission(req) \/ StartMatching(req)
    BY <1>2 DEF SubmitOrder
  <2>2. req \in Accepted /\ pc = "idle" /\ submission = NoSubmission
    BY <1>2 DEF Accepted, SubmitOrder, IInv, CallInv
  <2> QED
    BY <2>1, <2>2, RefusalTells, StartTells
<1>3. CASE Resubmit
  <2>1. call \in Accepted /\ pc = "resubmit" /\ submission = NoSubmission
    BY <1>3 DEF Accepted, Resubmit, IInv, CallInv, ResultInv
  <2> QED
    BY <1>3, <2>1, RefusalTells, StartTells DEF Resubmit
<1>4. CASE TakePart \/ TakeWhole
  BY <1>1, <1>4, TakePartTells, TakeWholeTells
<1>5. CASE FinishFilled \/ FinishCanceled \/ FinishResting
  BY <1>5, FinishTells, FinishRestingTells
<1>6. CASE \/ CancelNotFound \/ CancelOrder \/ ModifyRefused \/ ModifyOrder \/ SessionEnd
           \/ EnterLevel \/ KeepOrder \/ PruneOrder \/ LeaveLevel \/ FinishLadder \/ Return
  BY <1>6, OthersTell
<1>7. CASE UNCHANGED vars
  <2>1. UNCHANGED <<heap, idToOrder, pc, call, remaining, submission>>
    BY <1>7 DEF vars
  <2> QED
    BY <2>1 DEF ResultInv, Balanced, ResultTellsWhatHappened, FillOrKillFillsAll,
                Held, Within, Live, Total
<1> QED
  BY <1>2, <1>3, <1>4, <1>5, <1>6, <1>7 DEF Next, Calling, Running

LEMMA InitResultInv == Init => ResultInv
BY DEF Init, ResultInv, Balanced, ResultTellsWhatHappened, FillOrKillFillsAll, NoCall

LEMMA ResultInvHolds == Spec => []ResultInv
<1>1. Init => ResultInv
  BY InitResultInv
<1>2. IInv /\ VolumesAreHeld /\ ResultInv /\ [Next]_vars => ResultInv'
  BY NextKeepsResultInv
<1> QED
  BY <1>1, <1>2, IInvHolds, VolumesAreHeldHolds, PTL DEF Spec

\* The liquidity pass of a fill-or-kill order counts cached volumes, the match
\* loop takes orders: what the one has counted the other finds, so that the
\* order is filled to the last share and the assertion after the loop holds.
THEOREM FillOrKillIsAllOrNothing == Spec => []FillOrKillFillsAll
<1>1. ResultInv => FillOrKillFillsAll
  BY DEF ResultInv
<1> QED
  BY ResultInvHolds, <1>1, PTL

\* A SubmissionResult says what happened: its executions add up, its status
\* matches what was filled and what is left in the book, and no execution is
\* outside the limit.
THEOREM ResultsAreTrue == Spec => []ResultTellsWhatHappened
<1>1. ResultInv => ResultTellsWhatHappened
  BY DEF ResultInv
<1> QED
  BY ResultInvHolds, <1>1, PTL

-----------------------------------------------------------------------------
(* Trades *)

LEMMA RestingSharesIsHeld ==
    ASSUME BookType, Coherent
    PROVE  RestingShares = SumFunctionOnSet(Held, Live) /\ RestingShares \in Nat
<1> DEFINE f == [b \in Live |-> heap[b].quantity]
<1>1. DOMAIN f = Live /\ \A b \in Live : f[b] \in Int /\ Held[b] = f[b]
  BY HeldType DEF Live, BookType, RestingOrders
<1> HIDE DEF f
<1>2. SumFunctionOnSet(f, Live) = SumFunctionOnSet(Held, Live)
  BY <1>1, LiveIsFinite, SumSame
<1>3. SumFunction(f) = SumFunctionOnSet(Held, Live)
  BY <1>1, <1>2 DEF SumFunction
<1> QED
  BY <1>3, SumIsNat DEF RestingShares, f

LEMMA StepBalances ==
    ASSUME IInv, [Next]_vars, pc = "matching",
           submission'.quantityFilled - submission.quantityFilled # 0
    PROVE  LET traded == submission'.quantityFilled - submission.quantityFilled
           IN  /\ RestingShares - RestingShares' = traded
               /\ pc' = "matching" => remaining - remaining' = traded
<1> USE DEF IInv, BookInv
<1>0. IInv'
  BY NextKeepsIInv
<1>1. /\ submission \in Submissions /\ submission.quantityFilled \in Nat /\ remaining \in Nat
      /\ RestingShares = SumFunctionOnSet(Held, Live) /\ RestingShares \in Nat
      /\ RestingShares' = SumFunctionOnSet(Held, Live)'
  <2>1. submission \in Submissions /\ submission.quantityFilled \in Nat /\ remaining \in Nat
    BY DEF CallType, Submissions
  <2>2. BookType /\ Coherent => RestingShares = SumFunctionOnSet(Held, Live)
    BY RestingSharesIsHeld
  <2>3. (BookType /\ Coherent => RestingShares = SumFunctionOnSet(Held, Live))'
    BY RestingSharesIsHeld, PTL
  <2> QED
    BY <1>0, <2>1, <2>2, <2>3, RestingSharesIsHeld
<1>2. TakePart \/ TakeWhole
  <2>1. ~(FinishFilled \/ FinishResting \/ FinishCanceled)
    <3>1. FinishFilled \/ FinishResting \/ FinishCanceled =>
             submission'.quantityFilled = submission.quantityFilled
      BY <1>1 DEF FinishFilled, FinishResting, FinishCanceled, Submissions
    <3> QED
      BY <1>1, <3>1
  <2>2. ~(UNCHANGED vars)
    <3>1. UNCHANGED vars => submission' = submission
      BY DEF vars
    <3> QED
      BY <1>1, <3>1
  <2>3. ~(\/ SubmitOrder \/ CancelNotFound \/ CancelOrder \/ ModifyRefused \/ ModifyOrder
           \/ SessionEnd \/ Resubmit \/ Return)
    BY DEF SubmitOrder, CancelNotFound, CancelOrder, ModifyRefused, ModifyOrder, SessionEnd,
           Resubmit, Return
  <2>4. ~(EnterLevel \/ KeepOrder \/ PruneOrder \/ LeaveLevel \/ FinishLadder)
    BY DEF EnterLevel, KeepOrder, PruneOrder, LeaveLevel, FinishLadder, AtLevel, AtOrder
  <2> QED
    BY <2>1, <2>2, <2>3, <2>4 DEF Next, Calling, Running
<1>3. CASE TakePart
  <2>1. Reduces(TakingOrder, remaining)
    BY <1>3, TakePartReduces
  <2>2. Live' = Live /\ TakingOrder \in Live
    BY <1>0, <2>1, ReducesSums DEF Reduces
  <2>3. SumFunctionOnSet(Held', Live) = SumFunctionOnSet(Held, Live) - remaining
    BY <1>0, <2>1, <2>2, ReducesSums
  <2>4. pc' = "done" /\ submission' = [Credited(remaining) EXCEPT !.status = "FILLED"]
    BY <1>3 DEF TakePart
  <2>5. submission'.quantityFilled = submission.quantityFilled + remaining
    BY <1>1, <2>4 DEF Credited, Submissions
  <2> QED
    BY <1>1, <2>2, <2>3, <2>4, <2>5
<1>4. CASE TakeWhole
  <2> DEFINE b == TakingOrder
             shares == heap[b].quantity
  <2>1. Removes(b)
    BY <1>4, TakeWholeRemoves
  <2>2. b \in Live /\ Live' = Live \ {b} /\ shares \in Nat
    BY <1>0, <2>1, RemovesSums DEF Removes
  <2>3. SumFunctionOnSet(Held', Live \ {b}) = SumFunctionOnSet(Held, Live) - shares
    BY <1>0, <2>1, <2>2, RemovesSums
  <2>4. submission' = Credited(shares) /\ remaining' = remaining - shares
    BY <1>4 DEF TakeWhole
  <2> HIDE DEF b, shares
  <2>5. submission'.quantityFilled = submission.quantityFilled + shares
    BY <1>1, <2>4 DEF Credited, Submissions
  <2>6. SumFunctionOnSet(Held, Live)' = SumFunctionOnSet(Held, Live) - shares
    BY <2>2, <2>3
  <2> QED
    BY <1>1, <2>2, <2>4, <2>5, <2>6
<1> QED
  BY <1>2, <1>3, <1>4

\* No trade makes or loses a share: what the taker is credited with is what the
\* resting orders hold less, and what it wants less of.
THEOREM NoShareIsLost == Spec => TradesBalance
<1>1. ASSUME IInv, [Next]_vars
      PROVE  [LET traded == submission'.quantityFilled - submission.quantityFilled
              IN  pc = "matching" /\ traded # 0 =>
                     /\ RestingShares - RestingShares' = traded
                     /\ pc' = "matching" => remaining - remaining' = traded]_vars
  BY <1>1, StepBalances
<1> QED
  BY IInvHolds, <1>1, PTL DEF Spec, TradesBalance

-----------------------------------------------------------------------------
(* The session end *)

\* The walk has not yet come to this order.
StillAhead(b) ==
    \/ cursor.side = "BUY" /\ heap[b].side = "SELL"
    \/ heap[b].side = cursor.side /\ heap[b].level[2] > cursor.price
    \/ /\ heap[b].level = CursorLevel
       /\ \A i \in DOMAIN queue[CursorLevel] : queue[CursorLevel][i] = b => i >= cursor.index

\* The walk leaves no DAY order behind.
WalkInv ==
    pc = "pruning" =>
        /\ call.op = "session"
        /\ cursor.price > MaxPrice => cursor.index = 0
        /\ \A b \in Live : heap[b].lifetime = "DAY" => StillAhead(b)

\* What is known of a resting order.
LEMMA LiveFacts ==
    ASSUME BookType, Coherent, NEW b \in Live
    PROVE  /\ heap[b] \in RestingOrders
           /\ heap[b].level \in Levels /\ heap[b].side \in Sides
           /\ heap[b].level[2] \in Prices
           /\ heap[b].level = <<heap[b].side, heap[b].level[2]>>
           /\ \E i \in DOMAIN queue[heap[b].level] : queue[heap[b].level][i] = b
           /\ queue[heap[b].level] # <<>>
<1>1. heap[b] \in RestingOrders
  BY DEF Live, BookType
<1>2. heap[b].level \in Levels
  BY <1>1 DEF RestingOrders
<1>3. PICK i \in DOMAIN queue[heap[b].level] : queue[heap[b].level][i] = b
  BY DEF Coherent, QueuesMatchPool
<1>4. queue[heap[b].level] # <<>>
  BY <1>3
<1>5. heap[b].side = heap[b].level[1]
  BY <1>2, <1>3 DEF Coherent, QueuesMatchPool
<1>6. heap[b].level = <<heap[b].level[1], heap[b].level[2]>> /\ heap[b].level[2] \in Prices
      /\ heap[b].level[1] \in Sides
  BY <1>2 DEF Levels
<1> QED
  BY <1>1, <1>2, <1>3, <1>4, <1>5, <1>6

LEMMA SessionStartWalks ==
    ASSUME IInv, SessionEnd
    PROVE  /\ WalkInv'
           /\ pc' = "done" => Live' = {}
<1> USE DEF IInv, BookInv
<1>1. UNCHANGED <<heap, queue>> /\ Live' = Live /\ call'.op = "session" /\ pc # "pruning"
  BY DEF SessionEnd, bookVars, Live, Plain, NoCall
<1>2. \A b \in Live : best[heap[b].side] # None
  <2> TAKE b \in Live
  <2>1. /\ heap[b].side \in Sides /\ heap[b].level[2] \in Prices
        /\ queue[<<heap[b].side, heap[b].level[2]>>] # <<>>
    BY LiveFacts
  <2> QED
    BY <2>1 DEF BestPriceIsBest
<1>3. ASSUME pc' = "done" PROVE Live' = {}
  <2>1. \A s \in Sides : best[s] = None
    BY <1>3 DEF SessionEnd
  <2> QED
    BY <1>1, <1>2, <2>1, LiveFacts
<1>4. ASSUME pc' = "pruning" PROVE WalkInv'
  <2>1. PICK side \in Sides : cursor' = StartOf(side) /\ (side = "SELL" => best["BUY"] = None)
    BY <1>4 DEF SessionEnd, Sides
  <2>2. cursor'.side = side /\ cursor'.price = MinPrice /\ cursor'.index = 0
    BY <2>1 DEF StartOf
  <2>3. ASSUME NEW b \in Live'
        PROVE  StillAhead(b)'
    <3>1. /\ heap[b].side \in Sides /\ heap[b].level[2] \in Prices
          /\ heap[b].level = <<heap[b].side, heap[b].level[2]>>
          /\ heap[b].level \in Levels
      BY <1>1, <2>3, LiveFacts
    <3>2. (side = "BUY" /\ heap[b].side = "SELL") \/ heap[b].side = side
      BY <1>1, <1>2, <2>1, <3>1 DEF Sides
    <3>3. heap[b].level[2] > MinPrice \/ heap[b].level = <<heap[b].side, MinPrice>>
      BY <3>1, PriceRange DEF Prices
    <3>4. \A i \in DOMAIN queue[heap[b].level] : i >= 0
      BY <3>1 DEF BookType
    <3> QED
      BY <1>1, <2>2, <3>2, <3>3, <3>4 DEF StillAhead, CursorLevel
  <2> QED
    BY <1>1, <2>2, <2>3, PriceRange DEF WalkInv
<1> QED
  BY <1>3, <1>4 DEF WalkInv

LEMMA StepWalks ==
    ASSUME IInv, WalkInv, EnterLevel \/ KeepOrder \/ LeaveLevel
    PROVE  WalkInv'
<1> USE DEF IInv, BookInv
<1>1. /\ pc = "pruning" /\ AtLevel /\ UNCHANGED <<heap, queue, pc, call>> /\ Live' = Live
  BY DEF EnterLevel, KeepOrder, LeaveLevel, AtOrder, AtLevel, bookVars, Live
<1>2. /\ cursor \in Cursors /\ cursor.index \in Nat /\ cursor.side \in Sides
      /\ cursor.price \in Prices /\ CursorLevel \in Levels
  BY <1>1, CursorFacts, PriceRange DEF Cursors, AtLevel, Prices
<1>3. \A b \in Live : heap[b].lifetime = "DAY" => StillAhead(b)
  BY <1>1 DEF WalkInv
\* The walk goes on to the next level once no DAY order is ahead on this one.
<1>4. ASSUME cursor' = NextLevel,
             \A b \in Live : heap[b].lifetime = "DAY" => heap[b].level # CursorLevel
      PROVE  WalkInv'
  <2>1. cursor'.side = cursor.side /\ cursor'.price = cursor.price + 1 /\ cursor'.index = 0
    BY <1>2, <1>4 DEF NextLevel, Cursors
  <2>2. ASSUME NEW b \in Live, heap[b].lifetime = "DAY"
        PROVE  StillAhead(b)'
    <3>1. /\ heap[b].level[2] \in Prices /\ heap[b].level \in Levels
          /\ heap[b].level = <<heap[b].side, heap[b].level[2]>>
      BY LiveFacts
    <3>2. \/ cursor.side = "BUY" /\ heap[b].side = "SELL"
          \/ heap[b].side = cursor.side /\ heap[b].level[2] > cursor.price
      BY <1>3, <1>4, <2>2 DEF StillAhead
    <3>3. CASE heap[b].side = cursor.side /\ heap[b].level[2] > cursor.price
      <4>1. \/ heap[b].level[2] > cursor.price + 1
            \/ heap[b].level = <<cursor.side, cursor.price + 1>>
        BY <1>2, <3>1, <3>3, PriceRange DEF Prices
      <4>2. \A i \in DOMAIN queue[heap[b].level] : i >= 0
        BY <3>1 DEF BookType
      <4> QED
        BY <1>1, <2>1, <3>3, <4>1, <4>2 DEF StillAhead, CursorLevel
    <3> QED
      BY <1>1, <2>1, <3>2, <3>3 DEF StillAhead
  <2> QED
    BY <1>1, <2>1, <2>2 DEF WalkInv
<1>5. CASE EnterLevel
  <2>1. CASE queue[CursorLevel] = <<>>
    <3>1. cursor' = NextLevel
      BY <1>5, <2>1 DEF EnterLevel
    <3> QED
      BY <1>4, <2>1, <3>1, LiveFacts
  <2>2. CASE queue[CursorLevel] # <<>>
    <3>1. cursor' = [cursor EXCEPT !.index = 1]
      BY <1>5, <2>2 DEF EnterLevel
    <3>2. cursor'.side = cursor.side /\ cursor'.price = cursor.price /\ cursor'.index = 1
      BY <1>2, <3>1 DEF Cursors
    <3>3. \A i \in DOMAIN queue[CursorLevel] : i >= 1
      BY <1>2 DEF BookType
    <3>4. \A b \in Live : StillAhead(b) => StillAhead(b)'
      BY <1>1, <3>2, <3>3 DEF StillAhead, CursorLevel
    <3> QED
      BY <1>1, <1>2, <1>3, <3>2, <3>4, PriceRange DEF WalkInv, Prices
  <2> QED
    BY <2>1, <2>2
<1>6. CASE KeepOrder
  <2>1. /\ cursor' = [cursor EXCEPT !.index = @ + 1] /\ cursor.index \in DOMAIN queue[CursorLevel]
        /\ heap[queue[CursorLevel][cursor.index]].lifetime # "DAY"
    BY <1>6 DEF KeepOrder, AtOrder, CursorBlock
  <2>2. /\ cursor'.side = cursor.side /\ cursor'.price = cursor.price
        /\ cursor'.index = cursor.index + 1
    BY <1>2, <2>1 DEF Cursors
  <2>3. ASSUME NEW b \in Live, heap[b].lifetime = "DAY", heap[b].level = CursorLevel,
               \A i \in DOMAIN queue[CursorLevel] : queue[CursorLevel][i] = b => i >= cursor.index
        PROVE  \A i \in DOMAIN queue[CursorLevel] :
                  queue[CursorLevel][i] = b => i >= cursor.index + 1
    <3> SUFFICES ASSUME NEW i \in DOMAIN queue[CursorLevel], queue[CursorLevel][i] = b
                 PROVE  i >= cursor.index + 1
      OBVIOUS
    <3>1. i \in Nat /\ i >= cursor.index /\ i # cursor.index
      BY <1>2, <2>1, <2>3 DEF BookType
    <3> QED
      BY <1>2, <3>1
  <2>4. \A b \in Live : heap[b].lifetime = "DAY" => StillAhead(b)'
    BY <1>1, <1>3, <2>2, <2>3 DEF StillAhead, CursorLevel
  <2> QED
    BY <1>1, <1>2, <2>2, <2>4, PriceRange DEF WalkInv, Prices
<1>7. CASE LeaveLevel
  <2>1. cursor' = NextLevel /\ cursor.index > Len(queue[CursorLevel])
    BY <1>7 DEF LeaveLevel
  <2>2. ASSUME NEW b \in Live, heap[b].lifetime = "DAY", heap[b].level = CursorLevel
        PROVE  FALSE
    <3>1. PICK i \in DOMAIN queue[CursorLevel] : queue[CursorLevel][i] = b
      BY <2>2, LiveFacts
    <3>2. i \in Nat /\ i <= Len(queue[CursorLevel]) /\ Len(queue[CursorLevel]) \in Nat
      BY <1>2 DEF BookType
    <3>3. i >= cursor.index
      <4>1. heap[b].side = cursor.side /\ heap[b].level[2] = cursor.price
        BY <2>2, LiveFacts DEF CursorLevel
      <4> QED
        BY <1>2, <1>3, <2>2, <3>1, <4>1, PriceRange DEF StillAhead, Prices, Sides
    <3> QED
      BY <1>2, <2>1, <3>2, <3>3
  <2> QED
    BY <1>4, <2>1, <2>2
<1> QED
  BY <1>5, <1>6, <1>7

LEMMA PruneWalks ==
    ASSUME IInv, IInv', WalkInv, PruneOrder
    PROVE  WalkInv'
<1> USE DEF IInv, BookInv
<1> DEFINE l == CursorLevel
           k == cursor.index
           q == queue[l]
<1>1. /\ pc = "pruning" /\ AtLevel /\ UNCHANGED <<pc, call, cursor>>
      /\ k \in DOMAIN q /\ TakeOut(l, k)
  BY DEF PruneOrder, AtOrder, AtLevel
<1>2. l \in Levels /\ q \in Seq(Blocks) /\ k \in 1 .. Len(q)
  BY <1>1, CursorFacts DEF BookType
<1>3. /\ Live' \subseteq Live /\ \A b \in Live' : heap'[b] = heap[b]
  BY <1>1, PruneOrderRemoves, RemovesSums
<1>4. /\ queue'[l] = RemoveAt(q, k)
      /\ Len(RemoveAt(q, k)) = Len(q) - 1
      /\ \A i \in 1 .. Len(q) - 1 : RemoveAt(q, k)[i] = IF i < k THEN q[i] ELSE q[i + 1]
  <2>1. queue'[l] = RemoveAt(q, k)
    BY <1>1, <1>2 DEF TakeOut, BookType
  <2> HIDE DEF l, k, q
  <2> QED
    BY <1>2, <2>1, RemoveAtProperties
<1>5. queue'[l] \in Seq(Blocks)
  BY <1>2 DEF BookType
<1>6. ASSUME NEW b \in Live', heap[b].lifetime = "DAY"
      PROVE  StillAhead(b)'
  <2>1. StillAhead(b)
    BY <1>1, <1>3, <1>6 DEF WalkInv
  <2>2. ASSUME \A i \in DOMAIN q : q[i] = b => i >= k,
               NEW j \in DOMAIN queue'[l], queue'[l][j] = b
        PROVE  j >= k
    <3>1. j \in 1 .. Len(q) - 1
      BY <1>4, <1>5
    <3> SUFFICES ASSUME j < k PROVE FALSE
      BY <1>2, <3>1
    <3>2. q[j] = b /\ j \in DOMAIN q
      BY <1>2, <1>4, <2>2, <3>1
    <3> QED
      BY <1>2, <2>2, <3>1, <3>2
  <2> QED
    BY <1>1, <1>3, <2>1, <2>2 DEF StillAhead, CursorLevel
<1> QED
  BY <1>1, <1>3, <1>6 DEF WalkInv

LEMMA FinishLadderWalks ==
    ASSUME IInv, WalkInv, FinishLadder
    PROVE  /\ WalkInv'
           /\ pc' = "done" => \A b \in Live' : heap'[b].lifetime # "DAY"
<1> USE DEF IInv, BookInv
<1>1. /\ pc = "pruning" /\ cursor.price > MaxPrice /\ cursor \in Cursors /\ cursor.side \in Sides
      /\ UNCHANGED <<heap, queue, call>> /\ Live' = Live
      /\ \/ cursor.side = "BUY" /\ best["SELL"] # None /\ cursor' = StartOf("SELL") /\ pc' = pc
         \/ ~(cursor.side = "BUY" /\ best["SELL"] # None) /\ cursor' = NoCursor /\ pc' = "done"
  BY CursorFacts DEF FinishLadder, Live
<1>2. ASSUME NEW b \in Live, heap[b].lifetime = "DAY"
      PROVE  cursor.side = "BUY" /\ heap[b].side = "SELL" /\ best["SELL"] # None
  <2>1. /\ heap[b].level[2] \in Prices /\ heap[b].side \in Sides
        /\ queue[<<heap[b].side, heap[b].level[2]>>] # <<>>
    BY LiveFacts
  <2>2. StillAhead(b)
    BY <1>1, <1>2 DEF WalkInv
  <2>3. ~(heap[b].level[2] > cursor.price) /\ heap[b].level[2] # cursor.price
    BY <1>1, <2>1, PriceRange DEF Prices, Cursors
  <2>4. cursor.side = "BUY" /\ heap[b].side = "SELL"
    BY <2>2, <2>3 DEF StillAhead, CursorLevel
  <2> QED
    BY <2>1, <2>4 DEF BestPriceIsBest
<1>3. CASE pc' = "done"
  BY <1>1, <1>2, <1>3 DEF WalkInv
<1>4. CASE pc' # "done"
  <2>1. /\ pc' = pc /\ cursor'.side = "SELL" /\ cursor'.price = MinPrice /\ cursor'.index = 0
    BY <1>1, <1>4 DEF StartOf
  <2>2. ASSUME NEW b \in Live, heap[b].lifetime = "DAY"
        PROVE  StillAhead(b)'
    <3>1. heap[b].side = "SELL"
      BY <1>2, <2>2
    <3>2. /\ heap[b].level[2] \in Prices /\ heap[b].level \in Levels
          /\ heap[b].level = <<heap[b].side, heap[b].level[2]>>
      BY LiveFacts
    <3>3. heap[b].level[2] > MinPrice \/ heap[b].level = <<"SELL", MinPrice>>
      BY <3>1, <3>2, PriceRange DEF Prices
    <3>4. \A i \in DOMAIN queue[heap[b].level] : i >= 0
      BY <3>2 DEF BookType
    <3> QED
      BY <1>1, <2>1, <3>1, <3>3, <3>4 DEF StillAhead, CursorLevel
  <2> QED
    BY <1>1, <1>4, <2>1, <2>2, PriceRange DEF WalkInv
<1> QED
  BY <1>3, <1>4

LEMMA NextKeepsWalkInv ==
    ASSUME IInv, WalkInv, [Next]_vars
    PROVE  WalkInv'
<1>1. IInv'
  BY NextKeepsIInv
<1>2. CASE SessionEnd
  BY <1>2, SessionStartWalks
<1>3. CASE EnterLevel \/ KeepOrder \/ LeaveLevel
  BY <1>3, StepWalks
<1>4. CASE PruneOrder
  BY <1>1, <1>4, PruneWalks
<1>5. CASE FinishLadder
  BY <1>5, FinishLadderWalks
<1>6. CASE SubmitOrder \/ CancelNotFound \/ CancelOrder \/ ModifyRefused \/ ModifyOrder
  BY <1>6 DEF SubmitOrder, RejectSubmission, KillSubmission, StartMatching,
              CancelNotFound, CancelOrder, ModifyRefused, ModifyOrder, WalkInv
<1>7. CASE Resubmit \/ TakePart \/ TakeWhole \/ FinishFilled \/ FinishResting
           \/ FinishCanceled \/ Return
  BY <1>7 DEF Resubmit, RejectSubmission, KillSubmission, StartMatching,
              TakePart, TakeWhole, FinishFilled, FinishResting, FinishCanceled, Return, WalkInv
<1>8. CASE UNCHANGED vars
  BY <1>8 DEF vars, WalkInv, StillAhead, CursorLevel, Live
<1> QED
  BY <1>2, <1>3, <1>4, <1>5, <1>6, <1>7, <1>8 DEF Next, Calling, Running

LEMMA InitWalkInv == Init => WalkInv
BY DEF Init, WalkInv

LEMMA WalkInvHolds == Spec => []WalkInv
<1>1. Init => WalkInv
  BY InitWalkInv
<1>2. IInv /\ WalkInv /\ [Next]_vars => WalkInv'
  BY NextKeepsWalkInv
<1> QED
  BY <1>1, <1>2, IInvHolds, PTL DEF Spec

\* When on_session_end returns, what still rests is GTC.
LEMMA SessionClears ==
    ASSUME IInv, WalkInv, [Next]_vars, pc # "done", pc' = "done", call'.op = "session"
    PROVE  \A b \in Blocks : heap'[b] # None => heap'[b].lifetime = "GTC"
<1>0. IInv'
  BY NextKeepsIInv
<1>1. \A b \in Live' : heap'[b].lifetime \in Lifetimes
  BY <1>0 DEF IInv, BookInv, BookType, Live, RestingOrders
<1>2. SessionEnd \/ FinishLadder
  <2>1. ASSUME NEW req \in Accepted
        PROVE  req.op # "session" /\ Plain(req.op).op # "session"
    BY RequestFields DEF Plain, NoCall
  <2>2. ~SubmitOrder
    <3> SUFFICES ASSUME SubmitOrder PROVE FALSE
      OBVIOUS
    <3>1. PICK req \in LimitRequests \cup MarketRequests :
             RejectSubmission(req) \/ KillSubmission(req) \/ StartMatching(req)
      BY DEF SubmitOrder
    <3> QED
      BY <2>1, <3>1 DEF RejectSubmission, KillSubmission, StartMatching, Accepted
  <2>3. ~Resubmit
    <3> SUFFICES ASSUME Resubmit PROVE FALSE
      OBVIOUS
    <3>1. call \in Accepted
      BY DEF Resubmit, IInv, CallInv, Accepted
    <3> QED
      BY <2>1, <3>1 DEF Resubmit, RejectSubmission, KillSubmission, StartMatching
  <2>4. ~(TakePart \/ TakeWhole \/ FinishFilled \/ FinishResting \/ FinishCanceled)
    <3> SUFFICES ASSUME TakePart \/ TakeWhole \/ FinishFilled \/ FinishResting \/ FinishCanceled
                 PROVE  FALSE
      OBVIOUS
    <3>1. pc = "matching" /\ call' = call
      BY DEF TakePart, TakeWhole, FinishFilled, FinishResting, FinishCanceled
    <3>2. call \in Accepted
      BY <3>1 DEF IInv, CallInv
    <3> QED
      BY <2>1, <3>1, <3>2
  <2>5. ~(CancelNotFound \/ CancelOrder \/ ModifyRefused \/ ModifyOrder)
    BY DEF CancelNotFound, CancelOrder, ModifyRefused, ModifyOrder, Plain, NoCall
  <2>6. ~(EnterLevel \/ KeepOrder \/ LeaveLevel \/ PruneOrder \/ Return \/ UNCHANGED vars)
    BY DEF EnterLevel, KeepOrder, LeaveLevel, PruneOrder, AtOrder, AtLevel, Return, vars
  <2> QED
    BY <2>2, <2>3, <2>4, <2>5, <2>6 DEF Next, Calling, Running
<1>3. \A b \in Live' : heap'[b].lifetime # "DAY"
  BY <1>2, SessionStartWalks, FinishLadderWalks
<1> QED
  BY <1>1, <1>3 DEF Live, Lifetimes

\* What one step of the walk adds to the totals is what it takes from the book.
StepAccounts ==
    /\ Cardinality(Live) - Cardinality(Live)' = pruned'.ordersPruned - pruned.ordersPruned
    /\ RestingShares - RestingShares' = ErasedShares' - ErasedShares
    /\ LevelsInUse + Emptied + pruned.priceLevelsErased
          = LevelsInUse' + Emptied' + pruned'.priceLevelsErased
    /\ \A b \in Live : heap[b].lifetime = "GTC" => heap'[b] = heap[b]

\* No level holds more shares than a Quantity can count.
LevelsFit == \A l \in Levels : volume[l] < QuantityEnd

\* What was counted on the level the walk is on and what still rests there are
\* together no more than a Quantity can count.
CountFits ==
    WalkingLevel => /\ pruned.quantityPruned \in Nat
                    /\ pruned.quantityPruned + volume[CursorLevel] < QuantityEnd

LEMMA VolumesAreNat == IInv /\ VolumesAreHeld => \A l \in Levels : volume[l] \in Nat
<1> SUFFICES ASSUME IInv, VolumesAreHeld, NEW l \in Levels PROVE volume[l] \in Nat
  OBVIOUS
<1>1. OnLevel(l) \in SUBSET Live
  BY DEF OnLevel
<1> QED
  BY <1>1, SumIsNat DEF IInv, BookInv, VolumesAreHeld, HeldOn

LEMMA VolumesAreNatNext == (IInv /\ VolumesAreHeld)' => \A l \in Levels : volume'[l] \in Nat
<1>1. (IInv /\ VolumesAreHeld => \A l \in Levels : volume[l] \in Nat)'
  BY VolumesAreNat, PTL
<1> QED
  BY <1>1

\* A prune moves shares from the level to the count, which has room for them.
LEMMA PruneCounts ==
    ASSUME IInv, VolumesAreHeld, CountFits, PruneOrder
    PROVE  /\ pruned' = [pruned EXCEPT !.ordersPruned = @ + 1,
                                       !.quantityPruned = @ + heap[CursorBlock].quantity]
           /\ CountFits'
<1> USE DEF IInv, BookInv
<1> DEFINE l == CursorLevel
           shares == heap[CursorBlock].quantity
<1>1. /\ pc = "pruning" /\ pc' = pc /\ AtLevel /\ cursor' = cursor
      /\ cursor.index \in DOMAIN queue[l] /\ TakeOut(l, cursor.index)
  BY DEF PruneOrder, AtOrder, AtLevel
<1>2. l \in Levels /\ l' = l /\ queue[l] \in Seq(Blocks)
  BY <1>1, CursorFacts DEF CursorLevel, BookType
<1>3. WalkingLevel
  BY <1>1, <1>2 DEF WalkingLevel
<1>4. /\ CursorBlock \in Live /\ shares \in Nat
      /\ volume' = [volume EXCEPT ![l] = @ - shares]
  <2>1. CursorBlock \in Live
    BY <1>1, <1>2 DEF CursorBlock, Coherent, QueuesMatchPool
  <2>2. shares \in Nat
    BY <2>1, LiveFacts DEF RestingOrders
  <2> QED
    BY <1>1, <2>1, <2>2 DEF TakeOut, Lowered, CursorBlock
<1> HIDE DEF shares
<1>5. volume'[l] = volume[l] - shares /\ volume[l] \in Nat /\ volume'[l] \in Nat
  <2>1. VolumesAreHeld' /\ IInv'
    BY NextKeepsVolumes, NextKeepsIInv DEF Next, Running
  <2>2. volume'[l] = volume[l] - shares
    BY <1>2, <1>4 DEF VolumeType
  <2> HIDE DEF l, IInv
  <2> QED
    BY <1>2, <2>1, <2>2, VolumesAreNat, VolumesAreNatNext
<1>6. /\ pruned.quantityPruned \in Nat
      /\ pruned.quantityPruned + volume[l] < QuantityEnd
  BY <1>3 DEF CountFits
<1> HIDE DEF l
<1>7. /\ pruned.quantityPruned + shares \in Nat
      /\ pruned.quantityPruned + shares < QuantityEnd
      /\ pruned.quantityPruned + shares + volume'[l] < QuantityEnd
  BY <1>4, <1>5, <1>6, QuantityIsSigned
<1>8. pruned' = [pruned EXCEPT !.ordersPruned = @ + 1, !.quantityPruned = @ + shares]
  <2>1. SharesWith(shares) = {pruned.quantityPruned + shares}
    BY <1>7, CountIsExact
  <2>2. PICK counted \in SharesWith(shares) :
           pruned' = [pruned EXCEPT !.ordersPruned = @ + 1, !.quantityPruned = counted]
    BY DEF PruneOrder, shares
  <2> QED
    BY <2>1, <2>2
<1>9. CountFits'
  <2>1. CursorLevel' = l
    BY <1>2 DEF l
  <2>2. pruned'.quantityPruned = pruned.quantityPruned + shares
    BY <1>8 DEF CallType, PruneTotals
  <2> QED
    BY <1>7, <2>1, <2>2 DEF CountFits
<1> QED
  BY <1>8, <1>9 DEF shares

\* The count starts at zero on a level that fits, and every other step leaves it
\* and the level alone or is not on a level afterwards.
LEMMA NextKeepsCountFits ==
    ASSUME IInv, WalkInv, VolumesAreHeld, LevelsFit, CountFits, [Next]_vars
    PROVE  CountFits'
<1>1. CASE PruneOrder
  BY <1>1, PruneCounts
<1>2. CASE EnterLevel \/ KeepOrder \/ LeaveLevel \/ FinishLadder
  <2>1. pc = "pruning" /\ cursor \in Cursors /\ pruned \in PruneTotals /\ volume' = volume
    BY <1>2, CursorFacts
       DEF EnterLevel, KeepOrder, LeaveLevel, FinishLadder, AtOrder, AtLevel, bookVars, IInv, CallType
  <2>2. \/ cursor'.index = 0
        \/ EnterLevel /\ cursor' = [cursor EXCEPT !.index = 1]
              /\ pruned' = [pruned EXCEPT !.quantityPruned = 0]
        \/ KeepOrder /\ cursor' = [cursor EXCEPT !.index = @ + 1] /\ pruned' = pruned
    <3>1. CASE EnterLevel
      <4>1. \/ cursor' = NextLevel
            \/ cursor' = [cursor EXCEPT !.index = 1]
                  /\ pruned' = [pruned EXCEPT !.quantityPruned = 0]
        BY <3>1 DEF EnterLevel
      <4>2. NextLevel.index = 0
        BY <2>1 DEF NextLevel, Cursors
      <4> QED
        BY <3>1, <4>1, <4>2
    <3>2. CASE KeepOrder
      <4>1. cursor' = [cursor EXCEPT !.index = @ + 1] /\ pruned' = pruned
        BY <3>2 DEF KeepOrder
      <4> QED
        BY <3>2, <4>1
    <3>3. CASE LeaveLevel
      <4>1. cursor' = NextLevel
        BY <3>3 DEF LeaveLevel
      <4>2. NextLevel.index = 0
        BY <2>1 DEF NextLevel, Cursors
      <4> QED
        BY <4>1, <4>2
    <3>4. CASE FinishLadder
      <4>1. cursor' = StartOf("SELL") \/ cursor' = NoCursor
        BY <3>4 DEF FinishLadder
      <4> QED
        BY <4>1 DEF StartOf, NoCursor
    <3> QED
      BY <1>2, <3>1, <3>2, <3>3, <3>4
  <2>3. CASE cursor'.index = 0
    BY <2>3 DEF CountFits, WalkingLevel
  <2>4. CASE EnterLevel /\ cursor' = [cursor EXCEPT !.index = 1]
              /\ pruned' = [pruned EXCEPT !.quantityPruned = 0]
    <3>1. CursorLevel' = CursorLevel /\ CursorLevel \in Levels
      BY <2>1, <2>4, CursorFacts DEF CursorLevel, Cursors, EnterLevel
    <3>2. pruned'.quantityPruned = 0 /\ volume[CursorLevel] \in Nat
          /\ volume[CursorLevel] < QuantityEnd
      BY <2>1, <2>4, <3>1, VolumesAreNat DEF PruneTotals, LevelsFit
    <3> QED
      BY <2>1, <3>1, <3>2 DEF CountFits
  <2>5. CASE KeepOrder /\ cursor' = [cursor EXCEPT !.index = @ + 1] /\ pruned' = pruned
    <3>1. CursorLevel' = CursorLevel /\ CursorLevel \in Levels
      BY <2>1, <2>5, CursorFacts DEF CursorLevel, Cursors, KeepOrder, AtOrder
    <3>2. WalkingLevel
      BY <2>1, <2>5, <3>1 DEF WalkingLevel, KeepOrder, AtOrder, IInv, BookInv, BookType
    <3> QED
      BY <2>1, <2>5, <3>1, <3>2 DEF CountFits
  <2> QED
    BY <2>2, <2>3, <2>4, <2>5
<1>3. CASE SessionEnd
  <2>1. pc' = "done" \/ cursor'.index = 0
    BY <1>3 DEF SessionEnd, StartOf
  <2> QED
    BY <2>1 DEF CountFits, WalkingLevel
<1>4. CASE SubmitOrder \/ CancelNotFound \/ CancelOrder \/ ModifyRefused \/ ModifyOrder \/ Resubmit
  BY <1>4 DEF SubmitOrder, Resubmit, RejectSubmission, KillSubmission, StartMatching,
              CancelNotFound, CancelOrder, ModifyRefused, ModifyOrder, CountFits, WalkingLevel
<1>5. CASE TakePart \/ TakeWhole \/ FinishFilled \/ FinishResting \/ FinishCanceled \/ Return
  BY <1>5 DEF TakePart, TakeWhole, FinishFilled, FinishResting, FinishCanceled, Return,
              CountFits, WalkingLevel
<1>6. CASE UNCHANGED vars
  BY <1>6 DEF vars, CountFits, WalkingLevel, CursorLevel
<1> QED
  BY <1>1, <1>2, <1>3, <1>4, <1>5, <1>6 DEF Next, Calling, Running

LEMMA InitCountFits == Init => CountFits
BY DEF Init, CountFits, WalkingLevel

LEMMA CountFitsHolds == Spec /\ []LevelsFit => []CountFits
<1>1. Init => CountFits
  BY InitCountFits
<1>2. IInv /\ WalkInv /\ VolumesAreHeld /\ LevelsFit /\ CountFits /\ [Next]_vars => CountFits'
  BY NextKeepsCountFits
<1> QED
  BY <1>1, <1>2, IInvHolds, WalkInvHolds, VolumesAreHeldHolds, PTL DEF Spec

LEMMA LevelsInUseType == LevelsInUse \in Nat
<1>1. IsFiniteSet({l \in Levels : queue[l] # <<>>})
  BY LevelsAreFinite, FS_Subset, {l \in Levels : queue[l] # <<>>} \in SUBSET Levels
<1> QED
  BY <1>1, FS_CardinalityType DEF LevelsInUse

LEMMA WalkAccounts ==
    ASSUME IInv, WalkInv, EnterLevel \/ KeepOrder \/ LeaveLevel \/ FinishLadder \/ UNCHANGED vars,
           pc = "pruning"
    PROVE  StepAccounts
<1> USE DEF IInv, BookInv
<1>1. UNCHANGED <<heap, queue>>
  BY DEF EnterLevel, KeepOrder, LeaveLevel, FinishLadder, vars, bookVars
<1>2. Live' = Live /\ RestingShares' = RestingShares /\ LevelsInUse' = LevelsInUse
      /\ Cardinality(Live)' = Cardinality(Live)
  BY <1>1 DEF Live, RestingShares, LevelsInUse
<1>3. /\ Cardinality(Live) \in Nat /\ RestingShares \in Nat /\ LevelsInUse \in Nat
      /\ pruned \in PruneTotals
  BY LiveIsFinite, FS_CardinalityType, RestingSharesIsHeld, LevelsInUseType DEF CallType
<1>4. /\ pruned.ordersPruned \in Nat /\ pruned.sharesErased \in Int
      /\ pruned.priceLevelsErased \in Nat /\ pruned.quantityPruned \in Int
  BY <1>3 DEF PruneTotals
<1>5. cursor \in Cursors /\ cursor.index \in Nat
  BY CursorFacts DEF Cursors
<1>6. /\ pruned'.ordersPruned = pruned.ordersPruned
      /\ Emptied + pruned.priceLevelsErased = Emptied' + pruned'.priceLevelsErased
  <2>1. CASE EnterLevel
    <3>1. /\ pc' = pc /\ Emptied = 0
          /\ pruned'.ordersPruned = pruned.ordersPruned
          /\ pruned'.priceLevelsErased = pruned.priceLevelsErased
      BY <2>1, <1>3, <1>5 DEF EnterLevel, Emptied, WalkingLevel, PruneTotals
    <3>2. Emptied' = 0
      <4>1. CASE queue[CursorLevel] = <<>>
        <5>1. cursor'.index = 0
          BY <2>1, <4>1, <1>5 DEF EnterLevel, NextLevel, Cursors
        <5> QED
          BY <5>1 DEF Emptied, WalkingLevel
      <4>2. CASE queue[CursorLevel] # <<>>
        <5>1. cursor'.side = cursor.side /\ cursor'.price = cursor.price
          BY <2>1, <4>2, <1>5 DEF EnterLevel, Cursors
        <5> QED
          BY <1>1, <4>2, <5>1 DEF Emptied, WalkingLevel, CursorLevel
      <4> QED
        BY <4>1, <4>2
    <3> QED
      BY <1>4, <3>1, <3>2
  <2>2. CASE KeepOrder
    <3>1. pc' = pc /\ pruned' = pruned /\ cursor.index \in DOMAIN queue[CursorLevel]
          /\ cursor' = [cursor EXCEPT !.index = @ + 1]
      BY <2>2 DEF KeepOrder, AtOrder
    <3>2. cursor'.side = cursor.side /\ cursor'.price = cursor.price
      BY <1>5, <3>1 DEF Cursors
    <3>3. queue[CursorLevel] # <<>>
      BY <3>1
    <3>4. Emptied = 0 /\ Emptied' = 0
      BY <1>1, <3>2, <3>3 DEF Emptied, WalkingLevel, CursorLevel
    <3> QED
      BY <1>4, <3>1, <3>4
  <2>3. CASE LeaveLevel
    <3>1. /\ cursor.index > Len(queue[CursorLevel]) /\ cursor' = NextLevel
          /\ pruned' = [CountedIfErased EXCEPT !.sharesErased = @ + pruned.quantityPruned]
          /\ pc' = pc /\ AtLevel
      BY <2>3 DEF LeaveLevel
    <3>2. cursor'.index = 0
      BY <1>5, <3>1 DEF NextLevel, Cursors
    <3>3. Emptied' = 0
      BY <3>2 DEF Emptied, WalkingLevel
    <3>4. CursorLevel \in Levels
      BY <3>1, CursorFacts
    <3>5. Len(queue[CursorLevel]) \in Nat
      BY <3>4 DEF BookType
    <3>6. cursor.index > 0
      BY <1>5, <3>1, <3>5
    <3>7. CASE queue[CursorLevel] = <<>>
      <4>1. Emptied = 1
        BY <3>6, <3>7 DEF Emptied, WalkingLevel
      <4>2. /\ pruned'.priceLevelsErased = pruned.priceLevelsErased + 1
            /\ pruned'.ordersPruned = pruned.ordersPruned
        BY <1>3, <3>1, <3>7 DEF CountedIfErased, PruneTotals
      <4> QED
        BY <1>4, <3>3, <4>1, <4>2
    <3>8. CASE queue[CursorLevel] # <<>>
      <4>1. /\ Emptied = 0
            /\ pruned'.priceLevelsErased = pruned.priceLevelsErased
            /\ pruned'.ordersPruned = pruned.ordersPruned
        BY <1>3, <3>1, <3>8 DEF Emptied, CountedIfErased, PruneTotals
      <4> QED
        BY <1>4, <3>3, <4>1
    <3> QED
      BY <3>7, <3>8
  <2>4. CASE FinishLadder
    <3>1. pruned' = pruned /\ cursor.price > MaxPrice /\ pc = "pruning"
      BY <2>4 DEF FinishLadder
    <3>2. Emptied = 0
      BY <3>1 DEF Emptied, WalkingLevel, WalkInv
    <3>3. cursor'.index = 0
      BY <2>4 DEF FinishLadder, StartOf, NoCursor
    <3>4. Emptied' = 0
      BY <3>3 DEF Emptied, WalkingLevel
    <3> QED
      BY <1>4, <3>1, <3>2, <3>4
  <2>5. CASE UNCHANGED vars
    <3>1. pruned' = pruned /\ Emptied' = Emptied
      BY <2>5 DEF vars, Emptied, WalkingLevel, CursorLevel
    <3>2. Emptied \in Nat
      BY DEF Emptied
    <3> QED
      BY <1>4, <3>1, <3>2
  <2> QED
    BY <2>1, <2>2, <2>3, <2>4, <2>5
<1>7. Emptied \in Nat /\ Emptied' \in Nat /\ pruned'.priceLevelsErased \in Int
  <2>1. Emptied \in Nat /\ Emptied' \in Nat
    BY DEF Emptied
  <2>2. IInv'
    BY NextKeepsIInv DEF Next, Running
  <2> QED
    BY <2>1, <2>2 DEF CallType, PruneTotals
<1>8. ErasedShares' = ErasedShares /\ ErasedShares \in Int
  <2>1. ErasedShares \in Int
    BY <1>4 DEF ErasedShares
  <2>2. CASE EnterLevel
    <3>1. cursor.index = 0 /\ ErasedShares = pruned.sharesErased
      BY <1>4, <2>2 DEF EnterLevel, ErasedShares, WalkingLevel
    <3>2. pruned'.sharesErased = pruned.sharesErased
          /\ (pruned'.quantityPruned = 0 \/ cursor'.index = 0)
      BY <1>3, <1>5, <2>2 DEF EnterLevel, NextLevel, Cursors, PruneTotals
    <3> QED
      BY <1>4, <3>1, <3>2 DEF ErasedShares, WalkingLevel
  <2>3. CASE KeepOrder
    <3>1. /\ pc' = pc /\ pruned' = pruned /\ AtLevel /\ cursor.index \in DOMAIN queue[CursorLevel]
          /\ cursor' = [cursor EXCEPT !.index = @ + 1]
      BY <2>3 DEF KeepOrder, AtOrder
    <3>2. cursor.index > 0 /\ cursor'.index > 0
      BY <1>5, <3>1, CursorFacts DEF BookType, Cursors
    <3> QED
      BY <2>1, <3>1, <3>2 DEF ErasedShares, WalkingLevel
  <2>4. CASE LeaveLevel
    <3>1. /\ cursor.index > Len(queue[CursorLevel]) /\ cursor' = NextLevel /\ AtLevel
          /\ pruned' = [CountedIfErased EXCEPT !.sharesErased = @ + pruned.quantityPruned]
      BY <2>4 DEF LeaveLevel
    <3>2. cursor.index > 0 /\ cursor'.index = 0
      BY <1>5, <3>1, CursorFacts DEF BookType, NextLevel, Cursors
    <3>3. pruned'.sharesErased = pruned.sharesErased + pruned.quantityPruned
      BY <1>3, <3>1 DEF CountedIfErased, PruneTotals
    <3> QED
      BY <1>4, <3>2, <3>3 DEF ErasedShares, WalkingLevel
  <2>5. CASE FinishLadder
    <3>1. pruned' = pruned /\ cursor.index = 0 /\ cursor'.index = 0
      BY <2>5 DEF FinishLadder, StartOf, NoCursor, WalkInv
    <3> QED
      BY <2>1, <3>1 DEF ErasedShares, WalkingLevel
  <2>6. CASE UNCHANGED vars
    BY <2>1, <2>6 DEF vars, ErasedShares, WalkingLevel
  <2> QED
    BY <2>1, <2>2, <2>3, <2>4, <2>5, <2>6
<1> QED
  BY <1>1, <1>2, <1>3, <1>4, <1>6, <1>7, <1>8 DEF StepAccounts

LEMMA PruneAccounts ==
    ASSUME IInv, VolumesAreHeld, CountFits, PruneOrder
    PROVE  StepAccounts
<1> USE DEF IInv, BookInv
<1> DEFINE l == CursorLevel
           b == CursorBlock
           shares == heap[b].quantity
           U == {m \in Levels : queue[m] # <<>>}
<1>0. IInv'
  BY NextKeepsIInv DEF Next, Running
<1>1. /\ pc = "pruning" /\ pc' = pc /\ AtLevel /\ cursor' = cursor
      /\ cursor.index \in DOMAIN queue[l] /\ TakeOut(l, cursor.index)
      /\ heap[b].lifetime = "DAY"
      /\ pruned' = [pruned EXCEPT !.ordersPruned = @ + 1, !.quantityPruned = @ + shares]
  BY PruneCounts DEF PruneOrder, AtOrder, AtLevel
<1>2. Removes(b) /\ l \in Levels
  BY <1>1, PruneOrderRemoves, CursorFacts
<1>3. b \in Live /\ Live' = Live \ {b} /\ (\A c \in Live' : heap'[c] = heap[c]) /\ shares \in Nat
      /\ SumFunctionOnSet(Held', Live \ {b}) = SumFunctionOnSet(Held, Live) - shares
  BY <1>0, <1>2, RemovesSums DEF Removes
<1> HIDE DEF shares
<1>4. /\ pruned \in PruneTotals
      /\ pruned.ordersPruned \in Nat /\ pruned.sharesErased \in Int
      /\ pruned.priceLevelsErased \in Nat /\ pruned.quantityPruned \in Int
      /\ pruned'.ordersPruned = pruned.ordersPruned + 1
      /\ pruned'.sharesErased = pruned.sharesErased
      /\ pruned'.priceLevelsErased = pruned.priceLevelsErased
  BY <1>1 DEF CallType, PruneTotals
<1>5. Cardinality(Live) - Cardinality(Live)' = 1
  <2>1. IsFiniteSet(Live) /\ Cardinality(Live) \in Nat
    BY LiveIsFinite, FS_CardinalityType
  <2>2. Cardinality(Live \ {b}) = Cardinality(Live) - 1
    BY <1>3, <2>1, FS_RemoveElement
  <2> HIDE DEF b
  <2>3. Cardinality(Live)' = Cardinality(Live) - 1
    BY <1>3, <2>2
  <2> QED
    BY <2>1, <2>3
<1>6. RestingShares - RestingShares' = shares
  <2>1. RestingShares = SumFunctionOnSet(Held, Live) /\ RestingShares \in Nat
    BY RestingSharesIsHeld
  <2>2. (BookType /\ Coherent => RestingShares = SumFunctionOnSet(Held, Live))'
    BY RestingSharesIsHeld, PTL
  <2> HIDE DEF b
  <2>3. RestingShares' = SumFunctionOnSet(Held, Live) - shares
    BY <1>0, <1>3, <2>2
  <2> QED
    BY <1>3, <2>1, <2>3
<1>7. LevelsInUse + Emptied = LevelsInUse' + Emptied'
  <2>1. /\ IsFiniteSet(U) /\ Cardinality(U) \in Nat /\ l \in U /\ queue[l] # <<>>
    <3>1. U \in SUBSET Levels
      OBVIOUS
    <3> QED
      BY <1>1, <1>2, <3>1, LevelsAreFinite, FS_Subset, FS_CardinalityType
  <2>2. Emptied = 0 /\ LevelsInUse = Cardinality(U)
    BY <2>1 DEF Emptied, WalkingLevel, LevelsInUse
  <2>3. \A m \in Levels \ {l} : queue'[m] = queue[m]
    BY <1>1, <1>2 DEF TakeOut, BookType
  <2>4. cursor'.index > 0 /\ CursorLevel' = CursorLevel
    BY <1>1, <1>2 DEF CursorLevel, BookType
  <2>5. CASE queue'[l] = <<>>
    <3>1. U' = U \ {l}
      BY <1>2, <2>1, <2>3, <2>5
    <3>2. Cardinality(U \ {l}) = Cardinality(U) - 1
      BY <2>1, FS_RemoveElement
    <3>3. Emptied' = 1
      BY <1>1, <2>4, <2>5 DEF Emptied, WalkingLevel
    <3> HIDE DEF U
    <3>4. Cardinality(U)' = Cardinality(U) - 1
      BY <3>1, <3>2
    <3>5. LevelsInUse' = Cardinality(U)'
      BY DEF LevelsInUse, U
    <3> QED
      BY <2>1, <2>2, <3>3, <3>4, <3>5
  <2>6. CASE queue'[l] # <<>>
    <3>1. U' = U
      BY <1>2, <2>1, <2>3, <2>6
    <3>2. Emptied' = 0
      BY <2>4, <2>6 DEF Emptied, WalkingLevel
    <3>3. LevelsInUse' = Cardinality(U')
      BY DEF LevelsInUse
    <3> QED
      BY <2>1, <2>2, <3>1, <3>2, <3>3
  <2> QED
    BY <2>5, <2>6
<1>8. \A c \in Live : heap[c].lifetime = "GTC" => heap'[c] = heap[c]
  BY <1>1, <1>3
<1>9. LevelsInUse \in Nat /\ Emptied \in Nat /\ Emptied' \in Nat
  BY LevelsInUseType DEF Emptied, WalkingLevel
<1>10. LevelsInUse' \in Nat
  <2>1. (BookType => LevelsInUse \in Nat)'
    BY LevelsInUseType, PTL
  <2> QED
    BY <1>0, <2>1
<1> HIDE DEF l, b, U
<1>11. /\ Cardinality(Live) - Cardinality(Live)' = pruned'.ordersPruned - pruned.ordersPruned
       /\ RestingShares - RestingShares' = ErasedShares' - ErasedShares
  <2>1. WalkingLevel /\ WalkingLevel'
    BY <1>1, <1>2 DEF WalkingLevel, BookType, l
  <2>2. /\ ErasedShares = pruned.sharesErased + pruned.quantityPruned
        /\ ErasedShares' = pruned'.sharesErased + pruned'.quantityPruned
    BY <2>1 DEF ErasedShares
  <2> QED
    BY <1>1, <1>3, <1>4, <1>5, <1>6, <2>2
<1>12. LevelsInUse + Emptied + pruned.priceLevelsErased
          = LevelsInUse' + Emptied' + pruned'.priceLevelsErased
  BY <1>4, <1>7, <1>9, <1>10
<1> QED
  BY <1>8, <1>11, <1>12 DEF StepAccounts

\* As long as no level ever holds more shares than a Quantity can count, the
\* totals that on_session_end returns are exact; it touches no GTC order, and it
\* leaves no DAY order.
THEOREM SessionEndIsAccounted == Spec /\ []LevelsFit => SessionEndAccounts
<1> DEFINE A == /\ pc # "done" /\ pc' = "done" /\ call'.op = "session" =>
                      \A b \in Blocks : heap'[b] # None => heap'[b].lifetime = "GTC"
                /\ pc = "pruning" => StepAccounts
<1>1. ASSUME IInv, WalkInv, VolumesAreHeld, CountFits, [Next]_vars
      PROVE  A
  <2>1. ASSUME pc = "pruning" PROVE StepAccounts
    <3>1. EnterLevel \/ KeepOrder \/ LeaveLevel \/ FinishLadder \/ UNCHANGED vars \/ PruneOrder
      BY <1>1, <2>1 DEF Next, Calling, Running, SubmitOrder, CancelNotFound, CancelOrder,
                        ModifyRefused, ModifyOrder, SessionEnd, Resubmit, TakePart, TakeWhole,
                        FinishFilled, FinishResting, FinishCanceled, Return
    <3> QED
      BY <1>1, <2>1, <3>1, WalkAccounts, PruneAccounts
  <2> QED
    BY <1>1, <2>1, SessionClears
<1>2. IInv /\ WalkInv /\ VolumesAreHeld /\ CountFits /\ [Next]_vars => [A]_vars
  BY <1>1
<1>3. [][A]_vars => SessionEndAccounts
  BY PTL DEF SessionEndAccounts, StepAccounts
<1> HIDE DEF A
<1> QED
  BY IInvHolds, WalkInvHolds, VolumesAreHeldHolds, CountFitsHolds, <1>2, <1>3, PTL DEF Spec

=============================================================================

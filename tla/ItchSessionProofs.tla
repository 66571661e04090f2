-------------------------- MODULE ItchSessionProofs --------------------------
(***************************************************************************)
(* What holds of the replay program.                                       *)
(*                                                                         *)
(* First, of the engine: what holds of a replayed book for every set of     *)
(* orders, blocks, prices and locate codes and for a feed of any length, as *)
(* long as the shares of a message fit a Quantity.  A message that does     *)
(* anything puts one order into the book, takes one out or makes one        *)
(* smaller; the effects of these three on the book are told first, and then *)
(* what they mean for the counters and for what is visible.                *)
(*                                                                         *)
(* Then, of the parser, for every capture, cut and time to stop at: a       *)
(* length is read where a frame starts, the engine gets the frames up to    *)
(* the first reason to stop, and a field that the end of the file cuts off  *)
(* is rounded down.  The argument is about positions: the fields that a     *)
(* decoder reads add up to the length that the parser insists on, so that   *)
(* what ends a body starts a frame.                                        *)
(***************************************************************************)
EXTENDS ItchSession, OrderBookProofs

\* No message carries more shares than a Quantity, an int32, can hold.
SharesFit == Shares \subseteq 0 .. (QuantityEnd - 1)

-----------------------------------------------------------------------------
(* The three things that happen to the book *)

Placing(id, quantity, side, price) ==
    /\ id \in OrderIds /\ idToOrder[id] = None
    /\ quantity \in Nat \ {0} /\ side \in Sides /\ price \in Prices
    /\ PlaceOrder(id, quantity, "GTC", side, price)

Reducing(id, shares) ==
    /\ id \in OrderIds /\ idToOrder[id] # None
    /\ shares \in Nat \ {0} /\ shares < heap[idToOrder[id]].quantity
    /\ heap' = [heap EXCEPT ![idToOrder[id]].quantity = @ - shares]
    /\ volume' = Lowered(heap[idToOrder[id]].level, shares)
    /\ UNCHANGED <<idToOrder, queue, best>>

Cancelling(id) == id \in OrderIds /\ idToOrder[id] # None /\ CancelResting(id)

\* The book between two messages.
ReplayedBook == SoundBook /\ VolumesAreHeld /\ pc = "idle"

\* What is visible under an id, leaving an unfinished replacement aside.
Displayed(id) ==
    IF idToOrder[id] = None THEN None
    ELSE [side |-> heap[idToOrder[id]].side, price |-> heap[idToOrder[id]].level[2],
          shares |-> heap[idToOrder[id]].quantity]

\* A mapped id names a live order of that id, and no two ids name the same.
LEMMA MappedIsLive ==
    ASSUME SoundBook, NEW id \in OrderIds, idToOrder[id] # None
    PROVE  /\ idToOrder[id] \in Live /\ idToOrder[id] \in Blocks
           /\ heap[idToOrder[id]] \in RestingOrders /\ heap[idToOrder[id]].id = id
           /\ heap[idToOrder[id]].level \in Levels
           /\ heap[idToOrder[id]].level[2] \in Prices
           /\ heap[idToOrder[id]].side \in Sides
           /\ heap[idToOrder[id]].quantity \in Nat \ {0}
           /\ \A other \in OrderIds \ {id} : idToOrder[other] # idToOrder[id]
<1> USE DEF SoundBook
<1>1. idToOrder[id] \in Live /\ heap[idToOrder[id]].id = id
  BY DEF Coherent, MapMatchesPool
<1>2. idToOrder[id] \in Blocks /\ heap[idToOrder[id]] \in RestingOrders
  BY <1>1 DEF Live, BookType
<1>3. heap[idToOrder[id]].level \in Levels /\ heap[idToOrder[id]].side \in Sides
      /\ heap[idToOrder[id]].quantity \in Nat
  BY <1>2 DEF RestingOrders
<1>4. heap[idToOrder[id]].quantity > 0
  BY <1>1 DEF Coherent, RestingOrdersHaveShares
<1>5. \A other \in OrderIds \ {id} : idToOrder[other] # idToOrder[id]
  BY <1>1 DEF Coherent, MapMatchesPool
<1> QED
  BY <1>1, <1>2, <1>3, <1>4, <1>5 DEF Levels

LEMMA DisplayedIsShown ==
    ASSUME SoundBook, NEW id \in OrderIds, idToOrder[id] # None
    PROVE  Displayed(id) \in Shown
<1>1. /\ heap[idToOrder[id]].side \in Sides
      /\ heap[idToOrder[id]].level[2] \in Prices
      /\ heap[idToOrder[id]].quantity \in Nat \ {0}
  BY MappedIsLive
<1> QED
  BY <1>1 DEF Displayed, Shown

\* An added order rests where nothing was, and nothing else changes.
LEMMA PlacingEffect ==
    ASSUME ReplayedBook, NEW id, NEW quantity, NEW side, NEW price,
           Placing(id, quantity, side, price)
    PROVE  /\ SoundBook' /\ VolumesAreHeld'
           /\ \E b : b \notin Live /\ Live' = Live \cup {b}
           /\ idToOrder'[id] # None
           /\ Displayed(id)' = [side |-> side, price |-> price, shares |-> quantity]
           /\ \A other \in OrderIds \ {id} : /\ idToOrder'[other] = idToOrder[other]
                                             /\ Displayed(other)' = Displayed(other)
<1> USE DEF ReplayedBook, SoundBook
<1> DEFINE l == <<side, price>>
           order == [id |-> id, quantity |-> quantity, lifetime |-> "GTC",
                     side |-> side, level |-> l]
<1>1. /\ id \in OrderIds /\ idToOrder[id] = None
      /\ quantity \in Nat /\ quantity > 0 /\ side \in Sides /\ price \in Prices
      /\ "GTC" \in Lifetimes /\ l \in Levels
      /\ PlaceOrder(id, quantity, "GTC", side, price)
  BY DEF Placing, Lifetimes, Levels
<1>2. /\ BookType'
      /\ Coherent'
      /\ queue'[l] # <<>>
      /\ \A m \in Levels \ {l} : queue'[m] = queue[m]
  BY <1>1, PlaceOrderKeepsCoherence
<1>3. /\ best' = BestAfterPlacing(side, price)
      /\ volume' = [volume EXCEPT ![l] = @ + quantity]
  BY <1>1 DEF PlaceOrder
<1>4. VolumeType'
  BY <1>1, <1>3 DEF VolumeType
<1>5. BestType' /\ BestPriceIsBest'
  <2>1. \A s \in Sides : Bounded(queue, s) /\ Backed(queue, s)
    BY DEF BestPriceIsBest, Bounded, Backed
  <2>2. /\ BestType'
        /\ \A s \in Sides :
              /\ \A p \in Prices : queue'[<<s, p>>] # <<>> =>
                    best'[s] # None /\ ~Ahead(s, p, best'[s])
              /\ best'[s] # None => queue'[<<s, best'[s]>>] # <<>>
    BY <1>1, <1>2, <1>3, <2>1, BestAfterPlacingIsBest
  <2> QED
    BY <2>2 DEF BestPriceIsBest
<1>6. order \in RestingOrders
  BY <1>1 DEF RestingOrders
<1>7. PICK b \in Blocks :
         /\ heap[b] = None
         /\ heap' = [heap EXCEPT ![b] = order]
         /\ idToOrder' = [idToOrder EXCEPT ![id] = b]
  BY <1>1 DEF PlaceOrder
<1>8. order.id = id /\ order.quantity = quantity /\ order.side = side /\ order.level = l
  OBVIOUS
<1> HIDE DEF order
<1>9. Adds(b, order)
  BY <1>3, <1>6, <1>7, <1>8 DEF Adds
<1>10. VolumesAreHeld'
  BY <1>2, <1>4, <1>5, <1>6, <1>9, EffectsKeepVolumes
<1>11. Live' = Live \cup {b} /\ b \notin Live /\ heap'[b] = order
       /\ \A c \in Live : heap'[c] = heap[c]
  BY <1>2, <1>9, AddsSums
<1>12. idToOrder'[id] = b /\ b # None
       /\ \A other \in OrderIds \ {id} : idToOrder'[other] = idToOrder[other]
  BY <1>1, <1>7, NoneIsNoBlock DEF BookType
<1>13. Displayed(id)' = [side |-> side, price |-> price, shares |-> quantity]
  BY <1>8, <1>11, <1>12 DEF Displayed
<1>14. ASSUME NEW other \in OrderIds \ {id}
       PROVE  Displayed(other)' = Displayed(other)
  <2>1. CASE idToOrder[other] = None
    BY <1>12, <2>1 DEF Displayed
  <2>2. CASE idToOrder[other] # None
    <3>1. idToOrder[other] \in Live
      BY <2>2, MappedIsLive
    <3> QED
      BY <1>11, <1>12, <2>2, <3>1 DEF Displayed
  <2> QED
    BY <2>1, <2>2
<1> QED
  BY <1>2, <1>4, <1>5, <1>10, <1>11, <1>12, <1>13, <1>14

\* A reduced order has fewer shares, and nothing else changes.
LEMMA ReducingEffect ==
    ASSUME ReplayedBook, NEW id, NEW shares, Reducing(id, shares)
    PROVE  /\ SoundBook' /\ VolumesAreHeld'
           /\ Live' = Live
           /\ shares \in 1 .. Displayed(id).shares /\ shares # Displayed(id).shares
           /\ Displayed(id) # None
           /\ Displayed(id)' = [Displayed(id) EXCEPT !.shares = @ - shares]
           /\ \A other \in OrderIds \ {id} : Displayed(other)' = Displayed(other)
<1> USE DEF ReplayedBook
<1> DEFINE b == idToOrder[id]
<1>1. /\ b \in Live /\ b \in Blocks /\ heap[b] \in RestingOrders
      /\ heap[b].quantity \in Nat \ {0} /\ heap[b].level \in Levels
      /\ \A other \in OrderIds \ {id} : idToOrder[other] # b
  BY MappedIsLive DEF Reducing
<1>2. /\ shares \in Nat /\ shares > 0 /\ shares < heap[b].quantity
      /\ heap' = [heap EXCEPT ![b].quantity = @ - shares]
      /\ volume' = [volume EXCEPT ![heap[b].level] = @ - shares]
      /\ UNCHANGED <<idToOrder, queue, best>>
      /\ id \in OrderIds /\ b # None
  BY DEF Reducing, Lowered
<1> HIDE DEF b
<1>3. BookType' /\ Coherent'
  BY <1>1, <1>2, ReduceKeepsCoherence DEF SoundBook
<1>4. VolumeType'
  BY <1>1, <1>2 DEF SoundBook, VolumeType
<1>5. BestType' /\ BestPriceIsBest'
  BY <1>2 DEF SoundBook, BestType, BestPriceIsBest
<1>6. SoundBook'
  BY <1>3, <1>4, <1>5 DEF SoundBook
<1>7. Reduces(b, shares)
  BY <1>1, <1>2 DEF Reduces
<1>8. VolumesAreHeld'
  BY <1>1, <1>2, <1>6, <1>7, EffectsKeepVolumes
<1>9. Live' = Live
  BY <1>3, <1>7, ReducesSums DEF SoundBook
<1>10. /\ heap'[b] = [heap[b] EXCEPT !.quantity = @ - shares]
       /\ \A c \in Blocks \ {b} : heap'[c] = heap[c]
  BY <1>1, <1>2 DEF SoundBook, BookType
<1>11. /\ heap'[b].side = heap[b].side /\ heap'[b].level = heap[b].level
       /\ heap'[b].quantity = heap[b].quantity - shares
  BY <1>1, <1>10 DEF RestingOrders
<1>12. Displayed(id) = [side |-> heap[b].side, price |-> heap[b].level[2],
                        shares |-> heap[b].quantity]
  BY <1>2 DEF Displayed, b
<1>13. Displayed(id)' = [side |-> heap[b].side, price |-> heap[b].level[2],
                         shares |-> heap[b].quantity - shares]
  BY <1>2, <1>11 DEF Displayed, b
<1>14. Displayed(id)' = [Displayed(id) EXCEPT !.shares = @ - shares]
  BY <1>12, <1>13
<1>15. shares \in 1 .. Displayed(id).shares /\ shares # Displayed(id).shares
  <2>1. Displayed(id).shares = heap[b].quantity
    BY <1>12
  <2> QED
    BY <1>1, <1>2, <2>1
<1>16. Displayed(id) # None
  <2>1. Displayed(id) \in Shown
    BY <1>2, DisplayedIsShown DEF SoundBook, b
  <2> QED
    BY <2>1, NoneIsNoReplacement
<1>17. ASSUME NEW other \in OrderIds \ {id}
       PROVE  Displayed(other)' = Displayed(other)
  <2>1. CASE idToOrder[other] = None
    BY <1>2, <2>1 DEF Displayed
  <2>2. CASE idToOrder[other] # None
    <3>1. idToOrder[other] \in Blocks \ {b}
      BY <1>1, <2>2, MappedIsLive
    <3> QED
      BY <1>2, <1>10, <2>2, <3>1 DEF Displayed
  <2> QED
    BY <2>1, <2>2
<1> QED
  BY <1>6, <1>8, <1>9, <1>14, <1>15, <1>16, <1>17

\* A cancelled order is gone, and nothing else changes.
LEMMA CancellingEffect ==
    ASSUME ReplayedBook, NEW id, Cancelling(id)
    PROVE  /\ SoundBook' /\ VolumesAreHeld'
           /\ idToOrder[id] \in Live /\ Live' = Live \ {idToOrder[id]}
           /\ Displayed(id) \in Shown /\ Displayed(id) # None
           /\ idToOrder'[id] = None /\ Displayed(id)' = None
           /\ \A other \in OrderIds \ {id} : /\ idToOrder'[other] = idToOrder[other]
                                             /\ Displayed(other)' = Displayed(other)
<1> USE DEF ReplayedBook
<1> DEFINE b == idToOrder[id]
<1>1. /\ b \in Live /\ b \in Blocks /\ heap[b].id = id
      /\ heap[b].level \in Levels
      /\ \A other \in OrderIds \ {id} : idToOrder[other] # b
  BY MappedIsLive DEF Cancelling
<1>2. id \in OrderIds /\ b # None /\ CancelResting(id)
  BY DEF Cancelling
<1>3. SoundBook' /\ idToOrder'[id] = None
  BY <1>2, CancelRestingKeepsSoundBook
<1>4. Removes(b)
  BY <1>2, CancelRemoves DEF SoundBook
<1>5. VolumesAreHeld'
  BY <1>1, <1>3, <1>4, EffectsKeepVolumes
<1>6. Live' = Live \ {b} /\ \A c \in Live' : heap'[c] = heap[c]
  BY <1>3, <1>4, RemovesSums DEF SoundBook
<1>7. PICK i \in DOMAIN queue[heap[b].level] :
         queue[heap[b].level][i] = b /\ TakeOut(heap[b].level, i)
  BY <1>2 DEF CancelResting
<1>8. idToOrder' = [idToOrder EXCEPT ![id] = None]
  BY <1>1, <1>7 DEF TakeOut, Retire
<1>9. \A other \in OrderIds \ {id} : idToOrder'[other] = idToOrder[other]
  BY <1>8 DEF SoundBook, BookType
<1>10. Displayed(id) \in Shown /\ Displayed(id) # None
  BY <1>2, DisplayedIsShown, NoneIsNoReplacement
<1>11. Displayed(id)' = None
  BY <1>3 DEF Displayed
<1>12. ASSUME NEW other \in OrderIds \ {id}
       PROVE  Displayed(other)' = Displayed(other)
  <2>1. CASE idToOrder[other] = None
    BY <1>9, <2>1 DEF Displayed
  <2>2. CASE idToOrder[other] # None
    <3>1. idToOrder[other] \in Live'
      BY <1>1, <1>6, <2>2, MappedIsLive
    <3> QED
      BY <1>6, <1>9, <2>2, <3>1 DEF Displayed
  <2> QED
    BY <2>1, <2>2
<1> QED
  BY <1>1, <1>3, <1>5, <1>6, <1>9, <1>10, <1>11, <1>12

-----------------------------------------------------------------------------
(* What a message can do *)

CountsType == counts \in [Kinds -> Nat]

\* What a replacement is going to add is complete, and its id is free.
AddingIsPossible ==
    /\ adding \in Replacement \cup {None}
    /\ adding # None => idToOrder[adding.id] = None

\* The inductive invariant.
RInv ==
    /\ ReplayedBook
    /\ CallType
    /\ targetStockLocate \in Locates \cup {None}
    /\ CountsType
    /\ AddingIsPossible

NothingStep == UNCHANGED <<bookVars, counts, adding>>

RefuseStep == adding = None /\ Refuse

AddStep ==
    /\ adding = None /\ adding' = None
    /\ Count("adds")
    /\ \E id \in OrderIds, quantity \in Nat, side \in Sides, price \in Prices :
          Placing(id, quantity, side, price)

ReduceStep ==
    /\ adding = None /\ adding' = None
    /\ Count("executions") \/ Count("cancels")
    /\ \E id \in OrderIds :
          \/ \E shares \in Nat : Reducing(id, shares)
          \/ Cancelling(id)

DeleteStep ==
    /\ adding = None /\ adding' = None
    /\ Count("deletes")
    /\ \E id \in OrderIds : Cancelling(id)

ReplaceStep ==
    /\ adding = None /\ adding' \in Replacement
    /\ UNCHANGED counts
    /\ idToOrder[adding'.id] = None
    /\ \E original \in OrderIds :
          /\ Cancelling(original)
          /\ adding'.side = heap[idToOrder[original]].side

FinishStep ==
    /\ adding \in Replacement /\ adding' = None
    /\ Count("replaces")
    /\ Placing(adding.id, adding.quantity, adding.side, adding.price)

MessageStep ==
    \/ NothingStep \/ RefuseStep \/ AddStep \/ ReduceStep \/ DeleteStep
    \/ ReplaceStep \/ FinishStep

\* Shares that fit a Quantity stay what they are.
LEMMA NarrowedIsTheSame ==
    ASSUME NEW shares, FitsQuantity(shares)
    PROVE  Narrowed(shares) = shares /\ shares \in Nat
BY SharesAreUnsigned, QuantityIsSigned DEF FitsQuantity, Narrowed

\* An add message places its order, or is refused.
LEMMA AddOrderDoes ==
    ASSUME NEW m, m.orderReferenceNumber \in OrderIds, FitsQuantity(m.shares), OnAddOrder(m)
    PROVE  IF AddRefused(m.orderReferenceNumber, m.price, m.shares) THEN Refuse
           ELSE /\ Placing(m.orderReferenceNumber, m.shares, SideOf(m), m.price)
                /\ Count("adds")
                /\ UNCHANGED <<targetStockLocate, adding>>
<1>1. SideOf(m) \in Sides
  BY DEF SideOf, Sides
<1>2. Narrowed(m.shares) = m.shares /\ m.shares \in Nat
  BY NarrowedIsTheSame
<1> QED
  BY <1>1, <1>2 DEF OnAddOrder, AddRefused, Placing

\* A message that reduces an order does so or is refused; an order of which
\* nothing is left is cancelled.
LEMMA ReductionDoes ==
    ASSUME RInv, NEW kind, NEW m, m.orderReferenceNumber \in OrderIds, NEW shares,
           FitsQuantity(shares), OnReduction(kind, m, shares)
    PROVE  IF ReduceRefused(m.orderReferenceNumber, shares) THEN Refuse
           ELSE /\ IF UsesUp(m.orderReferenceNumber, shares)
                   THEN Cancelling(m.orderReferenceNumber)
                   ELSE Reducing(m.orderReferenceNumber, shares)
                /\ Count(kind)
                /\ UNCHANGED <<targetStockLocate, adding>>
<1> DEFINE id == m.orderReferenceNumber
<1>1. Narrowed(shares) = shares /\ shares \in Nat
  BY NarrowedIsTheSame
<1>2. CASE ReduceRefused(id, shares)
  BY <1>1, <1>2 DEF OnReduction
<1>3. CASE ~ReduceRefused(id, shares)
  <2>1. idToOrder[id] # None /\ shares # 0 /\ ~(shares > heap[idToOrder[id]].quantity)
    BY <1>3 DEF ReduceRefused
  <2>2. /\ ReduceVisible(id, shares) /\ Count(kind)
        /\ UNCHANGED <<targetStockLocate, adding>>
    BY <1>1, <1>3 DEF OnReduction
  <2>3. CASE UsesUp(id, shares)
    BY <1>3, <2>1, <2>2, <2>3 DEF ReduceVisible, Cancelling
  <2>4. CASE ~UsesUp(id, shares)
    <3>1. heap[idToOrder[id]].quantity \in Nat
      BY <2>1, MappedIsLive DEF RInv, ReplayedBook
    <3>2. shares < heap[idToOrder[id]].quantity
      BY <1>1, <2>1, <2>4, <3>1 DEF UsesUp
    <3> QED
      BY <1>1, <1>3, <2>1, <2>2, <2>4, <3>2 DEF ReduceVisible, Reducing
  <2> QED
    BY <2>3, <2>4
<1> QED
  BY <1>2, <1>3

\* A delete message cancels its order, or is refused.
LEMMA DeleteDoes ==
    ASSUME NEW m, m.orderReferenceNumber \in OrderIds, OnOrderDelete(m)
    PROVE  IF idToOrder[m.orderReferenceNumber] = None THEN Refuse
           ELSE /\ Cancelling(m.orderReferenceNumber)
                /\ Count("deletes")
                /\ UNCHANGED <<targetStockLocate, adding>>
BY DEF OnOrderDelete, Cancelling

\* A replace message begins a replacement that can be finished, or is refused.
LEMMA ReplaceDoes ==
    ASSUME RInv, NEW m, m.originalOrderReferenceNumber \in OrderIds,
           m.newOrderReferenceNumber \in OrderIds, FitsQuantity(m.shares), OnOrderReplace(m)
    PROVE  IF ReplaceRefused(m.originalOrderReferenceNumber, m.newOrderReferenceNumber,
                             m.price, m.shares)
           THEN Refuse
           ELSE /\ Cancelling(m.originalOrderReferenceNumber)
                /\ idToOrder[m.newOrderReferenceNumber] = None
                /\ adding' \in Replacement
                /\ adding' = [id |-> m.newOrderReferenceNumber, price |-> m.price,
                              quantity |-> m.shares,
                              side |-> heap[idToOrder[m.originalOrderReferenceNumber]].side]
                /\ UNCHANGED <<targetStockLocate, counts>>
<1> DEFINE old == m.originalOrderReferenceNumber
           new == m.newOrderReferenceNumber
           side == heap[idToOrder[old]].side
<1>1. Narrowed(m.shares) = m.shares /\ m.shares \in Nat
  BY NarrowedIsTheSame
<1>2. CASE ReplaceRefused(old, new, m.price, m.shares)
  BY <1>1, <1>2 DEF OnOrderReplace
<1>3. CASE ~ReplaceRefused(old, new, m.price, m.shares)
  <2>1. /\ idToOrder[old] # None /\ idToOrder[new] = None
        /\ m.price \in Prices /\ m.shares \in Nat \ {0}
    BY <1>1, <1>3 DEF ReplaceRefused, AddRefused
  <2>2. /\ CancelResting(old)
        /\ adding' = [id |-> new, price |-> m.price, quantity |-> m.shares, side |-> side]
        /\ UNCHANGED <<targetStockLocate, counts>>
    BY <1>1, <1>3 DEF OnOrderReplace
  <2>3. side \in Sides
    BY <2>1, MappedIsLive DEF RInv, ReplayedBook
  <2> HIDE DEF side
  <2>4. adding' \in Replacement
    BY <2>1, <2>2, <2>3 DEF Replacement
  <2> QED
    BY <1>3, <2>1, <2>2, <2>4 DEF Cancelling, side
<1> QED
  BY <1>2, <1>3

\* A message that fits is one of the steps above.
LEMMA OneMessageSteps ==
    ASSUME RInv, adding = None, NEW type, NEW m, Acceptable(type, m), OnMessage(type, m)
    PROVE  /\ MessageStep
           /\ targetStockLocate' \in Locates \cup {None}
<1>1. CASE Ignored
  BY <1>1 DEF Ignored, engineVars, MessageStep, NothingStep, RInv
<1>2. CASE Refuse
  BY <1>2 DEF Refuse, MessageStep, RefuseStep, RInv
<1>3. CASE type = "R" /\ OnStockDirectory(m)
  BY <1>3 DEF OnStockDirectory, Ignored, engineVars, MessageStep, NothingStep, RInv, Acceptable
<1>4. CASE type \in {"A", "F"} /\ OnAddOrder(m) /\ ~Refuse
  <2>1. m.orderReferenceNumber \in OrderIds /\ FitsQuantity(m.shares)
    BY <1>4 DEF Acceptable
  <2>2. /\ Placing(m.orderReferenceNumber, m.shares, SideOf(m), m.price)
        /\ Count("adds")
        /\ UNCHANGED <<targetStockLocate, adding>>
    BY <1>4, <2>1, AddOrderDoes
  <2>3. m.shares \in Nat /\ SideOf(m) \in Sides /\ m.price \in Prices
    BY <2>2 DEF Placing
  <2>4. AddStep
    BY <2>1, <2>2, <2>3 DEF AddStep
  <2> QED
    BY <2>2, <2>4 DEF MessageStep, RInv
<1>5. ASSUME NEW kind \in {"executions", "cancels"}, m.orderReferenceNumber \in OrderIds,
             NEW shares, FitsQuantity(shares), OnReduction(kind, m, shares), ~Refuse
      PROVE  MessageStep /\ targetStockLocate' \in Locates \cup {None}
  <2> DEFINE id == m.orderReferenceNumber
  <2>1. /\ Cancelling(id) \/ Reducing(id, shares)
        /\ Count(kind)
        /\ UNCHANGED <<targetStockLocate, adding>>
    BY <1>5, ReductionDoes
  <2>2. id \in OrderIds /\ shares \in Nat
    BY <1>5, NarrowedIsTheSame
  <2> HIDE DEF id
  <2>3. ReduceStep
    BY <2>1, <2>2 DEF ReduceStep
  <2> QED
    BY <2>1, <2>3 DEF MessageStep, RInv
<1>6. CASE \/ type \in {"E", "C"} /\ OnReduction("executions", m, m.executedShares) /\ ~Refuse
           \/ type = "X" /\ OnReduction("cancels", m, m.cancelledShares) /\ ~Refuse
  BY <1>5, <1>6 DEF Acceptable
<1>7. CASE type = "D" /\ OnOrderDelete(m) /\ ~Refuse
  <2>1. m.orderReferenceNumber \in OrderIds
    BY <1>7 DEF Acceptable
  <2>2. /\ Cancelling(m.orderReferenceNumber) /\ Count("deletes")
        /\ UNCHANGED <<targetStockLocate, adding>>
    BY <1>7, <2>1, DeleteDoes
  <2> QED
    BY <2>1, <2>2 DEF DeleteStep, MessageStep, RInv
<1>8. CASE type = "U" /\ OnOrderReplace(m) /\ ~Refuse
  <2> DEFINE old == m.originalOrderReferenceNumber
  <2>1. /\ old \in OrderIds /\ m.newOrderReferenceNumber \in OrderIds
        /\ FitsQuantity(m.shares)
    BY <1>8 DEF Acceptable
  <2>2. /\ Cancelling(old) /\ idToOrder[m.newOrderReferenceNumber] = None
        /\ adding' \in Replacement
        /\ adding'.id = m.newOrderReferenceNumber
        /\ adding'.side = heap[idToOrder[old]].side
        /\ UNCHANGED <<targetStockLocate, counts>>
    BY <1>8, <2>1, ReplaceDoes
  <2> HIDE DEF old
  <2>3. ReplaceStep
    BY <2>1, <2>2 DEF ReplaceStep
  <2> QED
    BY <2>2, <2>3 DEF MessageStep, RInv
<1> QED
  BY <1>1, <1>2, <1>3, <1>4, <1>6, <1>7, <1>8 DEF OnMessage

\* The second half of a replacement is always carried out.
LEMMA AddReplacementSteps ==
    ASSUME RInv, AddReplacement
    PROVE  FinishStep /\ UNCHANGED targetStockLocate
<1>1. /\ adding \in Replacement /\ adding' = None
      /\ idToOrder[adding.id] = None
  BY DEF AddReplacement, RInv, AddingIsPossible
<1>2. /\ adding.id \in OrderIds /\ adding.price \in Prices
      /\ adding.quantity \in Nat \ {0} /\ adding.side \in Sides
  BY <1>1 DEF Replacement
<1>3. ~AddRefused(adding.id, adding.price, adding.quantity)
  BY <1>1, <1>2 DEF AddRefused
<1> QED
  BY <1>1, <1>2, <1>3 DEF AddReplacement, Placing, FinishStep

LEMMA OnMessageSteps ==
    ASSUME SharesFit, RInv, ReplayNext
    PROVE  /\ MessageStep
           /\ targetStockLocate' \in Locates \cup {None}
           /\ UNCHANGED callVars
<1>1. UNCHANGED callVars
  BY DEF ReplayNext, Receive
<1>2. \A shares \in Shares : FitsQuantity(shares)
  BY DEF SharesFit, FitsQuantity
<1>3. ASSUME NEW type, NEW messages, Receive(type, messages),
             \A m \in messages : Acceptable(type, m)
      PROVE  MessageStep /\ targetStockLocate' \in Locates \cup {None}
  BY <1>3, OneMessageSteps DEF Receive
<1>4. /\ \A m \in Directories : Acceptable("R", m)
      /\ \A m \in Additions : Acceptable("A", m)
      /\ \A m \in Executed : Acceptable("E", m)
      /\ \A m \in Cancelled : Acceptable("X", m)
      /\ \A m \in Deletions : Acceptable("D", m)
      /\ \A m \in Replacements : Acceptable("U", m)
  BY <1>2 DEF Acceptable, Directories, Additions, Executed, Cancelled, Deletions, Replacements
<1>5. ASSUME AddReplacement
      PROVE  MessageStep /\ targetStockLocate' \in Locates \cup {None}
  <2>1. FinishStep /\ UNCHANGED targetStockLocate
    BY <1>5, AddReplacementSteps
  <2> QED
    BY <2>1 DEF MessageStep, RInv
<1> QED
  BY <1>1, <1>3, <1>4, <1>5 DEF ReplayNext

-----------------------------------------------------------------------------
(* The invariant *)

LEMMA CountedType ==
    ASSUME CountsType, NEW kind \in Kinds, Count(kind)
    PROVE  /\ CountsType'
           /\ counts'[kind] = counts[kind] + 1
           /\ \A other \in Kinds \ {kind} : counts'[other] = counts[other]
BY DEF CountsType, Count

LEMMA CallTypeUnchanged ==
    ASSUME CallType, UNCHANGED callVars
    PROVE  CallType'
BY DEF CallType, callVars

LEMMA BookTextUnchanged ==
    ASSUME SoundBook, VolumesAreHeld, UNCHANGED bookVars, pc' = pc, cursor' = cursor
    PROVE  SoundBook' /\ VolumesAreHeld'
<1>1. SoundBook'
  BY DEF SoundBook, bookVars, BookType, VolumeType, BestType, BestPriceIsBest, Coherent,
         MapMatchesPool, QueuesMatchPool, RestingOrdersHaveShares, Live
<1>2. VolumesAreHeld'
  BY DEF bookVars, VolumesAreHeld, HeldOn, OnLevel, Held, Live
<1> QED
  BY <1>1, <1>2

\* Every message keeps the book sound and finds its id as it left it.
LEMMA MessageKeepsBook ==
    ASSUME RInv, MessageStep, UNCHANGED callVars
    PROVE  /\ ReplayedBook'
           /\ CountsType'
           /\ AddingIsPossible'
<1> USE DEF RInv
<1>1. pc' = pc /\ cursor' = cursor /\ (ReplayedBook' <=> SoundBook' /\ VolumesAreHeld')
  BY DEF callVars, ReplayedBook
<1>k. /\ "adds" \in Kinds /\ "executions" \in Kinds /\ "cancels" \in Kinds
      /\ "deletes" \in Kinds /\ "replaces" \in Kinds /\ "failures" \in Kinds
  BY DEF Kinds
<1>2. CASE NothingStep
  <2>1. SoundBook' /\ VolumesAreHeld'
    BY <1>1, <1>2, BookTextUnchanged DEF ReplayedBook, NothingStep
  <2>2. counts' = counts /\ adding' = adding /\ idToOrder' = idToOrder
    BY <1>2 DEF NothingStep, bookVars
  <2> QED
    BY <1>1, <2>1, <2>2 DEF CountsType, AddingIsPossible
<1>3. CASE RefuseStep
  <2>1. SoundBook' /\ VolumesAreHeld'
    BY <1>1, <1>3, BookTextUnchanged DEF ReplayedBook, RefuseStep, Refuse
  <2>2. CountsType'
    BY <1>3, <1>k, CountedType DEF RefuseStep, Refuse
  <2>3. adding' = None
    BY <1>3 DEF RefuseStep, Refuse
  <2> QED
    BY <1>1, <2>1, <2>2, <2>3 DEF AddingIsPossible
<1>4. CASE AddStep
  <2>1. SoundBook' /\ VolumesAreHeld'
    BY <1>4, PlacingEffect DEF AddStep
  <2>2. CountsType' /\ adding' = None
    BY <1>4, <1>k, CountedType DEF AddStep
  <2> QED
    BY <1>1, <2>1, <2>2 DEF AddingIsPossible
<1>5. CASE ReduceStep
  <2>1. SoundBook' /\ VolumesAreHeld'
    BY <1>1, <1>5, ReducingEffect, CancellingEffect DEF ReduceStep
  <2>2. CountsType' /\ adding' = None
    BY <1>5, <1>k, CountedType DEF ReduceStep
  <2> QED
    BY <1>1, <2>1, <2>2 DEF AddingIsPossible
<1>6. CASE DeleteStep
  <2>1. SoundBook' /\ VolumesAreHeld'
    BY <1>6, CancellingEffect DEF DeleteStep
  <2>2. CountsType' /\ adding' = None
    BY <1>6, <1>k, CountedType DEF DeleteStep
  <2> QED
    BY <1>1, <2>1, <2>2 DEF AddingIsPossible
<1>7. CASE ReplaceStep
  <2>1. PICK original \in OrderIds : Cancelling(original)
    BY <1>7 DEF ReplaceStep
  <2>2. /\ SoundBook' /\ VolumesAreHeld' /\ idToOrder'[original] = None
        /\ \A other \in OrderIds \ {original} : idToOrder'[other] = idToOrder[other]
    BY <2>1, CancellingEffect
  <2>3. adding' \in Replacement /\ adding'.id \in OrderIds /\ idToOrder[adding'.id] = None
        /\ counts' = counts
    BY <1>7 DEF ReplaceStep, Replacement
  <2>4. idToOrder'[adding'.id] = None
    BY <2>2, <2>3
  <2> QED
    BY <1>1, <2>2, <2>3, <2>4 DEF AddingIsPossible, CountsType
<1>8. CASE FinishStep
  <2>1. SoundBook' /\ VolumesAreHeld'
    BY <1>8, PlacingEffect DEF FinishStep
  <2>2. CountsType' /\ adding' = None
    BY <1>8, <1>k, CountedType DEF FinishStep
  <2> QED
    BY <1>1, <2>1, <2>2 DEF AddingIsPossible
<1> QED
  BY <1>2, <1>3, <1>4, <1>5, <1>6, <1>7, <1>8 DEF MessageStep

LEMMA UnchangedKeepsRInv ==
    ASSUME RInv, UNCHANGED replayVars
    PROVE  RInv'
<1>1. /\ UNCHANGED bookVars /\ UNCHANGED callVars /\ pc' = pc /\ cursor' = cursor
      /\ targetStockLocate' = targetStockLocate /\ counts' = counts /\ adding' = adding
      /\ idToOrder' = idToOrder
  BY DEF replayVars, bookVars, callVars
<1>2. SoundBook' /\ VolumesAreHeld'
  BY <1>1, BookTextUnchanged DEF RInv, ReplayedBook
<1> QED
  BY <1>1, <1>2, CallTypeUnchanged DEF RInv, ReplayedBook, CountsType, AddingIsPossible

LEMMA NextKeepsRInv ==
    ASSUME SharesFit, RInv, [ReplayNext]_replayVars
    PROVE  RInv'
<1>1. CASE ReplayNext
  <2>1. /\ MessageStep
        /\ targetStockLocate' \in Locates \cup {None}
        /\ UNCHANGED callVars
    BY <1>1, OnMessageSteps
  <2>2. ReplayedBook' /\ CountsType' /\ AddingIsPossible'
    BY <2>1, MessageKeepsBook
  <2> QED
    BY <2>1, <2>2, CallTypeUnchanged DEF RInv
<1> QED
  BY <1>1, UnchangedKeepsRInv

LEMMA InitRInv == ReplayInit => RInv
<1> SUFFICES ASSUME ReplayInit PROVE RInv
  OBVIOUS
<1>1. Init /\ pc = "idle"
  BY DEF ReplayInit, Init
<1>2. SoundBook /\ CallType
  BY <1>1, InitIInv DEF IInv, BookInv, SoundBook
<1>3. VolumesAreHeld
  BY <1>1, InitVolumes
<1> QED
  BY <1>1, <1>2, <1>3 DEF ReplayInit, RInv, ReplayedBook, CountsType, AddingIsPossible

LEMMA RInvHolds == SharesFit => (ReplaySpec => []RInv)
<1> SUFFICES ASSUME SharesFit PROVE ReplaySpec => []RInv
  OBVIOUS
<1>1. RInv /\ [ReplayNext]_replayVars => RInv'
  BY NextKeepsRInv
<1> QED
  BY InitRInv, <1>1, PTL DEF ReplaySpec

\* Every variable of the replayed book and of the engine keeps its type.
THEOREM ReplayTypeCorrect == SharesFit => (ReplaySpec => []ReplayTypeOK)
<1>1. RInv => ReplayTypeOK
  BY TypeOKParts DEF RInv, ReplayedBook, SoundBook, CountsType, AddingIsPossible, ReplayTypeOK
<1> QED
  BY RInvHolds, <1>1, PTL

\* The replay operations keep the map, the pool, the levels, the best prices
\* and the cached volumes of the book in agreement, whatever messages come in
\* whatever order, as long as the shares of each fit a Quantity.
THEOREM ReplayedBookIsSound == SharesFit => (ReplaySpec => []ReplayKeepsBookSound)
<1>1. RInv => ReplayKeepsBookSound
  BY QueueHolds DEF RInv, ReplayedBook, SoundBook, VolumesAreHeld, VolumeIsSum,
                    ReplayKeepsBookSound
<1> QED
  BY RInvHolds, <1>1, PTL

-----------------------------------------------------------------------------
(* The counters *)

\* How many orders rest after an order has joined or left.
LEMMA LiveCount ==
    ASSUME ReplayedBook
    PROVE  /\ Cardinality(Live) \in Nat
           /\ \A b : b \notin Live => Cardinality(Live \cup {b}) = Cardinality(Live) + 1
           /\ \A b \in Live : Cardinality(Live \ {b}) = Cardinality(Live) - 1
BY LiveIsFinite, FS_CardinalityType, FS_AddElement, FS_RemoveElement
   DEF ReplayedBook, SoundBook

LEMMA MessageKeepsCounters ==
    ASSUME RInv, CountersMatchBook, MessageStep
    PROVE  CountersMatchBook'
<1> USE DEF RInv
<1> DEFINE live == Cardinality(Live)
           half == IF adding # None THEN 1 ELSE 0
<1>1. live \in Nat /\ half \in Nat /\ Visible = live + half
  BY LiveCount DEF Visible
<1>2. /\ counts["adds"] \in Nat /\ counts["executions"] \in Nat
      /\ counts["cancels"] \in Nat /\ counts["deletes"] \in Nat
  BY DEF CountsType, Kinds
<1>3. /\ live + half + counts["deletes"] <= counts["adds"]
      /\ counts["adds"] <= live + half + counts["deletes"] + counts["executions"]
                               + counts["cancels"]
  BY <1>1 DEF CountersMatchBook
<1>4. /\ "adds" \in Kinds /\ "executions" \in Kinds /\ "cancels" \in Kinds
      /\ "deletes" \in Kinds /\ "replaces" \in Kinds /\ "failures" \in Kinds
  BY DEF Kinds
<1>5. CountersMatchBook' <=>
         /\ live' + half' + counts'["deletes"] <= counts'["adds"]
         /\ counts'["adds"] <= live' + half' + counts'["deletes"] + counts'["executions"]
                                  + counts'["cancels"]
  BY DEF CountersMatchBook, Visible
<1>6. CASE NothingStep
  <2>1. live' = live /\ half' = half /\ counts' = counts
    BY <1>6 DEF NothingStep, bookVars, Live
  <2> QED
    BY <1>3, <1>5, <2>1
<1>7. CASE RefuseStep
  <2>1. live' = live /\ half' = half
    BY <1>7 DEF RefuseStep, Refuse, bookVars, Live
  <2>2. \A kind \in {"adds", "executions", "cancels", "deletes"} : counts'[kind] = counts[kind]
    BY <1>4, <1>7, CountedType DEF RefuseStep, Refuse
  <2> QED
    BY <1>3, <1>5, <2>1, <2>2
<1>8. CASE AddStep
  <2>1. PICK b : b \notin Live /\ Live' = Live \cup {b}
    BY <1>8, PlacingEffect DEF AddStep
  <2>2. live' = live + 1 /\ half' = 0 /\ half = 0
    BY <1>8, <2>1, LiveCount DEF AddStep
  <2>3. /\ counts'["adds"] = counts["adds"] + 1
        /\ \A kind \in {"executions", "cancels", "deletes"} : counts'[kind] = counts[kind]
    BY <1>4, <1>8, CountedType DEF AddStep
  <2> HIDE DEF live, half
  <2> QED
    BY <1>1, <1>2, <1>3, <1>5, <2>2, <2>3
<1>9. CASE DeleteStep
  <2>1. PICK b \in Live : Live' = Live \ {b}
    BY <1>9, CancellingEffect DEF DeleteStep
  <2>2. live' = live - 1 /\ half' = 0 /\ half = 0
    BY <1>9, <2>1, LiveCount DEF DeleteStep
  <2>3. /\ counts'["deletes"] = counts["deletes"] + 1
        /\ \A kind \in {"adds", "executions", "cancels"} : counts'[kind] = counts[kind]
    BY <1>4, <1>9, CountedType DEF DeleteStep
  <2> HIDE DEF live, half
  <2> QED
    BY <1>1, <1>2, <1>3, <1>5, <2>2, <2>3
<1>10. CASE ReduceStep
  <2>1. live' = live \/ live' = live - 1
    <3>1. PICK id \in OrderIds :
             (\E shares \in Nat : Reducing(id, shares)) \/ Cancelling(id)
      BY <1>10 DEF ReduceStep
    <3>2. ASSUME NEW shares \in Nat, Reducing(id, shares)
          PROVE  live' = live
      BY <3>2, ReducingEffect
    <3>3. CASE Cancelling(id)
      BY <3>3, CancellingEffect, LiveCount
    <3> QED
      BY <3>1, <3>2, <3>3
  <2>2. half' = 0 /\ half = 0
    BY <1>10 DEF ReduceStep
  <2>3. /\ counts'["adds"] = counts["adds"] /\ counts'["deletes"] = counts["deletes"]
        /\ \/ /\ counts'["executions"] = counts["executions"] + 1
              /\ counts'["cancels"] = counts["cancels"]
           \/ /\ counts'["cancels"] = counts["cancels"] + 1
              /\ counts'["executions"] = counts["executions"]
    BY <1>4, <1>10, CountedType DEF ReduceStep
  <2> HIDE DEF live, half
  <2> QED
    BY <1>1, <1>2, <1>3, <1>5, <2>1, <2>2, <2>3
<1>11. CASE ReplaceStep
  <2>1. PICK b \in Live : Live' = Live \ {b}
    BY <1>11, CancellingEffect DEF ReplaceStep
  <2>2. live' = live - 1 /\ half' = 1 /\ half = 0 /\ counts' = counts
    BY <1>11, <2>1, LiveCount, NoneIsNoReplacement DEF ReplaceStep
  <2> HIDE DEF live, half
  <2> QED
    BY <1>1, <1>2, <1>3, <1>5, <2>2
<1>12. CASE FinishStep
  <2>1. PICK b : b \notin Live /\ Live' = Live \cup {b}
    BY <1>12, PlacingEffect DEF FinishStep
  <2>2. live' = live + 1 /\ half' = 0 /\ half = 1
    BY <1>12, <2>1, LiveCount, NoneIsNoReplacement DEF FinishStep
  <2>3. \A kind \in {"adds", "executions", "cancels", "deletes"} : counts'[kind] = counts[kind]
    BY <1>4, <1>12, CountedType DEF FinishStep
  <2> HIDE DEF live, half
  <2> QED
    BY <1>1, <1>2, <1>3, <1>5, <2>2, <2>3
<1> QED
  BY <1>6, <1>7, <1>8, <1>9, <1>10, <1>11, <1>12 DEF MessageStep

\* The counters that print_summary prints account for the orders that are
\* active: a replacement costs no order, a refused message changes nothing,
\* and an order goes only by a deletion or by reductions.
THEOREM CountersAreTrue == SharesFit => (ReplaySpec => []CountersMatchBook)
<1> SUFFICES ASSUME SharesFit PROVE ReplaySpec => []CountersMatchBook
  OBVIOUS
<1>1. ReplayInit => CountersMatchBook
  <2> SUFFICES ASSUME ReplayInit PROVE CountersMatchBook
    OBVIOUS
  <2>1. Live = {} /\ adding = None /\ \A kind \in Kinds : counts[kind] = 0
    BY DEF ReplayInit, Init, Live
  <2>2. Visible = 0
    BY <2>1, FS_EmptySet DEF Visible
  <2> QED
    BY <2>1, <2>2 DEF CountersMatchBook, Kinds
<1>2. RInv /\ CountersMatchBook /\ [ReplayNext]_replayVars => CountersMatchBook'
  <2> SUFFICES ASSUME RInv, CountersMatchBook, [ReplayNext]_replayVars
               PROVE  CountersMatchBook'
    OBVIOUS
  <2>1. CASE ReplayNext
    BY <2>1, OnMessageSteps, MessageKeepsCounters
  <2>2. CASE UNCHANGED replayVars
    <3>1. counts' = counts /\ adding' = adding /\ heap' = heap
      BY <2>2 DEF replayVars
    <3> QED
      BY <3>1 DEF CountersMatchBook, Visible, Live
  <2> QED
    BY <2>1, <2>2
<1> QED
  BY <1>1, <1>2, RInvHolds, PTL DEF ReplaySpec

-----------------------------------------------------------------------------
(* The book that the feed describes *)

LEMMA SameWords ==
    /\ Promise!Kinds = Kinds
    /\ Promise!Orders = Shown
BY DEF Promise!Kinds, Kinds, Promise!Orders, Promise!Sides, Promise!Prices, Sides, Prices, Shown

\* The two variables of the promise.
VisibleOrders == [id \in OrderIds |-> VisibleOrder(id)]
VisibleCounts == [counts EXCEPT !["replaces"] = @ + (IF adding # None THEN 1 ELSE 0)]

\* Without an unfinished replacement, what is visible is what is displayed.
LEMMA VisibleIsDisplayed ==
    /\ adding = None => \A id \in OrderIds : VisibleOrder(id) = Displayed(id)
    /\ adding # None =>
          \A id \in OrderIds : VisibleOrder(id) =
             IF id = adding.id
             THEN [side |-> adding.side, price |-> adding.price, shares |-> adding.quantity]
             ELSE Displayed(id)
BY DEF VisibleOrder, Displayed

\* The visible counters count what the concrete ones do.
LEMMA CountingShows ==
    ASSUME CountsType, adding = None, adding' = None, NEW kind \in Kinds, Count(kind)
    PROVE  VisibleCounts' = [VisibleCounts EXCEPT ![kind] = @ + 1]
<1>1. VisibleCounts = counts /\ VisibleCounts' = counts'
  BY CountedType DEF VisibleCounts, CountsType, Kinds
<1> QED
  BY <1>1 DEF Count

LEMMA CountsOnce ==
    ASSUME CountsType, adding = None, adding' = None, NEW kind \in Kinds, Count(kind)
    PROVE  Promise!Count(kind)
BY CountingShows DEF Promise!Count, VisibleCounts

\* The visible orders after a change to one of them.
LEMMA OneChange ==
    ASSUME adding = None, adding' = None, NEW id \in OrderIds, NEW is, Displayed(id)' = is,
           \A other \in OrderIds \ {id} : Displayed(other)' = Displayed(other)
    PROVE  /\ VisibleOrders' = [VisibleOrders EXCEPT ![id] = is]
           /\ VisibleOrders[id] = Displayed(id) /\ VisibleOrders'[id] = is
<1>1. \A other \in OrderIds : /\ VisibleOrder(other) = Displayed(other)
                              /\ VisibleOrder(other)' = Displayed(other)'
  BY DEF VisibleOrder, Displayed
<1> QED
  BY <1>1 DEF VisibleOrders

\* An order that is placed becomes visible.
LEMMA PlacingShows ==
    ASSUME RInv, adding = None, adding' = None,
           NEW id, NEW quantity, NEW side, NEW price, Placing(id, quantity, side, price)
    PROVE  /\ id \in OrderIds /\ VisibleOrders[id] = None
           /\ [side |-> side, price |-> price, shares |-> quantity] \in Shown
           /\ VisibleOrders' = [VisibleOrders EXCEPT
                 ![id] = [side |-> side, price |-> price, shares |-> quantity]]
<1> DEFINE is == [side |-> side, price |-> price, shares |-> quantity]
<1>1. id \in OrderIds /\ Displayed(id) = None /\ is \in Shown
  BY DEF Placing, Displayed, Shown
<1>2. /\ Displayed(id)' = is
      /\ \A other \in OrderIds \ {id} : Displayed(other)' = Displayed(other)
  BY PlacingEffect DEF RInv
<1> HIDE DEF is
<1>3. VisibleOrders' = [VisibleOrders EXCEPT ![id] = is] /\ VisibleOrders[id] = Displayed(id)
  BY <1>1, <1>2, OneChange
<1> QED
  BY <1>1, <1>3 DEF is

\* An order that is reduced shows fewer shares.
LEMMA ReducingShows ==
    ASSUME RInv, adding = None, adding' = None, NEW id, NEW shares, Reducing(id, shares)
    PROVE  /\ id \in OrderIds /\ VisibleOrders[id] \in Shown
           /\ shares \in 1 .. (VisibleOrders[id].shares - 1)
           /\ VisibleOrders' = [VisibleOrders EXCEPT ![id] = Promise!Reduced(@, shares)]
<1> DEFINE is == Promise!Reduced(Displayed(id), shares)
<1>1. id \in OrderIds /\ Displayed(id) \in Shown
  BY DisplayedIsShown DEF Reducing, RInv, ReplayedBook
<1>2. /\ Displayed(id)' = is
      /\ shares \in 1 .. Displayed(id).shares /\ shares # Displayed(id).shares
      /\ \A other \in OrderIds \ {id} : Displayed(other)' = Displayed(other)
  BY ReducingEffect DEF RInv, Promise!Reduced
<1>3. Displayed(id).shares \in Nat
  BY <1>1 DEF Shown
<1> HIDE DEF is
<1>4. VisibleOrders' = [VisibleOrders EXCEPT ![id] = is] /\ VisibleOrders[id] = Displayed(id)
  BY <1>1, <1>2, OneChange
<1> QED
  BY <1>1, <1>2, <1>3, <1>4 DEF is

\* An order that is cancelled is no longer visible.
LEMMA CancellingShows ==
    ASSUME RInv, adding = None, adding' = None, NEW id, Cancelling(id)
    PROVE  /\ id \in OrderIds /\ VisibleOrders[id] \in Shown
           /\ VisibleOrders' = [VisibleOrders EXCEPT ![id] = None]
<1>1. /\ id \in OrderIds /\ Displayed(id) \in Shown /\ Displayed(id)' = None
      /\ \A other \in OrderIds \ {id} : Displayed(other)' = Displayed(other)
  BY CancellingEffect DEF RInv, Cancelling
<1> QED
  BY <1>1, OneChange

\* The deletion of the old order already replaces it: what is to be added is
\* visible from then on.
LEMMA ReplacingShows ==
    ASSUME RInv, adding = None, adding' \in Replacement, idToOrder[adding'.id] = None,
           NEW old, Cancelling(old), adding'.side = heap[idToOrder[old]].side
    PROVE  LET new == adding'.id
               is  == [side |-> adding'.side, price |-> adding'.price, shares |-> adding'.quantity]
           IN  /\ old \in OrderIds /\ VisibleOrders[old] \in Shown
               /\ new \in OrderIds /\ VisibleOrders[new] = None
               /\ is \in Shown /\ is.side = VisibleOrders[old].side
               /\ VisibleOrders' = [VisibleOrders EXCEPT ![old] = None, ![new] = is]
<1> DEFINE new == adding'.id
           is == [side |-> adding'.side, price |-> adding'.price, shares |-> adding'.quantity]
<1>1. /\ adding' # None /\ new \in OrderIds /\ is \in Shown
      /\ is.side = adding'.side
  BY NoneIsNoReplacement DEF Replacement, Shown
<1>2. /\ old \in OrderIds /\ idToOrder[old] # None
      /\ Displayed(old) \in Shown /\ Displayed(old)' = None
      /\ \A other \in OrderIds \ {old} : Displayed(other)' = Displayed(other)
  BY CancellingEffect DEF RInv, Cancelling
<1>3. Displayed(new) = None /\ new # old
  BY <1>2 DEF Displayed
<1>4. is.side = Displayed(old).side
  BY <1>1, <1>2 DEF Displayed
<1>5. \A id \in OrderIds : /\ VisibleOrder(id) = Displayed(id)
                           /\ VisibleOrder(id)' = IF id = new THEN is ELSE Displayed(id)'
  BY <1>1 DEF VisibleOrder, Displayed
<1> HIDE DEF new, is
<1>6. /\ VisibleOrders' = [VisibleOrders EXCEPT ![old] = None, ![new] = is]
      /\ VisibleOrders[old] = Displayed(old) /\ VisibleOrders[new] = Displayed(new)
  BY <1>1, <1>2, <1>3, <1>5 DEF VisibleOrders
<1> QED
  BY <1>1, <1>2, <1>3, <1>4, <1>6 DEF new, is

\* While a replacement is under way it is already counted.
LEMMA BeginningCounts ==
    ASSUME CountsType, adding = None, adding' # None, UNCHANGED counts
    PROVE  VisibleCounts' = [VisibleCounts EXCEPT !["replaces"] = @ + 1]
<1>1. VisibleCounts = counts /\ VisibleCounts' = [counts EXCEPT !["replaces"] = @ + 1]
  BY DEF VisibleCounts, CountsType, Kinds
<1> QED
  BY <1>1

LEMMA AddImplements ==
    ASSUME RInv, AddStep
    PROVE  Promise!Add
<1>1. PICK id, quantity, side, price : Placing(id, quantity, side, price)
  BY DEF AddStep
<1>2. adding = None /\ adding' = None /\ CountsType /\ Count("adds")
  BY DEF AddStep, RInv
<1> DEFINE is == [side |-> side, price |-> price, shares |-> quantity]
<1>3. /\ id \in OrderIds /\ VisibleOrders[id] = None /\ is \in Shown
      /\ VisibleOrders' = [VisibleOrders EXCEPT ![id] = is]
  BY <1>1, <1>2, PlacingShows
<1> HIDE DEF is
<1>4. Promise!Count("adds")
  BY <1>2, CountsOnce DEF Kinds
<1> QED
  BY <1>3, <1>4, SameWords DEF Promise!Add, VisibleOrders

LEMMA ReduceImplements ==
    ASSUME RInv, ReduceStep
    PROVE  Promise!Reduce
<1>1. PICK id : (\E shares : Reducing(id, shares)) \/ Cancelling(id)
  BY DEF ReduceStep
<1>2. adding = None /\ adding' = None /\ CountsType
  BY DEF ReduceStep, RInv
<1>3. Promise!Count("executions") \/ Promise!Count("cancels")
  BY <1>2, CountsOnce DEF ReduceStep, Kinds
<1> DEFINE was == VisibleOrders[id]
<1>4. PICK shares \in 1 .. was.shares :
         /\ id \in OrderIds /\ was \in Shown
         /\ VisibleOrders' = [VisibleOrders EXCEPT ![id] = Promise!Reduced(@, shares)]
  <2>1. ASSUME NEW shares, Reducing(id, shares)
        PROVE  /\ id \in OrderIds /\ was \in Shown
               /\ shares \in 1 .. was.shares
               /\ VisibleOrders' = [VisibleOrders EXCEPT ![id] = Promise!Reduced(@, shares)]
    <3>1. /\ id \in OrderIds /\ was \in Shown /\ shares \in 1 .. (was.shares - 1)
          /\ VisibleOrders' = [VisibleOrders EXCEPT ![id] = Promise!Reduced(@, shares)]
      BY <1>2, <2>1, ReducingShows
    <3>2. was.shares \in Nat
      BY <3>1 DEF Shown
    <3>3. shares \in 1 .. was.shares
      BY <3>1, <3>2
    <3> QED
      BY <3>1, <3>3
  <2>2. ASSUME Cancelling(id)
        PROVE  /\ id \in OrderIds /\ was \in Shown
               /\ was.shares \in 1 .. was.shares
               /\ VisibleOrders' = [VisibleOrders EXCEPT ![id] = Promise!Reduced(@, was.shares)]
    <3>1. /\ id \in OrderIds /\ was \in Shown
          /\ VisibleOrders' = [VisibleOrders EXCEPT ![id] = None]
      BY <1>2, <2>2, CancellingShows
    <3>2. was.shares \in Nat \ {0}
      BY <3>1 DEF Shown
    <3> QED
      BY <3>1, <3>2 DEF Promise!Reduced
  <2> QED
    BY <1>1, <2>1, <2>2
<1>5. was # None
  BY <1>4, NoneIsNoReplacement
<1> QED
  BY <1>3, <1>4, <1>5 DEF Promise!Reduce, VisibleOrders

LEMMA DeleteImplements ==
    ASSUME RInv, DeleteStep
    PROVE  Promise!Delete
<1>1. PICK id : Cancelling(id)
  BY DEF DeleteStep
<1>2. adding = None /\ adding' = None /\ CountsType /\ Count("deletes")
  BY DEF DeleteStep, RInv
<1>3. /\ id \in OrderIds /\ VisibleOrders[id] # None
      /\ VisibleOrders' = [VisibleOrders EXCEPT ![id] = None]
  BY <1>1, <1>2, CancellingShows, NoneIsNoReplacement
<1>4. Promise!Count("deletes")
  BY <1>2, CountsOnce DEF Kinds
<1> QED
  BY <1>3, <1>4 DEF Promise!Delete, VisibleOrders

LEMMA ReplaceImplements ==
    ASSUME RInv, ReplaceStep
    PROVE  Promise!Replace
<1>1. PICK old : Cancelling(old) /\ adding'.side = heap[idToOrder[old]].side
  BY DEF ReplaceStep
<1>2. /\ adding = None /\ adding' \in Replacement /\ adding' # None
      /\ counts' = counts /\ CountsType /\ idToOrder[adding'.id] = None
  BY NoneIsNoReplacement DEF ReplaceStep, RInv
<1> DEFINE new == adding'.id
           is == [side |-> adding'.side, price |-> adding'.price, shares |-> adding'.quantity]
<1>3. /\ old \in OrderIds /\ VisibleOrders[old] # None
      /\ new \in OrderIds /\ VisibleOrders[new] = None
      /\ is \in Shown /\ is.side = VisibleOrders[old].side
      /\ VisibleOrders' = [VisibleOrders EXCEPT ![old] = None, ![new] = is]
  BY <1>1, <1>2, ReplacingShows, NoneIsNoReplacement
<1> HIDE DEF new, is
<1>4. Promise!Count("replaces")
  BY <1>2, BeginningCounts DEF Promise!Count, VisibleCounts
<1>5. VisibleOrders'[new] = is
  BY <1>3 DEF VisibleOrders
<1> QED
  BY <1>3, <1>4, <1>5, SameWords DEF Promise!Replace, VisibleOrders

\* The addition that follows changes nothing that is visible.
LEMMA FinishShowsNothing ==
    ASSUME RInv, FinishStep
    PROVE  UNCHANGED Promise!vars
<1> USE DEF RInv
<1>1. /\ adding \in Replacement /\ adding # None /\ adding' = None
      /\ Count("replaces") /\ adding.id \in OrderIds
  BY NoneIsNoReplacement DEF FinishStep, Replacement
<1>n. PICK new \in OrderIds : new = adding.id
  BY <1>1
<1> DEFINE is == [side |-> adding.side, price |-> adding.price, shares |-> adding.quantity]
<1>2. /\ Displayed(new)' = is
      /\ \A other \in OrderIds \ {new} : Displayed(other)' = Displayed(other)
  BY <1>n, PlacingEffect DEF FinishStep
<1>3. \A id \in OrderIds : /\ VisibleOrder(id)' = Displayed(id)'
                           /\ VisibleOrder(id) = IF id = new THEN is ELSE Displayed(id)
  BY <1>1, <1>n DEF VisibleOrder, Displayed
<1> HIDE DEF is
<1>4. VisibleOrders' = VisibleOrders
  BY <1>2, <1>3 DEF VisibleOrders
<1>5. VisibleCounts' = VisibleCounts
  <2>1. CountsType' /\ counts' = [counts EXCEPT !["replaces"] = @ + 1]
    BY <1>1, CountedType DEF Count, Kinds
  <2>2. VisibleCounts = [counts EXCEPT !["replaces"] = @ + 1]
    BY <1>1 DEF VisibleCounts
  <2>3. VisibleCounts' = counts'
    <3>1. VisibleCounts' = [counts' EXCEPT !["replaces"] = @ + 0]
      BY <1>1 DEF VisibleCounts
    <3>2. counts' \in [Kinds -> Nat] /\ counts'["replaces"] + 0 = counts'["replaces"]
      BY <2>1 DEF CountsType, Kinds
    <3> QED
      BY ONLY <3>1, <3>2
  <2> QED
    BY <2>1, <2>2, <2>3
<1> QED
  BY <1>4, <1>5 DEF Promise!vars, VisibleOrders, VisibleCounts

LEMMA SameShowsNothing ==
    ASSUME UNCHANGED <<idToOrder, heap, adding>>
    PROVE  VisibleOrders' = VisibleOrders
BY DEF VisibleOrders, VisibleOrder

LEMMA RefuseImplements ==
    ASSUME RInv, RefuseStep
    PROVE  Promise!Refuse
<1>1. adding = None /\ adding' = None /\ Count("failures") /\ CountsType /\ VisibleOrders' = VisibleOrders
  BY SameShowsNothing DEF RefuseStep, Refuse, bookVars, RInv
<1>2. Promise!Count("failures")
  BY <1>1, CountsOnce DEF Kinds
<1> QED
  BY <1>1, <1>2 DEF Promise!Refuse, VisibleOrders

LEMMA NothingShowsNothing ==
    ASSUME UNCHANGED <<idToOrder, heap, counts, adding>>
    PROVE  UNCHANGED Promise!vars
<1>1. VisibleOrders' = VisibleOrders /\ VisibleCounts' = VisibleCounts
  BY SameShowsNothing DEF VisibleCounts
<1> QED
  BY <1>1 DEF Promise!vars, VisibleOrders, VisibleCounts

LEMMA MessageImplements ==
    ASSUME SharesFit, RInv, [ReplayNext]_replayVars
    PROVE  [Promise!Next]_Promise!vars
<1>1. CASE ReplayNext
  <2>1. MessageStep
    BY <1>1, OnMessageSteps
  <2>2. CASE NothingStep
    BY <2>2, NothingShowsNothing DEF NothingStep, bookVars
  <2>3. CASE ~NothingStep
    BY <2>1, <2>3, RefuseImplements, AddImplements, ReduceImplements, DeleteImplements,
       ReplaceImplements, FinishShowsNothing DEF MessageStep, Promise!Next
  <2> QED
    BY <2>2, <2>3
<1>2. CASE UNCHANGED replayVars
  BY <1>2, NothingShowsNothing DEF replayVars
<1> QED
  BY <1>1, <1>2

LEMMA InitImplementsVisible == ReplayInit => Promise!Init
<1> SUFFICES ASSUME ReplayInit PROVE Promise!Init
  OBVIOUS
<1>1. /\ adding = None /\ counts = [kind \in Kinds |-> 0]
      /\ \A id \in OrderIds : idToOrder[id] = None
  BY DEF ReplayInit, Init
<1>2. VisibleOrders = [id \in OrderIds |-> None]
  BY <1>1 DEF VisibleOrders, VisibleOrder
<1>3. VisibleCounts = [kind \in Kinds |-> 0]
  BY <1>1 DEF VisibleCounts, Kinds
<1> QED
  BY <1>2, <1>3, SameWords DEF Promise!Init, VisibleOrders, VisibleCounts

\* For every set of orders, blocks and prices and a feed of any length: the
\* replayed book shows exactly the orders that the feed describes, and a
\* replacement is all or nothing, although it is carried out in two halves.
THEOREM ReplayImplementsFeed == SharesFit => (ReplaySpec => ImplementsVisibleBook)
<1> SUFFICES ASSUME SharesFit PROVE ReplaySpec => ImplementsVisibleBook
  OBVIOUS
<1>1. RInv /\ [ReplayNext]_replayVars => [Promise!Next]_Promise!vars
  BY MessageImplements
<1> QED
  BY InitImplementsVisible, RInvHolds, <1>1, PTL
     DEF ReplaySpec, ImplementsVisibleBook, Promise!Spec

-----------------------------------------------------------------------------
(* Powers *)

\* A set of natural numbers that is not empty has a smallest member.
LEMMA Smallest ==
    ASSUME NEW S, S \subseteq Nat, S # {}
    PROVE  \E n \in S : \A m \in S : n <= m
<1>1. PICK n \in S : \A m \in S : ~(<<m, n>> \in OpToRel(<, Nat))
  BY NatLessThanWellFounded, WFMin
<1>2. ASSUME NEW m \in S PROVE n <= m
  <2>1. m \in Nat /\ n \in Nat
    OBVIOUS
  <2>2. CASE m < n
    BY <1>1, <2>1, <2>2 DEF OpToRel
  <2> QED
    BY <2>1, <2>2
<1> QED
  BY <1>2

\* g holds the powers up to the n-th.
PowersTo(g, n) == g = [k \in 0 .. n |-> IF k = 0 THEN 1 ELSE Base * g[k - 1]]

\* Each of these powers follows from the one before.
LEMMA PowersToAt ==
    ASSUME NEW g, NEW n \in Nat, PowersTo(g, n), NEW k \in 0 .. n
    PROVE  g[k] = IF k = 0 THEN 1 ELSE Base * g[k - 1]
<1> DEFINE r == [j \in 0 .. n |-> IF j = 0 THEN 1 ELSE Base * g[j - 1]]
<1>1. r[k] = IF k = 0 THEN 1 ELSE Base * g[k - 1]
  OBVIOUS
<1>2. g = r
  BY DEF PowersTo
<1> HIDE DEF r
<1> QED
  BY <1>1, <1>2

\* There are powers up to any number.
LEMMA PowersToExist == ASSUME NEW n \in Nat PROVE \E g : PowersTo(g, n)
<1> DEFINE Bad == {m \in Nat : ~\E g : PowersTo(g, m)}
<1>1. SUFFICES ASSUME Bad # {} PROVE FALSE
  OBVIOUS
<1>2. PICK m \in Bad : \A k \in Bad : m <= k
  <2>1. Bad \subseteq Nat
    OBVIOUS
  <2> HIDE DEF Bad
  <2> QED
    BY <1>1, <2>1, Smallest
<1>3. m \in Nat
  OBVIOUS
<1>4. CASE m = 0
  <2> DEFINE g == [k \in 0 .. m |-> 1]
  <2>1. g = [k \in 0 .. m |-> IF k = 0 THEN 1 ELSE Base * g[k - 1]]
    BY <1>4
  <2>2. PowersTo(g, m)
    BY <2>1 DEF PowersTo
  <2> QED
    BY <2>2
<1>5. CASE m # 0
  <2>1. m - 1 \in Nat /\ ~(m <= m - 1)
    BY <1>3, <1>5
  <2>2. m - 1 \notin Bad
    <3> HIDE DEF Bad
    <3> QED
      BY <1>2, <2>1
  <2>3. PICK g : PowersTo(g, m - 1)
    BY <2>1, <2>2
  <2> DEFINE h == [k \in 0 .. m |-> IF k = 0 THEN 1 ELSE Base * g[k - 1]]
  <2>4. ASSUME NEW k \in 0 .. m, k # 0
        PROVE  h[k - 1] = g[k - 1]
    <3>1. k - 1 \in 0 .. (m - 1) /\ k - 1 \in 0 .. m
      BY <1>3, <2>4
    <3>2. g[k - 1] = IF k - 1 = 0 THEN 1 ELSE Base * g[(k - 1) - 1]
      <4> HIDE DEF h
      <4> QED
        BY <2>1, <2>3, <3>1, PowersToAt
    <3> QED
      BY <3>1, <3>2
  <2>5. h = [k \in 0 .. m |-> IF k = 0 THEN 1 ELSE Base * h[k - 1]]
    BY <2>4
  <2>6. PowersTo(h, m)
    <3> HIDE DEF h
    <3> QED
      BY <2>5 DEF PowersTo
  <2> QED
    BY <2>6
<1> QED
  BY <1>4, <1>5

\* Two such functions agree where both are defined.
LEMMA PowersToAgree ==
    ASSUME NEW m \in Nat, NEW n \in Nat, NEW g, NEW h, PowersTo(g, m), PowersTo(h, n),
           NEW k \in Nat, k <= m, k <= n
    PROVE  g[k] = h[k]
<1> DEFINE Bad == {j \in Nat : j <= m /\ j <= n /\ g[j] # h[j]}
<1>1. SUFFICES ASSUME Bad # {} PROVE FALSE
  OBVIOUS
<1>2. PICK j \in Bad : \A i \in Bad : j <= i
  <2>1. Bad \subseteq Nat
    OBVIOUS
  <2> HIDE DEF Bad
  <2> QED
    BY <1>1, <2>1, Smallest
<1>3. /\ j \in Nat /\ j <= m /\ j <= n /\ g[j] # h[j]
      /\ j \in 0 .. m /\ j \in 0 .. n
  OBVIOUS
<1>4. /\ g[j] = IF j = 0 THEN 1 ELSE Base * g[j - 1]
      /\ h[j] = IF j = 0 THEN 1 ELSE Base * h[j - 1]
  BY <1>3, PowersToAt
<1>5. j # 0 /\ j - 1 \in Nat /\ j - 1 <= m /\ j - 1 <= n /\ ~(j <= j - 1)
  BY <1>3, <1>4
<1>6. j - 1 \notin Bad
  <2> HIDE DEF Bad
  <2> QED
    BY <1>2, <1>5
<1> QED
  BY <1>3, <1>4, <1>5, <1>6

\* The recursive equation of Power has a solution.
LEMMA PowerIs ==
    Power = [n \in Nat |-> IF n = 0 THEN 1 ELSE Base * Power[n - 1]]
<1> DEFINE upTo(n) == CHOOSE g : PowersTo(g, n)
           f == [n \in Nat |-> upTo(n)[n]]
<1>1. \A n \in Nat : PowersTo(upTo(n), n)
  BY PowersToExist
<1>2. ASSUME NEW n \in Nat
      PROVE  f[n] = IF n = 0 THEN 1 ELSE Base * f[n - 1]
  <2>1. n \in 0 .. n /\ f[n] = upTo(n)[n]
    OBVIOUS
  <2>2. upTo(n)[n] = IF n = 0 THEN 1 ELSE Base * upTo(n)[n - 1]
    <3> HIDE DEF upTo
    <3> QED
      BY <1>1, <2>1, PowersToAt
  <2>3. CASE n = 0
    BY <2>1, <2>2, <2>3
  <2>4. CASE n # 0
    <3>1. n - 1 \in Nat /\ n - 1 <= n /\ n - 1 <= n - 1
      BY <2>4
    <3>2. upTo(n)[n - 1] = upTo(n - 1)[n - 1]
      <4> HIDE DEF upTo
      <4> QED
        BY <1>1, <3>1, PowersToAgree
    <3>3. f[n - 1] = upTo(n - 1)[n - 1]
      BY <3>1
    <3> HIDE DEF f, upTo
    <3> QED
      BY <2>1, <2>2, <2>4, <3>2, <3>3
  <2> QED
    BY <2>3, <2>4
<1>3. f = [n \in Nat |-> IF n = 0 THEN 1 ELSE Base * f[n - 1]]
  <2>1. f = [n \in Nat |-> f[n]]
    OBVIOUS
  <2> HIDE DEF f
  <2> QED
    BY <1>2, <2>1
<1> HIDE DEF f
<1> QED
  BY <1>3 DEF Power

\* The powers, one by one.
LEMMA PowerFacts ==
    /\ Power[0] = 1
    /\ \A n \in Nat : Power[n] \in Nat \ {0} /\ Power[n + 1] = Base * Power[n]
<1>1. \A n \in Nat : Power[n] = IF n = 0 THEN 1 ELSE Base * Power[n - 1]
  <2> DEFINE r == [n \in Nat |-> IF n = 0 THEN 1 ELSE Base * Power[n - 1]]
  <2>1. \A n \in Nat : r[n] = IF n = 0 THEN 1 ELSE Base * Power[n - 1]
    OBVIOUS
  <2>2. Power = r
    BY PowerIs
  <2> HIDE DEF r
  <2> QED
    BY <2>1, <2>2
<1>2. Power[0] = 1
  BY <1>1
<1>3. \A n \in Nat : Power[n + 1] = Base * Power[n]
  <2> SUFFICES ASSUME NEW n \in Nat PROVE Power[n + 1] = Base * Power[n]
    OBVIOUS
  <2>1. n + 1 \in Nat /\ n + 1 # 0 /\ (n + 1) - 1 = n
    OBVIOUS
  <2> QED
    BY <1>1, <2>1
<1>4. \A n \in Nat : Power[n] \in Nat \ {0}
  <2> DEFINE Bad == {n \in Nat : Power[n] \notin Nat \ {0}}
  <2>1. SUFFICES ASSUME Bad # {} PROVE FALSE
    OBVIOUS
  <2>2. PICK n \in Bad : \A m \in Bad : n <= m
    <3>1. Bad \subseteq Nat
      OBVIOUS
    <3> HIDE DEF Bad
    <3> QED
      BY <2>1, <3>1, Smallest
  <2>3. n \in Nat /\ Power[n] \notin Nat \ {0}
    OBVIOUS
  <2>4. n # 0 /\ n - 1 \in Nat /\ ~(n <= n - 1)
    BY <1>2, <2>3
  <2>5. n - 1 \notin Bad
    <3> HIDE DEF Bad
    <3> QED
      BY <2>2, <2>4
  <2>6. Power[n - 1] \in Nat \ {0}
    BY <2>4, <2>5
  <2>7. Power[n] = Base * Power[n - 1]
    BY <1>1, <2>3, <2>4
  <2>8. \A a \in Nat \ {0}, b \in Nat \ {0} : a * b \in Nat \ {0}
    OBVIOUS
  <2> QED
    BY <2>3, <2>6, <2>7, <2>8, BytesTellApart
<1> QED
  BY <1>2, <1>3, <1>4

-----------------------------------------------------------------------------
(* What is read of a number *)

\* Division, under a name that the provers leave alone.
Quotient(a, b) == a \div b

\* Dividing by two numbers one after the other is dividing by their product.
LEMMA DivideTwice ==
    \A v \in Nat, a \in Nat \ {0}, b \in Nat \ {0}, c \in Nat \ {0} :
        c = b * a => Quotient(Quotient(v, a), b) = Quotient(v, c)
<1> SUFFICES ASSUME NEW v \in Nat, NEW a \in Nat \ {0}, NEW b \in Nat \ {0},
                    NEW c \in Nat \ {0}, c = b * a
             PROVE  (v \div a) \div b = v \div c
  BY DEF Quotient
<1> DEFINE q == v \div a
           r == v % a
           t == q \div b
           d == q % b
<1>1. q \in Nat /\ r \in Nat /\ r < a /\ v = a * q + r
  OBVIOUS
<1>2. t \in Nat /\ d \in Nat /\ d < b /\ q = b * t + d
  BY <1>1
<1> HIDE DEF q, r, t, d
<1>3. c \in Nat \ {0} /\ c = a * b
  OBVIOUS
<1>4. v = (a * b) * t + (a * d + r)
  BY <1>1, <1>2
<1>5. a * d + r \in Nat /\ a * d + r < a * b
  <2>1. a * d <= a * (b - 1)
    BY <1>2
  <2> QED
    BY <1>1, <1>2, <2>1
<1>6. \A k \in Nat \ {0}, s \in Nat, e \in Nat : e < k => (k * s + e) \div k = s
  OBVIOUS
<1>7. v \div c = t
  <2> DEFINE e == a * d + r
  <2>1. e \in Nat /\ e < c /\ v = c * t + e
    BY <1>3, <1>4, <1>5
  <2> HIDE DEF e
  <2> QED
    BY <1>2, <1>3, <1>6, <2>1
<1> QED
  BY <1>7 DEF q, t

\* A sum over the numbers up to n ends with the n-th.
LEMMA SumUpTo ==
    ASSUME NEW n \in Nat \ {0}, NEW f, \A i \in 1 .. n : f[i] \in Int
    PROVE  /\ SumFunctionOnSet(f, 1 .. n) = SumFunctionOnSet(f, 1 .. (n - 1)) + f[n]
           /\ SumFunctionOnSet(f, 1 .. (n - 1)) \in Int
<1>1. /\ IsFiniteSet(1 .. n) /\ IsFiniteSet(1 .. (n - 1))
      /\ n \in 1 .. n /\ (1 .. n) \ {n} = 1 .. (n - 1)
  BY FS_Interval
<1>2. SumFunctionOnSet(f, 1 .. n) = f[n] + SumFunctionOnSet(f, 1 .. (n - 1))
  BY <1>1, SumRemove
<1>3. SumFunctionOnSet(f, 1 .. (n - 1)) \in Int
  BY <1>1, SumInt
<1> QED
  BY <1>1, <1>2, <1>3

\* So many bytes of a number tell it but for what the others could add.
LEMMA ReadingRoundsDown ==
    ASSUME NEW v \in Nat, NEW w \in Nat, v < Power[w], NEW there \in 0 .. w
    PROVE  ReadBigEndian(v, w, there) = (v \div Power[w - there]) * Power[w - there]
<1> DEFINE f == [i \in 1 .. w |-> ByteOf(v, w, i) * Power[w - i]]
           told(n) == (v \div Power[w - n]) * Power[w - n]
           Bad == {n \in 0 .. w : SumFunctionOnSet(f, 1 .. n) # told(n)}
<1>1. SUFFICES ASSUME Bad # {} PROVE FALSE
  BY DEF ReadBigEndian
<1>2. PICK n \in Bad : \A m \in Bad : n <= m
  <2>1. Bad \subseteq Nat
    OBVIOUS
  <2> HIDE DEF Bad
  <2> QED
    BY <1>1, <2>1, Smallest
<1>3. n \in 0 .. w /\ n \in Nat /\ SumFunctionOnSet(f, 1 .. n) # told(n)
  OBVIOUS
<1>4. \A i \in 1 .. w : /\ w - i \in Nat /\ Power[w - i] \in Nat \ {0}
                        /\ f[i] = ByteOf(v, w, i) * Power[w - i]
                        /\ f[i] \in Int
  <2> SUFFICES ASSUME NEW i \in 1 .. w
               PROVE  /\ w - i \in Nat /\ Power[w - i] \in Nat \ {0}
                      /\ f[i] = ByteOf(v, w, i) * Power[w - i]
                      /\ f[i] \in Int
    OBVIOUS
  <2>1. w - i \in Nat
    OBVIOUS
  <2>2. Power[w - i] \in Nat \ {0}
    BY <2>1, PowerFacts
  <2>3. v \div Power[w - i] \in Int
    BY <2>2
  <2>4. ByteOf(v, w, i) \in Int
    BY <2>3, BytesTellApart DEF ByteOf
  <2>5. \A a, b \in Int : a * b \in Int
    OBVIOUS
  <2> QED
    BY <2>1, <2>2, <2>4, <2>5
<1>5. n # 0
  <2> SUFFICES ASSUME n = 0 PROVE FALSE
    OBVIOUS
  <2>1. 1 .. n = {}
    OBVIOUS
  <2>2. SumFunctionOnSet(f, 1 .. n) = 0
    BY <2>1, SumEmpty
  <2>3. \A p \in Nat \ {0} : v < p => (v \div p) * p = 0
    OBVIOUS
  <2>4. told(n) = 0
    <3>1. w - n = w
      OBVIOUS
    <3> QED
      BY <2>3, <3>1, PowerFacts
  <2> QED
    BY <1>3, <2>2, <2>4
<1>6. n \in 1 .. w /\ n \in Nat \ {0} /\ n - 1 \in 0 .. w /\ ~(n <= n - 1)
  BY <1>3, <1>5
<1>7. n - 1 \notin Bad
  <2> HIDE DEF Bad
  <2> QED
    BY <1>2, <1>6
<1>8. SumFunctionOnSet(f, 1 .. (n - 1)) = told(n - 1)
  BY <1>6, <1>7
<1>9. SumFunctionOnSet(f, 1 .. n) = told(n - 1) + f[n]
  <2>1. \A i \in 1 .. n : f[i] \in Int
    BY <1>4, <1>6
  <2> HIDE DEF f, told
  <2> QED
    BY <1>6, <1>8, <2>1, SumUpTo
<1>10. told(n) = told(n - 1) + f[n]
  <2> DEFINE p == Power[w - n]
             q == v \div p
  <2>1. /\ p \in Nat \ {0} /\ w - n \in Nat /\ (w - n) + 1 = w - (n - 1)
        /\ Power[w - (n - 1)] = Base * p
    BY <1>4, <1>6, PowerFacts
  <2>2. q \in Nat /\ v \div Power[w - (n - 1)] = q \div Base
    <3> HIDE DEF p
    <3>1. q \in Nat
      BY <2>1
    <3>2. Base \in Nat \ {0}
      BY BytesTellApart
    <3>3. v \in Nat /\ p \in Nat \ {0}
      BY <2>1
    <3> HIDE DEF q
    <3> DEFINE c == Power[w - (n - 1)]
    <3>4. c \in Nat \ {0} /\ c = Base * p
      BY <2>1, <3>2, <3>3
    <3> HIDE DEF c
    <3>5. Quotient(Quotient(v, p), Base) = Quotient(v, c)
      BY <3>2, <3>3, <3>4, DivideTwice
    <3> QED
      BY <3>1, <3>5 DEF q, c, Quotient
  <2>4. told(n - 1) = (q \div Base) * (Base * p)
    BY <2>1, <2>2
  <2>5. f[n] = (q % Base) * p
    BY <1>4, <1>6 DEF ByteOf
  <2>6. q = Base * (q \div Base) + (q % Base) /\ q \div Base \in Nat /\ q % Base \in Nat
    <3> HIDE DEF q
    <3>1. Base \in Nat \ {0}
      BY BytesTellApart
    <3>2. \A a \in Nat, b \in Nat \ {0} :
             a = b * (a \div b) + (a % b) /\ a \div b \in Nat /\ a % b \in Nat
      OBVIOUS
    <3> QED
      BY <2>2, <3>1, <3>2
  <2>7. \A a, b, c, d \in Nat : (a * b + c) * d = b * (a * d) + c * d
    OBVIOUS
  <2>8. q * p = (q \div Base) * (Base * p) + (q % Base) * p
    <3> DEFINE b == q \div Base
               c == q % Base
    <3> HIDE DEF p, q, b, c
    <3>1. q = Base * b + c /\ b \in Nat /\ c \in Nat /\ Base \in Nat /\ p \in Nat
      BY <2>1, <2>6, BytesTellApart DEF b, c
    <3>2. (Base * b + c) * p = b * (Base * p) + c * p
      BY <2>7, <3>1
    <3> QED
      BY <3>1, <3>2 DEF b, c
  <2>9. told(n) = q * p
    OBVIOUS
  <2> HIDE DEF told, f, p, q
  <2> QED
    BY <2>4, <2>5, <2>8, <2>9
<1> QED
  BY <1>3, <1>9, <1>10

\* Nothing is lost of a number of which all bytes are there.
LEMMA WholeNumberIsRead ==
    ASSUME NEW v \in Nat, NEW w \in Nat, v < Power[w]
    PROVE  ReadBigEndian(v, w, w) = v
<1>1. ReadBigEndian(v, w, w) = (v \div Power[w - w]) * Power[w - w]
  BY ReadingRoundsDown
<1>2. w - w = 0
  OBVIOUS
<1> QED
  BY <1>1, <1>2, PowerFacts

\* What a field tells of which the last bytes are missing is what was written,
\* rounded down: no number is read larger than it is.
THEOREM FieldsAreRoundedDown ==
    ASSUME NEW v \in Nat, NEW w \in Nat, v < Power[w], NEW missing \in 0 .. w
    PROVE  ReadBigEndian(v, w, w - missing) = Rounded(v, missing)
<1>1. w - missing \in 0 .. w /\ w - (w - missing) = missing /\ missing \in Nat
  OBVIOUS
<1>2. ReadBigEndian(v, w, w - missing) = (v \div Power[missing]) * Power[missing]
  BY <1>1, ReadingRoundsDown
<1>3. \A p \in Nat \ {0} : (v \div p) * p = v - (v % p)
  <2> SUFFICES ASSUME NEW p \in Nat \ {0} PROVE (v \div p) * p = v - (v % p)
    OBVIOUS
  <2>1. v = p * (v \div p) + (v % p) /\ v \div p \in Int /\ v % p \in Int
    OBVIOUS
  <2> QED
    BY <2>1
<1> QED
  BY <1>1, <1>2, <1>3, PowerFacts DEF Rounded


-----------------------------------------------------------------------------
(* The fields of a message *)

\* The fields of a type have these widths, and the ones that the engine asks for
\* are where at says.
HasFields(type, widths, at) ==
    /\ Len(Fields(type)) = Len(widths)
    /\ DOMAIN Fields(type) = 1 .. Len(widths)
    /\ \A n \in 1 .. Len(widths) : Fields(type)[n][2] = widths[n] /\ widths[n] \in Nat
    /\ \A name \in DOMAIN at : at[name] \in 1 .. Len(widths) /\ Fields(type)[at[name]][1] = name

\* The fields are as wide as they are and end where the next begins.
LaidOut(type) ==
    /\ Len(Fields(type)) \in Nat /\ DOMAIN Fields(type) = 1 .. Len(Fields(type))
    /\ BodyWidth(type) \in Nat
    /\ \A n \in DOMAIN Fields(type) :
          /\ Fields(type)[n][2] \in Nat
          /\ WidthBefore(type, n - 1) \in Nat
          /\ WidthBefore(type, n) = WidthBefore(type, n - 1) + Fields(type)[n][2]
          /\ WidthBefore(type, n) <= BodyWidth(type)

\* The widths of the fields before one add up one by one.
LEMMA WidthsAdd ==
    ASSUME NEW type, NEW widths, NEW at, Len(widths) \in Nat, HasFields(type, widths, at)
    PROVE  /\ WidthBefore(type, 0) = 0
           /\ \A n \in 1 .. Len(widths) :
                 WidthBefore(type, n) = WidthBefore(type, n - 1) + widths[n]
           /\ BodyWidth(type) = WidthBefore(type, Len(widths))
           /\ DOMAIN at \subseteq FieldNames(type)
           /\ LaidOut(type)
<1> DEFINE f == [i \in DOMAIN Fields(type) |-> Fields(type)[i][2]]
<1>1. \A n \in 1 .. Len(widths) : f[n] = widths[n] /\ f[n] \in Int /\ f[n] \in Nat
  BY DEF HasFields
<1> HIDE DEF f
<1>2. SumFunctionOnSet(f, 1 .. 0) = 0
  <2>1. 1 .. 0 = {}
    OBVIOUS
  <2> QED
    BY <2>1, SumEmpty
<1>3. ASSUME NEW n \in 1 .. Len(widths)
      PROVE  SumFunctionOnSet(f, 1 .. n) = SumFunctionOnSet(f, 1 .. (n - 1)) + widths[n]
  <2>1. n \in Nat \ {0} /\ \A i \in 1 .. n : f[i] \in Int
    BY <1>1
  <2> QED
    BY <1>1, <2>1, SumUpTo
<1>4. BodyWidth(type) = WidthBefore(type, Len(widths))
  BY DEF BodyWidth, HasFields
<1>5. DOMAIN at \subseteq FieldNames(type)
  BY DEF HasFields, FieldNames
<1>6. \A n : WidthBefore(type, n) = SumFunctionOnSet(f, 1 .. n)
  BY DEF WidthBefore, f
<1>7. \A n \in 1 .. Len(widths) : WidthBefore(type, n) = WidthBefore(type, n - 1) + widths[n]
  BY <1>3, <1>6
<1>8. ASSUME NEW n \in 0 .. Len(widths)
      PROVE  /\ WidthBefore(type, n) \in Nat
             /\ WidthBefore(type, n) <= BodyWidth(type)
  <2>1. /\ 1 .. n \in SUBSET (1 .. Len(widths)) /\ IsFiniteSet(1 .. n)
        /\ IsFiniteSet(1 .. Len(widths))
    BY FS_Interval
  <2>2. /\ SumFunctionOnSet(f, 1 .. n) \in Nat
        /\ SumFunctionOnSet(f, 1 .. n) <= SumFunctionOnSet(f, 1 .. Len(widths))
    <3>1. \A i \in 1 .. Len(widths) : f[i] \in Nat
      BY <1>1
    <3>2. \A i \in 1 .. n : f[i] \in Nat
      BY <2>1, <3>1
    <3> QED
      BY <2>1, <3>1, <3>2, SumNat, SumPart
  <2> QED
    BY <1>4, <1>6, <2>2
<1>9. LaidOut(type)
  <2>1. Len(Fields(type)) \in Nat /\ DOMAIN Fields(type) = 1 .. Len(Fields(type))
        /\ Len(Fields(type)) = Len(widths)
    BY DEF HasFields
  <2>2. BodyWidth(type) \in Nat
    BY <1>4, <1>8
  <2>3. ASSUME NEW n \in 1 .. Len(widths)
        PROVE  /\ Fields(type)[n][2] = widths[n] /\ Fields(type)[n][2] \in Nat
               /\ WidthBefore(type, n - 1) \in Nat /\ WidthBefore(type, n) <= BodyWidth(type)
    <3>1. n - 1 \in 0 .. Len(widths) /\ n \in 0 .. Len(widths)
      OBVIOUS
    <3> QED
      BY <1>8, <3>1 DEF HasFields
  <2> QED
    BY <1>7, <2>1, <2>2, <2>3 DEF LaidOut
<1> QED
  BY <1>2, <1>4, <1>5, <1>6, <1>7, <1>9

\* The body of a system event, and what the engine asks of it.
LEMMA SystemLayout ==
    /\ BodyWidth("S") = 11
    /\ LaidOut("S")
    /\ {"stockLocate", "timestamp"} \subseteq FieldNames("S")
<1> DEFINE widths == <<2, 2, 6, 1>>
           at == [stockLocate |-> 1, timestamp |-> 3]
<1>1. HasFields("S", widths, at)
  BY DEF HasFields, Fields, Header
<1>2. /\ Len(widths) = 4 /\ Len(widths) \in Nat
      /\ widths[1] = 2 /\ widths[2] = 2 /\ widths[3] = 6 /\ widths[4] = 1
      /\ DOMAIN at = {"stockLocate", "timestamp"}
  OBVIOUS
<1> HIDE DEF widths, at
<1>3. /\ WidthBefore("S", 0) = 0
      /\ \A n \in 1 .. Len(widths) : WidthBefore("S", n) = WidthBefore("S", n - 1) + widths[n]
      /\ BodyWidth("S") = WidthBefore("S", Len(widths))
      /\ DOMAIN at \subseteq FieldNames("S")
      /\ LaidOut("S")
  BY <1>1, <1>2, WidthsAdd, Zenon
<1> QED
  BY <1>2, <1>3

\* The body of a stock directory entry, and what the engine asks of it.
LEMMA DirectoryLayout ==
    /\ BodyWidth("R") = 38
    /\ LaidOut("R")
    /\ {"stockLocate", "stock", "timestamp"} \subseteq FieldNames("R")
<1> DEFINE widths == <<2, 2, 6, 8, 1, 1, 4, 1, 1, 2, 1, 1, 1, 1, 1, 4, 1>>
           at == [stockLocate |-> 1, stock |-> 4, timestamp |-> 3]
<1>1. HasFields("R", widths, at)
  BY DEF HasFields, Fields, Header, DirectoryFields
<1>2. /\ Len(widths) = 17 /\ Len(widths) \in Nat
      /\ widths[1] = 2 /\ widths[2] = 2 /\ widths[3] = 6 /\ widths[4] = 8
      /\ widths[5] = 1 /\ widths[6] = 1 /\ widths[7] = 4 /\ widths[8] = 1
      /\ widths[9] = 1 /\ widths[10] = 2 /\ widths[11] = 1 /\ widths[12] = 1
      /\ widths[13] = 1 /\ widths[14] = 1 /\ widths[15] = 1 /\ widths[16] = 4
      /\ widths[17] = 1
      /\ DOMAIN at = {"stockLocate", "stock", "timestamp"}
  OBVIOUS
<1> HIDE DEF widths, at
<1>3. /\ WidthBefore("R", 0) = 0
      /\ \A n \in 1 .. Len(widths) : WidthBefore("R", n) = WidthBefore("R", n - 1) + widths[n]
      /\ BodyWidth("R") = WidthBefore("R", Len(widths))
      /\ DOMAIN at \subseteq FieldNames("R")
      /\ LaidOut("R")
  BY <1>1, <1>2, WidthsAdd, Zenon
<1> QED
  BY <1>2, <1>3

\* The body of an added order, and what the engine asks of it.
LEMMA AddLayout ==
    /\ BodyWidth("A") = 35
    /\ LaidOut("A")
    /\ {"stockLocate", "orderReferenceNumber", "buySellIndicator",
        "shares", "price", "timestamp"} \subseteq FieldNames("A")
<1> DEFINE widths == <<2, 2, 6, 8, 1, 4, 8, 4>>
           at == [stockLocate |-> 1, orderReferenceNumber |-> 4, buySellIndicator |-> 5,
                  shares |-> 6, price |-> 8, timestamp |-> 3]
<1>1. HasFields("A", widths, at)
  BY DEF HasFields, Fields, Header, AddFields, OrderNumber
<1>2. /\ Len(widths) = 8 /\ Len(widths) \in Nat
      /\ widths[1] = 2 /\ widths[2] = 2 /\ widths[3] = 6 /\ widths[4] = 8
      /\ widths[5] = 1 /\ widths[6] = 4 /\ widths[7] = 8 /\ widths[8] = 4
      /\ DOMAIN at = {"stockLocate", "orderReferenceNumber", "buySellIndicator",
                     "shares", "price", "timestamp"}
  OBVIOUS
<1> HIDE DEF widths, at
<1>3. /\ WidthBefore("A", 0) = 0
      /\ \A n \in 1 .. Len(widths) : WidthBefore("A", n) = WidthBefore("A", n - 1) + widths[n]
      /\ BodyWidth("A") = WidthBefore("A", Len(widths))
      /\ DOMAIN at \subseteq FieldNames("A")
      /\ LaidOut("A")
  BY <1>1, <1>2, WidthsAdd, Zenon
<1> QED
  BY <1>2, <1>3

\* The body of an added order with attribution, and what the engine asks of it.
LEMMA AttributedLayout ==
    /\ BodyWidth("F") = 39
    /\ LaidOut("F")
    /\ {"stockLocate", "orderReferenceNumber", "buySellIndicator",
        "shares", "price", "timestamp"} \subseteq FieldNames("F")
<1> DEFINE widths == <<2, 2, 6, 8, 1, 4, 8, 4, 4>>
           at == [stockLocate |-> 1, orderReferenceNumber |-> 4, buySellIndicator |-> 5,
                  shares |-> 6, price |-> 8, timestamp |-> 3]
<1>1. HasFields("F", widths, at)
  <2> DEFINE f == Fields("F")
  <2>1. /\ Len(f) = 9 /\ DOMAIN f = 1 .. 9
        /\ f[1][1] = "stockLocate" /\ f[1][2] = 2 /\ f[2][2] = 2
        /\ f[3][1] = "timestamp" /\ f[3][2] = 6
        /\ f[4][1] = "orderReferenceNumber" /\ f[4][2] = 8
        /\ f[5][1] = "buySellIndicator" /\ f[5][2] = 1
        /\ f[6][1] = "shares" /\ f[6][2] = 4 /\ f[7][2] = 8
        /\ f[8][1] = "price" /\ f[8][2] = 4 /\ f[9][2] = 4
    BY DEF Fields, Header, AddFields, OrderNumber
  <2> HIDE DEF f
  <2> QED
    BY <2>1 DEF HasFields, f
<1>2. /\ Len(widths) = 9 /\ Len(widths) \in Nat
      /\ widths[1] = 2 /\ widths[2] = 2 /\ widths[3] = 6 /\ widths[4] = 8
      /\ widths[5] = 1 /\ widths[6] = 4 /\ widths[7] = 8 /\ widths[8] = 4
      /\ widths[9] = 4
      /\ DOMAIN at = {"stockLocate", "orderReferenceNumber", "buySellIndicator",
                     "shares", "price", "timestamp"}
  OBVIOUS
<1> HIDE DEF widths, at
<1>3. /\ WidthBefore("F", 0) = 0
      /\ \A n \in 1 .. Len(widths) : WidthBefore("F", n) = WidthBefore("F", n - 1) + widths[n]
      /\ BodyWidth("F") = WidthBefore("F", Len(widths))
      /\ DOMAIN at \subseteq FieldNames("F")
      /\ LaidOut("F")
  BY <1>1, <1>2, WidthsAdd, Zenon
<1> QED
  BY <1>2, <1>3

\* The body of an execution, and what the engine asks of it.
LEMMA ExecutedLayout ==
    /\ BodyWidth("E") = 30
    /\ LaidOut("E")
    /\ {"stockLocate", "orderReferenceNumber", "executedShares",
        "timestamp"} \subseteq FieldNames("E")
<1> DEFINE widths == <<2, 2, 6, 8, 4, 8>>
           at == [stockLocate |-> 1, orderReferenceNumber |-> 4, executedShares |-> 5,
                  timestamp |-> 3]
<1>1. HasFields("E", widths, at)
  BY DEF HasFields, Fields, Header, ExecutionFields, OrderNumber
<1>2. /\ Len(widths) = 6 /\ Len(widths) \in Nat
      /\ widths[1] = 2 /\ widths[2] = 2 /\ widths[3] = 6 /\ widths[4] = 8
      /\ widths[5] = 4 /\ widths[6] = 8
      /\ DOMAIN at = {"stockLocate", "orderReferenceNumber", "executedShares",
                     "timestamp"}
  OBVIOUS
<1> HIDE DEF widths, at
<1>3. /\ WidthBefore("E", 0) = 0
      /\ \A n \in 1 .. Len(widths) : WidthBefore("E", n) = WidthBefore("E", n - 1) + widths[n]
      /\ BodyWidth("E") = WidthBefore("E", Len(widths))
      /\ DOMAIN at \subseteq FieldNames("E")
      /\ LaidOut("E")
  BY <1>1, <1>2, WidthsAdd, Zenon
<1> QED
  BY <1>2, <1>3

\* The body of an execution with a price, and what the engine asks of it.
LEMMA ExecutedAtPriceLayout ==
    /\ BodyWidth("C") = 35
    /\ LaidOut("C")
    /\ {"stockLocate", "orderReferenceNumber", "executedShares",
        "timestamp"} \subseteq FieldNames("C")
<1> DEFINE widths == <<2, 2, 6, 8, 4, 8, 1, 4>>
           at == [stockLocate |-> 1, orderReferenceNumber |-> 4, executedShares |-> 5,
                  timestamp |-> 3]
<1>1. HasFields("C", widths, at)
  BY DEF HasFields, Fields, Header, ExecutionFields, OrderNumber
<1>2. /\ Len(widths) = 8 /\ Len(widths) \in Nat
      /\ widths[1] = 2 /\ widths[2] = 2 /\ widths[3] = 6 /\ widths[4] = 8
      /\ widths[5] = 4 /\ widths[6] = 8 /\ widths[7] = 1 /\ widths[8] = 4
      /\ DOMAIN at = {"stockLocate", "orderReferenceNumber", "executedShares",
                     "timestamp"}
  OBVIOUS
<1> HIDE DEF widths, at
<1>3. /\ WidthBefore("C", 0) = 0
      /\ \A n \in 1 .. Len(widths) : WidthBefore("C", n) = WidthBefore("C", n - 1) + widths[n]
      /\ BodyWidth("C") = WidthBefore("C", Len(widths))
      /\ DOMAIN at \subseteq FieldNames("C")
      /\ LaidOut("C")
  BY <1>1, <1>2, WidthsAdd, Zenon
<1> QED
  BY <1>2, <1>3

\* The body of a cancellation, and what the engine asks of it.
LEMMA CancelLayout ==
    /\ BodyWidth("X") = 22
    /\ LaidOut("X")
    /\ {"stockLocate", "orderReferenceNumber", "cancelledShares",
        "timestamp"} \subseteq FieldNames("X")
<1> DEFINE widths == <<2, 2, 6, 8, 4>>
           at == [stockLocate |-> 1, orderReferenceNumber |-> 4, cancelledShares |-> 5,
                  timestamp |-> 3]
<1>1. HasFields("X", widths, at)
  BY DEF HasFields, Fields, Header, OrderNumber
<1>2. /\ Len(widths) = 5 /\ Len(widths) \in Nat
      /\ widths[1] = 2 /\ widths[2] = 2 /\ widths[3] = 6 /\ widths[4] = 8
      /\ widths[5] = 4
      /\ DOMAIN at = {"stockLocate", "orderReferenceNumber", "cancelledShares",
                     "timestamp"}
  OBVIOUS
<1> HIDE DEF widths, at
<1>3. /\ WidthBefore("X", 0) = 0
      /\ \A n \in 1 .. Len(widths) : WidthBefore("X", n) = WidthBefore("X", n - 1) + widths[n]
      /\ BodyWidth("X") = WidthBefore("X", Len(widths))
      /\ DOMAIN at \subseteq FieldNames("X")
      /\ LaidOut("X")
  BY <1>1, <1>2, WidthsAdd, Zenon
<1> QED
  BY <1>2, <1>3

\* The body of a deletion, and what the engine asks of it.
LEMMA DeleteLayout ==
    /\ BodyWidth("D") = 18
    /\ LaidOut("D")
    /\ {"stockLocate", "orderReferenceNumber", "timestamp"} \subseteq FieldNames("D")
<1> DEFINE widths == <<2, 2, 6, 8>>
           at == [stockLocate |-> 1, orderReferenceNumber |-> 4, timestamp |-> 3]
<1>1. HasFields("D", widths, at)
  BY DEF HasFields, Fields, Header, OrderNumber
<1>2. /\ Len(widths) = 4 /\ Len(widths) \in Nat
      /\ widths[1] = 2 /\ widths[2] = 2 /\ widths[3] = 6 /\ widths[4] = 8
      /\ DOMAIN at = {"stockLocate", "orderReferenceNumber", "timestamp"}
  OBVIOUS
<1> HIDE DEF widths, at
<1>3. /\ WidthBefore("D", 0) = 0
      /\ \A n \in 1 .. Len(widths) : WidthBefore("D", n) = WidthBefore("D", n - 1) + widths[n]
      /\ BodyWidth("D") = WidthBefore("D", Len(widths))
      /\ DOMAIN at \subseteq FieldNames("D")
      /\ LaidOut("D")
  BY <1>1, <1>2, WidthsAdd, Zenon
<1> QED
  BY <1>2, <1>3

\* The body of a replacement, and what the engine asks of it.
LEMMA ReplaceLayout ==
    /\ BodyWidth("U") = 34
    /\ LaidOut("U")
    /\ {"stockLocate", "originalOrderReferenceNumber", "newOrderReferenceNumber",
        "shares", "price", "timestamp"} \subseteq FieldNames("U")
<1> DEFINE widths == <<2, 2, 6, 8, 8, 4, 4>>
           at == [stockLocate |-> 1, originalOrderReferenceNumber |-> 4, newOrderReferenceNumber |-> 5,
                  shares |-> 6, price |-> 7, timestamp |-> 3]
<1>1. HasFields("U", widths, at)
  BY DEF HasFields, Fields, Header, ReplaceFields
<1>2. /\ Len(widths) = 7 /\ Len(widths) \in Nat
      /\ widths[1] = 2 /\ widths[2] = 2 /\ widths[3] = 6 /\ widths[4] = 8
      /\ widths[5] = 8 /\ widths[6] = 4 /\ widths[7] = 4
      /\ DOMAIN at = {"stockLocate", "originalOrderReferenceNumber", "newOrderReferenceNumber",
                     "shares", "price", "timestamp"}
  OBVIOUS
<1> HIDE DEF widths, at
<1>3. /\ WidthBefore("U", 0) = 0
      /\ \A n \in 1 .. Len(widths) : WidthBefore("U", n) = WidthBefore("U", n - 1) + widths[n]
      /\ BodyWidth("U") = WidthBefore("U", Len(widths))
      /\ DOMAIN at \subseteq FieldNames("U")
      /\ LaidOut("U")
  BY <1>1, <1>2, WidthsAdd, Zenon
<1> QED
  BY <1>2, <1>3

\* Every decoder reads as many bytes as the parser insists on, the type aside.
THEOREM DecodersReadTheLength ==
    ASSUME NEW type \in DecodedTypes
    PROVE  ExpectedLength(type) = BodyWidth(type) + 1 /\ LaidOut(type)
           /\ {"stockLocate", "timestamp"} \subseteq FieldNames(type)
BY SystemLayout, DirectoryLayout, AddLayout, AttributedLayout, ExecutedLayout,
   ExecutedAtPriceLayout, CancelLayout, DeleteLayout, ReplaceLayout
   DEF DecodedTypes, ExpectedLength

\* What is read of a message is what CutOff leaves of it.
LEMMA CutOffIsRead ==
    ASSUME NEW type \in DecodedTypes, NEW message, IsMessage(type, message), NEW bytes \in Int
    PROVE  DecodedFrom(type, message, bytes) = CutOff(type, message, BodyWidth(type) - bytes)
<1> DEFINE read == DecodedFrom(type, message, bytes)
           cut == CutOff(type, message, BodyWidth(type) - bytes)
<1>1. ASSUME NEW name \in FieldNames(type)
      PROVE  read[name] = cut[name]
  <2> DEFINE n == Position(type, name)
             width == Fields(type)[n][2]
             left == bytes - WidthBefore(type, n - 1)
             there == IF left < 0 THEN 0 ELSE IF left > width THEN width ELSE left
             lost == (BodyWidth(type) - bytes) - (BodyWidth(type) - WidthBefore(type, n))
             loss == IF lost < 0 THEN 0 ELSE IF lost > width THEN width ELSE lost
  <2>1. n \in DOMAIN Fields(type) /\ Fields(type)[n][1] = name
    BY DEF Position, FieldNames
  <2>2. message[name] \in Nat /\ message[name] < Power[width]
    BY <2>1 DEF IsMessage
  <2>3. /\ BodyWidth(type) \in Nat /\ width \in Nat /\ WidthBefore(type, n - 1) \in Nat
        /\ WidthBefore(type, n) = WidthBefore(type, n - 1) + width
    BY <2>1, DecodersReadTheLength DEF LaidOut
  <2>4. left \in Int /\ lost = width - left
    BY <2>3
  <2>5. read[name] = ReadBigEndian(message[name], width, there)
    BY DEF DecodedFrom
  <2>6. cut[name] = Rounded(message[name], loss)
    BY DEF CutOff
  <2> HIDE DEF n, width, left, lost
  <2>7. loss \in 0 .. width /\ there = width - loss
    BY <2>3, <2>4
  <2> HIDE DEF there, loss, read, cut
  <2>8. ReadBigEndian(message[name], width, width - loss) = Rounded(message[name], loss)
    BY <2>2, <2>3, <2>7, FieldsAreRoundedDown
  <2> QED
    BY <2>5, <2>6, <2>7, <2>8
<1>2. read = [name \in FieldNames(type) |-> read[name]]
  BY DEF DecodedFrom
<1>3. cut = [name \in FieldNames(type) |-> cut[name]]
  BY DEF CutOff
<1> HIDE DEF read, cut
<1>4. read = cut
  BY <1>1, <1>2, <1>3
<1> QED
  BY <1>4 DEF read, cut

\* A message of which all bytes are there is read as it is.
LEMMA WholeMessageIsRead ==
    ASSUME NEW type \in DecodedTypes, NEW message, IsMessage(type, message),
           NEW bytes \in Int, bytes >= BodyWidth(type)
    PROVE  DecodedFrom(type, message, bytes) = message
<1> DEFINE cut == CutOff(type, message, BodyWidth(type) - bytes)
<1>1. ASSUME NEW name \in FieldNames(type)
      PROVE  cut[name] = message[name]
  <2> DEFINE n == Position(type, name)
             width == Fields(type)[n][2]
             lost == (BodyWidth(type) - bytes) - (BodyWidth(type) - WidthBefore(type, n))
             loss == IF lost < 0 THEN 0 ELSE IF lost > width THEN width ELSE lost
  <2>1. n \in DOMAIN Fields(type)
    BY DEF Position, FieldNames
  <2>2. /\ BodyWidth(type) \in Nat /\ width \in Nat /\ WidthBefore(type, n - 1) \in Nat
        /\ WidthBefore(type, n) = WidthBefore(type, n - 1) + width
        /\ WidthBefore(type, n) <= BodyWidth(type)
    BY <2>1, DecodersReadTheLength DEF LaidOut
  <2>3. cut[name] = Rounded(message[name], loss)
    BY DEF CutOff
  <2> HIDE DEF n, width
  <2>4. loss = 0
    BY <2>2
  <2>5. message[name] \in Nat
    BY DEF IsMessage
  <2>6. \A v \in Nat : v - (v % 1) = v
    OBVIOUS
  <2> HIDE DEF cut, loss
  <2> QED
    BY <2>3, <2>4, <2>5, <2>6, PowerFacts DEF Rounded
<1>2. cut = [name \in FieldNames(type) |-> cut[name]]
  BY DEF CutOff
<1>3. message = [name \in FieldNames(type) |-> message[name]]
  BY DEF IsMessage
<1>4. DecodedFrom(type, message, bytes) = cut
  BY CutOffIsRead
<1> HIDE DEF cut
<1> QED
  BY <1>1, <1>2, <1>3, <1>4

-----------------------------------------------------------------------------
(* Where frames start *)

\* The frames of a file.
LEMMA FileFacts ==
    ASSUME NEW file \in Captures
    PROVE  /\ file \in Seq(Range(file)) /\ Len(file) \in Nat \ {0} /\ DOMAIN file = 1 .. Len(file)
           /\ \A n \in DOMAIN file :
                 /\ file[n].length \in Nat
                 /\ file[n].type \in DecodedTypes =>
                       /\ IsMessage(file[n].type, file[n].message)
                       /\ file[n].message.timestamp \in Nat
<1>1. file \in Seq(Range(file)) /\ file # <<>>
  BY CapturesAreFrames
<1>2. Len(file) \in Nat \ {0} /\ DOMAIN file = 1 .. Len(file)
  BY <1>1
<1>3. ASSUME NEW n \in DOMAIN file
      PROVE  /\ file[n].length \in Nat
             /\ file[n].type \in DecodedTypes => IsMessage(file[n].type, file[n].message)
  BY CapturesAreFrames
<1>4. ASSUME NEW type \in DecodedTypes, NEW message, IsMessage(type, message)
      PROVE  message.timestamp \in Nat
  BY <1>4, DecodersReadTheLength DEF IsMessage
<1> QED
  BY <1>1, <1>2, <1>3, <1>4

\* The first frame starts at 0, each of the others where the one before ends.
LEMMA StartsAdd ==
    ASSUME NEW file \in Captures
    PROVE  /\ FrameStart(file, 1) = 0
           /\ \A n \in 1 .. (Len(file) + 1) : FrameStart(file, n) \in Nat
           /\ \A n \in 1 .. Len(file) :
                 FrameStart(file, n + 1) = FrameStart(file, n) + 2 + file[n].length
<1> DEFINE f == [i \in DOMAIN file |-> 2 + file[i].length]
<1>1. \A n \in 1 .. Len(file) : f[n] = 2 + file[n].length /\ f[n] \in Nat /\ file[n].length \in Nat
  BY FileFacts
<1>2. \A n : FrameStart(file, n) = SumFunctionOnSet(f, 1 .. (n - 1))
  BY DEF FrameStart
<1> HIDE DEF f
<1>3. FrameStart(file, 1) = 0
  <2>1. 1 .. (1 - 1) = {}
    OBVIOUS
  <2> QED
    BY <1>2, <2>1, SumEmpty
<1>4. ASSUME NEW n \in 1 .. (Len(file) + 1)
      PROVE  FrameStart(file, n) \in Nat
  <2>1. IsFiniteSet(1 .. (n - 1)) /\ \A i \in 1 .. (n - 1) : f[i] \in Nat
    <3>1. Len(file) \in Nat /\ \A i \in 1 .. (n - 1) : i \in 1 .. Len(file)
      BY FileFacts
    <3>2. IsFiniteSet(1 .. (n - 1))
      BY <3>1, FS_Interval
    <3> QED
      BY <1>1, <3>1, <3>2
  <2> QED
    BY <1>2, <2>1, SumNat
<1>5. ASSUME NEW n \in 1 .. Len(file)
      PROVE  FrameStart(file, n + 1) = FrameStart(file, n) + 2 + file[n].length
  <2>1. n \in Nat \ {0} /\ (n + 1) - 1 = n /\ n \in 1 .. (Len(file) + 1)
        /\ \A i \in 1 .. n : f[i] \in Int
    BY <1>1, FileFacts
  <2>2. SumFunctionOnSet(f, 1 .. n) = SumFunctionOnSet(f, 1 .. (n - 1)) + f[n]
    BY <2>1, SumUpTo
  <2>3. FrameStart(file, n + 1) = FrameStart(file, n) + f[n]
    BY <1>2, <2>1, <2>2
  <2>4. FrameStart(file, n) \in Nat
    BY <1>4, <2>1
  <2>5. f[n] = 2 + file[n].length /\ file[n].length \in Nat
    BY <1>1
  <2> QED
    BY <2>3, <2>4, <2>5
<1> QED
  BY <1>3, <1>4, <1>5

\* A later frame starts later.
LEMMA StartsGrow ==
    ASSUME NEW file \in Captures, NEW m \in 1 .. (Len(file) + 1), NEW n \in 1 .. (Len(file) + 1),
           m < n
    PROVE  FrameStart(file, m) < FrameStart(file, n)
<1> DEFINE Bad == {k \in 1 .. (Len(file) + 1) : m < k /\ ~(FrameStart(file, m) < FrameStart(file, k))}
<1>1. SUFFICES ASSUME Bad # {} PROVE FALSE
  OBVIOUS
<1>0. Len(file) \in Nat
  BY FileFacts
<1>2. PICK k \in Bad : \A j \in Bad : k <= j
  <2>1. Bad \subseteq Nat
    BY <1>0
  <2> HIDE DEF Bad
  <2> QED
    BY <1>1, <2>1, Smallest
<1>3. /\ k \in 1 .. (Len(file) + 1) /\ m < k /\ ~(FrameStart(file, m) < FrameStart(file, k))
  OBVIOUS
<1>4. /\ k - 1 \in 1 .. Len(file) /\ k - 1 \in 1 .. (Len(file) + 1) /\ (k - 1) + 1 = k
      /\ ~(k <= k - 1)
  BY <1>0, <1>3
<1>5. k - 1 \notin Bad
  <2> HIDE DEF Bad
  <2> QED
    BY <1>2, <1>4
<1>6. /\ FrameStart(file, k) = FrameStart(file, k - 1) + 2 + file[k - 1].length
      /\ FrameStart(file, k - 1) \in Nat /\ FrameStart(file, m) \in Nat /\ FrameStart(file, k) \in Nat
  BY <1>3, <1>4, StartsAdd
<1>7. file[k - 1].length \in Nat
  BY <1>4, FileFacts
<1>8. m = k - 1 \/ m < k - 1
  BY <1>0, <1>3
<1>9. CASE m = k - 1
  BY <1>3, <1>6, <1>7, <1>9
<1>10. CASE m < k - 1
  <2>1. FrameStart(file, m) < FrameStart(file, k - 1)
    BY <1>4, <1>5, <1>10
  <2> QED
    BY <1>3, <1>6, <1>7, <2>1
<1> QED
  BY <1>8, <1>9, <1>10

-----------------------------------------------------------------------------
(* Reading a capture *)

\* The decoded frames before one.
DecodedBefore(n) == {m \in 1 .. (n - 1) : frames[m].type \in DecodedTypes}

\* Everything before a frame has been read and none of it was a reason to stop.
ReadUpTo(n) ==
    /\ \A m \in 1 .. (n - 1) : ~Stops(m)
    /\ InFileOrder(applied, DecodedBefore(n))

\* What AppliesThePrefix says of the end.
AppliedThePrefix ==
    \/ InFileOrder(applied, WholeFrames)
    \/ /\ InFileOrder(applied, WholeFrames \cup {FirstStop})
       /\ FrameStart(frames, FirstStop + 1) > size

\* The file: its last frame is there, perhaps not all of it.
FileType ==
    /\ frames \in Captures
    /\ size \in Nat
    /\ FrameStart(frames, Len(frames)) < size
    /\ size <= FrameStart(frames, Len(frames) + 1)
    /\ stopTimestamp \in Nat \cup {NoTime}

\* The types of the variables of the parser.
ParserType ==
    /\ pos \in 0 .. size
    /\ phase \in {"length", "type", "body", "done", "thrown"}
    /\ frame \in DOMAIN frames
    /\ applied \in Seq(DOMAIN frames)

\* The inductive invariant of the parser.
ParserInv ==
    /\ FileType
    /\ ParserType
    /\ phase = "length" =>
          \/ \E n \in DOMAIN frames : pos = FrameStart(frames, n) /\ ReadUpTo(n)
          \/ pos = size /\ AppliedThePrefix
    /\ phase = "type" =>
          /\ pos = FrameStart(frames, frame) + 2
          /\ ReadUpTo(frame)
          /\ Current.length # 0
    /\ phase = "body" =>
          /\ pos = FrameStart(frames, frame) + 3
          /\ ReadUpTo(frame)
          /\ Current.length # 0
          /\ ~UnexpectedMessageLength(Current.length, Current.type)
    /\ phase \in {"done", "thrown"} => AppliedThePrefix

\* A frame lies in the file, and what is behind it is the next one.
LEMMA FrameFacts ==
    ASSUME FileType, NEW n \in DOMAIN frames
    PROVE  /\ Len(frames) \in Nat /\ n \in Nat /\ 1 <= n /\ n <= Len(frames)
           /\ frames[n].length \in Nat
           /\ FrameStart(frames, n) \in Nat
           /\ FrameStart(frames, n + 1) = FrameStart(frames, n) + 2 + frames[n].length
           /\ FrameStart(frames, n) < size
           /\ n + 1 \in DOMAIN frames \/ n = Len(frames)
<1>1. /\ Len(frames) \in Nat /\ DOMAIN frames = 1 .. Len(frames) /\ frames[n].length \in Nat
  BY FileFacts DEF FileType
<1>2. /\ n \in 1 .. (Len(frames) + 1) /\ n \in 1 .. Len(frames)
      /\ Len(frames) \in 1 .. (Len(frames) + 1)
  BY <1>1
<1>3. /\ FrameStart(frames, n) \in Nat /\ FrameStart(frames, Len(frames)) \in Nat
      /\ FrameStart(frames, n + 1) = FrameStart(frames, n) + 2 + frames[n].length
  BY <1>2, StartsAdd DEF FileType
<1>4. FrameStart(frames, n) <= FrameStart(frames, Len(frames))
  <2>1. CASE n = Len(frames)
    BY <1>3, <2>1
  <2>2. CASE n < Len(frames)
    BY <1>2, <1>3, <2>2, StartsGrow DEF FileType
  <2> QED
    BY <1>1, <1>2, <2>1, <2>2
<1> QED
  BY <1>1, <1>2, <1>3, <1>4 DEF FileType

\* No two frames start at the same byte.
LEMMA OneFrame ==
    ASSUME FileType, NEW m \in DOMAIN frames, NEW n \in DOMAIN frames,
           FrameStart(frames, m) = FrameStart(frames, n)
    PROVE  m = n
<1>1. /\ Len(frames) \in Nat /\ m \in 1 .. (Len(frames) + 1) /\ n \in 1 .. (Len(frames) + 1)
      /\ FrameStart(frames, m) \in Nat /\ FrameStart(frames, n) \in Nat
  BY FrameFacts
<1>2. ~(m < n) /\ ~(n < m)
  BY <1>1, StartsGrow DEF FileType
<1> QED
  BY <1>1, <1>2

\* A reason to stop before which there is none is the first.
LEMMA FirstStopIs ==
    ASSUME FileType, NEW n \in DOMAIN frames, Stops(n), \A m \in 1 .. (n - 1) : ~Stops(m)
    PROVE  FirstStop = n /\ WholeFrames = DecodedBefore(n)
<1> DEFINE P(k) == Stops(k) /\ \A m \in 1 .. (k - 1) : ~Stops(m)
<1>1. DOMAIN frames = 1 .. Len(frames) /\ Len(frames) \in Nat
  BY FileFacts DEF FileType
<1>2. ASSUME NEW k \in DOMAIN frames, P(k)
      PROVE  k = n
  <2>1. k \in Nat /\ n \in Nat /\ 1 <= k /\ 1 <= n
    BY <1>1
  <2>2. CASE k < n
    <3>1. k \in 1 .. (n - 1)
      BY <2>1, <2>2
    <3> QED
      BY <1>2, <3>1
  <2>3. CASE n < k
    <3>1. n \in 1 .. (k - 1)
      BY <2>1, <2>3
    <3> QED
      BY <1>2, <3>1
  <2> QED
    BY <2>1, <2>2, <2>3
<1>3. P(n)
  OBVIOUS
<1>4. FirstStop = CHOOSE k \in DOMAIN frames : P(k)
  BY DEF FirstStop
<1> HIDE DEF P
<1>5. FirstStop = n
  BY <1>2, <1>3, <1>4
<1> QED
  BY <1>5 DEF WholeFrames, DecodedBefore

\* Without a reason to stop every frame counts.
LEMMA NoStopIs ==
    ASSUME FileType, \A m \in DOMAIN frames : ~Stops(m)
    PROVE  FirstStop = Len(frames) + 1 /\ WholeFrames = DecodedBefore(Len(frames) + 1)
BY DEF FirstStop, WholeFrames, DecodedBefore

\* What has been read and a reason to stop make a prefix.
LEMMA StopsHere ==
    ASSUME FileType, NEW n \in DOMAIN frames, ReadUpTo(n), Stops(n)
    PROVE  AppliedThePrefix
BY FirstStopIs DEF ReadUpTo, AppliedThePrefix

\* One more frame is applied.
LEMMA OneMoreApplied ==
    ASSUME FileType, applied \in Seq(DOMAIN frames), NEW n \in DOMAIN frames,
           InFileOrder(applied, DecodedBefore(n))
    PROVE  InFileOrder(Append(applied, n), DecodedBefore(n) \cup {n})
<1> DEFINE more == Append(applied, n)
<1>1. /\ Len(applied) \in Nat /\ DOMAIN applied = 1 .. Len(applied)
      /\ DOMAIN more = 1 .. (Len(applied) + 1)
      /\ more[Len(applied) + 1] = n
      /\ \A k \in DOMAIN applied : more[k] = applied[k]
  OBVIOUS
<1>2. \A k \in DOMAIN applied : applied[k] \in DecodedBefore(n)
  BY DEF InFileOrder, Range
<1>3. n \in Nat /\ \A m \in DecodedBefore(n) : m \in Nat /\ m < n
  BY FrameFacts DEF DecodedBefore
<1> HIDE DEF more
<1>4. Range(more) = DecodedBefore(n) \cup {n}
  <2>1. \A k \in DOMAIN more : k \in DOMAIN applied \/ k = Len(applied) + 1
    BY <1>1
  <2>2. \A k \in DOMAIN more : more[k] \in DecodedBefore(n) \cup {n}
    BY <1>1, <1>2, <2>1
  <2>3. n \in Range(more)
    <3>1. Len(applied) + 1 \in DOMAIN more
      BY <1>1
    <3> QED
      BY <1>1, <3>1 DEF Range
  <2>4. \A m \in DecodedBefore(n) : m \in Range(more)
    <3> SUFFICES ASSUME NEW m \in DecodedBefore(n) PROVE m \in Range(more)
      OBVIOUS
    <3>1. PICK k \in DOMAIN applied : applied[k] = m
      BY DEF InFileOrder, Range
    <3>2. k \in DOMAIN more /\ more[k] = m
      BY <1>1, <3>1
    <3> QED
      BY <3>2 DEF Range
  <2> QED
    BY <2>2, <2>3, <2>4 DEF Range
<1>5. ASSUME NEW j \in DOMAIN more, NEW k \in DOMAIN more, j < k
      PROVE  more[j] < more[k]
  <2>1. j \in DOMAIN applied /\ more[j] = applied[j] /\ applied[j] \in DecodedBefore(n)
    BY <1>1, <1>2, <1>5
  <2>2. CASE k \in DOMAIN applied
    BY <1>1, <1>5, <2>1, <2>2 DEF InFileOrder
  <2>3. CASE k = Len(applied) + 1
    BY <1>1, <1>3, <2>1, <2>3
  <2> QED
    BY <1>1, <2>2, <2>3
<1> QED
  BY <1>4, <1>5 DEF InFileOrder, more

\* parse writes nothing of the file or the time to stop at.
LEMMA FileStays ==
    ASSUME UNCHANGED fileVars
    PROVE  /\ FileType => FileType'
           /\ FirstStop' = FirstStop /\ WholeFrames' = WholeFrames
           /\ \A n : FrameStart(frames, n)' = FrameStart(frames, n)
           /\ \A n : Stops(n)' <=> Stops(n)
           /\ \A n : DecodedBefore(n)' = DecodedBefore(n)
BY DEF fileVars, FileType, FirstStop, WholeFrames, Stops, DecodedBefore

\* What the invariant says when a length is to be read.
AtAFrame ==
    \/ \E n \in DOMAIN frames : pos = FrameStart(frames, n) /\ ReadUpTo(n)
    \/ pos = size /\ AppliedThePrefix

\* Behind a frame there is the next one, or the end of the capture.
LEMMA NextFrame ==
    ASSUME FileType, UNCHANGED fileVars, NEW n \in DOMAIN frames,
           \A m \in 1 .. (n - 1) : ~Stops(m), ~Stops(n),
           pos' = FrameStart(frames, n + 1),
           InFileOrder(applied', DecodedBefore(n + 1))
    PROVE  AtAFrame'
<1>1. /\ Len(frames) \in Nat /\ n \in Nat /\ 1 <= n
      /\ n + 1 \in DOMAIN frames \/ n = Len(frames)
  BY FrameFacts
<1>2. \A m \in 1 .. ((n + 1) - 1) : ~Stops(m)
  <2> SUFFICES ASSUME NEW m \in 1 .. ((n + 1) - 1) PROVE ~Stops(m)
    OBVIOUS
  <2>1. m = n \/ m \in 1 .. (n - 1)
    BY <1>1
  <2> QED
    BY <2>1
<1>3. CASE n + 1 \in DOMAIN frames
  <2>1. ReadUpTo(n + 1)'
    BY <1>2, FileStays DEF ReadUpTo
  <2>2. (n + 1 \in DOMAIN frames)' /\ pos' = FrameStart(frames, n + 1)'
    BY <1>3, FileStays DEF fileVars
  <2> QED
    BY <2>1, <2>2 DEF AtAFrame
<1>4. CASE n = Len(frames)
  <2>1. DOMAIN frames = 1 .. Len(frames)
    BY FileFacts DEF FileType
  <2>2. \A m \in DOMAIN frames : ~Stops(m)
    BY <1>2, <1>4, <2>1, <1>1
  <2>3. WholeFrames = DecodedBefore(n + 1)
    BY <1>4, <2>2, NoStopIs
  <2>4. FrameStart(frames, n + 1) = size
    <3>1. ~(FrameStart(frames, n + 1) > size)
      BY DEF Stops
    <3>2. FrameStart(frames, n + 1) \in Nat
      BY FrameFacts
    <3> QED
      BY <1>4, <3>1, <3>2 DEF FileType
  <2>5. AppliedThePrefix'
    BY <2>3, FileStays DEF AppliedThePrefix
  <2>6. pos' = size'
    BY <2>4 DEF fileVars
  <2> QED
    BY <2>5, <2>6 DEF AtAFrame
<1> QED
  BY <1>1, <1>3, <1>4

\* Nothing was applied in the step, and the file is as it was.
LEMMA NothingApplied ==
    ASSUME UNCHANGED fileVars, UNCHANGED applied
    PROVE  /\ \A n : ReadUpTo(n) => ReadUpTo(n)'
           /\ AppliedThePrefix => AppliedThePrefix'
<1>1. applied' = applied /\ size' = size
  BY DEF fileVars
<1>2. ASSUME NEW n, ReadUpTo(n)
      PROVE  ReadUpTo(n)'
  <2>1. DecodedBefore(n)' = DecodedBefore(n) /\ \A m : Stops(m)' <=> Stops(m)
    BY FileStays
  <2>2. InFileOrder(applied', DecodedBefore(n)')
    BY <1>1, <1>2, <2>1 DEF ReadUpTo
  <2>3. \A m \in 1 .. (n - 1) : ~Stops(m)'
    BY <1>2, <2>1 DEF ReadUpTo
  <2> QED
    BY <2>2, <2>3 DEF ReadUpTo
<1>3. ASSUME AppliedThePrefix
      PROVE  AppliedThePrefix'
  <2>1. FirstStop' = FirstStop /\ WholeFrames' = WholeFrames
        /\ \A n : FrameStart(frames, n)' = FrameStart(frames, n)
    BY FileStays
  <2>2. FrameStart(frames', FirstStop' + 1) = FrameStart(frames, FirstStop + 1)
    BY <2>1 DEF fileVars
  <2> QED
    BY <1>1, <1>3, <2>1, <2>2 DEF AppliedThePrefix
<1> QED
  BY <1>2, <1>3

\* A read moves to its end or to the end of the file.
LEMMA AfterReadingIs ==
    ASSUME ParserInv, NEW bytes \in Nat
    PROVE  /\ pos \in Nat /\ size \in Nat
           /\ AfterReading(bytes) \in 0 .. size
           /\ Available(bytes) => pos + bytes <= size /\ AfterReading(bytes) = pos + bytes
           /\ ~Available(bytes) => pos + bytes > size /\ AfterReading(bytes) = size
BY DEF ParserInv, FileType, ParserType, AfterReading, Available

\* Reading a length keeps the invariant.
LEMMA ReadLengthKeeps == ASSUME ParserInv, ReadLength PROVE ParserInv'
<1> USE DEF ParserInv
<1>1. UNCHANGED fileVars /\ UNCHANGED applied /\ phase = "length"
  BY DEF ReadLength
<1>2. FileType' /\ (pos \in 0 .. size)' /\ applied' \in Seq(DOMAIN frames')
  <2>1. pos' = AfterReading(2) /\ size' = size /\ frames' = frames
    BY <1>1 DEF ReadLength, fileVars
  <2> QED
    BY <1>1, <2>1, FileStays, AfterReadingIs DEF ParserType
<1>3. CASE ~Available(2)
  <2>1. phase' = "done" /\ frame' = frame
    BY <1>3 DEF ReadLength
  <2>2. AppliedThePrefix
    <3>1. ASSUME NEW n \in DOMAIN frames, pos = FrameStart(frames, n), ReadUpTo(n)
          PROVE  AppliedThePrefix
      <4>1. pos + 2 > size
        BY <1>3, AfterReadingIs
      <4>2. FrameStart(frames, n + 1) > size
        <5>1. /\ FrameStart(frames, n + 1) = FrameStart(frames, n) + 2 + frames[n].length
              /\ FrameStart(frames, n) \in Nat /\ frames[n].length \in Nat /\ size \in Nat
          BY FrameFacts DEF FileType
        <5> QED
          BY <3>1, <4>1, <5>1
      <4> QED
        BY <3>1, <4>2, StopsHere DEF Stops
    <3> QED
      BY <1>1, <3>1
  <2> QED
    BY <1>1, <1>2, <2>1, <2>2, NothingApplied DEF ParserType, fileVars
<1>4. CASE Available(2)
  <2>1. PICK n \in DOMAIN frames :
           /\ FrameStart(frames, n) = pos
           /\ frame' = n
           /\ phase' = IF frames[n].length = 0 THEN "done" ELSE "type"
    BY <1>4 DEF ReadLength
  <2>2. pos + 2 <= size /\ pos' = pos + 2 /\ pos \in Nat /\ size \in Nat
    BY <1>4, AfterReadingIs DEF ReadLength
  <2>3. ReadUpTo(n)
    <3>1. pos # size
      BY <2>2
    <3>2. PICK m \in DOMAIN frames : pos = FrameStart(frames, m) /\ ReadUpTo(m)
      BY <1>1, <3>1
    <3> QED
      BY <2>1, <3>2, OneFrame
  <2>4. ParserType'
    BY <1>1, <1>2, <2>1 DEF ParserType, fileVars
  <2>5. CASE frames[n].length = 0
    <3>1. AppliedThePrefix
      BY <2>3, <2>5, StopsHere DEF Stops
    <3>2. phase' = "done"
      BY <2>1, <2>5
    <3> QED
      BY <1>1, <1>2, <2>4, <3>1, <3>2, NothingApplied
  <2>6. CASE frames[n].length # 0
    <3>1. phase' = "type" /\ frame' = n
      BY <2>1, <2>6
    <3>2. frames' = frames
      BY <1>1 DEF fileVars
    <3>3. pos' = FrameStart(frames', frame') + 2
      BY <2>1, <2>2, <3>1, <3>2
    <3>4. Current' = frames[n]
      BY <3>1, <3>2 DEF Current
    <3>5. ReadUpTo(n)'
      BY <1>1, <2>3, NothingApplied
    <3>6. ReadUpTo(frame)'
      BY <3>1, <3>5 DEF ReadUpTo, DecodedBefore
    <3> QED
      BY <1>2, <2>4, <2>6, <3>1, <3>3, <3>4, <3>6
  <2> QED
    BY <2>5, <2>6
<1> QED
  BY <1>3, <1>4

\* Reading a type does.
LEMMA ReadTypeKeeps == ASSUME ParserInv, ReadType PROVE ParserInv'
<1> USE DEF ParserInv
<1>1. /\ UNCHANGED fileVars /\ UNCHANGED applied /\ frame' = frame /\ phase = "type"
      /\ pos' = AfterReading(1)
      /\ Current' = Current
  BY DEF ReadType, Current, fileVars
<1>2. FileType' /\ (pos \in 0 .. size)' /\ applied' \in Seq(DOMAIN frames') /\ frame' \in DOMAIN frames'
  <2>1. size' = size /\ frames' = frames
    BY <1>1 DEF fileVars
  <2> QED
    BY <1>1, <2>1, FileStays, AfterReadingIs DEF ParserType
<1>3. /\ frame \in DOMAIN frames /\ ReadUpTo(frame) /\ ReadUpTo(frame)'
      /\ pos = FrameStart(frames, frame) + 2 /\ Current.length # 0
  BY <1>1, NothingApplied DEF ParserType
<1>4. CASE ~Available(1)
  <2>1. phase' = "done"
    BY <1>4 DEF ReadType
  <2>2. FrameStart(frames, frame + 1) > size
    <3>1. pos + 1 > size
      BY <1>4, AfterReadingIs
    <3> QED
      BY <1>3, <3>1, FrameFacts DEF FileType, Current
  <2>3. AppliedThePrefix
    BY <1>3, <2>2, StopsHere DEF Stops
  <2> QED
    BY <1>1, <1>2, <2>1, <2>3, NothingApplied DEF ParserType
<1>5. CASE Available(1) /\ UnexpectedMessageLength(Current.length, Current.type)
  <2>1. phase' = "thrown"
    BY <1>5 DEF ReadType
  <2>2. AppliedThePrefix
    BY <1>3, <1>5, StopsHere DEF Stops, Current
  <2> QED
    BY <1>1, <1>2, <2>1, <2>2, NothingApplied DEF ParserType
<1>6. CASE Available(1) /\ ~UnexpectedMessageLength(Current.length, Current.type)
  <2>1. phase' = "body"
    BY <1>6 DEF ReadType
  <2>2. pos' = FrameStart(frames, frame)' + 3
    <3>1. pos' = pos + 1
      BY <1>1, <1>6, AfterReadingIs
    <3> QED
      BY <1>1, <1>3, <3>1, FrameFacts, FileStays DEF fileVars
  <2>3. ~UnexpectedMessageLength(Current.length, Current.type)'
    BY <1>1, <1>6 DEF UnexpectedMessageLength
  <2> QED
    BY <1>1, <1>2, <1>3, <2>1, <2>2, <2>3 DEF ParserType
<1> QED
  BY <1>4, <1>5, <1>6

\* The invariant follows from AtAFrame when a length is to be read next.
LEMMA AtLength ==
    ASSUME FileType', ParserType', phase' = "length", AtAFrame'
    PROVE  ParserInv'
<1>1. phase' # "type" /\ phase' # "body" /\ phase' # "done" /\ phase' # "thrown"
  OBVIOUS
<1>2. phase' = "length" => \/ (\E n \in DOMAIN frames : pos = FrameStart(frames, n) /\ ReadUpTo(n))'
                          \/ (pos = size /\ AppliedThePrefix)'
  BY DEF AtAFrame
<1> QED
  BY <1>1, <1>2 DEF ParserInv

\* It follows from the applied prefix when parse has ended.
LEMMA AtEnd ==
    ASSUME FileType', ParserType', phase' \in {"done", "thrown"}, AppliedThePrefix'
    PROVE  ParserInv'
BY DEF ParserInv

\* Where a frame is whose body is about to be read.
LEMMA AtABody ==
    ASSUME ParserInv, phase = "body"
    PROVE  /\ FileType /\ ParserType /\ frame \in DOMAIN frames /\ Len(frames) \in Nat
           /\ frame \in Nat /\ 1 <= frame
           /\ pos \in Nat /\ size \in Nat
           /\ Current.length \in Nat \ {0}
           /\ ~UnexpectedMessageLength(Current.length, Current.type)
           /\ FrameStart(frames, frame + 1) \in Nat
           /\ FrameStart(frames, frame + 1) = pos + (Current.length - 1)
           /\ ReadUpTo(frame)
<1>1. /\ FileType /\ ParserType /\ frame \in DOMAIN frames
      /\ pos = FrameStart(frames, frame) + 3 /\ ReadUpTo(frame) /\ Current.length # 0
      /\ ~UnexpectedMessageLength(Current.length, Current.type)
  BY DEF ParserInv, ParserType
<1>2. /\ FrameStart(frames, frame + 1) = FrameStart(frames, frame) + 2 + frames[frame].length
      /\ FrameStart(frames, frame) \in Nat /\ frames[frame].length \in Nat
      /\ Len(frames) \in Nat /\ frame \in Nat /\ 1 <= frame
  BY <1>1, FrameFacts
<1>3. pos \in Nat /\ size \in Nat
  BY <1>1 DEF ParserType, FileType
<1>4. Current.length = frames[frame].length
  BY DEF Current
<1>5. Current.length \in Nat \ {0}
  BY <1>1, <1>2, <1>4
<1>6. /\ FrameStart(frames, frame + 1) \in Nat
      /\ FrameStart(frames, frame + 1) = pos + (Current.length - 1)
  <2> DEFINE start == FrameStart(frames, frame)
             length == Current.length
  <2>1. /\ start \in Nat /\ length \in Nat
        /\ pos = start + 3 /\ FrameStart(frames, frame + 1) = start + 2 + length
    BY <1>1, <1>2, <1>4
  <2> HIDE DEF start, length
  <2>2. start + 2 + length \in Nat /\ start + 2 + length = (start + 3) + (length - 1)
    BY <2>1
  <2> QED
    BY <2>1, <2>2 DEF length
<1> QED
  BY <1>1, <1>2, <1>3, <1>5, <1>6, Zenon

\* Skipping a message does: its length says where the next frame starts.
LEMMA IgnoreKeeps == ASSUME ParserInv, Ignore PROVE ParserInv'
<1>1. /\ UNCHANGED fileVars /\ UNCHANGED applied /\ frame' = frame
      /\ phase = "body" /\ phase' = "length"
      /\ Current.type \notin DecodedTypes
      /\ pos' = AfterReading(Current.length - 1)
  BY DEF Ignore
<1>2. size' = size /\ frames' = frames
  BY <1>1 DEF fileVars
<1> DEFINE bytes == Current.length - 1
<1>3. /\ FileType /\ ParserType /\ frame \in DOMAIN frames /\ frame \in Nat /\ 1 <= frame
      /\ pos \in Nat /\ size \in Nat /\ Current.length \in Nat \ {0} /\ bytes \in Nat
      /\ ~UnexpectedMessageLength(Current.length, Current.type)
      /\ FrameStart(frames, frame + 1) = pos + bytes
      /\ ReadUpTo(frame)
  BY <1>1, AtABody
<1> HIDE DEF bytes
<1>4. pos' = AfterReading(bytes)
  BY <1>1 DEF bytes
<1>5. FileType' /\ ParserType'
  <2>1. pos' \in 0 .. size
    BY <1>3, <1>4, AfterReadingIs
  <2>2. FileType'
    BY <1>1, <1>3, FileStays
  <2> QED
    BY <1>1, <1>2, <1>3, <2>1, <2>2 DEF ParserType
<1>6. CASE Available(bytes)
  <2>1. pos' = FrameStart(frames, frame + 1) /\ ~(FrameStart(frames, frame + 1) > size)
    BY <1>3, <1>4, <1>6, AfterReadingIs
  <2>2. ~Stops(frame)
    BY <1>1, <1>3, <2>1 DEF Stops, Current
  <2>3. DecodedBefore(frame + 1) = DecodedBefore(frame)
    <3>1. frames[frame].type \notin DecodedTypes
      BY <1>1 DEF Current
    <3>2. \A m : m \in 1 .. ((frame + 1) - 1) <=> m \in 1 .. (frame - 1) \/ m = frame
      BY <1>3
    <3> QED
      BY <3>1, <3>2 DEF DecodedBefore
  <2>4. InFileOrder(applied', DecodedBefore(frame + 1))
    BY <1>1, <1>3, <2>3 DEF ReadUpTo
  <2>5. AtAFrame'
    BY <1>1, <1>3, <2>1, <2>2, <2>4, NextFrame DEF ReadUpTo
  <2> QED
    BY <1>1, <1>5, <2>5, AtLength
<1>7. CASE ~Available(bytes)
  <2>1. pos' = size /\ FrameStart(frames, frame + 1) > size
    BY <1>3, <1>4, <1>7, AfterReadingIs
  <2>2. AppliedThePrefix
    BY <1>3, <2>1, StopsHere DEF Stops
  <2>3. AtAFrame'
    BY <1>1, <1>2, <2>1, <2>2, NothingApplied DEF AtAFrame
  <2> QED
    BY <1>1, <1>5, <2>3, AtLength
<1> QED
  BY <1>6, <1>7

\* Decoding a message does: its fields end where the next frame starts.
LEMMA DecodeKeeps == ASSUME ParserInv, Decode PROVE ParserInv'
<1> DEFINE bytes == BodyWidth(Current.type)
           time == Current.message.timestamp
<1>1. /\ UNCHANGED fileVars /\ frame' = frame /\ phase = "body"
      /\ Current.type \in DecodedTypes
      /\ pos' = AfterReading(bytes)
  BY DEF Decode
<1>2. /\ size' = size /\ frames' = frames /\ Current = frames[frame]
  BY <1>1 DEF fileVars, Current
<1>3. /\ FileType /\ ParserType /\ frame \in DOMAIN frames /\ frame \in Nat /\ 1 <= frame
      /\ pos \in Nat /\ size \in Nat /\ Current.length \in Nat \ {0}
      /\ ~UnexpectedMessageLength(Current.length, Current.type)
      /\ FrameStart(frames, frame + 1) = pos + (Current.length - 1)
      /\ ReadUpTo(frame)
  BY <1>1, AtABody
<1>4. bytes \in Nat /\ ExpectedLength(Current.type) = bytes + 1
  BY <1>1, DecodersReadTheLength DEF LaidOut
<1>5. Current.length = bytes + 1
  BY <1>1, <1>3, <1>4 DEF UnexpectedMessageLength
<1> HIDE DEF bytes, time
<1>6. FrameStart(frames, frame + 1) = pos + bytes
  BY <1>3, <1>4, <1>5
<1>7. FileType' /\ (pos \in 0 .. size)' /\ frame' \in DOMAIN frames'
      /\ applied \in Seq(DOMAIN frames)
  <2>1. pos' \in 0 .. size
    BY <1>1, <1>4, AfterReadingIs
  <2> QED
    BY <1>1, <1>2, <1>3, <2>1, FileStays DEF ParserType
<1>8. CASE UNCHANGED applied /\ phase' = "done" /\ Stops(frame)
  <2>1. AppliedThePrefix
    BY <1>3, <1>8, StopsHere
  <2>2. ParserType'
    BY <1>2, <1>7, <1>8 DEF ParserType
  <2> QED
    BY <1>1, <1>7, <1>8, <2>1, <2>2, NothingApplied, AtEnd
<1>9. ASSUME applied' = Append(applied, frame)
      PROVE  /\ applied' \in Seq(DOMAIN frames')
             /\ InFileOrder(applied', DecodedBefore(frame) \cup {frame})
  <2>1. Append(applied, frame) \in Seq(DOMAIN frames)
    BY <1>3, <1>7
  <2> QED
    BY <1>2, <1>3, <1>7, <1>9, <2>1, OneMoreApplied DEF ReadUpTo
<1>10. CASE Available(bytes)
  <2>1. pos' = FrameStart(frames, frame + 1) /\ ~(FrameStart(frames, frame + 1) > size)
        /\ size - pos \in Int /\ size - pos >= bytes
    BY <1>1, <1>3, <1>4, <1>6, <1>10, AfterReadingIs
  <2>2. MessageRead.timestamp = time
    <3>1. IsMessage(Current.type, Current.message)
      BY <1>1, <1>2, <1>3, FileFacts DEF FileType
    <3> QED
      BY <1>1, <2>1, <3>1, WholeMessageIsRead DEF MessageRead, time, bytes
  <2>3. ShouldStopBefore(MessageRead.timestamp) <=> Stops(frame)
    <3>1. Current.length # 0
      BY <1>3
    <3> QED
      BY <1>1, <1>2, <1>3, <2>1, <2>2, <3>1 DEF ShouldStopBefore, Stops, time
  <2>4. CASE Stops(frame)
    <3>1. UNCHANGED applied /\ phase' = "done"
      BY <2>3, <2>4 DEF Decode
    <3> QED
      BY <1>8, <2>4, <3>1
  <2>5. CASE ~Stops(frame)
    <3>1. applied' = Append(applied, frame) /\ phase' = "length"
      BY <1>10, <2>3, <2>5 DEF Decode, bytes
    <3>2. DecodedBefore(frame + 1) = DecodedBefore(frame) \cup {frame}
      <4>1. frames[frame].type \in DecodedTypes
        BY <1>1, <1>2
      <4>2. \A m : m \in 1 .. ((frame + 1) - 1) <=> m \in 1 .. (frame - 1) \/ m = frame
        BY <1>3
      <4> QED
        BY <4>1, <4>2 DEF DecodedBefore
    <3>3. AtAFrame'
      BY <1>1, <1>3, <1>9, <2>1, <2>5, <3>1, <3>2, NextFrame DEF ReadUpTo
    <3>4. ParserType'
      BY <1>2, <1>7, <1>9, <3>1 DEF ParserType
    <3> QED
      BY <1>7, <3>1, <3>3, <3>4, AtLength
  <2> QED
    BY <2>4, <2>5
<1>11. CASE ~Available(bytes)
  <2>1. FrameStart(frames, frame + 1) > size
    BY <1>4, <1>6, <1>11, AfterReadingIs
  <2>2. Stops(frame)
    BY <2>1 DEF Stops
  <2>3. CASE ShouldStopBefore(MessageRead.timestamp)
    <3>1. UNCHANGED applied /\ phase' = "done"
      BY <2>3 DEF Decode
    <3> QED
      BY <1>8, <2>2, <3>1
  <2>4. CASE ~ShouldStopBefore(MessageRead.timestamp)
    <3>1. applied' = Append(applied, frame) /\ phase' = "done"
      BY <1>11, <2>4 DEF Decode, bytes
    <3>2. FirstStop = frame /\ WholeFrames = DecodedBefore(frame)
      BY <1>3, <2>2, FirstStopIs DEF ReadUpTo
    <3>3. FirstStop' = FirstStop /\ WholeFrames' = WholeFrames
          /\ \A n : FrameStart(frames, n)' = FrameStart(frames, n)
      BY <1>1, FileStays
    <3>4. InFileOrder(applied', WholeFrames' \cup {FirstStop'})
      BY <1>9, <3>1, <3>2, <3>3
    <3>5. FrameStart(frames', FirstStop' + 1) > size'
      BY <1>2, <2>1, <3>2, <3>3
    <3>6. AppliedThePrefix'
      BY <3>4, <3>5 DEF AppliedThePrefix
    <3>7. ParserType'
      BY <1>2, <1>7, <1>9, <3>1 DEF ParserType
    <3> QED
      BY <1>7, <3>1, <3>6, <3>7, AtEnd
  <2> QED
    BY <2>3, <2>4
<1> QED
  BY <1>10, <1>11

\* The invariant holds at the start.
LEMMA ParserStarts == ParserInit => ParserInv
<1> SUFFICES ASSUME ParserInit PROVE ParserInv
  OBVIOUS
<1>1. /\ frames \in Captures /\ pos = 0 /\ phase = "length" /\ frame = 1 /\ applied = <<>>
      /\ stopTimestamp \in Nat \cup {NoTime}
      /\ size > FrameStart(frames, Len(frames))
  BY TimesAreNatural DEF ParserInit
<1>2. PICK cut \in Cuts : size = FrameStart(frames, Len(frames) + 1) - cut
  BY DEF ParserInit
<1>3. /\ Len(frames) \in Nat \ {0} /\ DOMAIN frames = 1 .. Len(frames) /\ 1 \in DOMAIN frames
      /\ cut \in Nat
  BY <1>1, FileFacts, TimesAreNatural
<1>4. /\ FrameStart(frames, 1) = 0
      /\ FrameStart(frames, Len(frames)) \in Nat /\ FrameStart(frames, Len(frames) + 1) \in Nat
  <2>1. Len(frames) \in 1 .. (Len(frames) + 1) /\ Len(frames) + 1 \in 1 .. (Len(frames) + 1)
    BY <1>3
  <2> QED
    BY <1>1, <2>1, StartsAdd
<1>5. FileType
  BY <1>1, <1>2, <1>3, <1>4 DEF FileType
<1>6. ParserType
  BY <1>1, <1>3, <1>5 DEF ParserType, FileType
<1>7. ReadUpTo(1)
  <2>1. 1 .. (1 - 1) = {}
    OBVIOUS
  <2>2. DecodedBefore(1) = {}
    BY <2>1 DEF DecodedBefore
  <2>3. DOMAIN applied = {}
    BY <1>1
  <2>4. InFileOrder(applied, {})
    BY <2>3 DEF InFileOrder, Range
  <2> QED
    BY <2>1, <2>2, <2>4 DEF ReadUpTo
<1>8. \E n \in DOMAIN frames : pos = FrameStart(frames, n) /\ ReadUpTo(n)
  BY <1>1, <1>3, <1>4, <1>7
<1> QED
  BY <1>1, <1>5, <1>6, <1>8 DEF ParserInv

\* It speaks of the parser only.
LEMMA ParserStays == ASSUME ParserInv, UNCHANGED parserVars PROVE ParserInv'
<1>1. UNCHANGED fileVars /\ UNCHANGED <<pos, phase, frame, applied>>
  BY DEF parserVars, fileVars
<1>2. /\ FileType' /\ frames' = frames /\ size' = size /\ Current' = Current
      /\ \A n : FrameStart(frames, n)' = FrameStart(frames, n)
  BY <1>1, FileStays DEF ParserInv, fileVars, Current
<1>3. /\ \A n : ReadUpTo(n) => ReadUpTo(n)'
      /\ AppliedThePrefix => AppliedThePrefix'
  BY <1>1, NothingApplied
<1>4. ReadUpTo(frame) => ReadUpTo(frame)'
  <2>1. ReadUpTo(frame) => \A n : n = frame => ReadUpTo(n)'
    BY <1>3
  <2> QED
    BY <1>1, <2>1 DEF ReadUpTo, DecodedBefore
<1>5. ParserType'
  BY <1>1, <1>2 DEF ParserInv, ParserType
<1>6. phase' = "length" => AtAFrame'
  BY <1>1, <1>2, <1>3 DEF ParserInv, AtAFrame
<1> QED
  BY <1>1, <1>2, <1>3, <1>4, <1>5, <1>6 DEF ParserInv, AtAFrame, UnexpectedMessageLength


\* Nothing but parse moves the parser, so the program keeps the invariant.
LEMMA NextKeepsParser ==
    ASSUME ParserInv, [SessionNext]_sessionVars
    PROVE  ParserInv'
<1>1. CASE UNCHANGED parserVars
  BY <1>1, ParserStays
<1>2. CASE Parse
  BY <1>2, ReadLengthKeeps, ReadTypeKeeps, IgnoreKeeps, DecodeKeeps DEF Parse
<1>3. [SessionNext]_sessionVars => UNCHANGED parserVars \/ Parse
  BY DEF SessionNext, RefuseArguments, Start, Replace, Complete, Fail, Exited, sessionVars,
         parserVars
<1> QED
  BY <1>1, <1>2, <1>3

LEMMA SessionKeepsParser == SessionSpec => []ParserInv
<1>1. SessionInit => ParserInv
  BY ParserStarts DEF SessionInit
<1>2. ParserInv /\ [SessionNext]_sessionVars => ParserInv'
  BY NextKeepsParser
<1> QED
  BY <1>1, <1>2, PTL DEF SessionSpec

-----------------------------------------------------------------------------
(* The engine and main *)

\* What main has printed is what the book and the counters say.
MainInv ==
    /\ status \in {"starting", "parsing", "EXIT_SUCCESS", "EXIT_FAILURE"}
    /\ status # "EXIT_SUCCESS" => summary = None
    /\ status = "EXIT_SUCCESS" =>
          adding = None /\ phase = "done" /\ summary = PrintSummary(Depth)

\* The inductive invariant of the program.
SessionInv == ParserInv /\ RInv /\ MainInv

\* parse hands the engine a message, and the engine handles it.
Handing ==
    /\ status = "parsing" /\ adding = None
    /\ phase = "body" /\ Current.type \in DecodedTypes
    /\ applied' = Append(applied, frame)
    /\ OnMessage(Current.type, MessageRead)
    /\ UNCHANGED <<fileVars, callVars, mainVars>>

\* The engine finishes a replacement.
Finishing ==
    AddReplacement /\ UNCHANGED <<parserVars, callVars, mainVars>>

\* The engine has nothing to do.
Resting == UNCHANGED <<bookVars, callVars, engineVars, applied, fileVars>>

LEMMA SessionSteps ==
    ASSUME ParserInv, [SessionNext]_sessionVars
    PROVE  Handing \/ Finishing \/ Resting
<1>1. CASE Parse
  <2>1. CASE (ReadLength \/ ReadType \/ Ignore) /\ UNCHANGED <<bookVars, engineVars>>
    BY <1>1, <2>1 DEF Parse, Resting, ReadLength, ReadType, Ignore
  <2>2. CASE /\ Decode
             /\ IF applied' = applied THEN UNCHANGED <<bookVars, engineVars>>
                ELSE OnMessage(Current.type, MessageRead)
    <3>1. /\ phase = "body" /\ Current.type \in DecodedTypes /\ UNCHANGED fileVars
          /\ applied' = applied \/ applied' = Append(applied, frame)
      BY <2>2 DEF Decode
    <3> QED
      BY <1>1, <2>2, <3>1 DEF Parse, Resting, Handing
  <2> QED
    BY <1>1, <2>1, <2>2 DEF Parse
<1>2. CASE Replace
  BY <1>2 DEF Replace, Finishing
<1>3. CASE RefuseArguments \/ Start \/ Complete \/ Fail
  BY <1>3 DEF RefuseArguments, Start, Complete, Fail, Resting, parserVars, fileVars
<1>4. CASE UNCHANGED sessionVars
  BY <1>4 DEF sessionVars, Resting, bookVars, callVars, engineVars, fileVars
<1> QED
  BY <1>1, <1>2, <1>3, <1>4 DEF SessionNext, Exited

\* Whatever bytes of a message are there, the program can hold what is read.
LEMMA MessageFits ==
    ASSUME FeedFits, ParserInv, phase = "body", Current.type \in DecodedTypes
    PROVE  /\ size - pos \in Nat
           /\ IsMessage(Current.type, Current.message)
           /\ Acceptable(Current.type, MessageRead)
<1> DEFINE type == Current.type
           message == Current.message
           bytes == size - pos
<1>1. /\ frames \in Captures /\ frame \in DOMAIN frames /\ Current = frames[frame]
      /\ bytes \in Nat
  BY DEF ParserInv, FileType, ParserType, Current
<1>2. Current \in UNION {Range(capture) : capture \in Captures}
  BY <1>1 DEF Range
<1>3. \A b \in 0 .. BodyWidth(type) : Acceptable(type, DecodedFrom(type, message, b))
  BY <1>2 DEF FeedFits
<1>4. IsMessage(type, message)
  BY <1>1, FileFacts
<1>5. BodyWidth(type) \in Nat
  BY DecodersReadTheLength DEF LaidOut
<1> HIDE DEF bytes
<1>6. CASE bytes <= BodyWidth(type)
  BY <1>1, <1>3, <1>4, <1>5, <1>6 DEF MessageRead, bytes
<1>7. CASE ~(bytes <= BodyWidth(type))
  <2>1. DecodedFrom(type, message, bytes) = message
    BY <1>1, <1>4, <1>5, <1>7, WholeMessageIsRead
  <2>2. DecodedFrom(type, message, BodyWidth(type)) = message
    BY <1>4, <1>5, WholeMessageIsRead
  <2>3. BodyWidth(type) \in 0 .. BodyWidth(type)
    BY <1>5
  <2>4. Acceptable(type, message)
    BY <1>3, <2>2, <2>3
  <2> QED
    BY <1>1, <1>4, <2>1, <2>4 DEF MessageRead, bytes
<1> QED
  BY <1>6, <1>7

\* The book and the engine keep their invariant.
LEMMA SessionKeepsBook ==
    ASSUME FeedFits, ParserInv, RInv, [SessionNext]_sessionVars
    PROVE  RInv'
<1>1. CASE Handing
  <2>1. Acceptable(Current.type, MessageRead)
    BY <1>1, MessageFits DEF Handing
  <2>2. MessageStep /\ targetStockLocate' \in Locates \cup {None}
    BY <1>1, <2>1, OneMessageSteps DEF Handing
  <2>3. UNCHANGED callVars
    BY <1>1 DEF Handing
  <2>4. ReplayedBook' /\ CountsType' /\ AddingIsPossible'
    BY <2>2, <2>3, MessageKeepsBook
  <2>5. CallType'
    BY <2>3, CallTypeUnchanged DEF RInv
  <2> QED
    BY <2>2, <2>4, <2>5 DEF RInv
<1>2. CASE Finishing
  <2>1. FinishStep /\ UNCHANGED targetStockLocate /\ UNCHANGED callVars
    BY <1>2, AddReplacementSteps DEF Finishing
  <2>2. MessageStep
    BY <2>1 DEF MessageStep
  <2>3. ReplayedBook' /\ CountsType' /\ AddingIsPossible'
    BY <2>1, <2>2, MessageKeepsBook
  <2>4. CallType' /\ targetStockLocate' \in Locates \cup {None}
    BY <2>1, CallTypeUnchanged DEF RInv
  <2> QED
    BY <2>3, <2>4 DEF RInv
<1>3. CASE Resting
  <2>1. UNCHANGED replayVars
    BY <1>3 DEF Resting, replayVars, bookVars, callVars, engineVars
  <2> QED
    BY <2>1, UnchangedKeepsRInv
<1> QED
  BY <1>1, <1>2, <1>3, SessionSteps

\* What is printed depends on the book and the counters only.
LEMMA SummaryStays ==
    ASSUME UNCHANGED <<bookVars, engineVars>>
    PROVE  PrintSummary(Depth)' = PrintSummary(Depth)
BY DEF bookVars, engineVars, PrintSummary, GetNumOrders, SideSummary, NonEmpty,
       GetNumSharesAtLevel, GetTopLevels

LEMMA SessionKeepsMain ==
    ASSUME MainInv, ParserInv, [SessionNext]_sessionVars
    PROVE  MainInv'
<1>1. CASE RefuseArguments \/ Start \/ Fail
  BY <1>1 DEF MainInv, RefuseArguments, Start, Fail
<1>2. CASE Complete
  <2>1. /\ adding' = None /\ phase' = "done" /\ status' = "EXIT_SUCCESS"
        /\ summary' = PrintSummary(Depth)
        /\ UNCHANGED <<bookVars, engineVars>>
    BY <1>2 DEF Complete, engineVars, parserVars
  <2>2. summary' = PrintSummary(Depth)'
    BY <2>1, SummaryStays
  <2> QED
    BY <2>1, <2>2 DEF MainInv
<1>3. CASE Parse
  BY <1>3 DEF MainInv, Parse, mainVars
<1>4. CASE Replace
  BY <1>4 DEF MainInv, Replace, AddReplacement, mainVars
<1>5. CASE UNCHANGED sessionVars
  <2>1. /\ status' = status /\ summary' = summary /\ adding' = adding /\ phase' = phase
        /\ UNCHANGED <<bookVars, engineVars>>
    BY <1>5 DEF sessionVars, bookVars, engineVars
  <2>2. PrintSummary(Depth)' = PrintSummary(Depth)
    BY <2>1, SummaryStays
  <2> QED
    BY <2>1, <2>2 DEF MainInv
<1> QED
  BY <1>1, <1>2, <1>3, <1>4, <1>5 DEF SessionNext, Exited

LEMMA SessionInvHolds == FeedFits => (SessionSpec => []SessionInv)
<1> SUFFICES ASSUME FeedFits PROVE SessionSpec => []SessionInv
  OBVIOUS
<1>1. SessionInit => SessionInv
  <2> SUFFICES ASSUME SessionInit PROVE SessionInv
    OBVIOUS
  <2>1. ParserInv /\ RInv
    BY ParserStarts, InitRInv DEF SessionInit
  <2>2. MainInv
    BY DEF SessionInit, MainInv
  <2> QED
    BY <2>1, <2>2 DEF SessionInv
<1>2. SessionInv /\ [SessionNext]_sessionVars => SessionInv'
  BY NextKeepsParser, SessionKeepsBook, SessionKeepsMain DEF SessionInv
<1> QED
  BY <1>1, <1>2, PTL DEF SessionSpec

\* The ids of the orders in the book can be counted.
LEMMA IdsAreFinite ==
    ASSUME RInv
    PROVE  IsFiniteSet({id \in OrderIds : idToOrder[id] # None})
<1> DEFINE ids == {id \in OrderIds : idToOrder[id] # None}
           of == [b \in Live |-> heap[b].id]
<1>1. IsFiniteSet(Live) /\ SoundBook
  BY LiveIsFinite DEF RInv, ReplayedBook, SoundBook
<1>2. \A id \in ids : idToOrder[id] \in Live /\ heap[idToOrder[id]].id = id
  BY <1>1, MappedIsLive
<1>3. \A b \in Live : heap[b].id \in ids
  <2> TAKE b \in Live
  <2>1. heap[b] \in RestingOrders /\ b \in Blocks
    BY <1>1 DEF Live, SoundBook, BookType
  <2>2. idToOrder[heap[b].id] = b /\ heap[b].id \in OrderIds
    BY <1>1, <2>1 DEF SoundBook, Coherent, MapMatchesPool, RestingOrders
  <2> QED
    BY <2>1, <2>2, NoneIsNoBlock
<1>4. of \in Surjection(Live, ids)
  BY <1>2, <1>3 DEF Surjection
<1> HIDE DEF ids, of
<1>5. IsFiniteSet(ids)
  BY <1>1, <1>4, FS_Surjection
<1> QED
  BY <1>5 DEF ids

LEMMA OrdersAreCounted == ASSUME RInv PROVE GetNumOrders \in Nat
BY IdsAreFinite, FS_CardinalityType DEF GetNumOrders

-----------------------------------------------------------------------------
(* What a message means *)

\* What has been seen is complete, and its shares fit.
IsSeen(seen) ==
    /\ seen = [locate |-> seen.locate, orders |-> seen.orders, counts |-> seen.counts]
    /\ \A id \in OrderIds :
          seen.orders[id] # None => seen.orders[id].shares \in 1 .. (QuantityEnd - 1)

\* The engine knows, and its book shows, what has been seen.
ShowsMeaning(seen) ==
    /\ IsSeen(seen)
    /\ targetStockLocate = seen.locate
    /\ VisibleCounts = seen.counts
    /\ VisibleOrders = seen.orders

\* Between two messages the feed has the orders that the map has.
LEMMA SeenInBook ==
    ASSUME RInv, adding = None, NEW seen, ShowsMeaning(seen)
    PROVE  /\ seen.counts = counts /\ seen.counts \in [Kinds -> Nat]
           /\ seen.orders = [id \in OrderIds |-> Displayed(id)]
           /\ \A id \in OrderIds :
                 /\ InFeed(seen, id) <=> idToOrder[id] # None
                 /\ InFeed(seen, id) =>
                       /\ seen.orders[id] \in Shown
                       /\ seen.orders[id] =
                             [side |-> heap[idToOrder[id]].side,
                              price |-> heap[idToOrder[id]].level[2],
                              shares |-> heap[idToOrder[id]].quantity]
<1>1. seen.counts = counts /\ counts \in [Kinds -> Nat]
  <2>1. counts \in [Kinds -> Nat] /\ counts["replaces"] \in Nat
    BY DEF RInv, CountsType, Kinds
  <2>2. VisibleCounts = [counts EXCEPT !["replaces"] = counts["replaces"] + 0]
    BY DEF VisibleCounts
  <2>3. VisibleCounts = counts
    BY <2>1, <2>2
  <2> QED
    BY <2>1, <2>3 DEF ShowsMeaning
<1>2. seen.orders = [id \in OrderIds |-> Displayed(id)]
  BY DEF ShowsMeaning, VisibleOrders, VisibleOrder, Displayed
<1>3. ASSUME NEW id \in OrderIds
      PROVE  /\ InFeed(seen, id) <=> idToOrder[id] # None
             /\ InFeed(seen, id) =>
                   /\ seen.orders[id] \in Shown
                   /\ seen.orders[id] =
                         [side |-> heap[idToOrder[id]].side,
                          price |-> heap[idToOrder[id]].level[2],
                          shares |-> heap[idToOrder[id]].quantity]
  <2>1. seen.orders[id] = Displayed(id)
    BY <1>2
  <2>2. CASE idToOrder[id] = None
    BY <2>1, <2>2 DEF InFeed, Displayed
  <2>3. CASE idToOrder[id] # None
    <3>1. Displayed(id) \in Shown /\ Displayed(id) # None
      BY <2>3, DisplayedIsShown, NoneIsNoReplacement DEF RInv, ReplayedBook
    <3> QED
      BY <2>1, <2>3, <3>1 DEF InFeed, Displayed
  <2> QED
    BY <2>2, <2>3
<1> QED
  BY <1>1, <1>2, <1>3

\* One more message is counted and the book shows what it left.
LEMMA CountedShows ==
    ASSUME NEW seen, ShowsMeaning(seen), seen.counts \in [Kinds -> Nat],
           NEW kind \in Kinds, NEW orders,
           \A id \in OrderIds : orders[id] # None => orders[id].shares \in 1 .. (QuantityEnd - 1),
           UNCHANGED targetStockLocate,
           VisibleOrders' = orders, VisibleCounts' = [VisibleCounts EXCEPT ![kind] = @ + 1]
    PROVE  ShowsMeaning(Counted(seen, kind, orders))'
<1> DEFINE then == Counted(seen, kind, orders)
<1>1. /\ then = [locate |-> seen.locate, orders |-> orders,
                 counts |-> [seen.counts EXCEPT ![kind] = @ + 1]]
  BY DEF Counted
<1> HIDE DEF then
<1>2. /\ then.locate = seen.locate /\ then.orders = orders
      /\ then.counts = [seen.counts EXCEPT ![kind] = @ + 1]
      /\ then = [locate |-> then.locate, orders |-> then.orders, counts |-> then.counts]
  BY <1>1
<1>3. IsSeen(then)
  BY <1>2 DEF IsSeen
<1>4. ShowsMeaning(then)'
  BY <1>2, <1>3 DEF ShowsMeaning
<1> QED
  BY <1>4 DEF then

LEMMA RefusingMeans ==
    ASSUME RInv, adding = None, NEW seen, ShowsMeaning(seen), Refuse
    PROVE  ShowsMeaning(Counted(seen, "failures", seen.orders))'
<1>1. /\ seen.counts \in [Kinds -> Nat]
      /\ UNCHANGED <<targetStockLocate, adding, idToOrder, heap>> /\ Count("failures")
  BY SeenInBook DEF Refuse, bookVars
<1>2. VisibleOrders' = seen.orders
  BY <1>1, SameShowsNothing DEF ShowsMeaning
<1>3. VisibleCounts' = [VisibleCounts EXCEPT !["failures"] = @ + 1]
  BY <1>1, CountingShows DEF RInv, Kinds
<1> QED
  BY <1>1, <1>2, <1>3, CountedShows DEF ShowsMeaning, IsSeen, Kinds

LEMMA IgnoringMeans ==
    ASSUME NEW seen, ShowsMeaning(seen), Ignored
    PROVE  ShowsMeaning(seen)'
<1>1. UNCHANGED <<idToOrder, heap, counts, adding, targetStockLocate>>
  BY DEF Ignored, bookVars, engineVars
<1>2. VisibleOrders' = VisibleOrders /\ VisibleCounts' = VisibleCounts
  BY <1>1, SameShowsNothing DEF VisibleCounts
<1> QED
  BY <1>1, <1>2 DEF ShowsMeaning

\* Taking shares from an order leaves it with fewer.
LEMMA LeftFits ==
    ASSUME NEW order, order \in Shown, order.shares < QuantityEnd, NEW shares \in 1 .. order.shares
    PROVE  Left(order, shares) # None => Left(order, shares).shares \in 1 .. (QuantityEnd - 1)
<1>1. order.shares \in Nat \ {0} /\ DOMAIN order = {"side", "price", "shares"}
  BY DEF Shown
<1>2. CASE shares # order.shares
  <2>1. Left(order, shares).shares = order.shares - shares
    BY <1>1, <1>2 DEF Left
  <2> QED
    BY <1>1, <1>2, <2>1, SharesAreUnsigned, QuantityIsSigned
<1> QED
  BY <1>2 DEF Left

\* An execution or a cancellation.
LEMMA ReducingMeans ==
    ASSUME RInv, adding = None, NEW seen, ShowsMeaning(seen), NEW kind \in Kinds,
           NEW m, NEW shares, m.orderReferenceNumber \in OrderIds, FitsQuantity(shares),
           OnReduction(kind, m, shares)
    PROVE  ShowsMeaning(Reduced(seen, kind, m.orderReferenceNumber, shares))'
<1> DEFINE id == m.orderReferenceNumber
           rest == Left(seen.orders[id], shares)
           orders == [seen.orders EXCEPT ![id] = Left(@, shares)]
<1>1. /\ id \in OrderIds /\ shares \in Nat
      /\ seen.counts \in [Kinds -> Nat] /\ seen.orders = VisibleOrders
      /\ seen.orders = [i \in OrderIds |-> Displayed(i)]
      /\ InFeed(seen, id) <=> idToOrder[id] # None
      /\ InFeed(seen, id) =>
            /\ seen.orders[id] \in Shown
            /\ seen.orders[id].shares = heap[idToOrder[id]].quantity
            /\ seen.orders[id].shares \in 1 .. (QuantityEnd - 1)
  <2>1. id \in OrderIds /\ shares \in Nat
    BY NarrowedIsTheSame
  <2>2. /\ seen.counts \in [Kinds -> Nat]
        /\ seen.orders = [i \in OrderIds |-> Displayed(i)]
        /\ InFeed(seen, id) <=> idToOrder[id] # None
        /\ InFeed(seen, id) =>
              /\ seen.orders[id] \in Shown
              /\ seen.orders[id] =
                    [side |-> heap[idToOrder[id]].side,
                     price |-> heap[idToOrder[id]].level[2],
                     shares |-> heap[idToOrder[id]].quantity]
    BY <2>1, SeenInBook
  <2>3. /\ seen.orders = VisibleOrders
        /\ InFeed(seen, id) => seen.orders[id].shares \in 1 .. (QuantityEnd - 1)
    BY <2>1 DEF ShowsMeaning, IsSeen, InFeed
  <2> QED
    BY <2>1, <2>2, <2>3
<1> HIDE DEF id
<1>2. ~ReduceRefused(id, shares) <=> InFeed(seen, id) /\ shares \in 1 .. seen.orders[id].shares
  BY <1>1 DEF ReduceRefused
<1>3. CASE ReduceRefused(id, shares)
  <2>1. Refuse
    BY <1>1, <1>3, ReductionDoes DEF id
  <2>2. Reduced(seen, kind, id, shares) = Counted(seen, "failures", seen.orders)
    BY <1>2, <1>3 DEF Reduced
  <2> QED
    BY <2>1, <2>2, RefusingMeans DEF id
<1>4. CASE ~ReduceRefused(id, shares)
  <2>1. /\ IF UsesUp(id, shares) THEN Cancelling(id) ELSE Reducing(id, shares)
        /\ Count(kind)
        /\ UNCHANGED <<targetStockLocate, adding>>
    BY <1>1, <1>4, ReductionDoes DEF id
  <2>2. UsesUp(id, shares) <=> shares = seen.orders[id].shares
    BY <1>1, <1>2, <1>4 DEF UsesUp
  <2>3. VisibleOrders' = orders
    <3>1. CASE UsesUp(id, shares)
      <4>1. VisibleOrders' = [VisibleOrders EXCEPT ![id] = None]
        BY <2>1, <3>1, CancellingShows
      <4>2. rest = None
        BY <2>2, <3>1 DEF Left
      <4> QED
        BY <1>1, <4>1, <4>2
    <3>2. CASE ~UsesUp(id, shares)
      <4>1. VisibleOrders' = [VisibleOrders EXCEPT ![id] = Promise!Reduced(@, shares)]
        BY <2>1, <3>2, ReducingShows
      <4> QED
        BY <1>1, <4>1 DEF Promise!Reduced, Left
    <3> QED
      BY <3>1, <3>2
  <2>4. VisibleCounts' = [VisibleCounts EXCEPT ![kind] = @ + 1]
    BY <2>1, CountingShows DEF RInv
  <2>5. \A i \in OrderIds : orders[i] # None => orders[i].shares \in 1 .. (QuantityEnd - 1)
    <3>1. rest # None => rest.shares \in 1 .. (QuantityEnd - 1)
      <4>1. /\ seen.orders[id] \in Shown /\ seen.orders[id].shares < QuantityEnd
            /\ shares \in 1 .. seen.orders[id].shares
        BY <1>1, <1>2, <1>4, SharesAreUnsigned, QuantityIsSigned
      <4> QED
        BY <4>1, LeftFits
    <3>2. \A i \in OrderIds : orders[i] = IF i = id THEN rest ELSE seen.orders[i]
      BY <1>1
    <3> HIDE DEF rest, orders
    <3> QED
      BY <3>1, <3>2 DEF ShowsMeaning, IsSeen
  <2> HIDE DEF orders, rest
  <2>6. ShowsMeaning(Counted(seen, kind, orders))'
    BY <1>1, <2>1, <2>3, <2>4, <2>5, CountedShows
  <2>7. Reduced(seen, kind, id, shares) = Counted(seen, kind, orders)
    BY <1>2, <1>4 DEF Reduced, orders
  <2> QED
    BY <2>6, <2>7 DEF id
<1> QED
  BY <1>3, <1>4

LEMMA AddingMeans ==
    ASSUME RInv, adding = None, NEW seen, ShowsMeaning(seen),
           NEW m, m.orderReferenceNumber \in OrderIds, FitsQuantity(m.shares), OnAddOrder(m)
    PROVE  ShowsMeaning(
              IF CanRest(seen, m.orderReferenceNumber, m)
              THEN Counted(seen, "adds", WithOrder(seen.orders, m.orderReferenceNumber, SideOf(m),
                                                   m.price, m.shares))
              ELSE Counted(seen, "failures", seen.orders))'
<1> DEFINE id == m.orderReferenceNumber
           is == [side |-> SideOf(m), price |-> m.price, shares |-> m.shares]
           orders == [seen.orders EXCEPT ![id] = is]
<1>1. seen.counts \in [Kinds -> Nat] /\ (InFeed(seen, id) <=> idToOrder[id] # None)
  BY SeenInBook
<1>2. m.shares \in Nat /\ m.shares < QuantityEnd
  BY SharesAreUnsigned, QuantityIsSigned DEF FitsQuantity
<1>3. AddRefused(id, m.price, m.shares) <=> ~CanRest(seen, id, m)
  BY <1>1, <1>2 DEF AddRefused, CanRest, Prices
<1>4. IF AddRefused(id, m.price, m.shares) THEN Refuse
      ELSE /\ Placing(id, m.shares, SideOf(m), m.price)
           /\ Count("adds")
           /\ UNCHANGED <<targetStockLocate, adding>>
  BY AddOrderDoes
<1>5. CASE ~CanRest(seen, id, m)
  BY <1>3, <1>4, <1>5, RefusingMeans
<1>6. CASE CanRest(seen, id, m)
  <2>1. VisibleOrders' = [VisibleOrders EXCEPT ![id] = is]
    BY <1>3, <1>4, <1>6, PlacingShows
  <2>2. VisibleCounts' = [VisibleCounts EXCEPT !["adds"] = @ + 1]
    BY <1>3, <1>4, <1>6, CountingShows DEF RInv, Kinds
  <2>3. VisibleOrders' = orders
    BY <2>1 DEF ShowsMeaning
  <2>4. \A i \in OrderIds : orders[i] # None => orders[i].shares \in 1 .. (QuantityEnd - 1)
    <3>1. is.shares \in 1 .. (QuantityEnd - 1)
      BY <1>2, <1>6, SharesAreUnsigned, QuantityIsSigned DEF CanRest
    <3>2. seen.orders = [i \in OrderIds |-> VisibleOrder(i)]
      BY DEF ShowsMeaning, VisibleOrders
    <3>3. \A i \in OrderIds : orders[i] = IF i = id THEN is ELSE seen.orders[i]
      BY <3>2
    <3> HIDE DEF is, orders
    <3> QED
      BY <3>1, <3>3 DEF ShowsMeaning, IsSeen
  <2> HIDE DEF orders
  <2>5. ShowsMeaning(Counted(seen, "adds", orders))'
    BY <1>1, <1>3, <1>4, <1>6, <2>2, <2>3, <2>4, CountedShows DEF Kinds
  <2> QED
    BY <1>6, <2>5 DEF WithOrder, orders
<1> QED
  BY <1>5, <1>6

LEMMA DeletingMeans ==
    ASSUME RInv, adding = None, NEW seen, ShowsMeaning(seen),
           NEW m, m.orderReferenceNumber \in OrderIds, OnOrderDelete(m)
    PROVE  ShowsMeaning(
              IF InFeed(seen, m.orderReferenceNumber)
              THEN Counted(seen, "deletes", [seen.orders EXCEPT ![m.orderReferenceNumber] = None])
              ELSE Counted(seen, "failures", seen.orders))'
<1> DEFINE id == m.orderReferenceNumber
           orders == [seen.orders EXCEPT ![id] = None]
<1>1. seen.counts \in [Kinds -> Nat] /\ (InFeed(seen, id) <=> idToOrder[id] # None)
  BY SeenInBook
<1>2. IF idToOrder[id] = None THEN Refuse
      ELSE Cancelling(id) /\ Count("deletes") /\ UNCHANGED <<targetStockLocate, adding>>
  BY DeleteDoes
<1>3. CASE ~InFeed(seen, id)
  BY <1>1, <1>2, <1>3, RefusingMeans
<1>4. CASE InFeed(seen, id)
  <2>1. VisibleOrders' = orders
    BY <1>1, <1>2, <1>4, CancellingShows DEF ShowsMeaning
  <2>2. VisibleCounts' = [VisibleCounts EXCEPT !["deletes"] = @ + 1]
    BY <1>1, <1>2, <1>4, CountingShows DEF RInv, Kinds
  <2>3. \A i \in OrderIds : orders[i] # None => orders[i].shares \in 1 .. (QuantityEnd - 1)
    <3>1. seen.orders = [i \in OrderIds |-> VisibleOrder(i)]
      BY DEF ShowsMeaning, VisibleOrders
    <3>2. \A i \in OrderIds : orders[i] = IF i = id THEN None ELSE seen.orders[i]
      BY <3>1
    <3> HIDE DEF orders
    <3> QED
      BY <3>2 DEF ShowsMeaning, IsSeen
  <2> HIDE DEF orders
  <2>4. ShowsMeaning(Counted(seen, "deletes", orders))'
    BY <1>1, <1>2, <1>4, <2>1, <2>2, <2>3, CountedShows DEF Kinds
  <2> QED
    BY <1>4, <2>4 DEF orders
<1> QED
  BY <1>3, <1>4

\* A replacement shows what is added as soon as its old order is deleted.
LEMMA ReplacingMeans ==
    ASSUME RInv, adding = None, NEW seen, ShowsMeaning(seen),
           NEW m, m.originalOrderReferenceNumber \in OrderIds,
           m.newOrderReferenceNumber \in OrderIds, FitsQuantity(m.shares), OnOrderReplace(m)
    PROVE  ShowsMeaning(
              IF /\ InFeed(seen, m.originalOrderReferenceNumber)
                 /\ CanRest(seen, m.newOrderReferenceNumber, m)
              THEN Counted(seen, "replaces",
                      WithOrder([seen.orders EXCEPT ![m.originalOrderReferenceNumber] = None],
                                m.newOrderReferenceNumber,
                                seen.orders[m.originalOrderReferenceNumber].side,
                                m.price, m.shares))
              ELSE Counted(seen, "failures", seen.orders))'
<1> DEFINE old == m.originalOrderReferenceNumber
           new == m.newOrderReferenceNumber
           is == [side |-> seen.orders[old].side, price |-> m.price, shares |-> m.shares]
           orders == [[seen.orders EXCEPT ![old] = None] EXCEPT ![new] = is]
<1>1. /\ seen.counts \in [Kinds -> Nat]
      /\ InFeed(seen, old) <=> idToOrder[old] # None
      /\ InFeed(seen, new) <=> idToOrder[new] # None
      /\ InFeed(seen, old) => seen.orders[old].side = heap[idToOrder[old]].side
  <2>1. /\ seen.counts \in [Kinds -> Nat]
        /\ InFeed(seen, old) <=> idToOrder[old] # None
        /\ InFeed(seen, new) <=> idToOrder[new] # None
        /\ InFeed(seen, old) =>
             seen.orders[old] = [side |-> heap[idToOrder[old]].side,
                                 price |-> heap[idToOrder[old]].level[2],
                                 shares |-> heap[idToOrder[old]].quantity]
    BY SeenInBook
  <2> QED
    BY <2>1
<1>2. m.shares \in Nat /\ m.shares < QuantityEnd
  BY SharesAreUnsigned, QuantityIsSigned DEF FitsQuantity
<1>3. ReplaceRefused(old, new, m.price, m.shares)
        <=> ~(InFeed(seen, old) /\ CanRest(seen, new, m))
  BY <1>1, <1>2 DEF ReplaceRefused, AddRefused, CanRest, Prices
<1>4. IF ReplaceRefused(old, new, m.price, m.shares) THEN Refuse
      ELSE /\ Cancelling(old)
           /\ idToOrder[new] = None
           /\ adding' \in Replacement
           /\ adding' = [id |-> new, price |-> m.price, quantity |-> m.shares,
                         side |-> heap[idToOrder[old]].side]
           /\ UNCHANGED <<targetStockLocate, counts>>
  BY ReplaceDoes
<1>5. CASE ReplaceRefused(old, new, m.price, m.shares)
  BY <1>3, <1>4, <1>5, RefusingMeans
<1>6. CASE ~ReplaceRefused(old, new, m.price, m.shares)
  <2>1. /\ adding'.id = new /\ adding'.side = heap[idToOrder[old]].side
        /\ adding'.price = m.price /\ adding'.quantity = m.shares
        /\ adding' \in Replacement /\ Cancelling(old) /\ idToOrder[adding'.id] = None
        /\ counts' = counts /\ targetStockLocate' = targetStockLocate
    BY <1>4, <1>6
  <2>2. VisibleOrders' = [VisibleOrders EXCEPT ![old] = None,
           ![adding'.id] = [side |-> adding'.side, price |-> adding'.price,
                            shares |-> adding'.quantity]]
    BY <2>1, ReplacingShows
  <2>3. VisibleOrders' = orders
    BY <1>1, <1>3, <1>6, <2>1, <2>2 DEF ShowsMeaning
  <2>4. VisibleCounts' = [VisibleCounts EXCEPT !["replaces"] = @ + 1]
    BY <2>1, BeginningCounts, NoneIsNoReplacement DEF RInv
  <2>5. \A i \in OrderIds : orders[i] # None => orders[i].shares \in 1 .. (QuantityEnd - 1)
    <3>1. is.shares \in 1 .. (QuantityEnd - 1)
      BY <1>2, <1>3, <1>6, SharesAreUnsigned, QuantityIsSigned DEF CanRest
    <3>2. seen.orders = [i \in OrderIds |-> VisibleOrder(i)]
      BY DEF ShowsMeaning, VisibleOrders
    <3> HIDE DEF is
    <3>3. \A i \in OrderIds : orders[i] = IF i = new THEN is ELSE IF i = old THEN None
                                          ELSE seen.orders[i]
      BY <3>2
    <3> HIDE DEF orders
    <3> QED
      BY <3>1, <3>3 DEF ShowsMeaning, IsSeen
  <2> HIDE DEF orders
  <2>6. ShowsMeaning(Counted(seen, "replaces", orders))'
    BY <1>1, <2>1, <2>3, <2>4, <2>5, CountedShows DEF Kinds
  <2> QED
    BY <1>3, <1>6, <2>6 DEF WithOrder, orders
<1> QED
  BY <1>5, <1>6

LEMMA DirectoryMeans ==
    ASSUME NEW seen, ShowsMeaning(seen), NEW m, OnStockDirectory(m)
    PROVE  ShowsMeaning(IF m.stock = Symbol THEN [seen EXCEPT !.locate = m.stockLocate]
                        ELSE seen)'
<1>1. CASE m.stock # Symbol
  <2>1. Ignored
    BY <1>1 DEF OnStockDirectory, MatchesSymbol
  <2> QED
    BY <1>1, <2>1, IgnoringMeans
<1>2. CASE m.stock = Symbol
  <2> DEFINE then == [seen EXCEPT !.locate = m.stockLocate]
  <2>1. /\ targetStockLocate' = m.stockLocate
        /\ UNCHANGED <<idToOrder, heap, counts, adding>>
    BY <1>2 DEF OnStockDirectory, MatchesSymbol, bookVars
  <2>2. VisibleOrders' = VisibleOrders /\ VisibleCounts' = VisibleCounts
    BY <2>1, SameShowsNothing DEF VisibleCounts
  <2>3. then = [locate |-> m.stockLocate, orders |-> seen.orders, counts |-> seen.counts]
    BY DEF ShowsMeaning, IsSeen
  <2> HIDE DEF then
  <2>4. /\ then.locate = m.stockLocate /\ then.orders = seen.orders /\ then.counts = seen.counts
        /\ then = [locate |-> then.locate, orders |-> then.orders, counts |-> then.counts]
    BY <2>3
  <2>5. IsSeen(then)
    BY <2>4 DEF IsSeen, ShowsMeaning
  <2>6. ShowsMeaning(then)'
    BY <2>1, <2>2, <2>4, <2>5 DEF ShowsMeaning
  <2> QED
    BY <1>2, <2>6 DEF then
<1> QED
  BY <1>1, <1>2

\* What the engine does with a message is what the message means.
LEMMA MessageMeans ==
    ASSUME RInv, adding = None, NEW seen, ShowsMeaning(seen),
           NEW type \in DecodedTypes, NEW m, Acceptable(type, m), OnMessage(type, m)
    PROVE  ShowsMeaning(After(seen, type, m))'
<1>1. /\ m.stockLocate \in Locates
      /\ type \in {"A", "F", "E", "C", "X", "D"} => m.orderReferenceNumber \in OrderIds
      /\ type \in {"A", "F", "U"} => FitsQuantity(m.shares)
      /\ type \in {"E", "C"} => FitsQuantity(m.executedShares)
      /\ type = "X" => FitsQuantity(m.cancelledShares)
      /\ type = "U" => /\ m.originalOrderReferenceNumber \in OrderIds
                       /\ m.newOrderReferenceNumber \in OrderIds
  BY DEF Acceptable
<1>2. IsTarget(m) <=> seen.locate = m.stockLocate
  BY <1>1, NoneIsNoLocate DEF IsTarget, ShowsMeaning
<1>3. CASE type = "S"
  <2>1. Ignored /\ After(seen, type, m) = seen
    BY <1>3 DEF OnMessage, After
  <2> QED
    BY <2>1, IgnoringMeans
<1>4. CASE type = "R"
  <2>1. OnStockDirectory(m)
    BY <1>4 DEF OnMessage
  <2>2. After(seen, type, m) = IF m.stock = Symbol THEN [seen EXCEPT !.locate = m.stockLocate]
                               ELSE seen
    BY <1>4 DEF After
  <2> QED
    BY <2>1, <2>2, DirectoryMeans
<1>5. CASE type \notin {"S", "R"} /\ ~IsTarget(m)
  <2>1. Ignored /\ After(seen, type, m) = seen
    BY <1>2, <1>5 DEF OnMessage, After
  <2> QED
    BY <2>1, IgnoringMeans
<1>6. CASE type \in {"A", "F"} /\ IsTarget(m)
  <2>1. OnAddOrder(m)
    BY <1>6 DEF OnMessage
  <2>2. After(seen, type, m) =
           IF CanRest(seen, m.orderReferenceNumber, m)
           THEN Counted(seen, "adds", WithOrder(seen.orders, m.orderReferenceNumber, SideOf(m),
                                                m.price, m.shares))
           ELSE Counted(seen, "failures", seen.orders)
    BY <1>2, <1>6 DEF After, SideOf, BuyIndicator
  <2> QED
    BY <1>1, <1>6, <2>1, <2>2, AddingMeans
<1>7. CASE type \in {"E", "C"} /\ IsTarget(m)
  <2>1. OnReduction("executions", m, m.executedShares)
    BY <1>7 DEF OnMessage
  <2>2. After(seen, type, m) =
           Reduced(seen, "executions", m.orderReferenceNumber, m.executedShares)
    BY <1>2, <1>7 DEF After
  <2>3. "executions" \in Kinds
    BY DEF Kinds
  <2> QED
    BY <1>1, <1>7, <2>1, <2>2, <2>3, ReducingMeans
<1>8. CASE type = "X" /\ IsTarget(m)
  <2>1. OnReduction("cancels", m, m.cancelledShares)
    BY <1>8 DEF OnMessage
  <2>2. After(seen, type, m) = Reduced(seen, "cancels", m.orderReferenceNumber, m.cancelledShares)
    BY <1>2, <1>8 DEF After
  <2>3. "cancels" \in Kinds
    BY DEF Kinds
  <2> QED
    BY <1>1, <1>8, <2>1, <2>2, <2>3, ReducingMeans
<1>9. CASE type = "D" /\ IsTarget(m)
  <2>1. OnOrderDelete(m)
    BY <1>9 DEF OnMessage
  <2>2. After(seen, type, m) =
           IF InFeed(seen, m.orderReferenceNumber)
           THEN Counted(seen, "deletes", [seen.orders EXCEPT ![m.orderReferenceNumber] = None])
           ELSE Counted(seen, "failures", seen.orders)
    BY <1>2, <1>9 DEF After
  <2> QED
    BY <1>1, <1>9, <2>1, <2>2, DeletingMeans
<1>10. CASE type = "U" /\ IsTarget(m)
  <2>1. OnOrderReplace(m)
    BY <1>10 DEF OnMessage
  <2>2. After(seen, type, m) =
           IF /\ InFeed(seen, m.originalOrderReferenceNumber)
              /\ CanRest(seen, m.newOrderReferenceNumber, m)
           THEN Counted(seen, "replaces",
                   WithOrder([seen.orders EXCEPT ![m.originalOrderReferenceNumber] = None],
                             m.newOrderReferenceNumber,
                             seen.orders[m.originalOrderReferenceNumber].side,
                             m.price, m.shares))
           ELSE Counted(seen, "failures", seen.orders)
    BY <1>2, <1>10 DEF After
  <2> QED
    BY <1>1, <1>10, <2>1, <2>2, ReplacingMeans
<1> QED
  BY <1>3, <1>4, <1>5, <1>6, <1>7, <1>8, <1>9, <1>10 DEF DecodedTypes

-----------------------------------------------------------------------------
(* What the frames that have been applied mean *)

\* g says what the first frames mean.
MeansTo(g, n) ==
    g = [k \in 0 .. n |-> IF k = 0 THEN NothingSeen ELSE AfterFrame(g[k - 1], frames[k])]

\* Each meaning follows from the one before.
LEMMA MeansToAt ==
    ASSUME NEW g, NEW n \in Nat, MeansTo(g, n), NEW k \in 0 .. n
    PROVE  g[k] = IF k = 0 THEN NothingSeen ELSE AfterFrame(g[k - 1], frames[k])
<1> DEFINE r == [j \in 0 .. n |-> IF j = 0 THEN NothingSeen ELSE AfterFrame(g[j - 1], frames[j])]
<1>1. r[k] = IF k = 0 THEN NothingSeen ELSE AfterFrame(g[k - 1], frames[k])
  OBVIOUS
<1>2. g = r
  BY DEF MeansTo
<1> HIDE DEF r
<1> QED
  BY <1>1, <1>2

LEMMA MeaningsExist == ASSUME NEW n \in Nat PROVE \E g : MeansTo(g, n)
<1> DEFINE Bad == {m \in Nat : ~\E g : MeansTo(g, m)}
<1>1. SUFFICES ASSUME Bad # {} PROVE FALSE
  OBVIOUS
<1>2. PICK m \in Bad : \A k \in Bad : m <= k
  <2>1. Bad \subseteq Nat
    OBVIOUS
  <2> HIDE DEF Bad
  <2> QED
    BY <1>1, <2>1, Smallest
<1>3. m \in Nat
  OBVIOUS
<1>4. CASE m = 0
  <2> DEFINE g == [k \in 0 .. m |-> NothingSeen]
  <2>1. g = [k \in 0 .. m |-> IF k = 0 THEN NothingSeen ELSE AfterFrame(g[k - 1], frames[k])]
    BY <1>4
  <2>2. MeansTo(g, m)
    <3> HIDE DEF g
    <3> QED
      BY <2>1 DEF MeansTo
  <2> QED
    BY <2>2
<1>5. CASE m # 0
  <2>1. m - 1 \in Nat /\ ~(m <= m - 1)
    BY <1>3, <1>5
  <2>2. m - 1 \notin Bad
    <3> HIDE DEF Bad
    <3> QED
      BY <1>2, <2>1
  <2>3. PICK g : MeansTo(g, m - 1)
    BY <2>1, <2>2
  <2> DEFINE step(b, k) == AfterFrame(b, frames[k])
             h == [k \in 0 .. m |-> IF k = 0 THEN NothingSeen ELSE step(g[k - 1], k)]
  <2> HIDE DEF step
  <2>4. ASSUME NEW k \in 0 .. m, k # 0
        PROVE  h[k - 1] = g[k - 1]
    <3>1. k - 1 \in 0 .. (m - 1) /\ k - 1 \in 0 .. m
      BY <1>3, <2>4
    <3>2. g[k - 1] = IF k - 1 = 0 THEN NothingSeen
                     ELSE AfterFrame(g[(k - 1) - 1], frames[k - 1])
      <4> HIDE DEF h
      <4> QED
        BY <2>1, <2>3, <3>1, MeansToAt
    <3>3. h[k - 1] = IF k - 1 = 0 THEN NothingSeen ELSE step(g[(k - 1) - 1], k - 1)
      BY <3>1
    <3> QED
      BY <3>2, <3>3 DEF step
  <2>5. h = [k \in 0 .. m |-> IF k = 0 THEN NothingSeen ELSE step(h[k - 1], k)]
    BY <2>4
  <2>6. MeansTo(h, m)
    <3> HIDE DEF h
    <3> QED
      BY <2>5 DEF MeansTo, step
  <2> QED
    BY <2>6
<1> QED
  BY <1>4, <1>5

\* The recursive equation of Meaning has a solution.
LEMMA MeaningIs ==
    ASSUME FileType
    PROVE  /\ Meaning[0] = NothingSeen
           /\ \A n \in 1 .. Len(frames) : Meaning[n] = AfterFrame(Meaning[n - 1], frames[n])
<1>1. Len(frames) \in Nat
  BY FileFacts DEF FileType
<1>2. \E g : g = [k \in 0 .. Len(frames) |->
                    IF k = 0 THEN NothingSeen ELSE AfterFrame(g[k - 1], frames[k])]
  BY <1>1, MeaningsExist DEF MeansTo
<1>3. Meaning = [k \in 0 .. Len(frames) |->
                   IF k = 0 THEN NothingSeen ELSE AfterFrame(Meaning[k - 1], frames[k])]
  BY <1>2 DEF Meaning
<1>4. MeansTo(Meaning, Len(frames))
  BY <1>3 DEF MeansTo
<1>5. \A k \in 0 .. Len(frames) :
         Meaning[k] = IF k = 0 THEN NothingSeen ELSE AfterFrame(Meaning[k - 1], frames[k])
  BY <1>1, <1>4, MeansToAt
<1> QED
  BY <1>1, <1>5

LEMMA MeaningStays ==
    ASSUME UNCHANGED fileVars
    PROVE  Meaning' = Meaning
BY DEF Meaning, fileVars

\* A frame that is not decoded means nothing.
LEMMA MeaningStands ==
    ASSUME FileType, NEW m \in Nat, NEW n \in Nat, m <= n, n <= Len(frames),
           \A k \in Nat : m < k /\ k <= n => frames[k].type \notin DecodedTypes
    PROVE  Meaning[n] = Meaning[m]
<1> DEFINE Bad == {k \in Nat : m <= k /\ k <= n /\ Meaning[k] # Meaning[m]}
<1>1. SUFFICES ASSUME Bad # {} PROVE FALSE
  OBVIOUS
<1>2. PICK k \in Bad : \A j \in Bad : k <= j
  <2>1. Bad \subseteq Nat
    OBVIOUS
  <2> HIDE DEF Bad
  <2> QED
    BY <1>1, <2>1, Smallest
<1>3. k \in Nat /\ m <= k /\ k <= n /\ Meaning[k] # Meaning[m]
  OBVIOUS
<1>4. m < k /\ k - 1 \in Nat /\ m <= k - 1 /\ k - 1 <= n /\ ~(k <= k - 1)
  BY <1>3
<1>5. Meaning[k - 1] = Meaning[m]
  <2>1. k - 1 \notin Bad
    <3> HIDE DEF Bad
    <3> QED
      BY <1>2, <1>4
  <2> QED
    BY <1>4, <2>1
<1>6. k \in 1 .. Len(frames)
  <2>1. Len(frames) \in Nat
    BY FileFacts DEF FileType
  <2> QED
    BY <1>3, <1>4, <2>1
<1>7. Meaning[k] = AfterFrame(Meaning[k - 1], frames[k])
  BY <1>6, MeaningIs
<1>8. frames[k].type \notin DecodedTypes
  BY <1>3, <1>4
<1> QED
  BY <1>3, <1>5, <1>7, <1>8 DEF AfterFrame

\* What the engine has been told: the frames up to the last that was applied, of
\* which perhaps not everything is there.
AppliedMeaning ==
    LET n == applied[Len(applied)]
    IN  IF applied = <<>> THEN NothingSeen
        ELSE After(Meaning[n - 1], frames[n].type,
                   DecodedFrom(frames[n].type, frames[n].message,
                               size - (FrameStart(frames, n) + 3)))

\* The engine is called for messages of the right length only.
Checked(n) ==
    /\ frames[n].type \in DecodedTypes
    /\ frames[n].length = ExpectedLength(frames[n].type)

\* Where the frame of such a message ends.
LEMMA CheckedEnds ==
    ASSUME FileType, NEW n \in DOMAIN frames, Checked(n)
    PROVE  /\ BodyWidth(frames[n].type) \in Nat /\ FrameStart(frames, n) \in Nat /\ size \in Nat
           /\ FrameStart(frames, n + 1)
                = FrameStart(frames, n) + 3 + BodyWidth(frames[n].type)
           /\ IsMessage(frames[n].type, frames[n].message)
<1>1. /\ BodyWidth(frames[n].type) \in Nat
      /\ frames[n].length = BodyWidth(frames[n].type) + 1
  BY DecodersReadTheLength DEF Checked, LaidOut
<1>2. /\ FrameStart(frames, n) \in Nat
      /\ FrameStart(frames, n + 1) = FrameStart(frames, n) + 2 + frames[n].length
  BY FrameFacts
<1>3. IsMessage(frames[n].type, frames[n].message)
  BY FileFacts DEF FileType, Checked
<1> QED
  BY <1>1, <1>2, <1>3 DEF FileType

\* The last of what is applied in file order is the greatest.
LEMMA LastIsGreatest ==
    ASSUME NEW S, S \subseteq Nat, NEW s, s \in Seq(S), NEW chosen, InFileOrder(s, chosen)
    PROVE  /\ s = <<>> => chosen = {}
           /\ s # <<>> => /\ s[Len(s)] \in chosen
                          /\ \A k \in chosen : k <= s[Len(s)]
<1>1. /\ Len(s) \in Nat /\ DOMAIN s = 1 .. Len(s) /\ (s = <<>> <=> Len(s) = 0)
      /\ \A k \in DOMAIN s : s[k] \in Nat
  <2>1. Len(s) \in Nat /\ DOMAIN s = 1 .. Len(s) /\ \A k \in DOMAIN s : s[k] \in S
    OBVIOUS
  <2>2. s = <<>> <=> Len(s) = 0
    BY EmptySeq
  <2> QED
    BY <2>1, <2>2
<1>2. /\ chosen = {s[k] : k \in DOMAIN s}
      /\ \A j, k \in DOMAIN s : j < k => s[j] < s[k]
  BY DEF InFileOrder, Range
<1>3. CASE s # <<>>
  <2>1. Len(s) \in DOMAIN s
    BY <1>1, <1>3
  <2>2. ASSUME NEW j \in DOMAIN s PROVE s[j] <= s[Len(s)]
    <3>1. j = Len(s) \/ j < Len(s)
      BY <1>1
    <3>2. s[j] \in Nat /\ s[Len(s)] \in Nat
      BY <1>1, <2>1
    <3> QED
      BY <1>2, <2>1, <3>1, <3>2
  <2> QED
    BY <1>2, <1>3, <2>1, <2>2
<1>4. CASE s = <<>>
  BY <1>1, <1>2, <1>4
<1> QED
  BY <1>3, <1>4

\* If every decoded frame before the n-th has been applied and none was a reason
\* to stop, the engine has been told what they mean.
LEMMA AppliedMeans ==
    ASSUME FileType, applied \in Seq(DOMAIN frames),
           NEW n \in 1 .. (Len(frames) + 1), \A m \in 1 .. (n - 1) : ~Stops(m),
           InFileOrder(applied, DecodedBefore(n))
    PROVE  AppliedMeaning = Meaning[n - 1]
<1>1. Len(frames) \in Nat /\ DOMAIN frames = 1 .. Len(frames) /\ DOMAIN frames \subseteq Nat
  BY FileFacts DEF FileType
<1>2. n \in Nat /\ n - 1 \in Nat /\ n - 1 <= Len(frames)
  BY <1>1
<1>3. /\ applied = <<>> => DecodedBefore(n) = {}
      /\ applied # <<>> => /\ applied[Len(applied)] \in DecodedBefore(n)
                           /\ \A k \in DecodedBefore(n) : k <= applied[Len(applied)]
  BY <1>1, LastIsGreatest
<1>4. CASE applied = <<>>
  <2>1. \A k \in Nat : 0 < k /\ k <= n - 1 => frames[k].type \notin DecodedTypes
    BY <1>2, <1>3, <1>4 DEF DecodedBefore
  <2>2. Meaning[n - 1] = Meaning[0]
    BY <1>2, <2>1, MeaningStands
  <2> QED
    BY <1>4, <2>2, MeaningIs DEF AppliedMeaning
<1>5. CASE applied # <<>>
  <2> DEFINE m == applied[Len(applied)]
  <2>1. /\ m \in 1 .. (n - 1) /\ frames[m].type \in DecodedTypes /\ ~Stops(m)
        /\ \A k \in DecodedBefore(n) : k <= m
    BY <1>3, <1>5 DEF DecodedBefore
  <2>2. AppliedMeaning = After(Meaning[m - 1], frames[m].type,
                               DecodedFrom(frames[m].type, frames[m].message,
                                           size - (FrameStart(frames, m) + 3)))
    BY <1>5 DEF AppliedMeaning
  <2> HIDE DEF m
  <2>3. m \in DOMAIN frames /\ m \in Nat /\ m <= n - 1
    BY <1>1, <1>2, <2>1
  <2>4. Checked(m) /\ ~(FrameStart(frames, m + 1) > size)
    BY <2>1 DEF Stops, Checked, UnexpectedMessageLength
  <2>5. /\ BodyWidth(frames[m].type) \in Nat /\ FrameStart(frames, m) \in Nat /\ size \in Nat
        /\ FrameStart(frames, m + 1) = FrameStart(frames, m) + 3 + BodyWidth(frames[m].type)
        /\ IsMessage(frames[m].type, frames[m].message)
    BY <2>3, <2>4, CheckedEnds
  <2>6. /\ size - (FrameStart(frames, m) + 3) \in Int
        /\ size - (FrameStart(frames, m) + 3) >= BodyWidth(frames[m].type)
    BY <2>4, <2>5
  <2>7. DecodedFrom(frames[m].type, frames[m].message, size - (FrameStart(frames, m) + 3))
          = frames[m].message
    BY <2>1, <2>5, <2>6, WholeMessageIsRead
  <2>8. AppliedMeaning = Meaning[m]
    <3>1. Meaning[m] = AfterFrame(Meaning[m - 1], frames[m])
      BY <1>1, <2>3, MeaningIs
    <3> QED
      BY <2>1, <2>2, <2>7, <3>1 DEF AfterFrame
  <2>9. \A k \in Nat : m < k /\ k <= n - 1 => frames[k].type \notin DecodedTypes
    <3> SUFFICES ASSUME NEW k \in Nat, m < k, k <= n - 1, frames[k].type \in DecodedTypes
                 PROVE  FALSE
      OBVIOUS
    <3>1. k \in DecodedBefore(n)
      BY <1>2, <2>3 DEF DecodedBefore
    <3> QED
      BY <2>1, <2>3, <3>1
  <2>10. Meaning[n - 1] = Meaning[m]
    BY <1>2, <2>3, <2>9, MeaningStands
  <2> QED
    BY <2>8, <2>10
<1> QED
  BY <1>4, <1>5

\* Where the first reason to stop is.
LEMMA FirstStopFacts ==
    ASSUME FileType
    PROVE  /\ FirstStop \in 1 .. (Len(frames) + 1)
           /\ \A m \in 1 .. (FirstStop - 1) : ~Stops(m)
           /\ WholeFrames = DecodedBefore(FirstStop)
<1>1. Len(frames) \in Nat /\ DOMAIN frames = 1 .. Len(frames)
  BY FileFacts DEF FileType
<1>2. CASE \A m \in DOMAIN frames : ~Stops(m)
  <2>1. FirstStop = Len(frames) + 1
    BY <1>2, NoStopIs
  <2> QED
    BY <1>1, <1>2, <2>1 DEF WholeFrames, DecodedBefore
<1>3. CASE \E m \in DOMAIN frames : Stops(m)
  <2> DEFINE Bad == {m \in DOMAIN frames : Stops(m)}
  <2>1. Bad \subseteq Nat /\ Bad # {}
    BY <1>1, <1>3
  <2>2. PICK n \in Bad : \A m \in Bad : n <= m
    <3> HIDE DEF Bad
    <3> QED
      BY <2>1, Smallest
  <2>3. n \in DOMAIN frames /\ Stops(n)
    OBVIOUS
  <2>4. \A m \in 1 .. (n - 1) : ~Stops(m)
    <3> SUFFICES ASSUME NEW m \in 1 .. (n - 1), Stops(m) PROVE FALSE
      OBVIOUS
    <3>1. m \in DOMAIN frames /\ ~(n <= m)
      BY <1>1, <2>3
    <3> QED
      BY <2>2, <3>1
  <2> HIDE DEF Bad
  <2>5. FirstStop = n
    BY <2>3, <2>4, FirstStopIs
  <2> QED
    BY <1>1, <2>3, <2>4, <2>5 DEF WholeFrames, DecodedBefore
<1> QED
  BY <1>2, <1>3

\* When parse has ended, the engine has been told what the capture means.
LEMMA EndMeans ==
    ASSUME FileType, applied \in Seq(DOMAIN frames), AppliedThePrefix,
           \A k \in Range(applied) : Checked(k)
    PROVE  AppliedMeaning = MeaningOfCapture
<1>1. Len(frames) \in Nat /\ DOMAIN frames = 1 .. Len(frames) /\ DOMAIN frames \subseteq Nat
  BY FileFacts DEF FileType
<1> DEFINE stop == FirstStop
<1>2. /\ stop \in 1 .. (Len(frames) + 1) /\ stop \in Nat
      /\ \A m \in 1 .. (stop - 1) : ~Stops(m)
      /\ WholeFrames = DecodedBefore(stop)
  BY <1>1, FirstStopFacts
<1>3. \A k \in WholeFrames : k \in Nat /\ k < stop
  BY <1>2 DEF DecodedBefore
<1>4. CASE InFileOrder(applied, WholeFrames)
  <2>1. FirstStop \notin Range(applied)
    <3>1. Range(applied) = WholeFrames
      BY <1>4 DEF InFileOrder
    <3> QED
      BY <1>2, <1>3, <3>1
  <2>2. MeaningOfCapture = Meaning[stop - 1]
    BY <2>1 DEF MeaningOfCapture
  <2> HIDE DEF stop
  <2>3. AppliedMeaning = Meaning[stop - 1]
    BY <1>2, <1>4, AppliedMeans
  <2> QED
    BY <2>2, <2>3
<1>5. CASE /\ InFileOrder(applied, WholeFrames \cup {FirstStop})
           /\ FrameStart(frames, FirstStop + 1) > size
  <2> DEFINE f == frames[stop]
             bytes == size - (FrameStart(frames, stop) + 3)
  <2>1. Range(applied) = WholeFrames \cup {stop}
    BY <1>5 DEF InFileOrder
  <2>2. stop \in DOMAIN frames /\ Checked(stop)
    <3>1. Range(applied) \subseteq DOMAIN frames
      BY DEF Range
    <3> QED
      BY <2>1, <3>1
  <2>3. applied # <<>> /\ applied[Len(applied)] = stop
    <3>1. /\ applied = <<>> => WholeFrames \cup {stop} = {}
          /\ applied # <<>> => /\ applied[Len(applied)] \in WholeFrames \cup {stop}
                               /\ \A k \in WholeFrames \cup {stop} : k <= applied[Len(applied)]
      BY <1>1, <1>5, LastIsGreatest
    <3>2. applied # <<>> /\ stop <= applied[Len(applied)]
      BY <3>1
    <3> QED
      BY <1>2, <1>3, <3>1, <3>2
  <2>4. AppliedMeaning = After(Meaning[stop - 1], f.type, DecodedFrom(f.type, f.message, bytes))
    BY <2>3 DEF AppliedMeaning
  <2>5. MeaningOfCapture = After(Meaning[stop - 1], f.type,
                              CutOff(f.type, f.message, FrameStart(frames, stop + 1) - size))
    BY <2>1 DEF MeaningOfCapture
  <2> HIDE DEF stop
  <2>6. /\ BodyWidth(f.type) \in Nat /\ FrameStart(frames, stop) \in Nat /\ size \in Nat
        /\ FrameStart(frames, stop + 1) = FrameStart(frames, stop) + 3 + BodyWidth(f.type)
        /\ IsMessage(f.type, f.message)
    BY <2>2, CheckedEnds
  <2>7. /\ bytes \in Int
        /\ BodyWidth(f.type) - bytes = FrameStart(frames, stop + 1) - size
    BY <2>6
  <2>8. f.type \in DecodedTypes
    BY <2>2 DEF Checked
  <2> HIDE DEF f, bytes
  <2>9. DecodedFrom(f.type, f.message, bytes) = CutOff(f.type, f.message, BodyWidth(f.type) - bytes)
    BY <2>6, <2>7, <2>8, CutOffIsRead
  <2> QED
    BY <2>4, <2>5, <2>7, <2>9
<1> QED
  BY <1>4, <1>5 DEF AppliedThePrefix

\* The engine has been told what it was handed, and shows it.
ToldInv ==
    /\ \A k \in Range(applied) : Checked(k)
    /\ ShowsMeaning(AppliedMeaning)

LEMMA ToldStarts == SessionInit => ToldInv
<1> SUFFICES ASSUME SessionInit PROVE ToldInv
  OBVIOUS
<1>1. applied = <<>> /\ ReplayInit
  BY DEF SessionInit, ParserInit
<1>2. AppliedMeaning = NothingSeen /\ Range(applied) = {}
  BY <1>1 DEF AppliedMeaning, Range
<1>3. /\ targetStockLocate = None /\ counts = [kind \in Kinds |-> 0] /\ adding = None
      /\ \A id \in OrderIds : idToOrder[id] = None
  BY <1>1 DEF ReplayInit, Init
<1>4. VisibleCounts = [kind \in Kinds |-> 0]
  BY <1>3 DEF VisibleCounts, Kinds
<1>5. VisibleOrders = [id \in OrderIds |-> None]
  BY <1>3 DEF VisibleOrders, VisibleOrder
<1>6. /\ NothingSeen.locate = None /\ NothingSeen.orders = [id \in OrderIds |-> None]
      /\ NothingSeen.counts = [kind \in Kinds |-> 0]
      /\ NothingSeen = [locate |-> NothingSeen.locate, orders |-> NothingSeen.orders,
                        counts |-> NothingSeen.counts]
  BY DEF NothingSeen
<1>7. ShowsMeaning(NothingSeen)
  BY <1>3, <1>4, <1>5, <1>6 DEF ShowsMeaning, IsSeen
<1> QED
  BY <1>2, <1>7 DEF ToldInv

\* A message more.
LEMMA HandingTells ==
    ASSUME FeedFits, ParserInv, RInv, ToldInv, Handing
    PROVE  ToldInv'
<1>1. /\ adding = None /\ phase = "body" /\ Current.type \in DecodedTypes
      /\ applied' = Append(applied, frame) /\ OnMessage(Current.type, MessageRead)
      /\ frames' = frames /\ size' = size /\ UNCHANGED fileVars
  BY DEF Handing, fileVars
<1>2. /\ FileType /\ applied \in Seq(DOMAIN frames) /\ frame \in DOMAIN frames
      /\ pos = FrameStart(frames, frame) + 3 /\ ReadUpTo(frame)
      /\ ~UnexpectedMessageLength(Current.length, Current.type)
      /\ Current = frames[frame]
  BY <1>1, AtABody DEF ParserInv, ParserType, Current
<1>3. Acceptable(Current.type, MessageRead)
  BY <1>1, MessageFits
<1>4. AppliedMeaning = Meaning[frame - 1]
  <2>1. frame \in 1 .. (Len(frames) + 1)
    BY <1>2, FileFacts DEF FileType
  <2> QED
    BY <1>2, <2>1, AppliedMeans DEF ReadUpTo
<1>5. \E seen, type, m : seen = AppliedMeaning /\ type = Current.type /\ m = MessageRead
  OBVIOUS
<1>6. PICK seen, type, m : seen = AppliedMeaning /\ type = Current.type /\ m = MessageRead
  BY <1>5
<1>7. /\ type \in DecodedTypes /\ Acceptable(type, m) /\ OnMessage(type, m)
      /\ ShowsMeaning(seen)
  BY <1>1, <1>3, <1>6 DEF ToldInv
<1>8. ShowsMeaning(After(seen, type, m))'
  BY <1>1, <1>7, MessageMeans
<1>9. /\ applied' # <<>> /\ Len(applied') = Len(applied) + 1
      /\ applied'[Len(applied')] = frame /\ Range(applied') = Range(applied) \cup {frame}
  <2>1. /\ Len(applied) \in Nat /\ Len(applied') = Len(applied) + 1
        /\ applied'[Len(applied) + 1] = frame
        /\ DOMAIN applied = 1 .. Len(applied) /\ DOMAIN applied' = 1 .. (Len(applied) + 1)
        /\ \A k \in DOMAIN applied : applied'[k] = applied[k]
    BY <1>1, <1>2
  <2>2. \A k : k \in DOMAIN applied' <=> k \in DOMAIN applied \/ k = Len(applied) + 1
    BY <2>1
  <2>3. Range(applied') = Range(applied) \cup {frame}
    BY <2>1, <2>2 DEF Range
  <2>4. applied' # <<>>
    BY <1>1, <1>2
  <2> QED
    BY <2>1, <2>3, <2>4
<1>10. AppliedMeaning' = After(seen, type, m)
  <2>1. AppliedMeaning' = After(Meaning'[frame - 1], frames'[frame].type,
                            DecodedFrom(frames'[frame].type, frames'[frame].message,
                                        size' - (FrameStart(frames', frame) + 3)))
    BY <1>9 DEF AppliedMeaning
  <2>2. Meaning' = Meaning
    BY <1>1, MeaningStays
  <2>3. MessageRead = DecodedFrom(Current.type, Current.message, size - pos)
    BY DEF MessageRead
  <2> QED
    BY <1>1, <1>2, <1>4, <1>6, <2>1, <2>2, <2>3
<1>11. ShowsMeaning(AppliedMeaning)'
  BY <1>8, <1>10 DEF ShowsMeaning
<1>12. \A k \in Range(applied') : Checked(k)'
  <2>1. Checked(frame)
    BY <1>1, <1>2 DEF Checked, UnexpectedMessageLength
  <2>2. \A k \in Range(applied') : Checked(k)
    BY <1>9, <2>1 DEF ToldInv
  <2> QED
    BY <1>1, <2>2 DEF Checked
<1> QED
  BY <1>11, <1>12 DEF ToldInv

\* Nothing that is visible changes.
LEMMA NothingTold ==
    ASSUME ToldInv, UNCHANGED fileVars, UNCHANGED applied,
           UNCHANGED <<targetStockLocate, VisibleCounts, VisibleOrders>>
    PROVE  ToldInv'
<1>1. frames' = frames /\ size' = size /\ applied' = applied /\ Meaning' = Meaning
  BY MeaningStays DEF fileVars
<1>2. AppliedMeaning' = AppliedMeaning
  BY <1>1 DEF AppliedMeaning
<1>3. ShowsMeaning(AppliedMeaning)'
  BY <1>2 DEF ToldInv, ShowsMeaning
<1>4. \A k \in Range(applied') : Checked(k)'
  BY <1>1 DEF ToldInv, Checked
<1> QED
  BY <1>3, <1>4 DEF ToldInv

LEMMA SessionKeepsTold ==
    ASSUME FeedFits, ParserInv, RInv, ToldInv, [SessionNext]_sessionVars
    PROVE  ToldInv'
<1>1. CASE Handing
  BY <1>1, HandingTells
<1>2. CASE Finishing
  <2>1. FinishStep /\ UNCHANGED targetStockLocate /\ UNCHANGED parserVars
    BY <1>2, AddReplacementSteps DEF Finishing
  <2>2. UNCHANGED Promise!vars
    BY <2>1, FinishShowsNothing
  <2>3. UNCHANGED <<targetStockLocate, VisibleCounts, VisibleOrders>>
    BY <2>1, <2>2 DEF Promise!vars, VisibleCounts, VisibleOrders
  <2>4. UNCHANGED fileVars /\ UNCHANGED applied
    BY <2>1 DEF parserVars, fileVars
  <2> QED
    BY <2>3, <2>4, NothingTold
<1>3. CASE Resting
  <2>1. /\ UNCHANGED <<idToOrder, heap, adding>> /\ UNCHANGED counts
        /\ UNCHANGED targetStockLocate /\ UNCHANGED fileVars /\ UNCHANGED applied
    BY <1>3 DEF Resting, bookVars, engineVars, fileVars
  <2>2. UNCHANGED <<targetStockLocate, VisibleCounts, VisibleOrders>>
    BY <2>1, SameShowsNothing DEF VisibleCounts
  <2> QED
    BY <2>1, <2>2, NothingTold
<1> QED
  BY <1>1, <1>2, <1>3, SessionSteps

LEMMA ToldHolds == FeedFits => (SessionSpec => [](SessionInv /\ ToldInv))
<1> SUFFICES ASSUME FeedFits PROVE SessionSpec => [](SessionInv /\ ToldInv)
  OBVIOUS
<1>1. SessionInv /\ ToldInv /\ [SessionNext]_sessionVars => ToldInv'
  BY SessionKeepsTold DEF SessionInv
<1>2. SessionSpec => []SessionInv
  BY SessionInvHolds
<1> QED
  BY <1>1, <1>2, ToldStarts, PTL DEF SessionSpec

-----------------------------------------------------------------------------
(* What is printed *)

\* A live block rests on a level of its side under its id.
LEMMA BlockRests ==
    ASSUME SoundBook, NEW b \in Live
    PROVE  /\ b # None /\ b \in Blocks
           /\ heap[b].id \in OrderIds /\ idToOrder[heap[b].id] = b
           /\ heap[b].level \in Levels /\ heap[b].level[2] \in Prices
           /\ heap[b].level = <<heap[b].side, heap[b].level[2]>>
           /\ queue[heap[b].level] # <<>>
           /\ heap[b].quantity \in Nat
<1>1. b \in Blocks /\ heap[b] \in RestingOrders
  BY DEF SoundBook, BookType, Live
<1>2. b # None
  BY <1>1, NoneIsNoBlock
<1>3. /\ heap[b].id \in OrderIds /\ heap[b].quantity \in Nat
      /\ heap[b].level \in Levels /\ heap[b].level[2] \in Prices
      /\ heap[b].level = <<heap[b].level[1], heap[b].level[2]>>
  BY <1>1 DEF RestingOrders, Levels
<1>4. idToOrder[heap[b].id] = b
  BY DEF SoundBook, Coherent, MapMatchesPool
<1>5. PICK i \in DOMAIN queue[heap[b].level] : queue[heap[b].level][i] = b
  BY DEF SoundBook, Coherent, QueuesMatchPool
<1>6. heap[b].side = heap[b].level[1]
  BY <1>3, <1>5 DEF SoundBook, Coherent, QueuesMatchPool
<1>7. queue[heap[b].level] # <<>>
  BY <1>5
<1> QED
  BY <1>1, <1>2, <1>3, <1>4, <1>6, <1>7

\* The levels of a side that are not empty are those that have orders in the feed.
LEMMA PricesAreLevels ==
    ASSUME RInv, adding = None, NEW seen, ShowsMeaning(seen), NEW side \in Sides
    PROVE  PricesOf(seen, side) = NonEmpty(side)
<1>1. SoundBook
  BY DEF RInv, ReplayedBook
<1>2. \A id \in OrderIds :
         /\ InFeed(seen, id) <=> idToOrder[id] # None
         /\ InFeed(seen, id) => /\ seen.orders[id].side = heap[idToOrder[id]].side
                                /\ seen.orders[id].price = heap[idToOrder[id]].level[2]
  <2> TAKE id \in OrderIds
  <2>1. /\ InFeed(seen, id) <=> idToOrder[id] # None
        /\ InFeed(seen, id) =>
             seen.orders[id] = [side |-> heap[idToOrder[id]].side,
                                price |-> heap[idToOrder[id]].level[2],
                                shares |-> heap[idToOrder[id]].quantity]
    BY SeenInBook
  <2> QED
    BY <2>1
<1>3. ASSUME NEW id \in OrdersOf(seen, side)
      PROVE  seen.orders[id].price \in NonEmpty(side)
  <2>1. id \in OrderIds /\ idToOrder[id] # None /\ heap[idToOrder[id]].side = side
        /\ seen.orders[id].price = heap[idToOrder[id]].level[2]
    BY <1>2, <1>3 DEF OrdersOf
  <2>2. idToOrder[id] \in Live
    BY <1>1, <2>1, MappedIsLive
  <2> QED
    BY <1>1, <2>1, <2>2, BlockRests DEF NonEmpty
<1>4. ASSUME NEW p \in NonEmpty(side)
      PROVE  p \in PricesOf(seen, side)
  <2> DEFINE l == <<side, p>>
             b == queue[l][1]
  <2>1. l \in Levels /\ queue[l] # <<>>
    BY <1>4 DEF NonEmpty, Levels
  <2>2. 1 \in DOMAIN queue[l]
    BY <1>1, <2>1 DEF SoundBook, BookType
  <2>3. b \in Live /\ heap[b].level = l
    BY <1>1, <2>1, <2>2 DEF SoundBook, Coherent, QueuesMatchPool
  <2> HIDE DEF b
  <2>4. /\ heap[b].id \in OrderIds /\ idToOrder[heap[b].id] = b /\ b # None
        /\ heap[b].level = <<heap[b].side, heap[b].level[2]>>
    BY <1>1, <2>3, BlockRests
  <2>5. /\ heap[b].id \in OrdersOf(seen, side) /\ seen.orders[heap[b].id].price = p
    BY <1>2, <2>3, <2>4 DEF OrdersOf
  <2> QED
    BY <2>5 DEF PricesOf
<1> QED
  BY <1>3, <1>4 DEF PricesOf

\* No level has more shares than a Volume holds.
LEMMA VolumesStayBelow ==
    ASSUME VolumesFit, RInv, adding = None, NEW seen, ShowsMeaning(seen), NEW l \in Levels
    PROVE  HeldOn(l) \in Nat /\ HeldOn(l) < VolumeEnd
<1>1. BookType /\ SoundBook
  BY DEF RInv, ReplayedBook, SoundBook
<1>2. QuantityEnd - 1 \in Nat
  BY SharesAreUnsigned, QuantityIsSigned
<1>3. \A b \in Blocks : Held[b] \in 0 .. (QuantityEnd - 1) /\ Held[b] \in Nat
  <2> TAKE b \in Blocks
  <2>1. CASE b \notin Live
    BY <1>2, <2>1 DEF Held, Live
  <2>2. CASE b \in Live
    <3>1. /\ heap[b].id \in OrderIds /\ idToOrder[heap[b].id] = b /\ b # None
          /\ Held[b] = heap[b].quantity
      BY <1>1, <2>2, BlockRests, HeldType
    <3>2. /\ InFeed(seen, heap[b].id)
          /\ seen.orders[heap[b].id] = [side |-> heap[b].side, price |-> heap[b].level[2],
                                        shares |-> heap[b].quantity]
      BY <3>1, SeenInBook
    <3>3. seen.orders[heap[b].id].shares \in 1 .. (QuantityEnd - 1)
      BY <3>1, <3>2 DEF ShowsMeaning, IsSeen, InFeed
    <3> QED
      BY <1>2, <3>1, <3>2, <3>3
  <2> QED
    BY <2>1, <2>2
<1>4. IsFiniteSet(Blocks) /\ Cardinality(Blocks) * (QuantityEnd - 1) < VolumeEnd
  BY DEF VolumesFit
<1>5. OnLevel(l) \in SUBSET Blocks
  BY DEF OnLevel, Live
<1>6. /\ SumFunctionOnSet(Held, OnLevel(l)) <= SumFunctionOnSet(Held, Blocks)
      /\ SumFunctionOnSet(Held, Blocks) \in Nat
  BY <1>3, <1>4, <1>5, SumPart, SumNat
<1>7. SumFunctionOnSet(Held, OnLevel(l)) \in Nat
  BY <1>3, <1>4, <1>5, FS_Subset, SumNat
<1>8. SumFunctionOnSet(Held, Blocks) <= Cardinality(Blocks) * (QuantityEnd - 1)
  BY <1>2, <1>3, <1>4, SumBound
<1>9. Cardinality(Blocks) * (QuantityEnd - 1) \in Nat
  <2>1. Cardinality(Blocks) \in Nat
    BY <1>4, FS_CardinalityType
  <2> QED
    BY <1>2, <2>1
<1>10. VolumeEnd \in Nat
  BY SharesAreUnsigned, QuantityIsSigned
<1> QED
  BY <1>4, <1>6, <1>7, <1>8, <1>9, <1>10 DEF HeldOn

\* What is printed for a level are the shares of its orders in the feed.
LEMMA SharesAreVolumes ==
    ASSUME VolumesFit, RInv, adding = None, NEW seen, ShowsMeaning(seen),
           NEW side \in Sides, NEW price \in Prices
    PROVE  SharesAt(seen, side, price) = GetNumSharesAtLevel(side, price)
<1> DEFINE l == <<side, price>>
           S == {id \in OrdersOf(seen, side) : seen.orders[id].price = price}
           f == [id \in S |-> seen.orders[id].shares]
           of == [id \in S |-> idToOrder[id]]
<1>1. BookType /\ SoundBook /\ l \in Levels
  BY DEF RInv, ReplayedBook, SoundBook, Levels
<1>2. \A id \in S :
         /\ id \in OrderIds /\ idToOrder[id] # None /\ idToOrder[id] \in Live
         /\ heap[idToOrder[id]].level = l /\ heap[idToOrder[id]].id = id
         /\ f[id] = heap[idToOrder[id]].quantity /\ f[id] \in Int
         /\ Held[idToOrder[id]] = f[id]
  <2> TAKE id \in S
  <2>1. id \in OrderIds /\ InFeed(seen, id) /\ seen.orders[id].side = side
        /\ seen.orders[id].price = price /\ f[id] = seen.orders[id].shares
    BY DEF OrdersOf
  <2>2. /\ idToOrder[id] # None
        /\ seen.orders[id] = [side |-> heap[idToOrder[id]].side,
                              price |-> heap[idToOrder[id]].level[2],
                              shares |-> heap[idToOrder[id]].quantity]
    BY <2>1, SeenInBook
  <2>3. idToOrder[id] \in Live /\ heap[idToOrder[id]].id = id
    BY <1>1, <2>1, <2>2, MappedIsLive
  <2>4. /\ heap[idToOrder[id]].level
             = <<heap[idToOrder[id]].side, heap[idToOrder[id]].level[2]>>
        /\ heap[idToOrder[id]].quantity \in Nat
    BY <1>1, <2>3, BlockRests
  <2>5. Held[idToOrder[id]] = heap[idToOrder[id]].quantity
    BY <1>1, <2>3, HeldType
  <2> HIDE DEF f, S
  <2> QED
    BY <2>1, <2>2, <2>3, <2>4, <2>5
<1>3. \A b \in OnLevel(l) : \E id \in S : idToOrder[id] = b
  <2> TAKE b \in OnLevel(l)
  <2>1. b \in Live /\ heap[b].level = l
    BY DEF OnLevel
  <2>2. /\ heap[b].id \in OrderIds /\ idToOrder[heap[b].id] = b /\ b # None
        /\ heap[b].level = <<heap[b].side, heap[b].level[2]>>
    BY <1>1, <2>1, BlockRests
  <2>3. /\ InFeed(seen, heap[b].id)
        /\ seen.orders[heap[b].id] = [side |-> heap[b].side, price |-> heap[b].level[2],
                                      shares |-> heap[b].quantity]
    BY <2>2, SeenInBook
  <2>4. heap[b].id \in S
    BY <2>1, <2>2, <2>3 DEF OrdersOf
  <2> QED
    BY <2>2, <2>4
<1>4. IsFiniteSet(S)
  <2>1. IsFiniteSet({id \in OrderIds : idToOrder[id] # None})
    BY IdsAreFinite
  <2>2. S \subseteq {id \in OrderIds : idToOrder[id] # None}
    BY <1>2
  <2> HIDE DEF S
  <2> QED
    BY <2>1, <2>2, FS_Subset
<1>5. SharesAt(seen, side, price) = SumFunctionOnSet(f, S)
  BY DEF SharesAt, SumFunction
<1>6. of \in [S -> OnLevel(l)]
  <2> HIDE DEF S
  <2> QED
    BY <1>2 DEF OnLevel
<1>7. /\ \A x, y \in S : of[x] = of[y] => x = y
      /\ \A b \in OnLevel(l) : \E x \in S : of[x] = b
      /\ \A x \in S : f[x] \in Int /\ Held[of[x]] = f[x]
  <2> HIDE DEF S, f
  <2> QED
    BY <1>2, <1>3
<1> HIDE DEF S, f, of, l
<1>8. SumFunctionOnSet(f, S) = SumFunctionOnSet(Held, OnLevel(l))
  BY <1>4, <1>6, <1>7, SumBijection
<1>9. volume[l] = HeldOn(l)
  BY <1>1 DEF RInv, ReplayedBook, VolumesAreHeld
<1>10. HeldOn(l) \in Nat /\ HeldOn(l) < VolumeEnd
  BY <1>1, VolumesStayBelow
<1>11. volume[l] % VolumeEnd = volume[l]
  <2>1. \A v, e \in Nat : v < e => v % e = v
    OBVIOUS
  <2>2. VolumeEnd \in Nat
    BY SharesAreUnsigned, QuantityIsSigned
  <2> QED
    BY <1>9, <1>10, <2>1, <2>2
<1> QED
  BY <1>5, <1>8, <1>9, <1>11 DEF HeldOn, GetNumSharesAtLevel, l

\* The levels of a set that are better than a price.
AheadOf(S, side, price) == {q \in S : Ahead(side, q, price)}

LEMMA BetterIsAhead ==
    ASSUME NEW seen, NEW side, NEW price
    PROVE  Better(seen, side, price) = AheadOf(PricesOf(seen, side), side, price)
BY DEF Better, AheadOf, Ahead

\* Prices differ in how many are better, and each is better than itself to none.
LEMMA RanksTellApart ==
    ASSUME NEW side \in Sides, NEW S \in SUBSET Prices
    PROVE  /\ IsFiniteSet(S) /\ Cardinality(S) \in Nat
           /\ \A p \in S : /\ IsFiniteSet(AheadOf(S, side, p))
                           /\ Cardinality(AheadOf(S, side, p)) \in Nat
                           /\ Cardinality(AheadOf(S, side, p)) < Cardinality(S)
           /\ \A p, r \in S :
                 Cardinality(AheadOf(S, side, p)) = Cardinality(AheadOf(S, side, r)) => p = r
<1>1. IsFiniteSet(S) /\ Cardinality(S) \in Nat
  <2>1. IsFiniteSet(Prices)
    BY PriceRange, FS_Interval DEF Prices
  <2> QED
    BY <2>1, FS_Subset, FS_CardinalityType
<1>2. ASSUME NEW p \in S
      PROVE  /\ IsFiniteSet(AheadOf(S, side, p))
             /\ Cardinality(AheadOf(S, side, p)) \in Nat
             /\ Cardinality(AheadOf(S, side, p)) < Cardinality(S)
  <2>1. AheadOf(S, side, p) \in SUBSET S
    BY DEF AheadOf
  <2>2. p \notin AheadOf(S, side, p)
    BY AheadIsOrder DEF AheadOf
  <2>3. /\ IsFiniteSet(AheadOf(S, side, p))
        /\ Cardinality(AheadOf(S, side, p)) <= Cardinality(S)
        /\ Cardinality(S) = Cardinality(AheadOf(S, side, p)) => S = AheadOf(S, side, p)
    BY <1>1, <2>1, FS_Subset
  <2>4. Cardinality(AheadOf(S, side, p)) \in Nat
    BY <2>3, FS_CardinalityType
  <2> QED
    BY <1>1, <2>2, <2>3, <2>4
<1>3. ASSUME NEW p \in S, NEW r \in S, Ahead(side, p, r)
      PROVE  Cardinality(AheadOf(S, side, p)) # Cardinality(AheadOf(S, side, r))
  <2>1. AheadOf(S, side, p) \in SUBSET AheadOf(S, side, r)
    <3> SUFFICES ASSUME NEW q \in S, Ahead(side, q, p) PROVE Ahead(side, q, r)
      BY DEF AheadOf
    <3> QED
      BY <1>3, PriceRange DEF Ahead, Prices
  <2>2. p \in AheadOf(S, side, r) /\ p \notin AheadOf(S, side, p)
    BY <1>3, AheadIsOrder DEF AheadOf
  <2>3. Cardinality(AheadOf(S, side, r)) = Cardinality(AheadOf(S, side, p))
          => AheadOf(S, side, r) = AheadOf(S, side, p)
    BY <1>2, <2>1, FS_Subset
  <2> QED
    BY <2>2, <2>3
<1>4. ASSUME NEW p \in S, NEW r \in S,
             Cardinality(AheadOf(S, side, p)) = Cardinality(AheadOf(S, side, r))
      PROVE  p = r
  <2>1. ~Ahead(side, p, r) /\ ~Ahead(side, r, p)
    BY <1>3, <1>4
  <2> QED
    BY <2>1, PriceRange DEF Ahead, Prices
<1> QED
  BY <1>1, <1>2, <1>4

\* Between two messages the best price is the best of the levels in use.
LEMMA BestIs ==
    ASSUME RInv, NEW side \in Sides
    PROVE  /\ best[side] = None <=> NonEmpty(side) = {}
           /\ best[side] # None =>
                 /\ best[side] \in NonEmpty(side)
                 /\ \A p \in NonEmpty(side) : ~Ahead(side, p, best[side])
<1>1. /\ best[side] \in Prices \cup {None}
      /\ \A p \in Prices : queue[<<side, p>>] # <<>> =>
            best[side] # None /\ ~Ahead(side, p, best[side])
      /\ best[side] # None => queue[<<side, best[side]>>] # <<>>
  BY DEF RInv, ReplayedBook, SoundBook, BestType, BestPriceIsBest
<1> QED
  BY <1>1 DEF NonEmpty

\* A set of levels from the best price onwards.
Ranked(S, side, depth) ==
    LET nth(n) == CHOOSE p \in S : Cardinality(AheadOf(S, side, p)) = n - 1
    IN  [n \in 1 .. (IF Cardinality(S) < depth THEN Cardinality(S) ELSE depth) |->
            <<nth(n), GetNumSharesAtLevel(side, nth(n))>>]

\* The n-th of the printed levels is the one that n - 1 are better than.
LEMMA TopLevelsAre ==
    ASSUME RInv, NEW side \in Sides
    PROVE  LET S    == NonEmpty(side)
               top  == GetTopLevels(side, Depth)
           IN  /\ Len(top) = IF Cardinality(S) < Depth THEN Cardinality(S) ELSE Depth
               /\ \A p \in S : Cardinality(AheadOf(S, side, p)) + 1 <= Depth =>
                     top[Cardinality(AheadOf(S, side, p)) + 1]
                        = <<p, GetNumSharesAtLevel(side, p)>>
<1> DEFINE S == NonEmpty(side)
           top == GetTopLevels(side, Depth)
           number == Cardinality(S)
           shown == IF number < Depth THEN number ELSE Depth
<1>1. S \in SUBSET Prices
  BY DEF NonEmpty
<1>2. IsFiniteSet(S) /\ number \in Nat
  BY <1>1, RanksTellApart
<1>3. shown \in Nat
  BY <1>2, DepthIsNatural
<1>4. CASE best[side] = None
  <2>1. S = {} /\ top = <<>>
    BY <1>4, BestIs DEF GetTopLevels
  <2>2. number = 0
    BY <2>1, FS_EmptySet
  <2>3. Len(top) = 0
    BY <2>1
  <2>4. Len(top) = shown
    BY <2>2, <2>3, DepthIsNatural
  <2> QED
    BY <2>1, <2>4
<1>5. CASE best[side] # None
  <2> DEFINE nth(n) == CHOOSE p \in S : Cardinality(AheadOf(S, side, p)) = n - 1
  <2>1. {p \in S : ~Ahead(side, p, best[side])} = S
    BY <1>5, BestIs
  <2>2. top = [n \in 1 .. shown |-> <<nth(n), GetNumSharesAtLevel(side, nth(n))>>]
    <3> DEFINE T == {p \in NonEmpty(side) : ~Ahead(side, p, best[side])}
    <3>1. top = Ranked(T, side, Depth)
      BY <1>5 DEF GetTopLevels, Ranked, AheadOf
    <3>2. T = S
      BY <2>1
    <3> HIDE DEF T, S, top
    <3>3. top = Ranked(S, side, Depth)
      BY <3>1, <3>2
    <3> QED
      BY <3>3 DEF Ranked
  <2> HIDE DEF nth, S, top, number
  <2>3. Len(top) = shown
    <3> DEFINE W == {<<nth(n), GetNumSharesAtLevel(side, nth(n))>> : n \in 1 .. shown}
    <3>1. top \in Seq(W) /\ DOMAIN top = 1 .. shown
      <4> HIDE DEF shown
      <4> QED
        BY <1>3, <2>2
    <3>2. Len(top) \in Nat /\ DOMAIN top = 1 .. Len(top)
      BY <3>1
    <3> HIDE DEF shown
    <3> QED
      BY <1>3, <3>1, <3>2
  <2>4. ASSUME NEW p \in S, Cardinality(AheadOf(S, side, p)) + 1 <= Depth
        PROVE  top[Cardinality(AheadOf(S, side, p)) + 1] = <<p, GetNumSharesAtLevel(side, p)>>
    <3> DEFINE n == Cardinality(AheadOf(S, side, p)) + 1
    <3>1. /\ Cardinality(AheadOf(S, side, p)) \in Nat
          /\ Cardinality(AheadOf(S, side, p)) < number
      BY <1>1, RanksTellApart DEF number
    <3>2. n \in 1 .. shown /\ n - 1 = Cardinality(AheadOf(S, side, p))
      BY <1>2, <2>4, <3>1, DepthIsNatural
    <3> HIDE DEF n
    <3>3. nth(n) = p
      <4>1. \A r \in S : Cardinality(AheadOf(S, side, r)) = n - 1 => r = p
        BY <1>1, <3>2, RanksTellApart
      <4> QED
        BY <3>2, <4>1 DEF nth
    <3>4. top[n] = <<nth(n), GetNumSharesAtLevel(side, nth(n))>>
      BY <2>2, <3>2
    <3> QED
      BY <3>3, <3>4 DEF n
  <2> QED
    BY <2>3, <2>4 DEF S, top, number
<1> QED
  BY <1>4, <1>5

\* What is printed of a side is what the feed has there.
LEMMA SideIsShown ==
    ASSUME VolumesFit, RInv, adding = None, NEW seen, ShowsMeaning(seen), NEW side \in Sides
    PROVE  Shows(seen, side, SideSummary(side, Depth))
<1> DEFINE S == NonEmpty(side)
           shown == SideSummary(side, Depth)
           Rank(p) == Cardinality(AheadOf(S, side, p)) + 1
<1>1. /\ PricesOf(seen, side) = S /\ S \in SUBSET Prices
      /\ \A p : Better(seen, side, p) = AheadOf(S, side, p)
  BY PricesAreLevels, BetterIsAhead DEF NonEmpty
<1>2. \A p \in S : SharesAt(seen, side, p) = GetNumSharesAtLevel(side, p)
  BY <1>1, SharesAreVolumes
<1>3. /\ shown.levels = Cardinality(S)
      /\ shown.best = IF best[side] = None THEN None
                      ELSE <<best[side], GetNumSharesAtLevel(side, best[side])>>
      /\ shown.top = GetTopLevels(side, Depth)
  BY DEF SideSummary
<1>4. /\ Len(shown.top) = IF Cardinality(S) < Depth THEN Cardinality(S) ELSE Depth
      /\ \A p \in S : Rank(p) <= Depth =>
            shown.top[Rank(p)] = <<p, GetNumSharesAtLevel(side, p)>>
  BY <1>3, TopLevelsAre
<1>5. ASSUME NEW p \in S, Rank(p) = 1
      PROVE  shown.best = <<p, GetNumSharesAtLevel(side, p)>>
  <2>1. best[side] # None /\ best[side] \in S /\ ~Ahead(side, p, best[side])
    BY BestIs
  <2>2. AheadOf(S, side, p) = {}
    <3>1. IsFiniteSet(AheadOf(S, side, p)) /\ Cardinality(AheadOf(S, side, p)) \in Nat
      BY <1>1, RanksTellApart
    <3> QED
      BY <1>5, <3>1, FS_EmptySet
  <2>3. ~Ahead(side, best[side], p)
    BY <2>1, <2>2 DEF AheadOf
  <2>4. best[side] = p
    BY <1>1, <2>1, <2>3, PriceRange DEF Ahead, Prices
  <2> QED
    BY <1>3, <2>1, <2>4
<1>6. S = {} => shown.best = None
  BY <1>3, BestIs
<1> HIDE DEF S, shown
<1> QED
  BY <1>1, <1>2, <1>3, <1>4, <1>5, <1>6 DEF Shows, S, shown

-----------------------------------------------------------------------------
(* Which captures fit *)

\* The ids and locate codes that the engine knows are all that the bytes of a
\* message can spell, as they are in the program: OrderId and the codes of
\* targetStockLocate_ are as wide as the fields that are read into them.
IdsAreWide == 0 .. (Power[2] - 1) \subseteq Locates /\ 0 .. (Power[8] - 1) \subseteq OrderIds

\* No message of a capture is about more shares than a Quantity holds.
SharesAreHeld ==
    \A f \in UNION {Range(capture) : capture \in Captures} :
        f.type \in DecodedTypes =>
            \A name \in {"shares", "executedShares", "cancelledShares"} \cap FieldNames(f.type) :
                f.message[name] < QuantityEnd

\* Where the locate code and the order numbers of a message are.
LEMMA NumbersAre ==
    /\ \A type \in DecodedTypes :
          1 \in DOMAIN Fields(type) /\ Fields(type)[1] = <<"stockLocate", 2>>
    /\ \A type \in {"A", "F", "E", "C", "X", "D"} :
          4 \in DOMAIN Fields(type) /\ Fields(type)[4] = <<"orderReferenceNumber", 8>>
    /\ 4 \in DOMAIN Fields("U") /\ Fields("U")[4] = <<"originalOrderReferenceNumber", 8>>
    /\ 5 \in DOMAIN Fields("U") /\ Fields("U")[5] = <<"newOrderReferenceNumber", 8>>
<1>1. /\ 1 \in DOMAIN Fields("S") /\ Fields("S")[1] = <<"stockLocate", 2>>
      /\ 1 \in DOMAIN Fields("R") /\ Fields("R")[1] = <<"stockLocate", 2>>
  BY DEF Fields, Header, DirectoryFields
<1>2. /\ 1 \in DOMAIN Fields("A") /\ Fields("A")[1] = <<"stockLocate", 2>>
      /\ 4 \in DOMAIN Fields("A") /\ Fields("A")[4] = <<"orderReferenceNumber", 8>>
  BY DEF Fields, Header, AddFields, OrderNumber
<1>3. /\ 1 \in DOMAIN Fields("F") /\ Fields("F")[1] = <<"stockLocate", 2>>
      /\ 4 \in DOMAIN Fields("F") /\ Fields("F")[4] = <<"orderReferenceNumber", 8>>
  BY DEF Fields, Header, AddFields, OrderNumber
<1>4. /\ 1 \in DOMAIN Fields("E") /\ Fields("E")[1] = <<"stockLocate", 2>>
      /\ 4 \in DOMAIN Fields("E") /\ Fields("E")[4] = <<"orderReferenceNumber", 8>>
  BY DEF Fields, Header, ExecutionFields, OrderNumber
<1>5. /\ 1 \in DOMAIN Fields("C") /\ Fields("C")[1] = <<"stockLocate", 2>>
      /\ 4 \in DOMAIN Fields("C") /\ Fields("C")[4] = <<"orderReferenceNumber", 8>>
  BY DEF Fields, Header, ExecutionFields, OrderNumber
<1>6. /\ 1 \in DOMAIN Fields("X") /\ Fields("X")[1] = <<"stockLocate", 2>>
      /\ 4 \in DOMAIN Fields("X") /\ Fields("X")[4] = <<"orderReferenceNumber", 8>>
  BY DEF Fields, Header, OrderNumber
<1>7. /\ 1 \in DOMAIN Fields("D") /\ Fields("D")[1] = <<"stockLocate", 2>>
      /\ 4 \in DOMAIN Fields("D") /\ Fields("D")[4] = <<"orderReferenceNumber", 8>>
  BY DEF Fields, Header, OrderNumber
<1>8. /\ 1 \in DOMAIN Fields("U") /\ Fields("U")[1] = <<"stockLocate", 2>>
      /\ 4 \in DOMAIN Fields("U") /\ Fields("U")[4] = <<"originalOrderReferenceNumber", 8>>
      /\ 5 \in DOMAIN Fields("U") /\ Fields("U")[5] = <<"newOrderReferenceNumber", 8>>
  BY DEF Fields, Header, ReplaceFields
<1> QED
  BY <1>1, <1>2, <1>3, <1>4, <1>5, <1>6, <1>7, <1>8 DEF DecodedTypes

\* What is read of a field is at most what was written there.
LEMMA ReadingShrinks ==
    ASSUME NEW type \in DecodedTypes, NEW message, IsMessage(type, message), NEW bytes \in Int,
           NEW name \in FieldNames(type)
    PROVE  DecodedFrom(type, message, bytes)[name] \in 0 .. message[name]
<1> DEFINE n == Position(type, name)
           width == Fields(type)[n][2]
           lost == (BodyWidth(type) - bytes) - (BodyWidth(type) - WidthBefore(type, n))
           loss == IF lost < 0 THEN 0 ELSE IF lost > width THEN width ELSE lost
           cut == CutOff(type, message, BodyWidth(type) - bytes)
<1>1. n \in DOMAIN Fields(type)
  BY DEF Position, FieldNames
<1>2. BodyWidth(type) \in Nat /\ width \in Nat /\ WidthBefore(type, n) \in Int
  BY <1>1, DecodersReadTheLength DEF LaidOut
<1>3. cut[name] = Rounded(message[name], loss)
  BY DEF CutOff
<1>4. DecodedFrom(type, message, bytes) = cut
  BY CutOffIsRead
<1>5. message[name] \in Nat
  BY DEF IsMessage
<1> HIDE DEF n, width, cut
<1>6. loss \in Nat
  BY <1>2
<1>7. Power[loss] \in Nat \ {0}
  BY <1>6, PowerFacts
<1>8. \A v \in Nat, d \in Nat \ {0} : v - (v % d) \in 0 .. v
  <2> SUFFICES ASSUME NEW v \in Nat, NEW d \in Nat \ {0} PROVE v - (v % d) \in 0 .. v
    OBVIOUS
  <2>1. v % d \in Nat /\ v % d <= v
    <3>1. v % d \in 0 .. (d - 1)
      OBVIOUS
    <3>2. v < d => v % d = v
      OBVIOUS
    <3> QED
      BY <3>1, <3>2
  <2> QED
    BY <2>1
<1> HIDE DEF loss
<1> QED
  BY <1>3, <1>4, <1>5, <1>7, <1>8 DEF Rounded

\* The program's own types make every capture fit that is about few enough
\* shares: a capture has to meet FeedFits in nothing else.
THEOREM CapturesFitWide == IdsAreWide /\ SharesAreHeld => FeedFits
<1> SUFFICES ASSUME IdsAreWide, SharesAreHeld,
                    NEW capture \in Captures, NEW f \in Range(capture), f.type \in DecodedTypes,
                    NEW bytes \in 0 .. BodyWidth(f.type)
             PROVE  Acceptable(f.type, DecodedFrom(f.type, f.message, bytes))
  BY DEF FeedFits
<1> DEFINE type == f.type
           message == f.message
           m == DecodedFrom(type, message, bytes)
<1>1. type \in DecodedTypes /\ IsMessage(type, message)
  <2>1. PICK n \in DOMAIN capture : capture[n] = f
    BY DEF Range
  <2> QED
    BY <2>1, FileFacts
<1>2. bytes \in Int
  <2>1. BodyWidth(type) \in Nat
    BY DecodersReadTheLength DEF LaidOut
  <2> QED
    BY <2>1
<1>3. \A name \in {"shares", "executedShares", "cancelledShares"} \cap FieldNames(type) :
         message[name] < QuantityEnd
  BY DEF SharesAreHeld
<1> HIDE DEF type, message
<1>4. \A name \in FieldNames(type) : m[name] \in 0 .. message[name] /\ message[name] \in Nat
  BY <1>1, <1>2, ReadingShrinks DEF IsMessage
<1> HIDE DEF m
<1>5. /\ Power[2] \in Nat /\ Power[8] \in Nat
      /\ \A k \in 0 .. (Power[2] - 1) : k \in Locates
      /\ \A k \in 0 .. (Power[8] - 1) : k \in OrderIds
  BY PowerFacts DEF IdsAreWide
<1>6. ASSUME NEW n \in DOMAIN Fields(type), NEW name, Fields(type)[n] = <<name, 2>>
      PROVE  m[name] \in Locates
  <2>1. Fields(type)[n][1] = name /\ Fields(type)[n][2] = 2
    BY <1>6
  <2>2. name \in FieldNames(type) /\ message[name] < Power[2]
    BY <1>1, <2>1 DEF FieldNames, IsMessage
  <2>3. m[name] \in 0 .. (Power[2] - 1)
    BY <1>4, <1>5, <2>2
  <2> QED
    BY <1>5, <2>3
<1>7. ASSUME NEW n \in DOMAIN Fields(type), NEW name, Fields(type)[n] = <<name, 8>>
      PROVE  m[name] \in OrderIds
  <2>1. Fields(type)[n][1] = name /\ Fields(type)[n][2] = 8
    BY <1>7
  <2>2. name \in FieldNames(type) /\ message[name] < Power[8]
    BY <1>1, <2>1 DEF FieldNames, IsMessage
  <2>3. m[name] \in 0 .. (Power[8] - 1)
    BY <1>4, <1>5, <2>2
  <2> QED
    BY <1>5, <2>3
<1>8. \A name \in {"shares", "executedShares", "cancelledShares"} \cap FieldNames(type) :
         FitsQuantity(m[name])
  BY <1>3, <1>4, SharesAreUnsigned, QuantityIsSigned DEF FitsQuantity
<1>9. m.stockLocate \in Locates
  BY <1>1, <1>6, NumbersAre
<1>10. type \in {"A", "F", "E", "C", "X", "D"} => m.orderReferenceNumber \in OrderIds
  BY <1>7, NumbersAre
<1>11. type = "U" =>
          m.originalOrderReferenceNumber \in OrderIds /\ m.newOrderReferenceNumber \in OrderIds
  BY <1>7, NumbersAre
<1>12. /\ type \in {"A", "F", "U"} => "shares" \in FieldNames(type)
       /\ type \in {"E", "C"} => "executedShares" \in FieldNames(type)
       /\ type = "X" => "cancelledShares" \in FieldNames(type)
  BY AddLayout, AttributedLayout, ExecutedLayout, ExecutedAtPriceLayout, CancelLayout,
     ReplaceLayout
<1>13. Acceptable(type, m)
  BY <1>8, <1>9, <1>10, <1>11, <1>12 DEF Acceptable
<1> QED
  BY <1>13 DEF m, type, message

-----------------------------------------------------------------------------
(* The program *)

\* FramingIsKept, for every capture, however it is cut off: parse reads a length
\* only at the start of a frame or at the end of the file.
THEOREM ParserKeepsFraming == SessionSpec => []FramingIsKept
<1>1. ParserInv => FramingIsKept
  BY DEF ParserInv, FramingIsKept
<1> QED
  BY <1>1, SessionKeepsParser, PTL

\* AppliesThePrefix, for every capture, cut and time to stop at: on_message is
\* called once, in order, for the decoded frames up to the first reason to stop
\* and for none behind it but a message that the end of the file cuts off.
THEOREM ParserAppliesThePrefix == SessionSpec => []AppliesThePrefix
<1>1. ParserInv => AppliesThePrefix
  BY DEF ParserInv, AppliesThePrefix, AppliedThePrefix
<1> QED
  BY <1>1, SessionKeepsParser, PTL

\* Every variable of the program keeps its type, whatever the capture holds that
\* fits, and wherever it is cut off.
THEOREM SessionTypeCorrect == FeedFits => (SessionSpec => []SessionTypeOK)
<1> SUFFICES ASSUME FeedFits PROVE SessionSpec => []SessionTypeOK
  OBVIOUS
<1>1. SessionInv => SessionTypeOK
  <2> SUFFICES ASSUME SessionInv PROVE SessionTypeOK
    OBVIOUS
  <2>1. ParserTypeOK
    BY DEF SessionInv, ParserInv, ParserType, ParserTypeOK
  <2>2. ReplayTypeOK
    BY TypeOKParts DEF SessionInv, RInv, ReplayedBook, SoundBook, CountsType,
                       AddingIsPossible, ReplayTypeOK
  <2>3. summary = None \/ summary.orders \in Nat
    BY OrdersAreCounted DEF SessionInv, MainInv, PrintSummary
  <2> QED
    BY <2>1, <2>2, <2>3 DEF SessionInv, MainInv, SessionTypeOK
<1> QED
  BY <1>1, SessionInvHolds, PTL

\* SummaryTellsTheCapture, for every capture that fits the program's types,
\* wherever it is cut off and whatever the time to stop at: what ItchReplay
\* prints is the book that the messages of the capture make up.
THEOREM SummaryIsTrue == FeedFits /\ VolumesFit => (SessionSpec => []SummaryTellsTheCapture)
<1> SUFFICES ASSUME FeedFits, VolumesFit PROVE SessionSpec => []SummaryTellsTheCapture
  OBVIOUS
<1>1. SessionInv /\ ToldInv => SummaryTellsTheCapture
  <2> SUFFICES ASSUME SessionInv, ToldInv PROVE SummaryTellsTheCapture
    OBVIOUS
  <2>1. ParserInv /\ RInv /\ MainInv
    BY DEF SessionInv
  <2>2. summary # None => status = "EXIT_SUCCESS" /\ phase = "done"
    BY <2>1 DEF MainInv
  <2>3. ASSUME status = "EXIT_SUCCESS"
        PROVE  LET seen == MeaningOfCapture
               IN  /\ summary.locate = seen.locate
                   /\ summary.counts = seen.counts
                   /\ summary.orders = Cardinality({id \in OrderIds : InFeed(seen, id)})
                   /\ \A side \in Sides : Shows(seen, side, summary.sides[side])
    <3>1. adding = None /\ phase = "done" /\ summary = PrintSummary(Depth)
      BY <2>1, <2>3 DEF MainInv
    <3>2. /\ FileType /\ applied \in Seq(DOMAIN frames) /\ AppliedThePrefix
      BY <2>1, <3>1 DEF ParserInv, ParserType
    <3>3. AppliedMeaning = MeaningOfCapture
      BY <3>2, EndMeans DEF ToldInv
    <3> DEFINE seen == MeaningOfCapture
    <3>4. ShowsMeaning(seen)
      BY <3>3 DEF ToldInv
    <3>5. /\ summary.locate = targetStockLocate /\ summary.counts = counts
          /\ summary.orders = GetNumOrders
          /\ \A side \in Sides : summary.sides[side] = SideSummary(side, Depth)
      BY <3>1 DEF PrintSummary
    <3> HIDE DEF seen
    <3>6. \E then : then = seen
      OBVIOUS
    <3>7. PICK then : then = seen
      BY <3>6
    <3>8. ShowsMeaning(then)
      BY <3>4, <3>7
    <3>9. targetStockLocate = then.locate
      BY <3>8 DEF ShowsMeaning
    <3>10. /\ then.counts = counts
           /\ \A id \in OrderIds : InFeed(then, id) <=> idToOrder[id] # None
      BY <2>1, <3>1, <3>8, SeenInBook
    <3>11. GetNumOrders = Cardinality({id \in OrderIds : InFeed(then, id)})
      <4>1. {id \in OrderIds : InFeed(then, id)} = {id \in OrderIds : idToOrder[id] # None}
        BY <3>10
      <4> QED
        BY <4>1 DEF GetNumOrders
    <3>12. \A side \in Sides : Shows(then, side, SideSummary(side, Depth))
      BY <2>1, <3>1, <3>8, SideIsShown
    <3> QED
      BY <3>5, <3>7, <3>9, <3>10, <3>11, <3>12 DEF seen
  <2> QED
    BY <2>2, <2>3 DEF SummaryTellsTheCapture
<1>2. SessionSpec => [](SessionInv /\ ToldInv)
  BY ToldHolds
<1> QED
  BY <1>1, <1>2, PTL

=============================================================================

----------------------- MODULE OrderBookFaultsProofs ------------------------
(***************************************************************************)
(* What OrderBookProofs proves of a book that never fails holds as well of *)
(* one whose calls may end in an exception; a modification or a taker that *)
(* has traded never ends in that of the pool; the book, exceptions         *)
(* included, implements LimitOrderBook; and no call goes on for ever.      *)
(***************************************************************************)
EXTENDS OrderBookFaults, OrderBookProofs

\* A call that has taken an order out of the book holds on to its block: it
\* stays free until the call itself takes it.
BlockIsSaved ==
    pc \in {"matching", "resubmit"} /\ (call.op # "submit" \/ submission.executions # <<>>) =>
        Free # {}

FInv == IInv /\ BlockIsSaved

\* Taking an order out frees its block.
LEMMA TakeOutFrees ==
    ASSUME BookType, NEW l \in Levels, NEW i \in DOMAIN queue[l], TakeOut(l, i)
    PROVE  Free' # {}
<1>1. queue[l][i] \in Blocks
  BY DEF BookType
<1>2. heap'[queue[l][i]] = None
  BY <1>1 DEF TakeOut, Retire, BookType
<1> QED
  BY <1>1, <1>2 DEF Free

LEMMA CancelRestingFrees ==
    ASSUME BookInv, NEW id \in OrderIds, idToOrder[id] # None, CancelResting(id)
    PROVE  Free' # {}
<1> USE DEF BookInv
<1> DEFINE l == heap[idToOrder[id]].level
<1>1. l \in Levels
  BY DEF Coherent, MapMatchesPool, Live, BookType, RestingOrders
<1>2. PICK i \in DOMAIN queue[l] : TakeOut(l, i)
  BY DEF CancelResting
<1> HIDE DEF l
<1> QED
  BY <1>1, <1>2, TakeOutFrees

-----------------------------------------------------------------------------
(* Exceptions *)

\* The book is left as it is, and no call is running any more.
LEMMA ThrownKeepsIInv ==
    ASSUME IInv, pc = "matching", Thrown
    PROVE  IInv'
<1> USE DEF IInv
<1>1. BookInv'
  BY BookUnchanged DEF Thrown
<1>2. NoCall \in Calls /\ NoSubmission \in Submissions /\ NoOutcome \in Outcomes
  BY DEF Calls, NoSubmission, Submissions, NoOutcome, Outcomes
<1>3. CallType'
  BY <1>2 DEF CallType, Thrown
<1>4. CallInv'
  BY DEF CallInv, ModificationCompletes, Thrown
<1> QED
  BY <1>1, <1>3, <1>4

LEMMA FaultNextKeepsIInv ==
    ASSUME IInv, [FaultNext]_vars
    PROVE  IInv'
<1>1. CASE AllocateThrows \/ RecordThrows
  BY <1>1, ThrownKeepsIInv DEF AllocateThrows, RecordThrows
<1>2. CASE [Next]_vars
  BY <1>2, NextKeepsIInv
<1> QED
  BY <1>1, <1>2 DEF FaultNext, FaultRunning, Next

-----------------------------------------------------------------------------
(* The block that is saved *)

LEMMA CallingSavesBlock ==
    ASSUME IInv, Calling
    PROVE  BlockIsSaved'
<1> USE DEF IInv
<1>1. CASE SubmitOrder
  <2>1. PICK req \in LimitRequests \cup MarketRequests :
           RejectSubmission(req) \/ KillSubmission(req) \/ StartMatching(req)
    BY <1>1 DEF SubmitOrder
  <2>2. CASE RejectSubmission(req) \/ KillSubmission(req)
    BY <2>2 DEF RejectSubmission, KillSubmission, BlockIsSaved
  <2>3. CASE StartMatching(req)
    <3>1. pc = "idle"
      BY <1>1 DEF SubmitOrder
    <3>2. submission'.executions = <<>>
      BY <2>3, <3>1 DEF StartMatching, CallInv, NoSubmission
    <3>3. call'.op = "submit"
      BY <2>3 DEF StartMatching, LimitRequests, MarketRequests
    <3> QED
      BY <3>2, <3>3 DEF BlockIsSaved
  <2> QED
    BY <2>1, <2>2, <2>3
<1>2. CASE CancelNotFound \/ CancelOrder \/ ModifyRefused
  BY <1>2 DEF CancelNotFound, CancelOrder, ModifyRefused, BlockIsSaved
<1>3. CASE ModifyOrder
  BY <1>3, CancelRestingFrees DEF ModifyOrder, BlockIsSaved
<1>4. CASE SessionEnd
  BY <1>4 DEF SessionEnd, BlockIsSaved
<1> QED
  BY <1>1, <1>2, <1>3, <1>4 DEF Calling

LEMMA RunningSavesBlock ==
    ASSUME FInv, FaultRunning
    PROVE  BlockIsSaved'
<1> USE DEF FInv
<1>1. CASE Resubmit
  <2>1. CASE RejectSubmission(call) \/ KillSubmission(call)
    BY <2>1 DEF RejectSubmission, KillSubmission, BlockIsSaved
  <2>2. CASE StartMatching(call)
    BY <1>1, <2>2 DEF Resubmit, StartMatching, BlockIsSaved, Free, bookVars
  <2> QED
    BY <1>1, <2>1, <2>2 DEF Resubmit
<1>2. CASE TakeWhole
  <2>1. BestLevel \in Levels /\ 1 \in DOMAIN queue[BestLevel] /\ TakeOut(BestLevel, 1)
    BY <1>2, MatchableFacts DEF TakeWhole
  <2> QED
    BY <2>1, TakeOutFrees DEF IInv, BookInv, BlockIsSaved
<1>3. CASE TakePart \/ FinishFilled \/ FinishResting \/ FinishCanceled
  BY <1>3 DEF TakePart, FinishFilled, FinishResting, FinishCanceled, BlockIsSaved
<1>4. CASE EnterLevel \/ KeepOrder \/ PruneOrder \/ LeaveLevel
  BY <1>4 DEF EnterLevel, KeepOrder, PruneOrder, LeaveLevel, AtOrder, AtLevel, BlockIsSaved
<1>5. CASE FinishLadder
  BY <1>5 DEF FinishLadder, BlockIsSaved
<1>6. CASE Return
  BY <1>6 DEF Return, BlockIsSaved
<1>7. CASE AllocateThrows \/ RecordThrows
  BY <1>7 DEF AllocateThrows, RecordThrows, Thrown, BlockIsSaved
<1> QED
  BY <1>1, <1>2, <1>3, <1>4, <1>5, <1>6, <1>7 DEF FaultRunning, Running

LEMMA FaultNextKeepsFInv ==
    ASSUME FInv, [FaultNext]_vars
    PROVE  FInv'
<1>1. IInv'
  BY FaultNextKeepsIInv DEF FInv
<1>2. CASE Calling
  BY <1>1, <1>2, CallingSavesBlock DEF FInv
<1>3. CASE FaultRunning
  BY <1>1, <1>3, RunningSavesBlock DEF FInv
<1>4. CASE UNCHANGED vars
  BY <1>1, <1>4 DEF FInv, BlockIsSaved, Free, vars
<1> QED
  BY <1>2, <1>3, <1>4 DEF FaultNext

LEMMA InitFInv == Init => FInv
BY InitIInv DEF Init, FInv, BlockIsSaved

LEMMA FInvHolds == FaultSpec => []FInv
<1>1. FInv /\ [FaultNext]_vars => FInv'
  BY FaultNextKeepsFInv
<1> QED
  BY InitFInv, <1>1, PTL DEF FaultSpec

\* A call that leaves the match loop without a trade and without a result was
\* thrown out by the pool.
LEMMA LeavesWithoutResult ==
    ASSUME FInv, [FaultNext]_vars, pc = "matching", ~Matchable, pc' = "idle"
    PROVE  AllocateThrows
<1>1. ~Calling
  BY DEF Calling, SubmitOrder, CancelNotFound, CancelOrder, ModifyRefused, ModifyOrder, SessionEnd
<1>2. ~(Resubmit \/ TakePart \/ TakeWhole \/ RecordThrows)
  BY DEF Resubmit, TakePart, TakeWhole, RecordThrows
<1>3. ~(FinishFilled \/ FinishResting \/ FinishCanceled)
  BY DEF FinishFilled, FinishResting, FinishCanceled
<1>4. ~(EnterLevel \/ KeepOrder \/ PruneOrder \/ LeaveLevel \/ FinishLadder \/ Return)
  BY DEF EnterLevel, KeepOrder, PruneOrder, LeaveLevel, FinishLadder, Return, AtOrder, AtLevel
<1> QED
  BY <1>1, <1>2, <1>3, <1>4 DEF FaultNext, FaultRunning, Running, vars

-----------------------------------------------------------------------------
(* The theorems *)

\* An exception anywhere in the match loop or where the taker is to rest leaves
\* a book that the next call can use: the map, the pool, the queues and the best
\* prices still agree and nothing is crossed.
THEOREM ExceptionsKeepBookSound ==
    FaultSpec => [](TypeOK /\ Coherent /\ BestPriceIsBest /\ NotCrossed)
<1>1. FInv => TypeOK /\ Coherent /\ BestPriceIsBest /\ NotCrossed
  BY TypeOKParts DEF FInv, IInv, BookInv
<1> QED
  BY FInvHolds, <1>1, PTL

\* For every number of blocks: the pool throws only under a submission that has
\* not traded, never under a modification whose order is already cancelled.
THEOREM PoolThrowsBeforeAnyLoss == FaultSpec => OutOfBlocksLosesNothing
<1>1. ASSUME FInv, [FaultNext]_vars, pc = "matching", ~Matchable, pc' = "idle"
      PROVE  call.op = "submit" /\ submission.executions = <<>>
  <2>1. Free = {}
    BY <1>1, LeavesWithoutResult DEF AllocateThrows
  <2> QED
    BY <1>1, <2>1 DEF FInv, BlockIsSaved
<1>2. FInv /\ [FaultNext]_vars =>
         [pc = "matching" /\ ~Matchable /\ pc' = "idle" =>
             call.op = "submit" /\ submission.executions = <<>>]_vars
  BY <1>1
<1> QED
  BY FInvHolds, <1>2, PTL DEF FaultSpec, OutOfBlocksLosesNothing

-----------------------------------------------------------------------------
(* The invariants of the shares and of the session end, with exceptions *)

SharesInv == VolumesAreHeld /\ ResultInv /\ WalkInv

\* An exception leaves the book alone and no result behind.
LEMMA ThrownKeepsSharesInv ==
    ASSUME IInv, SharesInv, pc = "matching", Thrown
    PROVE  SharesInv'
<1>1. UNCHANGED <<idToOrder, heap, volume>> /\ Live' = Live
  BY DEF Thrown, bookVars, Live
<1>2. VolumesAreHeld'
  BY <1>1 DEF SharesInv, VolumesAreHeld, HeldOn, OnLevel, Held
<1>3. pc' = "idle" /\ call' = NoCall
  BY DEF Thrown
<1>4. ResultInv'
  BY <1>3, NoneIsNoValue DEF ResultInv, Balanced, ResultTellsWhatHappened, FillOrKillFillsAll
<1>5. WalkInv'
  BY <1>3 DEF WalkInv
<1> QED
  BY <1>2, <1>4, <1>5 DEF SharesInv

LEMMA FaultNextKeepsSharesInv ==
    ASSUME IInv, SharesInv, [FaultNext]_vars
    PROVE  SharesInv'
<1>1. CASE AllocateThrows \/ RecordThrows
  BY <1>1, ThrownKeepsSharesInv DEF AllocateThrows, RecordThrows
<1>2. CASE [Next]_vars
  BY <1>2, NextKeepsVolumes, NextKeepsResultInv, NextKeepsWalkInv DEF SharesInv
<1> QED
  BY <1>1, <1>2 DEF FaultNext, FaultRunning, Next

LEMMA SharesInvHolds == FaultSpec => []SharesInv
<1>1. Init => SharesInv
  <2>1. Init => VolumesAreHeld /\ ResultInv /\ WalkInv
    BY InitVolumes, InitResultInv, InitWalkInv
  <2> QED
    BY <2>1 DEF SharesInv
<1>2. FInv /\ SharesInv /\ [FaultNext]_vars => SharesInv'
  BY FaultNextKeepsSharesInv DEF FInv
<1> QED
  BY <1>1, <1>2, FInvHolds, PTL DEF FaultSpec

\* The cached volumes and the results are as true of a book that may run out of
\* memory: an exception between two trades, or where the taker would rest, leaves
\* every volume the sum of its orders, and a call that does return has not lied.
THEOREM ExceptionsKeepSharesSound ==
    FaultSpec => [](VolumeIsSum /\ FillOrKillFillsAll /\ ResultTellsWhatHappened)
<1>1. FInv /\ SharesInv => VolumeIsSum /\ FillOrKillFillsAll /\ ResultTellsWhatHappened
  BY QueueHolds DEF FInv, IInv, BookInv, SharesInv, VolumesAreHeld, VolumeIsSum, ResultInv
<1> QED
  BY FInvHolds, SharesInvHolds, <1>1, PTL

\* The count of a session end has room in a book that may run out of memory too.
LEMMA CountFitsUnderFaults == FaultSpec /\ []LevelsFit => []CountFits
<1>1. ASSUME IInv, SharesInv, LevelsFit, CountFits, [FaultNext]_vars
      PROVE  CountFits'
  <2>1. CASE AllocateThrows \/ RecordThrows
    BY <2>1 DEF AllocateThrows, RecordThrows, Thrown, CountFits, WalkingLevel
  <2>2. CASE [Next]_vars
    BY <1>1, <2>2, NextKeepsCountFits DEF SharesInv
  <2> QED
    BY <1>1, <2>1, <2>2 DEF FaultNext, FaultRunning, Next
<1>2. FInv /\ SharesInv /\ LevelsFit /\ CountFits /\ [FaultNext]_vars => CountFits'
  BY <1>1 DEF FInv
<1> QED
  BY <1>2, InitCountFits, FInvHolds, SharesInvHolds, PTL DEF FaultSpec

-----------------------------------------------------------------------------
(* The book as LimitOrderBook sees it *)

\* The two specifications speak of the same values.
LEMMA SameWords ==
    /\ Promise!Sides = Sides /\ Promise!Prices = Prices /\ Promise!Levels = Levels
    /\ Promise!RequestPrices = RequestPrices /\ Promise!Lifetimes = Lifetimes
    /\ Promise!LimitRequests = LimitRequests /\ Promise!MarketRequests = MarketRequests
    /\ Promise!NoCall = NoCall /\ Promise!NoSubmission = NoSubmission
    /\ Promise!NoOutcome = NoOutcome /\ Promise!NothingPruned = NothingPruned
    /\ \A op : Promise!Plain(op) = Plain(op)
    /\ \A s : Promise!Opposite(s) = Opposite(s)
    /\ \A s, p, q : Promise!Ahead(s, p, q) = Ahead(s, p, q)
    /\ \A s, p, q : Promise!Crosses(s, p, q) = Crosses(s, p, q)
    /\ \A s, i : Promise!RemoveAt(s, i) = RemoveAt(s, i)
BY DEF Promise!Sides, Promise!Prices, Promise!Levels, Promise!RequestPrices, Promise!Lifetimes,
       Promise!LimitRequests, Promise!MarketRequests, Promise!NoCall, Promise!NoSubmission,
       Promise!NoOutcome, Promise!NothingPruned, Promise!Plain, Promise!Opposite,
       Promise!Ahead, Promise!Crosses, Promise!RemoveAt, Promise!TimesInForce,
       Sides, Prices, Levels, RequestPrices, Lifetimes, LimitRequests, MarketRequests,
       NoCall, NoSubmission, NoOutcome, NothingPruned, Plain, Opposite, Ahead, Crosses,
       RemoveAt, TimesInForce

LEMMA SameSums == ASSUME NEW f PROVE Promise!SumFunction(f) = SumFunctionOnSet(f, DOMAIN f)
BY DEF Promise!SumFunction, Promise!SumFunctionOnSet, Promise!FoldFunctionOnSet,
       Promise!MapThenFoldSet, SumFunctionOnSet, FoldFunctionOnSet, MapThenFoldSet

VisibleOrders == [id : OrderIds, quantity : Nat, lifetime : Lifetimes]

LEMMA VisibleOrderType ==
    ASSUME BookType, NEW b \in Live
    PROVE  /\ VisibleOrder(b) \in VisibleOrders
           /\ VisibleOrder(b).id = heap[b].id /\ VisibleOrder(b).quantity = heap[b].quantity
           /\ VisibleOrder(b).lifetime = heap[b].lifetime
BY DEF VisibleOrder, VisibleOrders, BookType, Live, RestingOrders

\* A level shows as many orders as are linked into it, in the same order.
LEMMA VisibleLevel ==
    ASSUME BookType, Coherent, NEW l \in Levels
    PROVE  /\ VisibleBook[l] \in Seq(VisibleOrders)
           /\ Len(VisibleBook[l]) = Len(queue[l])
           /\ DOMAIN VisibleBook[l] = DOMAIN queue[l]
           /\ \A i \in DOMAIN queue[l] : VisibleBook[l][i] = VisibleOrder(queue[l][i])
           /\ VisibleBook[l] = <<>> <=> queue[l] = <<>>
<1>1. VisibleBook[l] = [i \in DOMAIN queue[l] |-> VisibleOrder(queue[l][i])]
  BY DEF VisibleBook
<1>2. DOMAIN queue[l] = 1 .. Len(queue[l]) /\ Len(queue[l]) \in Nat
  BY DEF BookType
<1>3. \A i \in DOMAIN queue[l] : VisibleOrder(queue[l][i]) \in VisibleOrders
  BY VisibleOrderType DEF Coherent, QueuesMatchPool
<1>4. VisibleBook[l] \in [1 .. Len(queue[l]) -> VisibleOrders]
  BY <1>1, <1>2, <1>3
<1>5. VisibleBook[l] \in Seq(VisibleOrders) /\ Len(VisibleBook[l]) = Len(queue[l])
  BY <1>2, <1>4
<1> QED
  BY <1>1, <1>2, <1>5 DEF BookType

LEMMA OrderAtPlace ==
    ASSUME BookType, Coherent, NEW l \in Levels, NEW i \in DOMAIN queue[l]
    PROVE  Promise!OrderAt(<<l, i>>) = VisibleOrder(queue[l][i])
BY VisibleLevel DEF Promise!OrderAt

\* The places are the positions of the queues.
LEMMA PlaceFacts ==
    ASSUME BookType, Coherent
    PROVE  /\ \A place \in Promise!Places :
                 \E l \in Levels : \E i \in DOMAIN queue[l] : place = <<l, i>>
           /\ \A l \in Levels : \A i \in DOMAIN queue[l] :
                 /\ <<l, i>> \in Promise!Places
                 /\ Promise!OrderAt(<<l, i>>) = VisibleOrder(queue[l][i])
                 /\ queue[l][i] \in Live
                 /\ Promise!Without(<<l, i>>) = [VisibleBook EXCEPT ![l] = RemoveAt(@, i)]
<1>1. \A l \in Levels : DOMAIN VisibleBook[l] = DOMAIN queue[l]
  BY VisibleLevel
<1>2. \A place \in Promise!Places :
         \E l \in Levels : \E i \in DOMAIN queue[l] : place = <<l, i>>
  BY <1>1, SameWords DEF Promise!Places
<1>3. ASSUME NEW l \in Levels, NEW i \in DOMAIN queue[l]
      PROVE  /\ <<l, i>> \in Promise!Places
             /\ Promise!OrderAt(<<l, i>>) = VisibleOrder(queue[l][i])
             /\ queue[l][i] \in Live
             /\ Promise!Without(<<l, i>>) = [VisibleBook EXCEPT ![l] = RemoveAt(@, i)]
  <2>1. <<l, i>> \in Promise!Places
    BY <1>1, SameWords DEF Promise!Places
  <2>2. Promise!OrderAt(<<l, i>>) = VisibleOrder(queue[l][i])
    BY OrderAtPlace
  <2>3. queue[l][i] \in Live
    BY DEF Coherent, QueuesMatchPool
  <2>4. Promise!Without(<<l, i>>) = [VisibleBook EXCEPT ![l] = RemoveAt(@, i)]
    BY SameWords DEF Promise!Without
  <2> QED
    BY <2>1, <2>2, <2>3, <2>4
<1> QED
  BY <1>2, <1>3

\* An order rests under an id exactly if the map has it.
LEMMA RestingIsMapped ==
    ASSUME BookType, Coherent, NEW id \in OrderIds
    PROVE  /\ Promise!Resting(id) <=> idToOrder[id] # None
           /\ \A l \in Levels : \A i \in DOMAIN queue[l] :
                 queue[l][i] = idToOrder[id] => <<l, i>> \in Promise!PlacesOf(id)
<1>1. ASSUME NEW l \in Levels, NEW i \in DOMAIN queue[l], queue[l][i] = idToOrder[id]
      PROVE  <<l, i>> \in Promise!PlacesOf(id)
  <2>1. /\ <<l, i>> \in Promise!Places
        /\ Promise!OrderAt(<<l, i>>) = VisibleOrder(queue[l][i])
        /\ queue[l][i] \in Live
    BY PlaceFacts
  <2>2. heap[queue[l][i]].id = id
    BY <1>1, <2>1, NoneIsNoBlock DEF Coherent, MapMatchesPool, Live
  <2> QED
    BY <2>1, <2>2, VisibleOrderType DEF Promise!PlacesOf
<1>2. ASSUME NEW place \in Promise!PlacesOf(id)
      PROVE  idToOrder[id] # None
  <2>1. place \in Promise!Places /\ Promise!OrderAt(place).id = id
    BY DEF Promise!PlacesOf
  <2>2. PICK l \in Levels : \E i \in DOMAIN queue[l] : place = <<l, i>>
    BY <2>1, PlaceFacts
  <2>3. PICK i \in DOMAIN queue[l] : place = <<l, i>>
    BY <2>2
  <2>4. queue[l][i] \in Live /\ heap[queue[l][i]].id = id
    BY <2>1, <2>3, PlaceFacts, VisibleOrderType
  <2> QED
    BY <2>4, NoneIsNoBlock DEF Coherent, MapMatchesPool, Live
<1>3. ASSUME idToOrder[id] # None
      PROVE  Promise!Resting(id)
  <2>1. idToOrder[id] \in Live
    BY <1>3 DEF Coherent, MapMatchesPool
  <2>2. PICK i \in DOMAIN queue[heap[idToOrder[id]].level] :
           queue[heap[idToOrder[id]].level][i] = idToOrder[id]
    BY <2>1, LiveFacts
  <2> QED
    BY <1>1, <2>1, <2>2, LiveFacts DEF Promise!Resting
<1> QED
  BY <1>1, <1>2, <1>3 DEF Promise!Resting

-----------------------------------------------------------------------------
(* What a taker finds *)

LEMMA MarketableAre ==
    ASSUME BookType, Coherent, NEW req
    PROVE  Promise!MarketableLevels(req) =
              {l \in Levels : /\ l[1] = Opposite(req.side)
                              /\ queue[l] # <<>>
                              /\ Crosses(req.side, req.limit, l[2])}
BY SameWords, VisibleLevel DEF Promise!MarketableLevels

\* The cached best price says whether the loop goes on and where it trades.
LEMMA MatchableIsWanted ==
    ASSUME IInv, pc = "matching"
    PROVE  /\ Matchable <=> Promise!Wants
           /\ Matchable => Promise!BestLevel(call) = BestLevel
<1> USE DEF IInv
<1> DEFINE M == Promise!MarketableLevels(call)
           s == MatchingSide
<1>1. /\ call.side \in Sides /\ s \in Sides /\ s = Opposite(call.side)
      /\ call.limit # None => call.limit \in Prices
  BY RequestFields DEF CallInv, MatchingSide
<1>2. \A l \in M : /\ l \in Levels /\ l = <<s, l[2]>> /\ l[2] \in Prices /\ queue[l] # <<>>
                   /\ Crosses(call.side, call.limit, l[2])
  BY <1>1, MarketableAre DEF BookInv, Levels
<1>3. \A l \in M : best[s] \in Prices /\ best[s] # None /\ ~Ahead(s, l[2], best[s])
  <2> TAKE l \in M
  <2>1. s \in Sides /\ l[2] \in Prices /\ queue[<<s, l[2]>>] # <<>>
    BY <1>1, <1>2, Zenon
  <2>2. best[s] # None /\ ~Ahead(s, l[2], best[s])
    <3>1. BestPriceIsBest
      BY DEF BookInv
    <3> HIDE DEF s, IInv
    <3> QED
      BY <2>1, <3>1, Zenon DEF BestPriceIsBest
  <2> QED
    BY <1>1, <2>2 DEF BookInv, BestType
<1>4. ASSUME remaining > 0, NEW l \in M
      PROVE  Matchable
  <2>1. best[s] \in Prices /\ best[s] # None /\ ~Ahead(s, l[2], best[s]) /\ l[2] \in Prices
        /\ Crosses(call.side, call.limit, l[2])
    BY <1>2, <1>3
  <2>2. Crosses(call.side, call.limit, best[s])
    BY <1>1, <2>1, PriceRange DEF Crosses, Ahead, Opposite, Sides, Prices
  <2> QED
    BY <1>4, <2>1, <2>2 DEF Matchable
<1>5. ASSUME Matchable
      PROVE  BestLevel \in M
  BY <1>5, MatchableFacts, MarketableAre DEF BookInv, BestLevel, Matchable, MatchingSide
<1>6. ASSUME Matchable
      PROVE  Promise!BestLevel(call) = BestLevel
  <2>1. BestLevel \in M /\ BestLevel[1] = s /\ BestLevel[2] = best[s]
    BY <1>5, <1>6 DEF BestLevel
  <2>2. \A l \in M : ~Ahead(s, l[2], best[s])
    BY <1>3
  <2>3. \A l \in M : ~Ahead(l[1], best[s], l[2]) => l = BestLevel
    <3> TAKE l \in M
    <3>1. l = <<s, l[2]>> /\ l[2] \in Prices /\ best[s] \in Prices /\ ~Ahead(s, l[2], best[s])
      BY <1>2, <1>3
    <3>2. ~Ahead(s, best[s], l[2]) => l[2] = best[s]
      BY <3>1, PriceRange DEF Ahead, Prices
    <3> QED
      BY <3>1, <3>2 DEF BestLevel
  <2>4. Promise!BestLevel(call) =
           CHOOSE l \in M : \A other \in M : ~Ahead(l[1], other[2], l[2])
    BY SameWords DEF Promise!BestLevel
  <2> HIDE DEF M
  <2> QED
    BY <2>1, <2>2, <2>3, <2>4
<1> QED
  BY <1>4, <1>5, <1>6 DEF Promise!Wants, Matchable

\* The place of an order that rests.
PlaceOf(b) == <<heap[b].level, CHOOSE i \in DOMAIN queue[heap[b].level] :
                                  queue[heap[b].level][i] = b>>

LEMMA PlaceOfFacts ==
    ASSUME BookType, Coherent
    PROVE  /\ \A b \in Live : /\ PlaceOf(b)[1] \in Levels
                              /\ PlaceOf(b)[2] \in DOMAIN queue[PlaceOf(b)[1]]
                              /\ PlaceOf(b) = <<PlaceOf(b)[1], PlaceOf(b)[2]>>
                              /\ queue[PlaceOf(b)[1]][PlaceOf(b)[2]] = b
                              /\ PlaceOf(b)[1] = heap[b].level
           /\ \A l \in Levels : \A i \in DOMAIN queue[l] : PlaceOf(queue[l][i]) = <<l, i>>
<1>1. \A b \in Live : heap[b].level \in Levels /\
         \E i \in DOMAIN queue[heap[b].level] : queue[heap[b].level][i] = b
  BY LiveFacts
<1>2. ASSUME NEW l \in Levels, NEW i \in DOMAIN queue[l]
      PROVE  PlaceOf(queue[l][i]) = <<l, i>>
  <2>1. /\ queue[l][i] \in Live /\ heap[queue[l][i]].level = l
        /\ \A j \in DOMAIN queue[l] : queue[l][j] = queue[l][i] => j = i
    BY DEF Coherent, QueuesMatchPool
  <2> DEFINE j == CHOOSE n \in DOMAIN queue[l] : queue[l][n] = queue[l][i]
  <2>2. j \in DOMAIN queue[l] /\ queue[l][j] = queue[l][i]
    OBVIOUS
  <2>3. j = i
    BY <2>1, <2>2
  <2>4. PlaceOf(queue[l][i]) = <<l, j>>
    BY <2>1 DEF PlaceOf
  <2> QED
    BY <2>3, <2>4
<1>3. ASSUME NEW b \in Live
      PROVE  /\ PlaceOf(b)[1] \in Levels
             /\ PlaceOf(b)[2] \in DOMAIN queue[PlaceOf(b)[1]]
             /\ PlaceOf(b) = <<PlaceOf(b)[1], PlaceOf(b)[2]>>
             /\ queue[PlaceOf(b)[1]][PlaceOf(b)[2]] = b
             /\ PlaceOf(b)[1] = heap[b].level
  <2>1. PICK i \in DOMAIN queue[heap[b].level] : queue[heap[b].level][i] = b
    BY <1>1
  <2>2. PlaceOf(b) = <<heap[b].level, i>> /\ heap[b].level \in Levels
    BY <1>1, <1>2, <2>1
  <2> QED
    BY <2>1, <2>2
<1> QED
  BY <1>2, <1>3

\* The liquidity counted from the cached volumes is what the orders themselves
\* offer within the limit.
LEMMA LiquidityIsOffered ==
    ASSUME BookInv, VolumesAreHeld, pc # "pruning",
           NEW req \in Accepted, req.limit \in Prices
    PROVE  /\ Liquid(req) <=> /\ Promise!MarketableLevels(req) # {}
                              /\ Promise!Liquidity(req) >= req.quantity
           /\ Promise!Liquidity(req) \in Nat
<1> USE DEF BookInv
<1> DEFINE side == Opposite(req.side)
           near == Within(side, req.limit)
           M == Promise!MarketableLevels(req)
           places == {place \in Promise!Places : place[1] \in M}
           g == [place \in places |-> Promise!OrderAt(place).quantity]
           p == [b \in near |-> PlaceOf(b)]
<1>1. /\ req.side \in Sides /\ side \in Sides /\ req.quantity \in Nat
      /\ \A q \in Prices : Crosses(req.side, req.limit, q) <=> ~Ahead(side, req.limit, q)
  BY RequestFields, NoneIsNoPrice, PriceRange DEF Crosses, Ahead, Opposite, Sides, Prices
<1>2. \A l \in Levels : l \in M <=> /\ l[1] = side /\ queue[l] # <<>>
                                    /\ ~Ahead(side, req.limit, l[2])
  <2> TAKE l \in Levels
  <2>1. l[2] \in Prices
    BY DEF Levels
  <2> QED
    BY <1>1, <2>1, MarketableAre
<1>3. \A b \in near : b \in Live /\ heap[b].level \in M /\ heap[b].level \in Levels
  <2> TAKE b \in near
  <2>1. b \in Live /\ heap[b].side = side /\ ~Ahead(side, req.limit, heap[b].level[2])
    BY DEF Within
  <2>2. /\ heap[b].level \in Levels /\ heap[b].level[1] = side /\ queue[heap[b].level] # <<>>
    BY <2>1, LiveFacts
  <2> QED
    BY <1>2, <2>1, <2>2
<1>4. \A l \in M : \A i \in DOMAIN queue[l] : l \in Levels /\ queue[l][i] \in near
  <2> SUFFICES ASSUME NEW l \in M, NEW i \in DOMAIN queue[l]
               PROVE  l \in Levels /\ queue[l][i] \in near
    OBVIOUS
  <2>1. l \in Levels
    BY MarketableAre
  <2>2. l[1] = side /\ ~Ahead(side, req.limit, l[2])
    BY <1>2, <2>1
  <2>3. queue[l][i] \in Live /\ heap[queue[l][i]].level = l /\ heap[queue[l][i]].side = l[1]
    BY <2>1 DEF Coherent, QueuesMatchPool
  <2> QED
    BY <2>1, <2>2, <2>3 DEF Within
<1>5. near # {} <=> M # {}
  <2>1. \A l \in M : l \in Levels /\ queue[l] # <<>>
    BY MarketableAre
  <2>2. \A l \in M : 1 \in DOMAIN queue[l]
    BY <2>1 DEF BookType
  <2> QED
    BY <1>3, <1>4, <2>2
<1>6. IsFiniteSet(near) /\ SumFunctionOnSet(Held, near) \in Nat
  BY SumIsNat DEF Within
<1>7. Promise!Liquidity(req) = SumFunctionOnSet(Held, near)
  <2>1. Promise!Liquidity(req) = SumFunctionOnSet(g, places)
    BY SameSums DEF Promise!Liquidity
  <2>2. \A b \in near : p[b] = PlaceOf(b) /\ p[b] \in places /\ g[p[b]] = Held[b] /\ Held[b] \in Int
    <3> TAKE b \in near
    <3> DEFINE l == PlaceOf(b)[1]
               i == PlaceOf(b)[2]
    <3>1. /\ b \in Live /\ l \in M /\ l \in Levels /\ i \in DOMAIN queue[l]
          /\ PlaceOf(b) = <<l, i>> /\ queue[l][i] = b
      BY <1>3, PlaceOfFacts
    <3>2. PlaceOf(b) \in places
      <4>1. \A k \in Levels : \A j \in DOMAIN queue[k] : k \in M => <<k, j>> \in places
        BY PlaceFacts
      <4> HIDE DEF places, l, i, M
      <4> QED
        BY <3>1, <4>1, Zenon
    <3>3. Promise!OrderAt(PlaceOf(b)).quantity = heap[b].quantity
      <4>1. \A k \in Levels : \A j \in DOMAIN queue[k] :
               Promise!OrderAt(<<k, j>>) = VisibleOrder(queue[k][j])
        <5> TAKE k \in Levels
        <5> TAKE j \in DOMAIN queue[k]
        <5> QED
          BY OrderAtPlace
      <4>2. VisibleOrder(b).quantity = heap[b].quantity
        BY <3>1, VisibleOrderType
      <4> HIDE DEF places, l, i, M
      <4> QED
        BY <3>1, <4>1, <4>2, Zenon
    <3>4. Held[b] = heap[b].quantity /\ Held[b] \in Nat
      BY <3>1, HeldType DEF Live
    <3> HIDE DEF places, l, i
    <3> QED
      BY <3>2, <3>3, <3>4
  <2>3. \A b, c \in near : p[b] = p[c] => b = c
    BY <1>3, <2>2, PlaceOfFacts
  <2>4. \A place \in places : \E b \in near : p[b] = place
    <3> TAKE place \in places
    <3>1. PICK l \in Levels : \E i \in DOMAIN queue[l] : place = <<l, i>>
      BY PlaceFacts
    <3>2. PICK i \in DOMAIN queue[l] : place = <<l, i>>
      BY <3>1
    <3>3. l \in M
      BY <3>2
    <3>4. queue[l][i] \in near /\ PlaceOf(queue[l][i]) = place
      BY <1>4, <3>2, <3>3, PlaceOfFacts
    <3> HIDE DEF places, near, M
    <3> QED
      BY <3>4
  <2>5. p \in [near -> places]
    BY <2>2
  <2> HIDE DEF p, g, places, near
  <2>6. SumFunctionOnSet(Held, near) = SumFunctionOnSet(g, places)
    BY ONLY <1>6, <2>2, <2>3, <2>4, <2>5, SumBijection
  <2> QED
    BY <2>1, <2>6
<1>8. Liquid(req) <=> /\ best[side] # None /\ ~Ahead(side, req.limit, best[side])
                      /\ SumFunctionOnSet(volume, MarketableLevels(side, req.limit)) >= req.quantity
  BY DEF Liquid, HasSufficientMarketableLiquidity
<1>9. /\ best[side] # None /\ ~Ahead(side, req.limit, best[side]) <=> near # {}
      /\ best[side] # None =>
            SumFunctionOnSet(volume, MarketableLevels(side, req.limit)) =
                SumFunctionOnSet(Held, near)
  BY <1>1, CountedIsHeld
<1> HIDE DEF near, M, side
<1> QED
  BY <1>5, <1>6, <1>7, <1>8, <1>9 DEF M

-----------------------------------------------------------------------------
(* What a step does to the visible book *)

Shown(h, b) == [id |-> h[b].id, quantity |-> h[b].quantity, lifetime |-> h[b].lifetime]

LEMMA VisibleLevels ==
    BookType /\ Coherent => \A m \in Levels :
        /\ VisibleBook[m] \in Seq(VisibleOrders)
        /\ Len(VisibleBook[m]) = Len(queue[m])
        /\ \A i \in DOMAIN queue[m] : VisibleBook[m][i] = Shown(heap, queue[m][i])
BY VisibleLevel DEF VisibleOrder, Shown

LEMMA VisibleLevelNext ==
    ASSUME BookType', Coherent', NEW l \in Levels
    PROVE  /\ VisibleBook'[l] \in Seq(VisibleOrders)
           /\ Len(VisibleBook'[l]) = Len(queue'[l])
           /\ \A i \in DOMAIN queue'[l] : VisibleBook'[l][i] = Shown(heap', queue'[l][i])
<1>1. (BookType /\ Coherent => \A m \in Levels :
          /\ VisibleBook[m] \in Seq(VisibleOrders)
          /\ Len(VisibleBook[m]) = Len(queue[m])
          /\ \A i \in DOMAIN queue[m] : VisibleBook[m][i] = Shown(heap, queue[m][i]))'
  BY VisibleLevels, PTL
<1> QED
  BY <1>1

LEMMA SameSequence ==
    ASSUME NEW S, NEW s \in Seq(S), NEW t \in Seq(S), Len(s) = Len(t),
           \A i \in 1 .. Len(s) : s[i] = t[i]
    PROVE  s = t
OBVIOUS

LEMMA EmptyIsShort == ASSUME NEW S, NEW s \in Seq(S) PROVE s = <<>> <=> Len(s) = 0
OBVIOUS

\* A level whose queue and whose orders stay as they are shows the same.
LEMMA LevelUntouched ==
    ASSUME BookType, Coherent, BookType', Coherent', NEW l \in Levels, queue'[l] = queue[l],
           \A i \in DOMAIN queue[l] : heap'[queue[l][i]] = heap[queue[l][i]]
    PROVE  VisibleBook'[l] = VisibleBook[l]
<1>1. \A i \in DOMAIN queue[l] : Shown(heap', queue'[l][i]) = Shown(heap, queue[l][i])
  BY DEF Shown
<1>2. /\ VisibleBook[l] \in Seq(VisibleOrders) /\ Len(VisibleBook[l]) = Len(queue[l])
      /\ DOMAIN queue[l] = 1 .. Len(queue[l])
      /\ \A i \in DOMAIN queue[l] : VisibleBook[l][i] = Shown(heap, queue[l][i])
  BY VisibleLevels DEF BookType
<1>3. /\ VisibleBook'[l] \in Seq(VisibleOrders) /\ Len(VisibleBook'[l]) = Len(queue[l])
      /\ \A i \in DOMAIN queue[l] : VisibleBook'[l][i] = Shown(heap', queue'[l][i])
  BY VisibleLevelNext
<1>4. \A i \in 1 .. Len(VisibleBook'[l]) : VisibleBook'[l][i] = VisibleBook[l][i]
  BY <1>1, <1>2, <1>3
<1>5. Len(VisibleBook'[l]) = Len(VisibleBook[l])
  BY <1>2, <1>3
<1> QED
  BY ONLY <1>2, <1>3, <1>4, <1>5, SameSequence

LEMMA BookUntouched ==
    ASSUME BookType, Coherent, BookType', Coherent', UNCHANGED <<heap, queue>>
    PROVE  VisibleBook' = VisibleBook
<1>1. \A l \in Levels : VisibleBook'[l] = VisibleBook[l]
  BY LevelUntouched
<1> QED
  BY <1>1 DEF VisibleBook

\* Taking an order out of the three structures takes it off its place.
LEMMA TakeOutShows ==
    ASSUME BookType, Coherent, NEW l \in Levels, NEW i \in DOMAIN queue[l], TakeOut(l, i)
    PROVE  VisibleBook' = Promise!Without(<<l, i>>)
<1> DEFINE n == Len(queue[l])
<1>1. BookType' /\ Coherent' /\ \A m \in Levels \ {l} : queue'[m] = queue[m]
  BY TakeOutKeepsCoherence
<1>2. Removes(queue[l][i])
  BY TakeOutRemoves
<1>3. /\ queue[l] \in Seq(Blocks) /\ i \in 1 .. n /\ n \in Nat
      /\ queue'[l] = RemoveAt(queue[l], i)
  BY DEF BookType, TakeOut
<1>4. /\ RemoveAt(queue[l], i) \in Seq(Blocks) /\ Len(RemoveAt(queue[l], i)) = n - 1
      /\ \A j \in 1 .. n - 1 :
            RemoveAt(queue[l], i)[j] = IF j < i THEN queue[l][j] ELSE queue[l][j + 1]
  BY <1>3, RemoveAtProperties
<1>5. ASSUME NEW m \in Levels, NEW j \in DOMAIN queue[m], ~(m = l /\ j = i)
      PROVE  heap'[queue[m][j]] = heap[queue[m][j]] /\ queue[m][j] \in Blocks
  <2>1. queue[m][j] # queue[l][i]
    BY <1>5 DEF Coherent, QueuesMatchPool
  <2> QED
    BY <1>2, <2>1 DEF Removes, BookType
<1>6. \A m \in Levels \ {l} : VisibleBook'[m] = VisibleBook[m]
  BY <1>1, <1>5, LevelUntouched
<1>7. /\ VisibleBook[l] \in Seq(VisibleOrders) /\ Len(VisibleBook[l]) = n
      /\ DOMAIN queue[l] = 1 .. n
      /\ \A j \in 1 .. n : VisibleBook[l][j] = Shown(heap, queue[l][j])
  BY VisibleLevels DEF BookType
<1>8. /\ VisibleBook'[l] \in Seq(VisibleOrders) /\ Len(VisibleBook'[l]) = n - 1
      /\ \A j \in 1 .. n - 1 : VisibleBook'[l][j] = Shown(heap', queue'[l][j])
  BY <1>1, <1>3, <1>4, VisibleLevelNext
<1>9. /\ RemoveAt(VisibleBook[l], i) \in Seq(VisibleOrders)
      /\ Len(RemoveAt(VisibleBook[l], i)) = n - 1
      /\ \A j \in 1 .. n - 1 : RemoveAt(VisibleBook[l], i)[j] =
            IF j < i THEN VisibleBook[l][j] ELSE VisibleBook[l][j + 1]
  <2>1. i \in 1 .. Len(VisibleBook[l])
    BY <1>3, <1>7
  <2>2. VisibleBook[l] \in Seq(VisibleOrders) /\ Len(VisibleBook[l]) = n
    BY <1>7
  <2> HIDE DEF n
  <2> QED
    BY <2>1, <2>2, RemoveAtProperties
<1>10. \A j \in 1 .. n - 1 : VisibleBook'[l][j] = RemoveAt(VisibleBook[l], i)[j]
  <2> TAKE j \in 1 .. n - 1
  <2> DEFINE k == IF j < i THEN j ELSE j + 1
  <2>1. k \in 1 .. n /\ k # i
    BY <1>3
  <2>2. queue'[l][j] = queue[l][k]
    BY <1>3, <1>4
  <2>3. VisibleBook'[l][j] = Shown(heap', queue[l][k])
    BY <1>8, <2>2 DEF Shown
  <2>4. Shown(heap', queue[l][k]) = Shown(heap, queue[l][k])
    <3>1. heap'[queue[l][k]] = heap[queue[l][k]] /\ queue[l][k] = queue'[l][j]
      BY <1>5, <1>7, <2>1, <2>2
    <3> QED
      BY <3>1 DEF Shown
  <2>5. RemoveAt(VisibleBook[l], i)[j] = VisibleBook[l][k]
    BY <1>9
  <2> QED
    BY <1>7, <2>1, <2>3, <2>4, <2>5
<1>11. VisibleBook'[l] = RemoveAt(VisibleBook[l], i)
  BY <1>8, <1>9, <1>10, SameSequence
<1>12. Promise!Without(<<l, i>>) = [VisibleBook EXCEPT ![l] = RemoveAt(@, i)]
  BY PlaceFacts
<1> HIDE DEF n
<1> QED
  BY <1>6, <1>11, <1>12 DEF VisibleBook

\* What is left of a taker joins its level behind all others.
LEMMA RestingShows ==
    ASSUME IInv, IInv', FinishResting
    PROVE  VisibleBook' = [VisibleBook EXCEPT ![<<call.side, call.limit>>] =
              Append(@, [id |-> call.id, quantity |-> remaining, lifetime |-> call.tif])]
<1> USE DEF IInv, BookInv
<1> DEFINE l == <<call.side, call.limit>>
           n == Len(queue[l])
           order == [id |-> call.id, quantity |-> remaining, lifetime |-> call.tif]
<1>1. /\ call.side \in Sides /\ call.limit \in Prices /\ call.id \in OrderIds
      /\ remaining \in Nat /\ call.tif \in Lifetimes
  BY RequestFields DEF FinishResting, CallInv, CallType, Lifetimes, TimesInForce
<1>2. l \in Levels
  BY <1>1 DEF Levels
<1>3. PICK b \in Blocks :
         /\ heap[b] = None
         /\ heap' = [heap EXCEPT ![b] =
               [id |-> call.id, quantity |-> remaining, lifetime |-> call.tif,
                side |-> call.side, level |-> l]]
         /\ queue' = [queue EXCEPT ![l] = Append(@, b)]
  BY DEF FinishResting, PlaceOrder, PushBack
<1> HIDE DEF l
<1>4. /\ queue[l] \in Seq(Blocks) /\ n \in Nat /\ DOMAIN queue[l] = 1 .. n
      /\ queue'[l] = Append(queue[l], b)
      /\ \A m \in Levels \ {l} : queue'[m] = queue[m]
  BY <1>2, <1>3 DEF BookType
<1>5. /\ Len(queue'[l]) = n + 1 /\ queue'[l][n + 1] = b
      /\ \A j \in 1 .. n : queue'[l][j] = queue[l][j]
  BY <1>4
<1>6. \A m \in Levels : \A j \in DOMAIN queue[m] :
         heap'[queue[m][j]] = heap[queue[m][j]]
  <2> SUFFICES ASSUME NEW m \in Levels, NEW j \in DOMAIN queue[m]
               PROVE  heap'[queue[m][j]] = heap[queue[m][j]]
    OBVIOUS
  <2>1. queue[m][j] \in Blocks /\ heap[queue[m][j]] # None
    BY DEF Coherent, QueuesMatchPool, Live
  <2> QED
    BY <1>3, <2>1 DEF BookType
<1>7. \A m \in Levels \ {l} : VisibleBook'[m] = VisibleBook[m]
  BY <1>4, <1>6, LevelUntouched
<1>8. /\ VisibleBook[l] \in Seq(VisibleOrders) /\ Len(VisibleBook[l]) = n
      /\ \A j \in 1 .. n : VisibleBook[l][j] = Shown(heap, queue[l][j])
  BY <1>2, <1>4, VisibleLevels
<1>9. /\ VisibleBook'[l] \in Seq(VisibleOrders) /\ Len(VisibleBook'[l]) = n + 1
      /\ \A j \in 1 .. n + 1 : VisibleBook'[l][j] = Shown(heap', queue'[l][j])
  <2>1. DOMAIN queue'[l] = 1 .. n + 1
    BY <1>2, <1>5 DEF BookType
  <2> QED
    BY <1>2, <1>5, <2>1, VisibleLevelNext
<1>10. Shown(heap', b) = order /\ order \in VisibleOrders
  BY <1>1, <1>3 DEF Shown, VisibleOrders, BookType
<1> HIDE DEF n, order
<1>11. /\ Append(VisibleBook[l], order) \in Seq(VisibleOrders)
       /\ Len(Append(VisibleBook[l], order)) = n + 1
       /\ Append(VisibleBook[l], order)[n + 1] = order
       /\ \A j \in 1 .. n : Append(VisibleBook[l], order)[j] = VisibleBook[l][j]
  BY <1>8, <1>10
<1>12. \A j \in 1 .. n + 1 : VisibleBook'[l][j] = Append(VisibleBook[l], order)[j]
  <2> TAKE j \in 1 .. n + 1
  <2>1. CASE j = n + 1
    BY <1>5, <1>9, <1>10, <1>11, <2>1
  <2>2. CASE j # n + 1
    <3>1. j \in 1 .. n
      BY <1>4, <2>2
    <3>2. Shown(heap', queue'[l][j]) = Shown(heap, queue[l][j])
      BY <1>2, <1>4, <1>5, <1>6, <3>1 DEF Shown
    <3> QED
      BY <1>8, <1>9, <1>11, <3>1, <3>2
  <2> QED
    BY <2>1, <2>2
<1>13. VisibleBook'[l] = Append(VisibleBook[l], order)
  BY <1>9, <1>11, <1>12, SameSequence
<1>14. VisibleBook' = [VisibleBook EXCEPT ![l] = Append(@, order)]
  BY <1>7, <1>13 DEF VisibleBook
<1> QED
  BY <1>14 DEF order, l

\* A taker that is used up leaves the rest of the front order in its place.
LEMMA PartShows ==
    ASSUME IInv, IInv', TakePart
    PROVE  VisibleBook' = [VisibleBook EXCEPT ![BestLevel][1].quantity = @ - remaining]
<1> USE DEF IInv, BookInv
<1> DEFINE l == BestLevel
           b == TakingOrder
           n == Len(queue[l])
           cut == [VisibleBook[l] EXCEPT ![1].quantity = @ - remaining]
<1>1. /\ l \in Levels /\ 1 \in DOMAIN queue[l] /\ b = queue[l][1] /\ b \in Live
      /\ heap' = [heap EXCEPT ![b].quantity = @ - remaining] /\ queue' = queue
  BY MatchableFacts DEF TakePart
<1>2. /\ heap[b] \in RestingOrders /\ heap'[b] = [heap[b] EXCEPT !.quantity = @ - remaining]
      /\ \A c \in Live \ {b} : heap'[c] = heap[c]
  BY <1>1 DEF BookType, Live
<1>3. \A m \in Levels : \A j \in DOMAIN queue[m] :
         ~(m = l /\ j = 1) => heap'[queue[m][j]] = heap[queue[m][j]]
  <2> SUFFICES ASSUME NEW m \in Levels, NEW j \in DOMAIN queue[m], ~(m = l /\ j = 1)
               PROVE  heap'[queue[m][j]] = heap[queue[m][j]]
    OBVIOUS
  <2>1. QueuesMatchPool
    BY DEF Coherent
  <2>2. queue[m][j] \in Live /\ heap[queue[m][j]].level = m
    BY <2>1 DEF QueuesMatchPool
  <2>3. queue[m][j] # b
    BY <1>1, <2>1, <2>2 DEF QueuesMatchPool
  <2> QED
    BY <1>2, <2>2, <2>3
<1> HIDE DEF l, b
<1>4. \A m \in Levels \ {l} : VisibleBook'[m] = VisibleBook[m]
  BY <1>1, <1>3, LevelUntouched
<1>5. /\ VisibleBook[l] \in Seq(VisibleOrders) /\ Len(VisibleBook[l]) = n
      /\ DOMAIN queue[l] = 1 .. n /\ n \in Nat
      /\ \A j \in 1 .. n : VisibleBook[l][j] = Shown(heap, queue[l][j])
  BY <1>1, VisibleLevels DEF BookType
<1>6. /\ VisibleBook'[l] \in Seq(VisibleOrders) /\ Len(VisibleBook'[l]) = n
      /\ \A j \in 1 .. n : VisibleBook'[l][j] = Shown(heap', queue[l][j])
  BY <1>1, <1>5, VisibleLevelNext
<1>7. Shown(heap', b) = [Shown(heap, b) EXCEPT !.quantity = @ - remaining]
  BY <1>2 DEF Shown, RestingOrders
<1>8. VisibleBook'[l] = cut
  <2>1. VisibleBook'[l] \in [1 .. n -> VisibleOrders] /\ VisibleBook[l] \in [1 .. n -> VisibleOrders]
    BY <1>5, <1>6
  <2>2. VisibleBook'[l][1] = [VisibleBook[l][1] EXCEPT !.quantity = @ - remaining]
    <3>1. 1 \in 1 .. n /\ queue[l][1] = b
      BY <1>1, <1>5
    <3>2. VisibleBook[l][1] = Shown(heap, b) /\ VisibleBook'[l][1] = Shown(heap', b)
      BY <1>5, <1>6, <3>1
    <3> QED
      BY ONLY <1>7, <3>2
  <2>3. \A j \in 1 .. n : j # 1 => VisibleBook'[l][j] = VisibleBook[l][j]
    <3> SUFFICES ASSUME NEW j \in 1 .. n, j # 1
                 PROVE  VisibleBook'[l][j] = VisibleBook[l][j]
      OBVIOUS
    <3>1. heap'[queue[l][j]] = heap[queue[l][j]]
      BY <1>1, <1>3, <1>5
    <3>2. Shown(heap', queue[l][j]) = Shown(heap, queue[l][j])
      BY <3>1 DEF Shown
    <3> QED
      BY <1>5, <1>6, <3>2
  <2>4. cut \in [1 .. n -> {VisibleBook'[l][j] : j \in 1 .. n}] /\
        \A j \in 1 .. n : cut[j] = VisibleBook'[l][j]
    BY <2>1, <2>2, <2>3
  <2> QED
    BY <2>1, <2>4
<1>9. VisibleBook' = [VisibleBook EXCEPT ![l] = cut]
  <2> HIDE DEF cut
  <2> QED
    BY <1>4, <1>8 DEF VisibleBook
<1> QED
  BY <1>9 DEF l

-----------------------------------------------------------------------------
(* The totals of the session end *)

\* Off the levels of a walk nothing is waiting to be counted.
LEMMA PrunedShows ==
    ASSUME CallType
    PROVE  pc # "pruning" \/ cursor.index = 0 =>
               VisiblePruned = [ordersPruned |-> pruned.ordersPruned,
                                sharesErased |-> pruned.sharesErased,
                                priceLevelsErased |-> pruned.priceLevelsErased]
<1>1. pruned \in PruneTotals /\ cursor.index \in Nat
  BY DEF CallType, Cursors
<1>2. pc # "pruning" \/ cursor.index = 0 => Emptied = 0 /\ ErasedShares = pruned.sharesErased
  BY <1>1 DEF Emptied, ErasedShares, WalkingLevel, PruneTotals
<1>3. pruned.priceLevelsErased + 0 = pruned.priceLevelsErased
  BY <1>1 DEF PruneTotals
<1> QED
  BY <1>2, <1>3 DEF VisiblePruned

LEMMA PrunedShowsNext ==
    CallType' /\ (pc' # "pruning" \/ cursor'.index = 0) =>
        VisiblePruned' = [ordersPruned |-> pruned'.ordersPruned,
                          sharesErased |-> pruned'.sharesErased,
                          priceLevelsErased |-> pruned'.priceLevelsErased]
<1>1. CallType /\ (pc # "pruning" \/ cursor.index = 0) =>
        VisiblePruned = [ordersPruned |-> pruned.ordersPruned,
                         sharesErased |-> pruned.sharesErased,
                         priceLevelsErased |-> pruned.priceLevelsErased]
  BY PrunedShows
<1>2. (CallType /\ (pc # "pruning" \/ cursor.index = 0) =>
        VisiblePruned = [ordersPruned |-> pruned.ordersPruned,
                         sharesErased |-> pruned.sharesErased,
                         priceLevelsErased |-> pruned.priceLevelsErased])'
  BY <1>1, PTL
<1> QED
  BY <1>2

\* While the walk does not prune, an emptied level is counted or waits to be.
LEMMA WalkShowsNothing ==
    ASSUME IInv, IInv', WalkInv, EnterLevel \/ KeepOrder \/ LeaveLevel \/ FinishLadder
    PROVE  VisiblePruned' = VisiblePruned
<1>1. StepAccounts /\ UNCHANGED <<heap, queue>>
  BY WalkAccounts DEF EnterLevel, KeepOrder, LeaveLevel, FinishLadder, AtOrder, AtLevel, bookVars
<1>2. Live' = Live /\ RestingShares' = RestingShares /\ LevelsInUse' = LevelsInUse
      /\ Cardinality(Live)' = Cardinality(Live)
  BY <1>1 DEF Live, RestingShares, LevelsInUse
<1>3. /\ Cardinality(Live) \in Nat /\ RestingShares \in Nat /\ LevelsInUse \in Nat
      /\ pruned \in PruneTotals /\ pruned' \in PruneTotals
      /\ Emptied \in Nat /\ Emptied' \in Nat
  BY LiveIsFinite, FS_CardinalityType, RestingSharesIsHeld, LevelsInUseType
     DEF IInv, BookInv, CallType, Emptied
<1>4. /\ pruned'.ordersPruned = pruned.ordersPruned
      /\ ErasedShares' = ErasedShares
      /\ pruned'.priceLevelsErased + Emptied' = pruned.priceLevelsErased + Emptied
  <2>1. ErasedShares \in Int /\ ErasedShares' \in Int
    BY <1>3 DEF ErasedShares, PruneTotals
  <2>2. /\ pruned.ordersPruned \in Nat /\ pruned'.ordersPruned \in Nat
        /\ pruned.priceLevelsErased \in Nat /\ pruned'.priceLevelsErased \in Nat
    BY <1>3 DEF PruneTotals
  <2>3. /\ 0 = pruned'.ordersPruned - pruned.ordersPruned
        /\ 0 = ErasedShares' - ErasedShares
        /\ Emptied + pruned.priceLevelsErased = Emptied' + pruned'.priceLevelsErased
    BY <1>1, <1>2, <1>3, <2>2 DEF StepAccounts
  <2>4. pruned'.ordersPruned = pruned.ordersPruned
    BY <2>2, <2>3
  <2>5. ErasedShares' = ErasedShares
    <3>1. \A e, f \in Int : 0 = f - e => f = e
      OBVIOUS
    <3> QED
      BY <2>1, <2>3, <3>1
  <2>6. pruned'.priceLevelsErased + Emptied' = pruned.priceLevelsErased + Emptied
    BY <1>3, <2>2, <2>3
  <2> QED
    BY <2>4, <2>5, <2>6
<1> QED
  BY <1>4 DEF VisiblePruned

-----------------------------------------------------------------------------
(* Every step of the book is one of LimitOrderBook or shows nothing *)

\* Outside a walk and with the book left alone, nothing shows but the call.
LEMMA OnlyTheCallShows ==
    ASSUME IInv, IInv', UNCHANGED <<heap, queue>>
    PROVE  /\ VisibleBook' = VisibleBook
           /\ pruned' = pruned /\ pc # "pruning" /\ (pc' # "pruning" \/ cursor'.index = 0) =>
                 VisiblePruned' = VisiblePruned
BY BookUntouched, PrunedShows, PrunedShowsNext DEF IInv, BookInv

LEMMA AcceptableIsNotRejected ==
    ASSUME IInv, NEW req \in Accepted
    PROVE  Promise!Acceptable(req) <=> ~Rejected(req)
<1>1. req.id \in OrderIds
  BY RequestFields
<1> QED
  BY <1>1, RestingIsMapped, SameWords DEF IInv, BookInv, Promise!Acceptable, Rejected

LEMMA SubmitImplements ==
    ASSUME IInv, IInv', VolumesAreHeld, pc \in {"idle", "resubmit"}, NEW req \in Accepted,
           RejectSubmission(req) \/ KillSubmission(req) \/ StartMatching(req)
    PROVE  Promise!Submit(req)
<1> USE DEF IInv
<1>1. Promise!Acceptable(req) <=> ~Rejected(req)
  BY AcceptableIsNotRejected
<1>2. /\ UNCHANGED <<heap, queue, outcome>> /\ pruned' = pruned
      /\ pc' # "pruning"
  BY DEF RejectSubmission, KillSubmission, StartMatching, bookVars
<1>3. VisibleBook' = VisibleBook /\ VisiblePruned' = VisiblePruned
  BY <1>2, OnlyTheCallShows
<1>4. ASSUME req.tif = "FOK", ~Rejected(req)
      PROVE  /\ req.quantity \in Nat
             /\ Liquid(req) <=> /\ Promise!MarketableLevels(req) # {}
                                /\ Promise!Liquidity(req) >= req.quantity
             /\ Promise!Liquidity(req) \in Int
  <2>1. req.limit \in Prices /\ req.quantity \in Nat
    BY <1>4, RequestFields DEF Rejected, TimesInForce
  <2> QED
    BY <2>1, LiquidityIsOffered DEF BookInv
<1>5. CASE RejectSubmission(req)
  BY <1>1, <1>2, <1>3, <1>5, SameWords DEF RejectSubmission, Promise!Submit
<1>6. CASE KillSubmission(req)
  BY <1>1, <1>2, <1>3, <1>4, <1>6, SameWords DEF KillSubmission, Promise!Submit
<1>7. CASE StartMatching(req)
  BY <1>1, <1>2, <1>3, <1>4, <1>7, SameWords DEF StartMatching, Promise!Submit
<1> QED
  BY <1>5, <1>6, <1>7

LEMMA FrontOrderShows ==
    ASSUME IInv, pc = "matching", Matchable
    PROVE  /\ Promise!Wants /\ Promise!BestLevel(call) = BestLevel
           /\ BestLevel \in Levels /\ 1 \in DOMAIN queue[BestLevel]
           /\ Head(VisibleBook[BestLevel]) = VisibleOrder(TakingOrder)
           /\ VisibleOrder(TakingOrder).quantity = heap[TakingOrder].quantity
           /\ VisibleOrder(TakingOrder).id = heap[TakingOrder].id
           /\ heap[TakingOrder].quantity \in Nat /\ remaining \in Nat
           /\ BestLevel[2] = best[MatchingSide]
           /\ Promise!Without(<<BestLevel, 1>>) =
                 [VisibleBook EXCEPT ![BestLevel] = RemoveAt(@, 1)]
<1> USE DEF IInv, BookInv
<1>1. Promise!Wants /\ Promise!BestLevel(call) = BestLevel
  BY MatchableIsWanted
<1>2. /\ BestLevel \in Levels /\ 1 \in DOMAIN queue[BestLevel] /\ queue[BestLevel] # <<>>
      /\ TakingOrder = queue[BestLevel][1] /\ TakingOrder \in Live
      /\ heap[TakingOrder] \in RestingOrders
  BY MatchableFacts
<1>3. /\ VisibleBook[BestLevel] \in Seq(VisibleOrders)
      /\ VisibleBook[BestLevel] # <<>>
      /\ VisibleBook[BestLevel][1] = VisibleOrder(TakingOrder)
  BY <1>2, VisibleLevel
<1>4. Head(VisibleBook[BestLevel]) = VisibleOrder(TakingOrder)
  BY <1>3
<1> QED
  BY <1>1, <1>2, <1>4, VisibleOrderType, PlaceFacts
     DEF RestingOrders, CallType, BestLevel

\* An iteration of the match loop is a trade with the order first in priority.
LEMMA TakePartImplements ==
    ASSUME IInv, IInv', TakePart
    PROVE  Promise!Trade
<1>1. /\ pc = "matching" /\ Matchable /\ heap[TakingOrder].quantity > remaining
      /\ submission' = [Credited(remaining) EXCEPT !.status = "FILLED"]
      /\ pc' = "done" /\ remaining' = 0 /\ UNCHANGED <<call, outcome, pruned>>
  BY DEF TakePart
<1>2. VisibleBook' = [VisibleBook EXCEPT ![BestLevel][1].quantity = @ - remaining]
  BY PartShows
<1>3. VisiblePruned' = VisiblePruned
  BY <1>1, PrunedShows, PrunedShowsNext DEF IInv
<1>4. submission' = [status |-> "FILLED",
                     quantityFilled |-> submission.quantityFilled + remaining,
                     executions |-> Append(submission.executions,
                         [makerOrderID |-> heap[TakingOrder].id,
                          makerPrice |-> best[MatchingSide],
                          executedQuantity |-> remaining])]
  BY <1>1 DEF Credited, Execution, IInv, CallType, Submissions
<1> DEFINE maker == Head(VisibleBook[BestLevel])
<1>5. /\ maker.quantity = heap[TakingOrder].quantity /\ maker.id = heap[TakingOrder].id
      /\ maker.quantity > remaining /\ remaining # maker.quantity
      /\ remaining - remaining = 0 /\ BestLevel[2] = best[MatchingSide]
      /\ Promise!Wants /\ Promise!BestLevel(call) = BestLevel
  BY <1>1, FrontOrderShows
<1> HIDE DEF maker
<1>6. (IF maker.quantity > remaining THEN remaining ELSE maker.quantity) = remaining
  BY <1>5
<1> USE DEF maker
<1> QED
  BY <1>1, <1>2, <1>3, <1>4, <1>5, <1>6 DEF Promise!Trade

LEMMA TakeWholeImplements ==
    ASSUME IInv, IInv', Balanced, TakeWhole
    PROVE  Promise!Trade
<1>1. /\ pc = "matching" /\ Matchable /\ heap[TakingOrder].quantity <= remaining
      /\ submission' = Credited(heap[TakingOrder].quantity)
      /\ remaining' = remaining - heap[TakingOrder].quantity
      /\ TakeOut(BestLevel, 1)
      /\ pc' = pc /\ UNCHANGED <<call, outcome, pruned>>
  BY DEF TakeWhole
<1>2. VisibleBook' = Promise!Without(<<BestLevel, 1>>)
  BY <1>1, FrontOrderShows, TakeOutShows DEF IInv, BookInv
<1>3. VisiblePruned' = VisiblePruned
  BY <1>1, PrunedShows, PrunedShowsNext DEF IInv
<1>4. submission' = [status |-> submission.status,
                     quantityFilled |-> submission.quantityFilled + heap[TakingOrder].quantity,
                     executions |-> Append(submission.executions,
                         [makerOrderID |-> heap[TakingOrder].id,
                          makerPrice |-> best[MatchingSide],
                          executedQuantity |-> heap[TakingOrder].quantity])]
  BY <1>1 DEF Credited, Execution, IInv, CallType, Submissions
<1> DEFINE maker == Head(VisibleBook[BestLevel])
<1>5. /\ maker.quantity = heap[TakingOrder].quantity /\ maker.id = heap[TakingOrder].id
      /\ maker.quantity \in Nat /\ remaining \in Nat /\ maker.quantity <= remaining
      /\ BestLevel[2] = best[MatchingSide]
      /\ Promise!Wants /\ Promise!BestLevel(call) = BestLevel
  BY <1>1, FrontOrderShows
<1> HIDE DEF maker
<1>6. (IF maker.quantity > remaining THEN remaining ELSE maker.quantity) = maker.quantity
  BY <1>5
<1> USE DEF maker
<1> QED
  BY <1>1, <1>2, <1>3, <1>4, <1>5, <1>6 DEF Promise!Trade

\* After the loop the taker is filled, rests or is dropped.
LEMMA FinishImplements ==
    ASSUME IInv, IInv', VolumesAreHeld, Balanced,
           FinishFilled \/ FinishResting \/ FinishCanceled
    PROVE  Promise!Finish
<1>1. pc = "matching" /\ ~Matchable /\ pc' = "done" /\ UNCHANGED <<call, remaining, outcome, pruned>>
  BY DEF FinishFilled, FinishResting, FinishCanceled
<1>2. ~Promise!Wants
  BY <1>1, MatchableIsWanted
<1>3. VisiblePruned' = VisiblePruned
  BY <1>1, PrunedShows, PrunedShowsNext DEF IInv
<1>4. CASE FinishFilled
  <2>1. remaining = 0
    BY <1>1, <1>4, FillOrKillIsFilled DEF FinishFilled
  <2>2. VisibleBook' = VisibleBook
    BY <1>4, BookUntouched DEF FinishFilled, bookVars, IInv, BookInv
  <2> QED
    BY <1>1, <1>2, <1>3, <1>4, <2>1, <2>2 DEF FinishFilled, Promise!Finish
<1>5. CASE FinishResting
  <2>1. VisibleBook' = [VisibleBook EXCEPT ![<<call.side, call.limit>>] =
              Append(@, [id |-> call.id, quantity |-> remaining, lifetime |-> call.tif])]
    BY <1>5, RestingShows
  <2> QED
    BY <1>1, <1>2, <1>3, <1>5, <2>1, SameWords DEF FinishResting, Promise!Finish
<1>6. CASE FinishCanceled
  <2>1. VisibleBook' = VisibleBook
    BY <1>6, BookUntouched DEF FinishCanceled, bookVars, IInv, BookInv
  <2> QED
    BY <1>1, <1>2, <1>3, <1>6, <2>1 DEF FinishCanceled, Promise!Finish
<1> QED
  BY <1>4, <1>5, <1>6

\* An exception is one the caller was told of.
LEMMA ThrowsImplement ==
    ASSUME FInv, IInv', Balanced, AllocateThrows \/ RecordThrows
    PROVE  Promise!Fail
<1> USE DEF FInv
<1>1. pc = "matching" /\ Thrown
  BY DEF AllocateThrows, RecordThrows
<1>2. VisibleBook' = VisibleBook /\ VisiblePruned' = VisiblePruned
  BY <1>1, BookUntouched, PrunedShows, PrunedShowsNext DEF Thrown, bookVars, IInv, BookInv
<1>3. CASE RecordThrows
  BY <1>1, <1>2, <1>3, MatchableIsWanted, SameWords DEF RecordThrows, Thrown, Promise!Fail
<1>4. CASE AllocateThrows
  <2>1. call.op = "submit" /\ submission.executions = <<>>
    BY <1>4 DEF AllocateThrows, BlockIsSaved
  <2>2. submission.status = None /\ submission.quantityFilled = 0
    BY <1>1, <2>1, TotalOfNone DEF Balanced
  <2>3. submission = NoSubmission
    BY <2>1, <2>2 DEF IInv, CallType, Submissions, NoSubmission
  <2> QED
    BY <1>1, <1>2, <1>4, <2>1, <2>3, SameWords DEF AllocateThrows, Thrown, Promise!Fail
<1> QED
  BY <1>3, <1>4

\* cancel_order and modify_order take the order off its place.
LEMMA CancelShows ==
    ASSUME IInv, IInv', NEW id \in OrderIds, idToOrder[id] # None, CancelResting(id)
    PROVE  \E place \in Promise!PlacesOf(id) :
              /\ VisibleBook' = Promise!Without(place)
              /\ Promise!OrderAt(place) = VisibleOrder(idToOrder[id])
              /\ place[1][1] = heap[idToOrder[id]].side
<1> USE DEF IInv, BookInv
<1> DEFINE l == heap[idToOrder[id]].level
<1>1. PICK i \in DOMAIN queue[l] : queue[l][i] = idToOrder[id] /\ TakeOut(l, i)
  BY DEF CancelResting
<1>2. idToOrder[id] \in Live /\ l \in Levels /\ l[1] = heap[idToOrder[id]].side
  <2>1. idToOrder[id] \in Live
    BY DEF Coherent, MapMatchesPool
  <2>2. l \in Levels /\ l = <<heap[idToOrder[id]].side, l[2]>>
    BY <2>1, LiveFacts
  <2> HIDE DEF l
  <2> QED
    BY <2>1, <2>2
<1> HIDE DEF l
<1>3. <<l, i>> \in Promise!PlacesOf(id)
  BY <1>1, <1>2, RestingIsMapped
<1>4. VisibleBook' = Promise!Without(<<l, i>>)
  BY <1>1, <1>2, TakeOutShows
<1>5. Promise!OrderAt(<<l, i>>) = VisibleOrder(idToOrder[id])
  BY <1>1, <1>2, PlaceFacts
<1> WITNESS <<l, i>> \in Promise!PlacesOf(id)
<1> QED
  BY <1>2, <1>4, <1>5

LEMMA CancelImplements ==
    ASSUME IInv, IInv', CancelNotFound \/ CancelOrder
    PROVE  Promise!Cancel
<1> USE DEF IInv
<1>1. /\ pc = "idle" /\ pc' = "done" /\ call' = Plain("cancel")
      /\ UNCHANGED <<remaining, submission, pruned>>
  BY DEF CancelNotFound, CancelOrder
<1>2. VisiblePruned' = VisiblePruned
  BY <1>1, PrunedShows, PrunedShowsNext
<1>3. CASE CancelNotFound
  <2>1. PICK id \in OrderIds : idToOrder[id] = None
    BY <1>3 DEF CancelNotFound
  <2>2. ~Promise!Resting(id)
    BY <2>1, RestingIsMapped DEF BookInv
  <2>3. VisibleBook' = VisibleBook
    BY <1>3, BookUntouched DEF CancelNotFound, bookVars, BookInv
  <2>4. Promise!CancelOf(id)
    BY <1>1, <1>2, <1>3, <2>2, <2>3, SameWords DEF CancelNotFound, Promise!CancelOf
  <2> QED
    BY <2>4 DEF Promise!Cancel
<1>4. CASE CancelOrder
  <2>1. PICK id \in OrderIds :
           /\ idToOrder[id] # None /\ CancelResting(id)
           /\ outcome' = [status |-> "CANCELED", quantity |-> heap[idToOrder[id]].quantity]
    BY <1>4 DEF CancelOrder
  <2>2. PICK place \in Promise!PlacesOf(id) :
           /\ VisibleBook' = Promise!Without(place)
           /\ Promise!OrderAt(place) = VisibleOrder(idToOrder[id])
    BY <2>1, CancelShows
  <2>3. Promise!OrderAt(place).quantity = heap[idToOrder[id]].quantity
    BY <2>2 DEF VisibleOrder
  <2>4. Promise!CancelOf(id)
    BY <1>1, <1>2, <2>1, <2>2, <2>3, SameWords DEF Promise!CancelOf
  <2> QED
    BY <2>4 DEF Promise!Cancel
<1> QED
  BY <1>3, <1>4

LEMMA ModifyImplements ==
    ASSUME IInv, IInv'
    PROVE  /\ ModifyRefused => Promise!ModifyRefused
           /\ ModifyOrder => Promise!Modify
<1> USE DEF IInv
<1>1. ASSUME ModifyRefused
      PROVE  Promise!ModifyRefused
  <2>1. PICK id \in OrderIds, newPrice \in RequestPrices :
          \/ /\ newPrice \notin Prices
             /\ outcome' = [NoOutcome EXCEPT !.status = "REJECTED"]
          \/ /\ newPrice \in Prices
             /\ idToOrder[id] = None
             /\ outcome' = [NoOutcome EXCEPT !.status = "NOT_FOUND"]
    BY <1>1 DEF ModifyRefused
  <2>2. VisibleBook' = VisibleBook /\ VisiblePruned' = VisiblePruned
    BY <1>1, BookUntouched, PrunedShows, PrunedShowsNext DEF ModifyRefused, bookVars, BookInv
  <2>3. idToOrder[id] = None => ~Promise!Resting(id)
    BY RestingIsMapped DEF BookInv
  <2>4. Promise!ModifyRefusedOf(id, newPrice)
    BY <1>1, <2>1, <2>2, <2>3, SameWords DEF ModifyRefused, Promise!ModifyRefusedOf
  <2> QED
    BY <2>4, SameWords DEF Promise!ModifyRefused
<1>2. ASSUME ModifyOrder
      PROVE  Promise!Modify
  <2>1. PICK id \in OrderIds, newPrice \in Prices, newQuantity \in Quantities :
          /\ idToOrder[id] # None
          /\ CancelResting(id)
          /\ IF newQuantity > 0
             THEN /\ pc' = "resubmit"
                  /\ call' = [op |-> "modify", id |-> id, side |-> heap[idToOrder[id]].side,
                              limit |-> newPrice, quantity |-> newQuantity,
                              tif |-> heap[idToOrder[id]].lifetime]
                  /\ outcome' = [status |-> "RESUBMITTED",
                                 quantity |-> heap[idToOrder[id]].quantity]
             ELSE /\ pc' = "done"
                  /\ call' = Plain("modify")
                  /\ outcome' = [status |-> "CANCELED",
                                 quantity |-> heap[idToOrder[id]].quantity]
    BY <1>2 DEF ModifyOrder
  <2>2. PICK place \in Promise!PlacesOf(id) :
           /\ VisibleBook' = Promise!Without(place)
           /\ Promise!OrderAt(place) = VisibleOrder(idToOrder[id])
           /\ place[1][1] = heap[idToOrder[id]].side
    BY <2>1, CancelShows
  <2>3. /\ Promise!OrderAt(place).quantity = heap[idToOrder[id]].quantity
        /\ Promise!OrderAt(place).lifetime = heap[idToOrder[id]].lifetime
    BY <2>2 DEF VisibleOrder
  <2>4. /\ pc = "idle" /\ UNCHANGED <<remaining, submission, pruned>>
        /\ newQuantity \in Nat
    BY <1>2, NaturalQuantities DEF ModifyOrder
  <2>5. VisiblePruned' = VisiblePruned
    BY <2>1, <2>4, PrunedShows, PrunedShowsNext
  <2>6. Promise!ModifyOf(id, newPrice, newQuantity)
    BY <2>1, <2>2, <2>3, <2>4, <2>5, SameWords DEF Promise!ModifyOf
  <2> QED
    BY <2>6, SameWords DEF Promise!Modify
<1> QED
  BY <1>1, <1>2

LEMMA DayPlacesFacts ==
    ASSUME BookType, Coherent
    PROVE  /\ \A l \in Levels : \A i \in DOMAIN queue[l] :
                 heap[queue[l][i]].lifetime = "DAY" => <<l, i>> \in Promise!DayPlaces
           /\ (\A b \in Live : heap[b].lifetime # "DAY") => Promise!DayPlaces = {}
<1>1. ASSUME NEW l \in Levels, NEW i \in DOMAIN queue[l], heap[queue[l][i]].lifetime = "DAY"
      PROVE  <<l, i>> \in Promise!DayPlaces
  BY <1>1, PlaceFacts, VisibleOrderType DEF Promise!DayPlaces
<1>2. ASSUME NEW place \in Promise!DayPlaces
      PROVE  \E b \in Live : heap[b].lifetime = "DAY"
  <2>1. PICK l \in Levels : \E i \in DOMAIN queue[l] : place = <<l, i>>
    BY PlaceFacts DEF Promise!DayPlaces
  <2>2. PICK i \in DOMAIN queue[l] : place = <<l, i>>
    BY <2>1
  <2>3. queue[l][i] \in Live /\ heap[queue[l][i]].lifetime = "DAY"
    BY <2>2, PlaceFacts, VisibleOrderType DEF Promise!DayPlaces
  <2> QED
    BY <2>3
<1> QED
  BY <1>1, <1>2

\* The session end starts, and is over at once only if nothing rests.
LEMMA SessionEndImplements ==
    ASSUME IInv, IInv', SessionEnd
    PROVE  Promise!SessionEnd
<1> USE DEF IInv
<1>1. /\ pc = "idle" /\ call' = Plain("session") /\ pc' \in {"pruning", "done"}
      /\ UNCHANGED <<heap, queue, remaining, submission, outcome, pruned>>
      /\ pc' = "pruning" => cursor'.index = 0
  BY DEF SessionEnd, bookVars, StartOf
<1>2. VisibleBook' = VisibleBook /\ VisiblePruned' = VisiblePruned
  BY <1>1, OnlyTheCallShows
<1>3. pc' = "done" => Promise!DayPlaces = {}
  <2>1. pc' = "done" => Live = {}
    BY <1>1, SessionStartWalks DEF Live
  <2> QED
    BY <2>1, DayPlacesFacts DEF BookInv
<1> QED
  BY <1>1, <1>2, <1>3, SameWords DEF Promise!SessionEnd

\* Walking on shows nothing until the last ladder is done.
LEMMA WalkImplements ==
    ASSUME IInv, IInv', WalkInv, EnterLevel \/ KeepOrder \/ LeaveLevel \/ FinishLadder
    PROVE  Promise!SessionEnded \/ UNCHANGED Promise!vars
<1> USE DEF IInv
<1>1. /\ pc = "pruning"
      /\ UNCHANGED <<heap, queue, call, remaining, submission, outcome>>
  BY DEF EnterLevel, KeepOrder, LeaveLevel, FinishLadder, AtOrder, AtLevel, bookVars
<1>2. VisibleBook' = VisibleBook
  BY <1>1, BookUntouched DEF BookInv
<1>3. VisiblePruned' = VisiblePruned
  BY <1>1, WalkShowsNothing, PrunedShows, PrunedShowsNext
<1>4. CASE pc' = pc
  BY <1>1, <1>2, <1>3, <1>4 DEF Promise!vars
<1>5. CASE pc' # pc
  <2>1. FinishLadder /\ pc' = "done"
    BY <1>5 DEF EnterLevel, KeepOrder, LeaveLevel, FinishLadder
  <2>2. \A b \in Live : heap[b].lifetime # "DAY"
    BY <1>1, <2>1, FinishLadderWalks DEF Live
  <2>3. Promise!DayPlaces = {}
    BY <2>2, DayPlacesFacts DEF BookInv
  <2> QED
    BY <1>1, <1>2, <1>3, <2>1, <2>3 DEF Promise!SessionEnded
<1> QED
  BY <1>4, <1>5

\* A prune takes one DAY order, and counts its level if that empties it.
LEMMA PruneImplements ==
    ASSUME IInv, IInv', VolumesAreHeld, CountFits, PruneOrder
    PROVE  Promise!Prune
<1> USE DEF IInv, BookInv
<1> DEFINE l == CursorLevel
           i == cursor.index
           b == CursorBlock
<1>1. /\ pc = "pruning" /\ pc' = pc /\ AtLevel /\ i \in DOMAIN queue[l] /\ TakeOut(l, i)
      /\ heap[b].lifetime = "DAY" /\ b = queue[l][i]
      /\ pruned' = [pruned EXCEPT !.ordersPruned = @ + 1,
                                  !.quantityPruned = @ + heap[b].quantity]
      /\ UNCHANGED <<call, remaining, submission, outcome, cursor>>
  BY PruneCounts DEF PruneOrder, AtOrder, AtLevel, CursorBlock
<1>2. l \in Levels /\ l' = l
  BY <1>1, CursorFacts DEF CursorLevel
<1>3. /\ <<l, i>> \in Promise!DayPlaces
      /\ VisibleBook' = Promise!Without(<<l, i>>)
      /\ Promise!OrderAt(<<l, i>>).quantity = heap[b].quantity
      /\ Len(VisibleBook[l]) = Len(queue[l])
  <2> HIDE DEF l, i, b
  <2> QED
    BY <1>1, <1>2, DayPlacesFacts, TakeOutShows, PlaceFacts, VisibleOrderType, VisibleLevel
<1>4. /\ queue[l] # <<>> /\ Len(queue[l]) \in Nat /\ i > 0
      /\ queue'[l] = <<>> <=> Len(queue[l]) = 1
  <2>1. /\ queue[l] \in Seq(Blocks) /\ i \in 1 .. Len(queue[l])
        /\ queue'[l] = RemoveAt(queue[l], i)
    BY <1>1, <1>2 DEF TakeOut, BookType
  <2>2. RemoveAt(queue[l], i) \in Seq(Blocks) /\ Len(RemoveAt(queue[l], i)) = Len(queue[l]) - 1
    BY <2>1, RemoveAtProperties
  <2> HIDE DEF l, i
  <2>3. Len(queue[l]) \in Nat /\ i > 0 /\ Len(queue[l]) # 0
    BY <2>1
  <2>4. queue[l] # <<>>
    BY <2>3
  <2>5. RemoveAt(queue[l], i) = <<>> <=> Len(queue[l]) = 1
    <3>1. RemoveAt(queue[l], i) = <<>> <=> Len(RemoveAt(queue[l], i)) = 0
      BY <2>2, EmptyIsShort
    <3> QED
      BY <2>2, <2>3, <3>1
  <2> QED
    BY <2>1, <2>3, <2>4, <2>5
<1>5. Emptied = 0 /\ Emptied' = IF Len(VisibleBook[l]) = 1 THEN 1 ELSE 0
  <2>1. Emptied = 0
    BY <1>4 DEF Emptied, WalkingLevel
  <2>2. Emptied' = IF queue'[l] = <<>> THEN 1 ELSE 0
    BY <1>1, <1>2, <1>4 DEF Emptied, WalkingLevel
  <2> HIDE DEF l
  <2> QED
    BY <1>3, <1>4, <2>1, <2>2
<1>6. VisiblePruned' = [ordersPruned |-> VisiblePruned.ordersPruned + 1,
                        sharesErased |-> VisiblePruned.sharesErased + heap[b].quantity,
                        priceLevelsErased |-> VisiblePruned.priceLevelsErased
                            + (IF Len(VisibleBook[l]) = 1 THEN 1 ELSE 0)]
  <2>1. /\ VisiblePruned.ordersPruned = pruned.ordersPruned
        /\ VisiblePruned.sharesErased = pruned.sharesErased + pruned.quantityPruned
        /\ VisiblePruned.priceLevelsErased = pruned.priceLevelsErased
        /\ pruned \in PruneTotals
    BY <1>1, <1>4, <1>5 DEF VisiblePruned, ErasedShares, WalkingLevel, CallType, PruneTotals
  <2>2. /\ pruned'.ordersPruned = pruned.ordersPruned + 1
        /\ pruned'.sharesErased = pruned.sharesErased
        /\ pruned'.priceLevelsErased = pruned.priceLevelsErased
    BY <1>1, <2>1 DEF PruneTotals
  <2>3. pruned'.quantityPruned = pruned.quantityPruned + heap[b].quantity
    BY <1>1, <2>1 DEF PruneTotals
  <2>4. ErasedShares' = pruned'.sharesErased + pruned'.quantityPruned
    BY <1>1, <1>4 DEF ErasedShares, WalkingLevel
  <2>5. heap[b].quantity \in Nat
    <3>1. b \in Live
      BY <1>1, <1>2 DEF Coherent, QueuesMatchPool
    <3> HIDE DEF b
    <3> QED
      BY <3>1, LiveFacts DEF RestingOrders
  <2> HIDE DEF l, b
  <2>6. ErasedShares' = VisiblePruned.sharesErased + heap[b].quantity
    BY <2>1, <2>2, <2>3, <2>4, <2>5 DEF PruneTotals
  <2> QED
    BY <1>5, <2>1, <2>2, <2>6 DEF VisiblePruned
<1> HIDE DEF l, i, b
<1> QED
  BY <1>1, <1>3, <1>6 DEF Promise!Prune

LEMMA ReturnImplements ==
    ASSUME IInv, IInv', Return
    PROVE  Promise!Return
<1>1. UNCHANGED <<heap, queue>> /\ pc' # "pruning" /\ pruned' = NothingCounted
  BY DEF Return, bookVars
<1>2. VisibleBook' = VisibleBook /\ VisiblePruned' = NothingPruned
  BY <1>1, BookUntouched, PrunedShowsNext DEF IInv, BookInv, NothingCounted, NothingPruned
<1> QED
  BY <1>2, SameWords DEF Return, Promise!Return

LEMMA InitImplements == Init => Promise!Init
<1> SUFFICES ASSUME Init PROVE Promise!Init
  OBVIOUS
<1>1. IInv
  BY InitIInv
<1>2. \A l \in Levels : queue[l] = <<>>
  BY DEF Init
<1>3. \A l \in Levels : VisibleBook[l] = <<>>
  BY <1>1, <1>2, VisibleLevel DEF IInv, BookInv
<1>4. VisibleBook = [l \in Levels |-> <<>>]
  BY <1>3 DEF VisibleBook
<1>5. VisiblePruned = NothingPruned
  BY <1>1, PrunedShows DEF Init, IInv, NothingCounted, NothingPruned
<1> QED
  BY <1>4, <1>5, SameWords DEF Init, Promise!Init

LEMMA StepImplements ==
    ASSUME FInv, SharesInv, CountFits, [FaultNext]_vars
    PROVE  [Promise!Next]_Promise!vars
<1> USE DEF FInv, SharesInv, ResultInv
<1>0. IInv'
  BY FaultNextKeepsIInv
<1>1. CASE SubmitOrder
  <2>1. PICK req \in LimitRequests \cup MarketRequests :
           RejectSubmission(req) \/ KillSubmission(req) \/ StartMatching(req)
    BY <1>1 DEF SubmitOrder
  <2>2. req \in Accepted /\ pc = "idle"
    BY <1>1 DEF Accepted, SubmitOrder
  <2>3. Promise!Submit(req)
    BY <1>0, <2>1, <2>2, SubmitImplements
  <2> QED
    BY <2>2, <2>3, SameWords DEF Promise!SubmitOrder, Promise!Next
<1>2. CASE Resubmit
  <2>1. call \in Accepted /\ pc = "resubmit" /\ ~Rejected(call)
    BY <1>2, NoneIsNoPrice DEF Resubmit, IInv, CallInv, Accepted, Rejected
  <2>2. Promise!Submit(call)
    BY <1>0, <1>2, <2>1, SubmitImplements DEF Resubmit
  <2>3. Promise!Acceptable(call)
    BY <2>1, AcceptableIsNotRejected
  <2> QED
    BY <2>1, <2>2, <2>3 DEF Promise!Resubmit, Promise!Next
<1>3. CASE TakePart \/ TakeWhole
  BY <1>0, <1>3, TakePartImplements, TakeWholeImplements DEF Promise!Next
<1>4. CASE FinishFilled \/ FinishResting \/ FinishCanceled
  BY <1>0, <1>4, FinishImplements DEF Promise!Next
<1>5. CASE AllocateThrows \/ RecordThrows
  BY <1>0, <1>5, ThrowsImplement DEF Promise!Next
<1>6. CASE CancelNotFound \/ CancelOrder
  BY <1>0, <1>6, CancelImplements DEF Promise!Next
<1>7. CASE ModifyRefused \/ ModifyOrder
  BY <1>0, <1>7, ModifyImplements DEF Promise!Next
<1>8. CASE SessionEnd
  BY <1>0, <1>8, SessionEndImplements DEF Promise!Next
<1>9. CASE EnterLevel \/ KeepOrder \/ LeaveLevel \/ FinishLadder
  BY <1>0, <1>9, WalkImplements DEF Promise!Next
<1>10. CASE PruneOrder
  BY <1>0, <1>10, PruneImplements DEF Promise!Next
<1>11. CASE Return
  BY <1>0, <1>11, ReturnImplements DEF Promise!Next
<1>12. CASE UNCHANGED vars
  <2>1. VisibleBook' = VisibleBook /\ VisiblePruned' = VisiblePruned
    BY <1>12 DEF vars, VisibleBook, VisibleOrder, VisiblePruned, ErasedShares, Emptied,
                 WalkingLevel, CursorLevel
  <2> QED
    BY <1>12, <2>1 DEF vars, Promise!vars
<1> QED
  BY <1>1, <1>2, <1>3, <1>4, <1>5, <1>6, <1>7, <1>8, <1>9, <1>10, <1>11, <1>12
     DEF FaultNext, FaultRunning, Calling, Running

\* For every set of ids, quantities and blocks and every price range: whatever
\* the caches, the map, the pool and the walk do, and whenever memory runs out,
\* callers see the book of LimitOrderBook, as long as no level ever holds more
\* shares than a Quantity can count.
THEOREM BookImplementsPromise == FaultSpec /\ []LevelsFit => ImplementsLimitOrderBook
<1>1. FInv /\ SharesInv /\ CountFits /\ [FaultNext]_vars => [Promise!Next]_Promise!vars
  BY StepImplements
<1> QED
  BY InitImplements, FInvHolds, SharesInvHolds, CountFitsUnderFaults, <1>1, PTL
     DEF FaultSpec, ImplementsLimitOrderBook, Promise!Spec

-----------------------------------------------------------------------------
(* Every call is over after a bounded number of steps *)

\* The levels the walk has yet to leave.
LevelsLeft ==
    (MaxPrice + 1 - cursor.price)
        + (IF cursor.side = "BUY" THEN MaxPrice + 1 - MinPrice ELSE 0)

\* The orders it has yet to come to.
Unmet == {b \in Live : StillAhead(b)}

\* A step of the walk leaves an order behind it or erases it, enters or leaves a
\* level, or ends a ladder.
WalkSteps ==
    Cardinality(Unmet) + 2 * LevelsLeft
        + (IF cursor.index = 0 THEN 1 ELSE 0)
        + (IF cursor.side = "BUY" THEN 1 ELSE 0) + 2

\* No call takes more steps than this from where it is.  A step of the match loop
\* takes an order out or is the last.
StepsLeft ==
    CASE pc = "idle"     -> 0
      [] pc = "done"     -> 1
      [] pc = "matching" -> Cardinality(Live) + 2
      [] pc = "resubmit" -> Cardinality(Live) + 3
      [] pc = "pruning"  -> WalkSteps

\* Every step of a call uses up at least one of the steps it has left: no
\* iteration of the match loop trades without using up an order, and the walk,
\* which erases the orders under it, comes back to none.
StepsRunOut == [][pc # "idle" => StepsLeft' \in 0 .. StepsLeft - 1]_vars

LEMMA CountsAreNat ==
    ASSUME IInv
    PROVE  /\ IsFiniteSet(Live) /\ Cardinality(Live) \in Nat
           /\ IsFiniteSet(Unmet) /\ Cardinality(Unmet) \in Nat
<1>1. IsFiniteSet(Live)
  BY LiveIsFinite DEF IInv, BookInv
<1>2. Unmet \in SUBSET Live
  BY DEF Unmet
<1>3. IsFiniteSet(Unmet)
  BY <1>1, <1>2, FS_Subset
<1> QED
  BY <1>1, <1>3, FS_CardinalityType

LEMMA StepsInWalk ==
    IInv /\ pc = "pruning" => LevelsLeft \in Nat /\ StepsLeft = WalkSteps
<1> SUFFICES ASSUME IInv, pc = "pruning"
             PROVE  LevelsLeft \in Nat /\ StepsLeft = WalkSteps
  OBVIOUS
<1>1. cursor.price \in MinPrice .. (MaxPrice + 1)
  BY CursorFacts DEF Cursors
<1>2. LevelsLeft \in Nat
  BY <1>1, PriceRange DEF LevelsLeft
<1>3. StepsLeft = WalkSteps
  BY DEF StepsLeft
<1> QED
  BY <1>2, <1>3

LEMMA StepsInWalkNext ==
    (IInv /\ pc = "pruning")' => LevelsLeft' \in Nat /\ StepsLeft' = WalkSteps'
<1>1. (IInv /\ pc = "pruning" => LevelsLeft \in Nat /\ StepsLeft = WalkSteps)'
  BY StepsInWalk, PTL
<1> QED
  BY <1>1

\* What the call has left where it is not walking.
StepsElsewhere ==
    /\ StepsLeft \in Nat
    /\ pc = "idle" => StepsLeft = 0
    /\ pc = "done" => StepsLeft = 1
    /\ pc = "matching" => StepsLeft = Cardinality(Live) + 2
    /\ pc = "resubmit" => StepsLeft = Cardinality(Live) + 3

LEMMA StepsType == IInv => StepsElsewhere
<1> SUFFICES ASSUME IInv PROVE StepsElsewhere
  OBVIOUS
<1>1. pc \in {"idle", "resubmit", "matching", "pruning", "done"}
  BY DEF IInv, CallType
<1>2. Cardinality(Live) \in Nat /\ Cardinality(Unmet) \in Nat
  BY CountsAreNat
<1>3. pc # "pruning" => StepsLeft \in Nat
  BY <1>1, <1>2 DEF StepsLeft
<1>4. pc = "pruning" => StepsLeft \in Nat
  BY <1>2, StepsInWalk DEF WalkSteps
<1>5. /\ pc = "idle" => StepsLeft = 0
      /\ pc = "done" => StepsLeft = 1
      /\ pc = "matching" => StepsLeft = Cardinality(Live) + 2
      /\ pc = "resubmit" => StepsLeft = Cardinality(Live) + 3
  BY DEF StepsLeft
<1> QED
  BY <1>3, <1>4, <1>5 DEF StepsElsewhere

LEMMA StepsTypeNext == IInv' => StepsElsewhere'
BY StepsType, PTL

\* A step that leaves fewer resting orders ahead of the walk.
LEMMA UnmetShrinks ==
    ASSUME IInv, IInv', Unmet' \subseteq Unmet
    PROVE  /\ Cardinality(Unmet') <= Cardinality(Unmet)
           /\ Cardinality(Unmet') \in Nat
           /\ Unmet' # Unmet => Cardinality(Unmet') < Cardinality(Unmet)
<1>1. IsFiniteSet(Unmet) /\ Cardinality(Unmet) \in Nat
  BY CountsAreNat
<1>2. /\ IsFiniteSet(Unmet') /\ Cardinality(Unmet') <= Cardinality(Unmet)
      /\ (Cardinality(Unmet) = Cardinality(Unmet') => Unmet = Unmet')
  BY <1>1, FS_Subset, Unmet' \in SUBSET Unmet
<1>3. Cardinality(Unmet') \in Nat
  BY <1>2, FS_CardinalityType
<1> QED
  BY <1>1, <1>2, <1>3

\* The walk goes on to the next level.
LEMMA NextLevelNearsEnd ==
    ASSUME IInv, IInv', AtLevel, pc' = pc, UNCHANGED <<heap, queue>>, cursor' = NextLevel
    PROVE  StepsLeft' < StepsLeft
<1> USE DEF IInv, BookInv
<1>1. /\ pc = "pruning" /\ cursor \in Cursors /\ cursor.side \in Sides /\ cursor.index \in Nat
      /\ cursor.price \in Prices /\ CursorLevel \in Levels
  BY CursorFacts, PriceRange DEF Cursors, AtLevel, Prices
<1>2. cursor'.side = cursor.side /\ cursor'.price = cursor.price + 1 /\ cursor'.index = 0
  BY <1>1 DEF NextLevel, Cursors
<1>3. Live' = Live
  BY DEF Live
<1>4. ASSUME NEW b \in Live, StillAhead(b)'
      PROVE  StillAhead(b)
  <2>1. /\ heap[b].level[2] \in Prices
        /\ heap[b].level = <<heap[b].side, heap[b].level[2]>>
    BY LiveFacts
  <2>2. \/ cursor.side = "BUY" /\ heap[b].side = "SELL"
        \/ heap[b].side = cursor.side /\ heap[b].level[2] > cursor.price + 1
        \/ heap[b].level = <<cursor.side, cursor.price + 1>>
    BY <1>2, <1>4 DEF StillAhead, CursorLevel
  <2>3. \/ cursor.side = "BUY" /\ heap[b].side = "SELL"
        \/ heap[b].side = cursor.side /\ heap[b].level[2] > cursor.price
    BY <1>1, <2>1, <2>2, PriceRange DEF Prices
  <2> QED
    BY <2>3 DEF StillAhead
<1>5. Unmet' \subseteq Unmet
  BY <1>3, <1>4 DEF Unmet
<1>6. Cardinality(Unmet') <= Cardinality(Unmet) /\ Cardinality(Unmet') \in Nat
  BY <1>5, UnmetShrinks
<1>7. LevelsLeft' = LevelsLeft - 1
  BY <1>1, <1>2, PriceRange DEF LevelsLeft, Prices
<1>8. StepsLeft' = WalkSteps' /\ LevelsLeft \in Nat /\ StepsLeft = WalkSteps
  BY <1>1, StepsInWalk, StepsInWalkNext
<1>9. Cardinality(Unmet) \in Nat
  BY CountsAreNat
<1> QED
  BY <1>2, <1>6, <1>7, <1>8, <1>9 DEF WalkSteps

\* The walk stays on its level, and fewer orders are ahead of it or it enters.
LEMMA SameLevelNearsEnd ==
    ASSUME IInv, IInv', pc = "pruning", pc' = pc,
           cursor'.side = cursor.side, cursor'.price = cursor.price, Unmet' \subseteq Unmet,
           cursor'.index # 0, Unmet' # Unmet \/ cursor.index = 0
    PROVE  StepsLeft' < StepsLeft
<1>1. StepsLeft' = WalkSteps'
  BY StepsInWalkNext
<1>2. LevelsLeft \in Nat /\ StepsLeft = WalkSteps
  BY StepsInWalk
<1>3. LevelsLeft' = LevelsLeft
  BY DEF LevelsLeft
<1>4. /\ Cardinality(Unmet') <= Cardinality(Unmet)
      /\ Cardinality(Unmet') \in Nat /\ Cardinality(Unmet) \in Nat
      /\ Unmet' # Unmet => Cardinality(Unmet') < Cardinality(Unmet)
  BY UnmetShrinks, CountsAreNat
<1> QED
  BY <1>1, <1>2, <1>3, <1>4 DEF WalkSteps

LEMMA EnterLevelNearsEnd ==
    ASSUME IInv, IInv', EnterLevel
    PROVE  StepsLeft' < StepsLeft
<1> USE DEF IInv, BookInv
<1>1. /\ AtLevel /\ pc = "pruning" /\ pc' = pc /\ UNCHANGED <<heap, queue>> /\ Live' = Live
  BY DEF EnterLevel, AtLevel, bookVars, Live
<1>2. CASE queue[CursorLevel] = <<>>
  BY <1>1, <1>2, NextLevelNearsEnd DEF EnterLevel
<1>3. CASE queue[CursorLevel] # <<>>
  <2>1. cursor.index = 0 /\ cursor' = [cursor EXCEPT !.index = 1]
    BY <1>3 DEF EnterLevel
  <2>2. cursor'.side = cursor.side /\ cursor'.price = cursor.price /\ cursor'.index = 1
    BY <1>1, <2>1, CursorFacts DEF Cursors
  <2>3. CursorLevel \in Levels
    BY <1>1, CursorFacts
  <2>4. \A i \in DOMAIN queue[CursorLevel] : i >= 0
    BY <2>3 DEF BookType
  <2>5. \A b : StillAhead(b)' => StillAhead(b)
    BY <1>1, <2>1, <2>2, <2>4 DEF StillAhead, CursorLevel
  <2>6. Unmet' \subseteq Unmet
    BY <1>1, <2>5 DEF Unmet
  <2> QED
    BY <1>1, <2>1, <2>2, <2>6, SameLevelNearsEnd
<1> QED
  BY <1>2, <1>3

\* The order that the walk is at is still ahead of it.
LEMMA CursorBlockIsUnmet ==
    ASSUME IInv, AtOrder
    PROVE  /\ CursorBlock \in Live /\ StillAhead(CursorBlock)
           /\ heap[CursorBlock].level = CursorLevel /\ heap[CursorBlock].side = cursor.side
           /\ cursor.index \in Nat \ {0} /\ CursorLevel \in Levels
           /\ cursor.price \in Prices /\ cursor \in Cursors
<1> USE DEF IInv, BookInv
<1>1. AtLevel /\ pc = "pruning" /\ cursor.index \in DOMAIN queue[CursorLevel]
  BY DEF AtOrder, AtLevel
<1>2. /\ cursor \in Cursors /\ CursorLevel \in Levels /\ cursor.index \in Nat
      /\ cursor.price \in Prices
  BY <1>1, CursorFacts, PriceRange DEF Cursors, AtLevel, Prices
<1>3. cursor.index # 0
  BY <1>1, <1>2 DEF BookType
<1>4. /\ CursorBlock \in Live /\ heap[CursorBlock].level = CursorLevel
      /\ heap[CursorBlock].side = cursor.side
      /\ \A j \in DOMAIN queue[CursorLevel] :
            queue[CursorLevel][j] = CursorBlock => j = cursor.index
  <2>1. CursorLevel[1] = cursor.side
    BY DEF CursorLevel
  <2>2. CursorBlock = queue[CursorLevel][cursor.index]
    BY DEF CursorBlock
  <2>3. QueuesMatchPool
    BY DEF Coherent
  <2> QED
    BY ONLY <1>1, <1>2, <2>1, <2>2, <2>3 DEF QueuesMatchPool
<1>5. StillAhead(CursorBlock)
  BY <1>2, <1>4 DEF StillAhead
<1> QED
  BY <1>2, <1>3, <1>4, <1>5

LEMMA KeepOrderNearsEnd ==
    ASSUME IInv, IInv', KeepOrder
    PROVE  StepsLeft' < StepsLeft
<1> USE DEF IInv, BookInv
<1>1. /\ AtOrder /\ pc = "pruning" /\ pc' = pc /\ UNCHANGED <<heap, queue>> /\ Live' = Live
      /\ cursor' = [cursor EXCEPT !.index = @ + 1]
  BY DEF KeepOrder, AtOrder, AtLevel, bookVars, Live
<1>0. PICK c : c = CursorBlock
  OBVIOUS
<1>2. /\ c \in Live /\ StillAhead(c)
      /\ heap[c].level = CursorLevel /\ heap[c].side = cursor.side
      /\ cursor.index \in Nat \ {0} /\ CursorLevel \in Levels
      /\ cursor.price \in Prices /\ cursor \in Cursors
  BY <1>0, <1>1, CursorBlockIsUnmet
<1>3. /\ cursor'.side = cursor.side /\ cursor'.price = cursor.price
      /\ cursor'.index = cursor.index + 1
  BY <1>1, <1>2 DEF Cursors
<1>4. CursorLevel' = CursorLevel
  BY <1>3 DEF CursorLevel
<1>5. \A i \in DOMAIN queue[CursorLevel] : i \in Nat
  BY <1>2 DEF BookType
<1>6. \A b : StillAhead(b)' => StillAhead(b)
  BY <1>1, <1>2, <1>3, <1>4, <1>5 DEF StillAhead
<1>7. ~StillAhead(c)'
  <2>1. /\ cursor.index \in DOMAIN queue[CursorLevel] /\ ~(cursor.index >= cursor.index + 1)
        /\ queue[CursorLevel][cursor.index] = c
    BY <1>0, <1>1, <1>2 DEF AtOrder, CursorBlock
  <2>2. heap[c].level[2] = cursor.price
    BY <1>2 DEF CursorLevel
  <2> QED
    BY <1>1, <1>2, <1>3, <1>4, <2>1, <2>2, PriceRange DEF StillAhead, Prices, Sides
<1>8. Unmet' \subseteq Unmet /\ c \in Unmet
  BY <1>1, <1>2, <1>6 DEF Unmet
<1>9. c \notin Unmet'
  BY <1>1, <1>7 DEF Unmet
<1>10. cursor'.index # 0
  BY <1>2, <1>3
<1> QED
  BY <1>1, <1>3, <1>8, <1>9, <1>10, SameLevelNearsEnd

LEMMA PruneOrderNearsEnd ==
    ASSUME IInv, IInv', PruneOrder
    PROVE  StepsLeft' < StepsLeft
<1> USE DEF IInv, BookInv
<1> DEFINE q == queue[CursorLevel]
           k == cursor.index
<1>0. PICK c : c = CursorBlock
  OBVIOUS
<1>1. AtOrder /\ pc = "pruning" /\ UNCHANGED <<pc, cursor>> /\ TakeOut(CursorLevel, k)
  BY DEF PruneOrder, AtOrder, AtLevel
<1>2. /\ c \in Live /\ StillAhead(c)
      /\ k \in Nat \ {0} /\ CursorLevel \in Levels
  BY <1>0, <1>1, CursorBlockIsUnmet
<1>3. q \in Seq(Blocks) /\ k \in 1 .. Len(q)
  BY <1>1, <1>2 DEF BookType, AtOrder
<1>4. Live' = Live \ {c} /\ \A b \in Live' : heap'[b] = heap[b]
  BY <1>0, PruneOrderRemoves, RemovesSums
<1>5. /\ queue'[CursorLevel] = RemoveAt(q, k)
      /\ Len(RemoveAt(q, k)) = Len(q) - 1
      /\ \A i \in 1 .. Len(q) - 1 : RemoveAt(q, k)[i] = IF i < k THEN q[i] ELSE q[i + 1]
  <2>1. queue'[CursorLevel] = RemoveAt(q, k)
    BY <1>1, <1>2 DEF TakeOut, BookType
  <2> HIDE DEF q, k
  <2> QED
    BY <1>3, <2>1, RemoveAtProperties
<1>6. queue'[CursorLevel] \in Seq(Blocks)
  BY <1>2 DEF BookType
\* What is ahead on this level was ahead before: those in front have not moved.
<1>7. ASSUME NEW b,
             \A i \in DOMAIN queue'[CursorLevel] : queue'[CursorLevel][i] = b => i >= k
      PROVE  \A i \in DOMAIN q : q[i] = b => i >= k
  <2> SUFFICES ASSUME NEW i \in DOMAIN q, q[i] = b, i < k PROVE FALSE
    BY <1>3
  <2>1. i \in 1 .. Len(q) - 1
    BY <1>3
  <2>2. i \in DOMAIN queue'[CursorLevel] /\ queue'[CursorLevel][i] = b
    BY <1>5, <1>6, <2>1
  <2> QED
    BY <1>3, <1>7, <2>1, <2>2
<1>8. ASSUME NEW b \in Live', StillAhead(b)'
      PROVE  StillAhead(b)
  BY <1>1, <1>4, <1>7, <1>8 DEF StillAhead, CursorLevel
<1>9. Unmet' \subseteq Unmet /\ c \in Unmet /\ c \notin Unmet'
  BY <1>2, <1>4, <1>8 DEF Unmet
<1> QED
  BY <1>1, <1>2, <1>9, SameLevelNearsEnd

\* After the bids come the asks, all of them still ahead, or the walk is over.
LEMMA FinishLadderNearsEnd ==
    ASSUME IInv, IInv', WalkInv, FinishLadder
    PROVE  StepsLeft' < StepsLeft
<1> USE DEF IInv, BookInv
<1>1. /\ pc = "pruning" /\ cursor.price > MaxPrice /\ cursor \in Cursors
      /\ UNCHANGED <<heap, queue>> /\ Live' = Live
      /\ \/ cursor.side = "BUY" /\ cursor' = StartOf("SELL") /\ pc' = pc
         \/ pc' = "done"
  BY CursorFacts DEF FinishLadder, Live
<1>2. cursor.price = MaxPrice + 1 /\ cursor.index = 0
  BY <1>1, PriceRange DEF Cursors, WalkInv
<1>3. Cardinality(Unmet) \in Nat
  BY CountsAreNat
<1>4. LevelsLeft \in Nat /\ StepsLeft = WalkSteps
  BY <1>1, StepsInWalk
<1>5. CASE pc' = "done"
  <2>1. StepsLeft' = 1
    BY <1>5, StepsTypeNext DEF StepsElsewhere
  <2> QED
    BY <1>3, <1>4, <2>1 DEF WalkSteps
<1>6. CASE cursor.side = "BUY" /\ cursor' = StartOf("SELL") /\ pc' = pc
  <2>1. cursor'.side = "SELL" /\ cursor'.price = MinPrice /\ cursor'.index = 0
    BY <1>6 DEF StartOf
  <2>2. ASSUME NEW b \in Live, StillAhead(b)'
        PROVE  StillAhead(b)
    <3>1. heap[b].level = <<heap[b].side, heap[b].level[2]>>
      BY LiveFacts
    <3>2. heap[b].side = "SELL"
      BY <1>1, <2>1, <2>2, <3>1 DEF StillAhead, CursorLevel
    <3> QED
      BY <1>6, <3>2 DEF StillAhead
  <2>3. Unmet' \subseteq Unmet
    BY <1>1, <2>2 DEF Unmet
  <2>4. Cardinality(Unmet') <= Cardinality(Unmet) /\ Cardinality(Unmet') \in Nat
    BY <2>3, UnmetShrinks
  <2>5. LevelsLeft' = LevelsLeft
    BY <1>2, <1>6, <2>1, PriceRange DEF LevelsLeft
  <2>6. StepsLeft' = WalkSteps'
    BY <1>1, <1>6, StepsInWalkNext
  <2> QED
    BY <1>2, <1>3, <1>4, <1>6, <2>1, <2>4, <2>5, <2>6 DEF WalkSteps
<1> QED
  BY <1>1, <1>5, <1>6

LEMMA MatchingNearsEnd ==
    ASSUME IInv, IInv', pc = "matching", [FaultNext]_vars, ~UNCHANGED vars
    PROVE  StepsLeft' < StepsLeft
<1> USE DEF IInv, BookInv
<1>1. StepsLeft = Cardinality(Live) + 2 /\ Cardinality(Live) \in Nat
  BY StepsType, CountsAreNat DEF StepsElsewhere
<1>2. CASE TakeWhole
  <2>1. PICK c : c = TakingOrder
    OBVIOUS
  <2>2. c \in Live /\ Live' = Live \ {c}
    BY <1>2, <2>1, TakeWholeRemoves, RemovesSums DEF Removes
  <2>3. Cardinality(Live') = Cardinality(Live) - 1
    BY <2>2, CountsAreNat, FS_RemoveElement
  <2>4. StepsLeft' = Cardinality(Live') + 2
    BY <1>2, StepsTypeNext DEF StepsElsewhere, TakeWhole
  <2> QED
    BY <1>1, <2>3, <2>4
<1>3. CASE pc' \in {"done", "idle"}
  <2>1. StepsLeft' \in {0, 1}
    BY <1>3, StepsTypeNext DEF StepsElsewhere
  <2> QED
    BY <1>1, <2>1
<1>4. TakePart \/ FinishFilled \/ FinishResting \/ FinishCanceled => pc' = "done"
  BY DEF TakePart, FinishFilled, FinishResting, FinishCanceled
<1>5. AllocateThrows \/ RecordThrows => pc' = "idle"
  BY DEF AllocateThrows, RecordThrows, Thrown
<1>6. ~Calling /\ ~Resubmit /\ ~Return
  BY DEF Calling, SubmitOrder, CancelNotFound, CancelOrder, ModifyRefused, ModifyOrder,
         SessionEnd, Resubmit, Return
<1>7. ~(EnterLevel \/ KeepOrder \/ PruneOrder \/ LeaveLevel \/ FinishLadder)
  BY DEF EnterLevel, KeepOrder, PruneOrder, LeaveLevel, FinishLadder, AtOrder, AtLevel
<1> QED
  BY <1>2, <1>3, <1>4, <1>5, <1>6, <1>7 DEF FaultNext, FaultRunning, Running

LEMMA RunningNearsEnd ==
    ASSUME IInv, IInv', WalkInv, FaultNext, pc # "idle"
    PROVE  StepsLeft' < StepsLeft \/ UNCHANGED vars
<1>1. CASE pc = "matching"
  BY <1>1, MatchingNearsEnd
<1>2. CASE Resubmit
  <2>1. StepsLeft = Cardinality(Live) + 3 /\ Cardinality(Live) \in Nat
    BY <1>2, StepsType, CountsAreNat DEF StepsElsewhere, Resubmit
  <2>2. \/ pc' = "done"
        \/ pc' = "matching" /\ Live' = Live
    BY <1>2 DEF Resubmit, RejectSubmission, KillSubmission, StartMatching, bookVars, Live
  <2>3. StepsLeft' = 1 \/ StepsLeft' = Cardinality(Live) + 2
    BY <2>2, StepsTypeNext DEF StepsElsewhere
  <2> QED
    BY <2>1, <2>3
<1>3. CASE Return
  <2>1. StepsLeft = 1 /\ StepsLeft' = 0
    BY <1>3, StepsType, StepsTypeNext DEF StepsElsewhere, Return
  <2> QED
    BY <2>1
<1>4. CASE LeaveLevel
  BY <1>4, NextLevelNearsEnd DEF LeaveLevel, AtLevel, bookVars
<1>5. CASE EnterLevel \/ KeepOrder \/ PruneOrder \/ FinishLadder
  BY <1>5, EnterLevelNearsEnd, KeepOrderNearsEnd, PruneOrderNearsEnd, FinishLadderNearsEnd
<1>6. ~Calling
  BY DEF Calling, SubmitOrder, CancelNotFound, CancelOrder, ModifyRefused, ModifyOrder,
         SessionEnd
<1>7. TakePart \/ TakeWhole \/ FinishFilled \/ FinishResting \/ FinishCanceled
         \/ AllocateThrows \/ RecordThrows => pc = "matching"
  BY DEF TakePart, TakeWhole, FinishFilled, FinishResting, FinishCanceled, AllocateThrows,
         RecordThrows
<1> QED
  BY <1>1, <1>2, <1>3, <1>4, <1>5, <1>6, <1>7 DEF FaultNext, FaultRunning, Running

\* However many orders rest and however long the ladders are: a call is over,
\* returned or thrown, after the StepsLeft steps it has at the most, since each
\* step leaves it with fewer; the match loop and the session-end walk terminate.
THEOREM CallsAreBounded == FaultSpec => StepsRunOut
<1>1. ASSUME FInv, SharesInv, [FaultNext]_vars, pc # "idle"
      PROVE  StepsLeft' \in 0 .. StepsLeft - 1 \/ UNCHANGED vars
  <2>1. IInv /\ IInv' /\ WalkInv
    BY <1>1, FaultNextKeepsIInv DEF FInv, SharesInv
  <2>2. StepsLeft \in Nat /\ StepsLeft' \in Nat
    BY <2>1, StepsType, StepsTypeNext DEF StepsElsewhere
  <2>3. StepsLeft' < StepsLeft \/ UNCHANGED vars
    BY <1>1, <2>1, RunningNearsEnd
  <2> QED
    BY <2>2, <2>3
<1>2. FInv /\ SharesInv /\ [FaultNext]_vars =>
         [pc # "idle" => StepsLeft' \in 0 .. StepsLeft - 1]_vars
  BY <1>1
<1> QED
  BY FInvHolds, SharesInvHolds, <1>2, PTL DEF FaultSpec, StepsRunOut

=============================================================================

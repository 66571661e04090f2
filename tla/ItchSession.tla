---------------------------- MODULE ItchSession -----------------------------
(***************************************************************************)
(* The ItchReplay program (src/replay/ReplayMain.cpp): a parser that reads  *)
(* a capture, and the engine it hands the messages to.  ItchParser and      *)
(* ItchReplay are the two; here a message that is decoded by the one is     *)
(* what the other handles, and main prints the summary if parse returns.    *)
(* None of the matching calls of the book is ever running.                  *)
(***************************************************************************)
EXTENDS ItchParser, ItchReplay

CONSTANTS
    StopLabels,      \* the values of --stop-at: hours, minutes and seconds, or NoTime
    TicksPerSecond,  \* nanosecondsPerSecond, fewer in small models
    Depth            \* the depth of the summary

ASSUME DepthIsNatural == Depth \in Nat

VARIABLES
    stopTimeLabel,
    status,          \* what main is doing, or how it returned
    summary          \* what it printed

mainVars == <<stopTimeLabel, status, summary>>
sessionVars == <<frames, size, stopTimestamp, pos, phase, frame, applied,
                 idToOrder, heap, queue, volume, best,
                 pc, call, remaining, submission, outcome, cursor, pruned,
                 targetStockLocate, counts, adding, stopTimeLabel, status, summary>>

-----------------------------------------------------------------------------

\* parse_stop_time: what it accepts, and the timestamp it returns.
ValidStopTime(label) ==
    label[1] \in 0 .. 23 /\ label[2] \in 0 .. 59 /\ label[3] \in 0 .. 59

ParseStopTime(label) == (label[1] * 3600 + label[2] * 60 + label[3]) * TicksPerSecond

StopTimesOfLabels ==
    {IF label = NoTime \/ ~ValidStopTime(label) THEN NoTime ELSE ParseStopTime(label) :
        label \in StopLabels}

SessionInit ==
    /\ stopTimeLabel \in StopLabels
    /\ stopTimestamp = IF stopTimeLabel = NoTime \/ ~ValidStopTime(stopTimeLabel) THEN NoTime
                       ELSE ParseStopTime(stopTimeLabel)
    /\ ParserInit
    /\ ReplayInit
    /\ status = "starting"
    /\ summary = None

\* main returns before it has read anything: the time to stop at or any other
\* argument is refused, or the file cannot be opened.
RefuseArguments ==
    /\ status = "starting"
    /\ status' = "EXIT_FAILURE"
    /\ UNCHANGED <<parserVars, bookVars, callVars, engineVars, stopTimeLabel, summary>>

Start ==
    /\ status = "starting"
    /\ stopTimeLabel # NoTime => ValidStopTime(stopTimeLabel)
    /\ status' = "parsing"
    /\ UNCHANGED <<parserVars, bookVars, callVars, engineVars, stopTimeLabel, summary>>

\* parse runs; on_message is called for what Decode does not hold back, and
\* returns before parse goes on.
Parse ==
    /\ status = "parsing"
    /\ adding = None
    /\ \/ (ReadLength \/ ReadType \/ Ignore) /\ UNCHANGED <<bookVars, engineVars>>
       \/ /\ Decode
          /\ IF applied' = applied
             THEN UNCHANGED <<bookVars, engineVars>>
             ELSE OnMessage(Current.type, MessageRead)
    /\ UNCHANGED <<callVars, mainVars>>

\* The engine is in the middle of a replacement.
Replace ==
    /\ AddReplacement
    /\ UNCHANGED <<parserVars, callVars, mainVars>>

\* parse has returned.
Complete ==
    /\ status = "parsing"
    /\ adding = None
    /\ phase = "done"
    /\ summary' = PrintSummary(Depth)
    /\ status' = "EXIT_SUCCESS"
    /\ UNCHANGED <<parserVars, bookVars, callVars, engineVars, stopTimeLabel>>

\* parse has thrown: nothing is printed of the book.
Fail ==
    /\ status = "parsing"
    /\ phase = "thrown"
    /\ status' = "EXIT_FAILURE"
    /\ UNCHANGED <<parserVars, bookVars, callVars, engineVars, stopTimeLabel, summary>>

\* main has returned.
Exited == status \in {"EXIT_SUCCESS", "EXIT_FAILURE"} /\ UNCHANGED sessionVars

SessionNext == RefuseArguments \/ Start \/ Parse \/ Replace \/ Complete \/ Fail \/ Exited

SessionSpec == SessionInit /\ [][SessionNext]_sessionVars

-----------------------------------------------------------------------------
(* What a capture means, read off its messages *)

\* A feed of which nothing has been seen yet.
NothingSeen ==
    [locate |-> None,
     orders |-> [id \in OrderIds |-> None],
     counts |-> [kind \in Kinds |-> 0]]

InFeed(seen, id) == seen.orders[id] # None

Counted(seen, kind, orders) ==
    [locate |-> seen.locate, orders |-> orders, counts |-> [seen.counts EXCEPT ![kind] = @ + 1]]

WithOrder(orders, id, side, price, shares) ==
    [orders EXCEPT ![id] = [side |-> side, price |-> price, shares |-> shares]]

CanRest(seen, id, m) == m.shares > 0 /\ m.price \in MinPrice .. MaxPrice /\ ~InFeed(seen, id)

\* What is left of an order when shares are taken from it.
Left(order, shares) ==
    IF shares = order.shares THEN None ELSE [order EXCEPT !.shares = @ - shares]

Reduced(seen, kind, id, shares) ==
    IF InFeed(seen, id) /\ shares \in 1 .. seen.orders[id].shares
    THEN Counted(seen, kind, [seen.orders EXCEPT ![id] = Left(@, shares)])
    ELSE Counted(seen, "failures", seen.orders)

\* What has been seen after one more message.
After(seen, type, m) ==
    CASE type = "R" /\ m.stock = Symbol -> [seen EXCEPT !.locate = m.stockLocate]
      [] type \in {"S", "R"} /\ ~(type = "R" /\ m.stock = Symbol) -> seen
      [] type \notin {"S", "R"} /\ seen.locate # m.stockLocate -> seen
      [] type \in {"A", "F"} /\ seen.locate = m.stockLocate ->
            IF CanRest(seen, m.orderReferenceNumber, m)
            THEN Counted(seen, "adds",
                    WithOrder(seen.orders, m.orderReferenceNumber,
                              IF m.buySellIndicator = 1 THEN "BUY" ELSE "SELL", m.price, m.shares))
            ELSE Counted(seen, "failures", seen.orders)
      [] type \in {"E", "C"} /\ seen.locate = m.stockLocate ->
            Reduced(seen, "executions", m.orderReferenceNumber, m.executedShares)
      [] type = "X" /\ seen.locate = m.stockLocate ->
            Reduced(seen, "cancels", m.orderReferenceNumber, m.cancelledShares)
      [] type = "D" /\ seen.locate = m.stockLocate ->
            IF InFeed(seen, m.orderReferenceNumber)
            THEN Counted(seen, "deletes", [seen.orders EXCEPT ![m.orderReferenceNumber] = None])
            ELSE Counted(seen, "failures", seen.orders)
      [] type = "U" /\ seen.locate = m.stockLocate ->
            LET old == m.originalOrderReferenceNumber
                new == m.newOrderReferenceNumber
            IN  IF InFeed(seen, old) /\ CanRest(seen, new, m)
                THEN Counted(seen, "replaces",
                        WithOrder([seen.orders EXCEPT ![old] = None], new,
                                  seen.orders[old].side, m.price, m.shares))
                ELSE Counted(seen, "failures", seen.orders)

AfterFrame(seen, f) == IF f.type \in DecodedTypes THEN After(seen, f.type, f.message) ELSE seen

\* What the first frames of the file mean, one after the other.
Meaning[n \in 0 .. Len(frames)] ==
    IF n = 0 THEN NothingSeen ELSE AfterFrame(Meaning[n - 1], frames[n])

\* A message of which the last bytes are gone: every field is rounded down to
\* what the bytes that are there tell.
Rounded(value, missing) == value - (value % Power[missing])

CutOff(type, message, missing) ==
    LET FieldLoss(n) ==
            LET lost == missing - (BodyWidth(type) - WidthBefore(type, n))
            IN  IF lost < 0 THEN 0 ELSE IF lost > Fields(type)[n][2] THEN Fields(type)[n][2]
                ELSE lost
    IN  [name \in FieldNames(type) |-> Rounded(message[name], FieldLoss(Position(type, name)))]

\* What the frames up to the first reason to stop mean, and the message that the
\* end of the file cuts off if it is applied.
MeaningOfCapture ==
    LET whole == Meaning[FirstStop - 1]
        last  == frames[FirstStop]
    IN  IF FirstStop \in Range(applied)
        THEN After(whole, last.type, CutOff(last.type, last.message,
                                            FrameStart(frames, FirstStop + 1) - size))
        ELSE whole

\* The side of the book that the orders of a feed make up.
OrdersOf(seen, side) == {id \in OrderIds : InFeed(seen, id) /\ seen.orders[id].side = side}

PricesOf(seen, side) == {seen.orders[id].price : id \in OrdersOf(seen, side)}

SharesAt(seen, side, price) ==
    LET there == {id \in OrdersOf(seen, side) : seen.orders[id].price = price}
    IN  SumFunction([id \in there |-> seen.orders[id].shares])

Better(seen, side, price) ==
    {p \in PricesOf(seen, side) : IF side = "BUY" THEN p > price ELSE p < price}

Shows(seen, side, shown) ==
    LET prices == PricesOf(seen, side)
        Rank(p) == Cardinality(Better(seen, side, p)) + 1
    IN  /\ shown.levels = Cardinality(prices)
        /\ Len(shown.top) = IF Cardinality(prices) < Depth THEN Cardinality(prices) ELSE Depth
        /\ \A p \in prices : Rank(p) <= Depth =>
              shown.top[Rank(p)] = <<p, SharesAt(seen, side, p)>>
        /\ IF prices = {} THEN shown.best = None
           ELSE \A p \in prices : Rank(p) = 1 => shown.best = <<p, SharesAt(seen, side, p)>>

-----------------------------------------------------------------------------
(* What the program can hold *)

\* The ids, locate codes and shares of the captures fit the program's types,
\* also those of a message of which only the first bytes are there.
FeedFits ==
    \A f \in UNION {Range(capture) : capture \in Captures} :
        f.type \in DecodedTypes =>
            \A bytes \in 0 .. BodyWidth(f.type) :
                Acceptable(f.type, DecodedFrom(f.type, f.message, bytes))

\* There is no memory for so many orders that the volume of a level would wrap.
VolumesFit == IsFiniteSet(Blocks) /\ Cardinality(Blocks) * (QuantityEnd - 1) < VolumeEnd

-----------------------------------------------------------------------------
(* Properties *)

SessionTypeOK ==
    /\ ParserTypeOK
    /\ ReplayTypeOK
    /\ status \in {"starting", "parsing", "EXIT_SUCCESS", "EXIT_FAILURE"}
    /\ summary = None \/ summary.orders \in Nat

\* The program that says it has completed has printed the book that the
\* messages of the capture make up, read whole and in order up to where parse
\* stopped: the counters, the number of orders and levels, both best prices and
\* the top levels with their shares.  A capture with a frame of the wrong length
\* before that point never yields a summary.
SummaryTellsTheCapture ==
    /\ status = "EXIT_SUCCESS" =>
          LET seen == MeaningOfCapture
          IN  /\ summary.locate = seen.locate
              /\ summary.counts = seen.counts
              /\ summary.orders = Cardinality({id \in OrderIds : InFeed(seen, id)})
              /\ \A side \in Sides : Shows(seen, side, summary.sides[side])
    /\ summary # None => status = "EXIT_SUCCESS" /\ phase = "done"

=============================================================================

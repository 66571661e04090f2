--------------------------- MODULE MCItchSession ----------------------------
(***************************************************************************)
(* ItchSession on captures that open the book in some way and go on with    *)
(* any two frames, cut off anywhere in the last one.  A byte is a bit, so    *)
(* that numbers of several bytes stay small.                                *)
(***************************************************************************)
EXTENDS ItchSession

\* A message of which the fields that are not given are zero.
Framed(type, given) ==
    [type |-> type, length |-> ExpectedLength(type),
     message |-> [name \in FieldNames(type) |->
                     IF name \in DOMAIN given THEN given[name] ELSE 0]]

At(time, locate) == [stockLocate |-> locate, timestamp |-> time]

Directory(time, locate, stock) == Framed("R", At(time, locate) @@ [stock |-> stock])

Add(type, time, locate, id, indicator, shares, price) ==
    Framed(type, At(time, locate) @@ [orderReferenceNumber |-> id,
        buySellIndicator |-> indicator, shares |-> shares, price |-> price])

Execute(type, time, locate, id, shares) ==
    Framed(type, At(time, locate) @@ [orderReferenceNumber |-> id, executedShares |-> shares])

Cancel(time, locate, id, shares) ==
    Framed("X", At(time, locate) @@ [orderReferenceNumber |-> id, cancelledShares |-> shares])

Delete(time, locate, id) == Framed("D", At(time, locate) @@ [orderReferenceNumber |-> id])

Replaced(time, locate, old, new, shares, price) ==
    Framed("U", At(time, locate) @@ [originalOrderReferenceNumber |-> old,
        newOrderReferenceNumber |-> new, shares |-> shares, price |-> price])

\* Time 2 is the time to stop at, if there is one; 3 is late.
Palette ==
    {Directory(1, 2, 3), Directory(2, 2, 2),
     Add("A", 2, 1, 2, 1, 2, 3), Add("A", 2, 1, 2, 0, 1, 4), Add("F", 2, 1, 2, 0, 3, 2),
     Add("A", 2, 2, 2, 1, 1, 1), Add("F", 3, 1, 2, 1, 3, 3),
     Execute("E", 2, 1, 1, 1), Execute("C", 2, 1, 3, 3), Cancel(2, 1, 1, 2), Cancel(2, 1, 3, 2),
     Delete(2, 1, 3), Delete(3, 1, 1),
     Replaced(2, 1, 1, 2, 3, 3), Replaced(2, 1, 3, 1, 2, 1), Replaced(2, 1, 3, 2, 1, 3),
     Framed("S", At(2, 1)),
     [type |-> "N", length |-> 4, message |-> At(2, 1)],
     [Delete(2, 1, 1) EXCEPT !.length = @ + 1],
     [type |-> "none", length |-> 0, message |-> At(0, 0)]}

FirstOrder == Add("A", 1, 1, 1, 1, 2, 1)
SecondOrder == Add("F", 1, 1, 3, 0, 3, 2)

Openings ==
    {<<Directory(1, 1, 3)>>, <<FirstOrder>>,
     <<Directory(1, 1, 3), FirstOrder, SecondOrder>>}

MCCaptures == {o \o f : o \in Openings, f \in UNION {[1 .. n -> Palette] : n \in 0 .. 2}}

MCStopLabels == {NoTime, <<0, 0, 1>>, <<24, 0, 0>>}

\* The captures are ones that the program can hold.
ASSUME CapturesFit == FeedFits /\ VolumesFit

Symmetry == Permutations(Blocks)

=============================================================================

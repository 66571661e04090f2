----------------------------- MODULE VisibleBook -----------------------------
(***************************************************************************)
(* What a replayed market-data feed means: which orders are visible, by     *)
(* reference number, and how many messages of each kind were applied.       *)
(* There is no matching and there are no levels.  ItchReplay implements     *)
(* this specification.                                                     *)
(***************************************************************************)
EXTENDS BookTypes

VARIABLES
    visible,     \* per order reference number, the visible order or None
    counts       \* the messages applied of each kind, and those refused

vars == <<visible, counts>>

Kinds == {"adds", "executions", "cancels", "deletes", "replaces", "failures"}

Init ==
    /\ visible = [id \in OrderIds |-> None]
    /\ counts = [kind \in Kinds |-> 0]

Count(kind) == counts' = [counts EXCEPT ![kind] = @ + 1]

Orders == [side : Sides, price : Prices, shares : Nat \ {0}]

Add ==
    /\ Count("adds")
    /\ \E id \in OrderIds :
          /\ visible[id] = None
          /\ visible'[id] \in Orders
          /\ visible' = [visible EXCEPT ![id] = visible'[id]]

\* What is left of an order once shares are taken from it.
Reduced(order, shares) ==
    IF shares = order.shares THEN None ELSE [order EXCEPT !.shares = @ - shares]

\* An execution or a partial cancel takes shares from an order, at most all.
Reduce ==
    /\ Count("executions") \/ Count("cancels")
    /\ \E id \in OrderIds :
          /\ visible[id] # None
          /\ \E shares \in 1 .. visible[id].shares :
                visible' = [visible EXCEPT ![id] = Reduced(@, shares)]

Delete ==
    /\ Count("deletes")
    /\ \E id \in OrderIds :
          /\ visible[id] # None
          /\ visible' = [visible EXCEPT ![id] = None]

\* A replacement takes the old order's side and gets a number of its own.
Replace ==
    /\ Count("replaces")
    /\ \E old, new \in OrderIds :
          /\ visible[old] # None
          /\ visible[new] = None
          /\ visible'[new] \in Orders
          /\ visible'[new].side = visible[old].side
          /\ visible' = [visible EXCEPT ![old] = None, ![new] = visible'[new]]

\* A message that is not applied leaves the book as it is.
Refuse == Count("failures") /\ UNCHANGED visible

Next == Add \/ Reduce \/ Delete \/ Replace \/ Refuse

Spec == Init /\ [][Next]_vars

=============================================================================

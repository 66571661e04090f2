------------------------- MODULE OrderBookRefinement ------------------------
(***************************************************************************)
(* OrderBook implements LimitOrderBook: read the queues through the pool   *)
(* to get the book its callers see, and drop the map and the caches.       *)
(***************************************************************************)
EXTENDS OrderBook

VisibleOrder(b) ==
    [id |-> heap[b].id, quantity |-> heap[b].quantity, lifetime |-> heap[b].lifetime]

VisibleBook ==
    [l \in Levels |-> [i \in DOMAIN queue[l] |-> VisibleOrder(queue[l][i])]]

\* The promised totals count shares order by order, and a level as soon as its
\* last order is gone.
VisiblePruned ==
    [ordersPruned |-> pruned.ordersPruned,
     sharesErased |-> ErasedShares,
     priceLevelsErased |-> pruned.priceLevelsErased + Emptied]

Promise == INSTANCE LimitOrderBook WITH book <- VisibleBook, pruned <- VisiblePruned

\* Every behaviour of the book, seen from outside, is one of the abstract book
\* that looks everything up in the orders themselves: the map, the cached best
\* prices, the cached volumes and the order of the session-end walk never show.
ImplementsLimitOrderBook == Promise!Spec

=============================================================================

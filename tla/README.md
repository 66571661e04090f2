# Verification of the `lob` matching engine

TLA+ models of the limit order book in `src/`, the TLC configurations that check
them, and TLAPS proofs about them. Source paths below are relative to the
repository (`src/`).

## 1. Inventory

| Part | Code | State | Operations |
|---|---|---|---|
| Order book | `src/Orderbook.cpp` | pool, `idToOrderMap_`, two ladders, price range | `submit_limit_order` (GTC, DAY, IOC, FOK), `submit_market_order`, `cancel_order`, `modify_order`, `on_session_end` |
| Replay operations | `src/Orderbook.cpp:108-195` | the same | `replay_add/reduce/delete/replace_visible_order` |
| Price ladder | `src/core/PriceLadder.*` | one level per tick, cached `bestPrice_` | level lookup, `set_best_price`, `update_best_price_from_given`, `has_sufficient_marketable_liquidity`, `prune_day_orders` |
| Price level | `src/core/PriceLevel.*` | intrusive list (`head_`, `tail_`), cached `totalVolume_`, `orderCount_` | `push_back`, `pop_front`, `remove_order`, `take_shares_from_first`, `reduce_order_quantity`, `prune_day_orders` |
| Memory pool | `src/core/MemoryPool.*` | slabs, free list, two counters | `allocate`, `deallocate`, growth by doubling |
| ITCH replay engine | `replay/engine/ItchReplayEngine.cpp` | target symbol and locate code, counters, a book | one `on_message` per message type, `print_summary` |
| ITCH parser | `replay/engine/ItchParser.*` | file position, stop timestamp | `parse` |
| ITCH decoders | `replay/utils/*` | the position in the stream | one decoder per message type, big-endian fields |
| Replay driver | `replay/ReplayMain.cpp` | arguments, exit code | stop time, parsing, summary |
| Benchmarks | `bench/individual_behaviours/*`, `bench/latency/*` | a fresh book per measurement | untimed set-up calls, a timed batch |
| Scripts, plots, tests, build files | `scripts/`, `results/`, `tests/` | - | outside the engine |

**Interaction.** Everything is a synchronous call on one thread. A submission
walks the opposite ladder from its cached best price; each iteration takes
shares from the front order of the best level, and when an order is used up it
is erased from the map, unlinked from its level and given back to the pool, and
the best price is rescanned if the level became empty. A modification is a
cancel followed by a submission. The session end walks both ladders and calls
back into the book for each expired order, which frees the node the walk stands
on. The replay engine drives the book through the replay operations, which
never match; the parser calls it once per decoded message, and the driver runs
the parser and prints what the engine then holds. The benchmarks call the public
operations, each to take one path through them.

**What is hard.** There is no concurrency, no persistence and no clock in the
book. What is hard is that the same fact is stored several times (an order is
in the map, the pool and a list; a level's volume and a ladder's best price are
caches) and is updated by hand in many places, so that an error shows only
after a long sequence of calls; that modify and fill-or-kill work in two
passes; that lists are changed while they are walked; and that every loop
terminates only if the caches are right. An allocation may throw in the middle
of a call, and nothing catches it. A capture may be cut off anywhere, and a
message is decoded before the stream is asked whether it failed. `PROJECT.json` lists each such place
with the properties that cover it.

**Correctness, per part.** Order book: map, pool and levels agree; results tell
what happened; price-time priority; no crossed book; fill-or-kill fills all;
modification never loses an order; DAY orders go at the session end; every call
returns. Ladder: the cached best price is the best. Level: FIFO is kept, the
cached volume is the sum. Pool: a block has one owner, blocks never move,
nothing is lost when it grows. Replay engine: one counter step per target
message, replace is all or nothing. Parser: framing is never lost, nothing
after the stop time is applied. Replay program: a printed summary is the book
that the capture means. Benchmarks: every timed call takes the path that the name
and the comment of its benchmark give it, which is not so of all of them (section 3),
and none pays for growth of the pool.

## 2. Modules

| Module | Role |
|---|---|
| `BookTypes` | sides, prices, lifetimes, requests, statuses; assumptions on the constants |
| `OrderBook` | the book as the code keeps it |
| `LimitOrderBook` | the book as its callers see it: per level a sequence of orders, nothing cached, no order ids mapped |
| `OrderBookRefinement` | the mapping from `OrderBook` to `LimitOrderBook` |
| `OrderBookFaults` | the book when the pool cannot grow and when an execution cannot be recorded |
| `MCOrderBook` (three `.cfg`) | small instances for TLC |
| `SumProofs` | lemmas about the sums that the modules use |
| `OrderBookProofs` | lemmas and theorems about `OrderBook`: the inductive invariant, priority and queues; then its shares: volumes, results, fill-or-kill, the session end |
| `OrderBookFaultsProofs` | theorems about `OrderBookFaults`, and that it implements `LimitOrderBook` |
| `MemoryPool` | the pool as the code keeps it: slabs, links through the free blocks, counters |
| `BlockPool` | the pool as the book uses it: a set of blocks with one owner each |
| `MCMemoryPool` (two `.cfg`) | small instances for TLC |
| `MemoryPoolProofs` | lemmas and theorems about `MemoryPool` |
| `PriceLevel` | the level as the code keeps it: a doubly linked list through the orders, cached volume and count, the pruning walk |
| `FifoLevels` | the level as the book uses it: a queue that orders join at the back |
| `MCPriceLevel` (two `.cfg`) | small instances for TLC |
| `PriceLevelProofs` | lemmas and theorems about `PriceLevel` |
| `PriceLadder`, `MCPriceLadder` | the loops over the vector of levels by an unsigned index |
| `PriceLadderProofs` | lemmas and theorems about `PriceLadder` |
| `ItchReplay` | the replay operations and the message handlers, over the state of `OrderBook` |
| `VisibleBook` | what a feed means: visible orders by number, and counters |
| `MCItchReplay` (two `.cfg`) | small instances for TLC |
| `ItchMessages` | the fields of the decoded messages, their widths, and how numbers are read from bytes |
| `ItchParser` | framing, length check, skipping, stop time and truncation |
| `ItchSession`, `MCItchSession` | the replay program: driver, parser and engine composed |
| `ItchSessionProofs` | lemmas and theorems about `ItchReplay` and then about the replay program: parser, reading of numbers, and what the summary says |
| `Benchmarks`, `MCBenchmarks` | every benchmark as the calls it makes on `LimitOrderBook`, and the path that its name and comment give each call |
| `BenchmarksProofs` | lemmas and a theorem about `Benchmarks` |

### OrderBook and the code

| Variable | Code |
|---|---|
| `idToOrder` | `idToOrderMap_` (`None`: no entry) |
| `heap` | what the `RestingOrder` in each pool block holds (`None`: free) |
| `queue[l]` | the list of level `l` from `head_` to `tail_`, as a sequence of blocks |
| `volume[l]`, `best[s]` | `totalVolume_`, `bestPrice_` |
| `pc`, `call`, `remaining`, `submission`, `outcome`, `cursor`, `pruned` | the locals of the call in progress and the result it builds |

`pc` is `idle` between calls, `matching` in the match loop, `resubmit` between
the two halves of `modify_order`, `pruning` in the session-end walk and `done`
when the result is ready. The four submission paths have the same match loop
(the code repeats it four times) and differ in the check before it and in what
happens after it; the market path is the loop without a limit.

| Action | Code |
|---|---|
| `SubmitOrder` (`RejectSubmission`, `KillSubmission`, `StartMatching`) | the checks of `submit_limit_order`, `submit_market_order` and the FOK liquidity count |
| `TakePart`, `TakeWhole` | the two branches of a loop iteration |
| `FinishFilled`, `FinishResting`, `FinishCanceled` | what follows the loop |
| `CancelOrder`, `CancelNotFound` | `cancel_order` |
| `ModifyOrder`, `ModifyRefused`, `Resubmit` | `modify_order` |
| `SessionEnd`, `EnterLevel`, `KeepOrder`, `PruneOrder`, `LeaveLevel`, `FinishLadder` | `on_session_end` down to the list walk; `quantityPruned` counts the shares of one level in a signed `Quantity`, which may overflow (`SharesWith`), and joins `sharesErased` when the level is left |
| `Return` | the caller takes the result |

Abstractions: the pool hands out *some* free block (which is what `BlockPool`
promises and `MemoryPool` is shown to keep); a list is a sequence (`FifoLevels`,
kept by `PriceLevel`); `sharesErased` is unsigned and 64 bits wide in the code and an
integer here, so that a number below zero stands for the one that is 2^64 larger; a ladder scan returns the first non-empty level in scan
order, starting where the code starts and not looking ahead of it
(`PriceLadder` runs the loop); orders are removed from the middle of a list by
finding their block. A step
is a loop iteration, so everything inside one iteration is atomic; that is
exact for a single-threaded program. Once a call has returned early, its
request is forgotten (`Plain`), which no later step could observe.

`OrderBookFaults` adds two ways for a call to leave. `Blocks` is then all the memory
there is: where the remainder of an order is to rest and no block is free, the
pool grows and `operator new` throws (`AllocateThrows`); and `emplace_back` on the
vector of executions, the first thing a loop iteration does, may throw at any
iteration (`RecordThrows`). The book stays as it is and the caller gets no result
(`Thrown`). The abstract book allows this as `Fail`. That `idToOrderMap_.emplace`
throws is left out: it runs after the order was linked into its level, and a
throw there leaves an order that nobody can name.

### MemoryPool and the code

Blocks are numbered in the order they were acquired. `memory[b]` is the union
`MemoryBlock`: an order while the block is in use, the link `next_` while it is
free; writing one overwrites the other. `slabs`, `firstFree`, `totalElements`
and `currentlyAllocated` are the members of the class. `acquired` counts what
`operator new` has handed out, remembered or not. `owned` is not in the code: it
is what the holders of the pointers know, and is compared with what the blocks
really hold.

| Action | Code |
|---|---|
| `AllocateFree` | `allocate` with a block on the free list |
| `AllocateGrowing` | `allocate` without one: `allocate_slab`, `push_back`, doubling |
| `AllocateThrowing` | the same when `slabs_.push_back` throws |
| `Update` | the book changes an order in place |
| `Deallocate`, `Destroy` | `deallocate`, the destructor |

A caller gives back only what it was handed: `Deallocate` chooses among `owned`,
as `Coherent` of `OrderBook` justifies. An `operator new` that throws changes
nothing and is no step. After `Destroy` the pool is gone, so these runs do not
look for deadlock.

### PriceLevel and the code

`head`, `tail`, `totalVolume` and `orderCount` are the members of a level;
`next`, `prev`, `level`, `quantity` and `lifetime` those of the order in a block;
`ptr`, `following` and `result` the locals of `prune_day_orders`. Every list
operation is a step that follows and assigns the pointers as the code does.
`prune_day_orders` takes a step per order it keeps and two per order it prunes:
`PruneOrder` reads `next_`, counts and unlinks; `Callback` is the book freeing
the order, after which the pool's own link lies where `next_` was. The shares
taken from an order are always fewer than it has, as in the book. The sum
`quantityPruned_` is a signed int: when it overflows, both the wrapped and the
exact value are outcomes the build can produce. `FifoLevels` is the mapping
target: the queue is what following `next_` from `head_` meets.

### PriceLadder and the code

`levels` is the vector, each level taken at its shares of either lifetime; `i`
is the index of the loop that runs (`pc`), unsigned: one below zero is
`IndexEnd - 1`. A step is an iteration. The buy loops look at a level and then
compare the index, the sell loops compare first (`Looks`, `Ended`). `Rest` and
`Leave` are what the book does to a ladder from outside, with the conditions
under which it sets the best price or has it found again.

| Action | Code |
|---|---|
| `ScanHit`, `ScanOn`, `ScanMiss` | `update_best_price_from_given` |
| `StartCounting`, `CountEnough`, `CountOn`, `CountShort` | `has_sufficient_marketable_liquidity` |
| `StartListing`, `ListOn`, `ListEnd` | `get_top_levels` |
| `StartPruning`, `PruneLevel`, `FinishPruning` | `prune_day_orders` |

### ItchReplay and the code

The module extends `OrderBook` and keeps its variables: adding is `PlaceOrder`,
deleting is `CancelResting`, the helpers the submissions use. Its own are the
locate code, the six counters and the replacement in progress. `OnMessage` takes
a message as a record of its decoded fields and dispatches to one handler per
kind; one step handles one message, except that
`replay_replace_visible_order` is two, the deletion (`OnOrderReplace`) and the
addition (`AddReplacement`), which checks everything again. Messages with and
without attribution or price have identical handlers. Messages of other stocks
change nothing. `Narrowed` is the conversion of the unsigned shares to
`Quantity`. `PrintSummary` is the values that `print_summary` prints; layout is
left out. In `VisibleBook` a replacement is one step: that the two halves map to
it, the second to a stutter, is what makes it all or nothing.

### ItchMessages, ItchParser and the code

`Fields` lists what each decoder reads, in its order, with the width of each
field; `ReadBigEndian` puts a number together from its bytes, and `DecodedFrom` is
the message that a decoder returns when only so many bytes of it are there: the
buffers are zero beforehand, so a field that is cut off loses its low bytes. A
file is a sequence of frames with a type, a length and a message, and a number
of bytes that are there. `pos` is the position in the file. A read moves it, at
most to the end; the decoders read as many bytes as their fields are wide, and
whether that is what the length prefix says is checked and not assumed. A
message that is cut off is decoded and handed on before the stream is asked
whether it failed, as in the code.

### ItchSession and the code

`ReplayMain.cpp`: `ItchParser` and `ItchReplay` are both extended. `Decode` of the
one and `OnMessage` of the other are conjoined in one step (`Parse`), since the
parser calls the engine; `Replace` is the second half of a replacement, which the
parser waits for.

| Action | Code |
|---|---|
| `RefuseArguments`, `Start` | `main` up to the call of `parse`: `parse_stop_time`, the other arguments, opening the file |
| `Parse`, `Replace` | `parse` and the handler it calls |
| `Complete`, `Fail` | `print_summary` and `EXIT_SUCCESS`; the exception and `EXIT_FAILURE` |

How digits become numbers is left out: a stop time is three numbers, of any
value. What a capture means is `Meaning`, a recursive function over its frames
(`After` says what one message adds), and `MeaningOfCapture`; both are written from
the fields of the messages alone and use no operation of the engine or the book.

### Benchmarks and the code

A benchmark is a record: pool size, number of prices, untimed calls, timed
calls, and the path that its name and comment give each timed call: status, number
of trades, place of a cancelled order in its queue,
levels looked at by a killed order, what a session end prunes. `Call`
makes the next call on `LimitOrderBook`, `Serve` is the book serving it, `End` the
end of the program with the check that the latency program makes. Batch size and
depth are parameters; clocks and the results file are left out.

Three comments are not true of the code under them. `path` says of
`BM_SubmitIOCSameLevelPartialFill` and `BM_ModifyToAggressivePartialFillRest` what
their comments say. `Misdescribed` names the calls that do not take that path, and
`EachCallTakesItsPath` says that these do not and that all others, of all benchmarks,
do. `BM_SubmitFOKSameLevelFullFill` is taken by its name, which its comment
contradicts.

## 3. Runs

| Run | Question | Instance | Size |
|---|---|---|---|
| `book_safety` | eight invariants, and four properties of steps | 3 ids, 3 blocks, prices 1..3, quantities {0, 1, 3}, `QuantityEnd` 16, symmetric | 212k states |
| `book_memory` | with memory running out and records failing: `LimitOrderBook` is implemented, every call returns or throws, nothing traded or modified is lost to a full pool | 3 ids, 2 blocks, prices 1..2, quantities {0, 1, 2} | 161k |
| `zero_fok` | the assertion of `PriceLadder.cpp:132` | 2 ids, quantities {0, 1} | violated |
| `pool_blocks` | orders, free chain, counters, growth, destruction; `BlockPool` is implemented | 1 block doubling to 8, 2 orders, symmetric | 170k |
| `pool_throwing` | the destructor frees everything, when the slab vector may fail to grow | 2 blocks doubling to 4 | violated |
| `level_lists` | lists, caches, walk and totals; `FifoLevels` is implemented | 4 blocks, 2 levels, quantities {1, 2}, `QuantityEnd` 16, symmetric | 127k |
| `level_overflow` | the totals when a `Quantity` is narrow | 3 blocks, 1 level, quantities {1, 3}, `QuantityEnd` 4 | violated |
| `ladder` | the best price, the count, the top levels; loops stay inside and end | prices 2..4, both sides, 0..2 shares of each lifetime, indices mod 8 | 196k |
| `replay` | soundness, counters; `VisibleBook` is implemented | 3 ids, 2 prices, shares {0, 1, 2}, 7 messages | 33k |
| `replay_wide` | level volumes when shares exceed a `Quantity` | 2 ids, shares {1, 6}, `QuantityEnd` 4 | violated |
| `session` | framing, which messages are applied, and the printed summary against the capture | three openings and up to two of twenty frames, cut after any byte of the last one | 601k |
| `bench` | which calls take the path that name and comment give them, the pool and the exit code | batches 2..4, depths 1..3, prices 1..12 | 3.4k |

*Bounds.* There is no bound on the number of calls: the state spaces are
exhausted. Three ids give a level with three orders, one of which can be taken
from the front, the middle or the back, and a level that is emptied while two
others hold orders. Three prices give a best level, a gap and a level behind
it, and limits run one tick past each end. Quantities 1 and 3 give trades that
use up the maker, the taker or both, and partial fills over one, two and three
makers; 0 is the request that asks for nothing. With as many blocks as ids the
pool never runs out, as the real one seldom does; `book_memory` has a block less
than ids, so that the third order finds the pool full, and a third order that
trades first finds the block of its maker. `MaxElements` bounds the blocks a
pool acquires: from one block to eight is three doublings, so a slab is threaded
behind free lists of every shape, including those that were rewoven by
deallocations in every order. Two orders tell an overwritten block from an
intact one.

Four blocks and two levels give lists of up to four orders with a block that
goes from one level to the other; two orders that are pruned in a row, at the
front, in the middle and at the end, fit in a list of four. `QuantityEnd` 16
holds the sum of all quantities and is the case in which the totals are exact; so it
does in the runs of the book, where no level holds more than 9 shares.
Three levels give the ladder a first, a middle and a last index, and
`MinPrice` 2 keeps prices and indices apart; `MaxDepth` 4 is one more than
there are levels, and the shares asked for go one beyond what a full ladder
holds. `MaxMessages` 7 is two additions, a replacement, reductions and a
deletion with refusals between them; it bounds the counters. In `session` a byte
is a bit (`Base` 2): fields keep their width and order, and numbers stay small. The
openings name the stock, or miss the directory, or leave a two-sided book; up to
two more frames put every type in front of every other and behind it, at the stop
time and late, for the stock and for another, acceptable and refused; an unknown
type, a wrong length and the empty frame that ends a capture are among them. Cuts
of up to 16 bytes reach from the last field of a message into its order number.
`CapturesFit` has TLC evaluate that these captures satisfy the hypotheses of the
theorems about the program, `FeedFits` and `VolumesFit`. In
`bench` odd and even batches tell how a batch is used up, and a depth of three
makes sweeps over several levels.

*Symmetry.* Ids, blocks, levels of `PriceLevel` and locate codes are only
compared for equality; in `session`, where ids are numbers read from bytes, only
the blocks are symmetric. The runs with liveness do not use it.

*Fairness.* `FaultSpec` has weak fairness of `FaultRunning`, the steps of a call in
progress, those that throw included: the thread that made the call keeps
running. Callers need never call, and no step is ever made to throw. The
`FairSpec` of `PriceLadder` is the same for its loops (`Looping`).

*Properties.* Each is stated in words above its definition in `OrderBook`. The
ones that need the longest behaviours to break: `BestPriceIsBest` (a rescan that
starts in the wrong place is harmless until another level fills),
`FillOrKillFillsAll` (relates the count over cached volumes to the later
trades), `PriceTimePriority` and `QueuePlaceIsKept` (what every step does to
every pair of orders), `SessionEndAccounts` (the totals against the book; a lost
best price makes the walk skip a ladder), `OutOfBlocksLosesNothing` (the block
that a cancelled or traded order gave back is what saves the call).

In the components: `NothingIsLost` (chain and slabs against what was acquired),
`WalkMissesNoOrder` (the walk stands on nodes that are freed
and reused), `ListsAreSound` (a pointer not reset is harmless until its block comes
back), `QueriesAreRight` (both early exits and both loop shapes against a sum),
`ImplementsVisibleBook` (two steps that have to look like one),
`AppliesThePrefix` (what the engine got against the whole file),
`SummaryTellsTheCapture` (decoder, parser, engine, book and summary against the
meaning of a capture) and `EachCallTakesItsPath` (the calls of a batch against a
book that the calls before them changed).

*What the runs found.* A fill-or-kill order for zero shares passes every check of
`submit_limit_order` and reaches `assert(requiredLiquidity > 0)`
(`src/core/PriceLadder.cpp:132`): a debug build aborts, a release build answers
`FILLED` when the other side is marketable and `KILLED` when it is not. And the
pool does not free what it owns on one path: `allocate` acquires a slab before
`slabs_` grows (`src/core/MemoryPool.hpp:53`), and if `push_back` throws the slab
is in no list. The shares of the DAY orders of one level are summed in an int32
(`src/core/PriceLevel.hpp:58`), so the session-end result is wrong when they
exceed 2^31-1 together. ITCH shares of 2^31 or more become a negative
`Quantity` (`replay/engine/ItchReplayEngine.cpp:33`) that passes the zero check
and wraps the volume of the level. And three benchmarks do not measure what the
comment above them says; `EachCallTakesItsPath` states the first two as exceptions.
The orders of `BM_SubmitIOCSameLevelPartialFill`,
"Partially filled then cancelled orders", are all filled: each is for one share and
the ask they meet is larger than the batch. The replacements of
`BM_ModifyToAggressivePartialFillRest`, "partially filling and resting the replacement
remainder", take two asks each of as many asks as there are calls, so the first half
of a batch is filled and the second half rests without a trade; only the middle call
of an odd batch does what the comment says, and the registered sizes are even. The
orders of `BM_SubmitFOKSameLevelFullFill`, "FOK limit orders that each fill on unique
price levels", fill on one level, as their name says. Every other property holds.

## 4. Proofs

Every proof is for all values of the constants. What the runs check and the
theorems below state are the same definitions.

### The book

`OrderBookProofs` proves, for every set of ids and blocks, every set of natural
quantities and every price range:

| Theorem | Statement |
|---|---|
| `TypeCorrect` | `Spec => []TypeOK` |
| `BookCoherent` | `Spec => []Coherent` |
| `BestPriceCorrect` | `Spec => []BestPriceIsBest` |
| `NeverCrossed` | `Spec => []NotCrossed` |
| `ModifyNeverLoses` | `Spec => []ModificationCompletes` |
| `TradesRespectPriority` | `Spec => PriceTimePriority` |
| `NobodyOvertakes` | `Spec => QueuePlaceIsKept` |

*Argument.* The invariants are one inductive invariant, `IInv`. None of them is
inductive alone. A pointer followed in the match loop is live only because the
best price names a non-empty level, so typing needs `Coherent` and
`BestPriceIsBest`. `BestPriceIsBest` after a removal needs that nothing is ahead
of the level that was emptied, because the scan does not look there
(`BestFromProperties`, `BestAfterRemovalIsBest`); the minimum of a set of prices
is found with the well-foundedness of `<` on the naturals (`BestExists`).
`NotCrossed` needs the best price of the other side at the moment the loop
stops (`FinishRestingKeepsIInv`). `ModificationCompletes` needs that the id of a
taker stays free until it rests (`CallInv`). `Coherent` rests on
`TakeOutKeepsCoherence`, `PlaceOrderKeepsCoherence` and `ReduceKeepsCoherence`,
which are about the three data structures and used by fills, cancels and prunes
alike. There is one lemma per action or family of actions, then `NextKeepsIInv`.

A trade takes from the front of the level that the cached best price names, so
`BestPriceIsBest` and the agreement of queues and pool give priority over every
other order of that side (`TakingOrderHasPriority`), and no other order loses
shares in a step of the match loop (`OnlyTakingOrderShrinks`). Taking an order out
of a queue closes the gap in order, and a block that joins is free and hence in
no queue (`TakeOutNoOvertaking`, `PlaceOrderNoOvertaking`).

The second half of the module proves what is said of shares:

| Theorem | Statement |
|---|---|
| `VolumesAreSums` | `Spec => []VolumeIsSum` |
| `FillOrKillIsAllOrNothing` | `Spec => []FillOrKillFillsAll` |
| `ResultsAreTrue` | `Spec => []ResultTellsWhatHappened` |
| `NoShareIsLost` | `Spec => TradesBalance` |
| `SessionEndIsAccounted` | `Spec /\ []LevelsFit => SessionEndAccounts` |

*Argument.* The sums of the model are those of the community modules, a fold with
a choice in it. `SumProofs` says what the proofs need of it: the sum of nothing,
of one element more or less, of two disjoint sets, along a bijection, of one
value changed, and that more elements of natural numbers are no less. Induction
over the set being out of reach, each of these takes a *smallest* set for which
it fails, which exists because inclusion is well-founded on the subsets of a
finite set (`SmallestSet`), and removes the element that the fold chooses.
Volumes are compared with the shares *held* in the blocks of a level (`HeldOn`),
not with its queue: a block is taken out, put in or made smaller, wherever it is
queued, and each action of the book is one of the three or none (`Removes`,
`Reduces`, `Adds`, `Keeps`; `EffectsKeepVolumes`). The queue comes last, as a
bijection onto the blocks (`QueueHolds`). `FillOrKillFillsAll` needs more than it
says: while the loop runs, what the taker still wants is at most what is held
within its limit (`ResultInv`), which is true at the start because the count
over cached volumes is that sum (`CountedIsHeld`) and stays true because a trade
lowers both by the same number. `SessionEndAccounts` needs that every DAY order
is still ahead of the cursor (`StillAhead`, `WalkInv`), which would be false of a
walk started from a wrong best price.

`LevelsFit` says that no level holds 2^31 shares or more (`QuantityEnd`). It is a
hypothesis of the two theorems that speak of the totals of a session end, as the book
does not see to it: the shares of a level's DAY orders are added up in a `Quantity`
first, and without the hypothesis the totals can be wrong, as `level_overflow` shows
of one level. The invariant that uses it is `CountFits`: what has been counted on the
level of the walk and what still rests there fit a `Quantity` together. The bound on
the level alone would not be inductive, since a prune makes the level smaller and the
count larger.

`TradesBalance` compares the shares that rest with the shares that the result
reports, in number only; which order loses them is `PriceTimePriority`.

`OrderBookFaultsProofs` proves of the book whose calls may throw, for any number of
blocks:

| Theorem | Statement |
|---|---|
| `ExceptionsKeepBookSound` | `FaultSpec => [](TypeOK /\ Coherent /\ BestPriceIsBest /\ NotCrossed)` |
| `ExceptionsKeepSharesSound` | `FaultSpec => [](VolumeIsSum /\ FillOrKillFillsAll /\ ResultTellsWhatHappened)` |
| `PoolThrowsBeforeAnyLoss` | `FaultSpec => OutOfBlocksLosesNothing` |
| `CallsAreBounded` | `FaultSpec => StepsRunOut` |
| `BookImplementsPromise` | `FaultSpec /\ []LevelsFit => ImplementsLimitOrderBook` |

*Argument.* `IInv` and the invariants of the shares survive an exception, because
the throwing statements come before anything of their iteration is changed
(`ThrownKeepsIInv`, `ThrownKeepsSharesInv`). The third needs that a call that has
taken an order out of the book finds a free block (`BlockIsSaved`): the block is
freed in that step, and nothing else allocates before the call does.

`CallsAreBounded` is the safety half of `CallsReturn` (`StepsRunOut` was
checked on the instance of `book_memory` before it was proved). `StepsLeft` bounds the steps a
call can still take, and each step lowers it, so no call runs on for ever. In the
match loop it counts the resting orders, since an iteration removes one or is the
last. In the session-end walk it counts the orders that the cursor has not passed
(`StillAhead`) and the levels it has not left. It decreases at an order the walk keeps
because the order is left behind, at one it erases because the order is gone while
the cursor stays, and at the end of the bids because every ask was counted as ahead
(`KeepOrderNearsEnd`, `PruneOrderNearsEnd`, `FinishLadderNearsEnd`). This uses
`Coherent`, without which an order might stand in two places of a queue.

The refinement has one lemma per action (`SubmitImplements`, `TakePartImplements`,
..., `StepImplements`). Four lemmas say how the visible book changes when an order
is taken out, rests, loses a part or is pruned (`TakeOutShows`, `RestingShows`,
`PartShows`, `PrunedShows`). The rest is about what the two books ask
differently: the code asks the best price and the abstract book asks the levels
for an order to match (`MarketableAre`, `MatchableIsWanted`), the code adds up cached
volumes and the abstract book adds up orders (`LiquidityIsOffered`), the code
finds an order by its id and the abstract book by searching (`RestingIsMapped`,
`PlaceOfFacts`).

*Assumptions* are those of `BookTypes` and `OrderBook`: the price range is not
empty (the constructor of `OrderBookConfig` throws otherwise), quantities are
natural numbers below `QuantityEnd` (the first is checked by no entry point, see the
hazards; the second is the width of a `Quantity`, `QuantityIsSigned`), and `None` is a
value of its own.

### The level

`PriceLevelProofs` proves, for every finite set of blocks, every set of levels
and lists of any length:

| Theorem | Statement |
|---|---|
| `LevelTypeCorrect` | `Spec => []TypeOK` |
| `LevelsAreSound` | `Spec => []ListsAreSound` |
| `WalkIsComplete` | `Spec => []WalkMissesNoOrder` |
| `LevelTotalsAreExact` | `TotalsFit => (Spec => PruneTotalsAreExact)` |
| `LevelImplementsFifo` | `Spec => ImplementsFifoLevels` |

*Argument.* `IsList` says that a sequence of distinct blocks is what `head_`,
`tail_`, `next_` and `prev_` describe. Appending a block and taking out any block,
first, last, both or neither, keep it (`ListGrows`, `ListShrinks`), and writing to
blocks of other lists leaves it alone (`ListStays`); these three are the whole of
the pointer reasoning, and `pop_front` is a removal of the first block
(`PopIsRemoval`). The properties and the refinement do not speak of such a
sequence but of `Walk`, a recursive function that follows the pointers. The two
are joined by uniqueness: two functions that satisfy the recursive equation are
equal, since otherwise there is a first number at which they differ (`MeetsOnce`),
and the suffixes of the list satisfy it (`WalkMeets`, `ListIsWalked`).

The invariant, `LevelInv`, has two parts. `LevelsSound`: each queue is a list, of
exactly the orders that name this level; the caches are their sum and number; an
order on no level that is not yet freed has no predecessor. `WalkSound`: between
two iterations the cursor is at a place of the list before which every order is
GTC, and during the callback the node that was unlinked is on no level and the
cursor is already behind it. `WalkMissesNoOrder` alone is not inductive: that the walk
has passed no DAY order over needs the place, and that it does not stand on a
freed block needs that the blocks of a list are constructed.

`TotalsFit` says that the largest quantity times the number of blocks fits a
`Quantity`. Without a hypothesis of this kind the property is false, which is
what `level_overflow` shows; the instance of `level_lists` satisfies it
(2 * 4 < 16). The refinement has one lemma per action; `DroppedIsRemoved` says
that a list without its `k`-th block is the queue without its `k`-th order.

*Assumptions:* blocks are finitely many (`BlocksAreFinite`; a program has no
others), `None` is neither a block, a level nor an order, `QuantityEnd` is
positive.

### The ladder

`PriceLadderProofs` proves, for every price range, either side, any bound on the
shares of a level and any depth:

| Theorem | Statement |
|---|---|
| `LadderTypeCorrect` | `FairSpec => []TypeOK` |
| `BestPriceIsForemost` | `FairSpec => []BestIsForemost` |
| `QueriesAnswerFromLevels` | `FairSpec => []QueriesAreRight` |
| `LoopsAreBounded` | `FairSpec => LoopsRunOut` |

*Argument.* The invariant, `LadderInv`, is the same for the three loops: the prices
strictly ahead of the one at the index are exactly those that the loop has dealt
with. While it scans none of them has shares (`ScanInv`), while it counts what is
available is their sum (`CountInv`), while it lists they are the list (`ListInv`).
`Within` says that the index is a level's, or just past the last for a sell
ladder; with `IndexHoldsLevels` the unsigned index then never leaves the vector,
although the buy loops go down to zero (`AdvanceFacts`, `EndFacts`). Both early exits of
the count are right because shares are natural numbers, so that more levels only
add to the sum. `LoopsAreBounded` is the safety half of `LoopsEnd`: the levels behind the
index, in the direction of the loop, get fewer with each iteration
(`AdvanceLeavesFewer`), which again needs that the index does not wrap.

*Assumptions:* the range is not empty and there are fewer levels than an index
can count (`IndexHoldsLevels`, 2^64 in the code).

### The pool

`MemoryPoolProofs` proves, for every initial size, every bound on the memory and
every set of orders:

| Theorem | Statement |
|---|---|
| `PoolTypeCorrect` | `Spec => []TypeOK` |
| `PoolKeepsOrders` | `Spec => []OrdersIntact` |
| `PoolCountersAgree` | `Spec => []CountersAgree` |
| `PoolReuses` | `Spec => ReusesBeforeGrowing` |
| `PoolLosesNothing` | `Spec => []NothingIsLost` |
| `PoolIsBlockPool` | `Spec => ImplementsBlockPool` |

*Argument.* The invariant `PInv` says that the free blocks are `Chained`: some
sequence without repetition enumerates them, starts at `firstFree_` and follows
the links to the end. Taking the first block, giving one back, threading a new
slab and writing elsewhere each keep a chain (`ChainShrinks`, `ChainGrows`,
`SlabIsChained`, `ChainStays`), and a chain is empty exactly when it has no first
block (`ChainEnds`), which is why the pool grows only when nothing is free.
Without it `OrdersIntact` is not inductive: the block that is about to be handed
out must not be in use. `NothingIsLost` follows the links with a recursive
function for as many steps as there are free blocks; as in `PriceLevelProofs`
that function is unique (`LeadsToOnce`), so it runs along the chain
(`ChainIsFollowed`), and the chain is a bijection, so it ends there. The refinement
has one case per action.

*Assumptions:* the pool starts with at least one block (the code does not check
this), orders are not links.

### The replay engine

The first part of `ItchSessionProofs` proves, for any set of orders and locate codes and a feed of any
length, in any order and with any content but for the shares, which must fit a
`Quantity`:

| Theorem | Statement |
|---|---|
| `ReplayTypeCorrect` | `SharesFit => (ReplaySpec => []ReplayTypeOK)` |
| `ReplayedBookIsSound` | `SharesFit => (ReplaySpec => []ReplayKeepsBookSound)` |
| `CountersAreTrue` | `SharesFit => (ReplaySpec => []CountersMatchBook)` |
| `ReplayImplementsFeed` | `SharesFit => (ReplaySpec => ImplementsVisibleBook)` |

*Argument.* A message that does anything places an order, reduces one or cancels
one (`Placing`, `Reducing`, `Cancelling`). Their effects are told once
(`PlacingEffect`, `ReducingEffect`, `CancellingEffect`), by the lemmas of the book,
and `OnMessageSteps` says which handler does which, under what condition and with
which counter. The invariant, `RInv`, adds to the soundness of the book that the
second half of a replacement, which checks everything again, cannot be refused
(`AddingIsPossible`): its id is free, its price in range, its quantity not zero.
That is why a replacement is all or nothing. `CountersMatchBook` needs the number
of resting orders (`LiveCount`), and the refinement shows the second half as a
stutter (`FinishShowsNothing`).

*Assumptions:* those of the book; the record of a pending replacement is not
`None`. `SharesFit` is a hypothesis of the theorems and not of the module: shares
of a message are unsigned and may exceed a `Quantity`. Without it
`ReplayKeepsBookSound` is false, which is what `replay_wide` shows; the instance of
`replay` satisfies it. So the feed may say anything but more shares than a `Quantity`
holds.

### The replay program

The rest of `ItchSessionProofs` proves of the replay program, for every set of captures, wherever
they are cut off, every time to stop at, price range and depth of the summary:

| Theorem | Statement |
|---|---|
| `ParserKeepsFraming` | `SessionSpec => []FramingIsKept` |
| `ParserAppliesThePrefix` | `SessionSpec => []AppliesThePrefix` |
| `SessionTypeCorrect` | `FeedFits => (SessionSpec => []SessionTypeOK)` |
| `SummaryIsTrue` | `FeedFits /\ VolumesFit => (SessionSpec => []SummaryTellsTheCapture)` |
| `CapturesFitWide` | `IdsAreWide /\ SharesAreHeld => FeedFits` |
| `DecodersReadTheLength` | the fields of each decoded type add up to the length that the parser insists on |
| `FieldsAreRoundedDown` | a field without its last bytes is read as its value rounded down, for any width and any `Base` |

*Framing.* Where a frame starts is the sum of the frames before it (`StartsAdd`), so
no two start at the same byte (`StartsGrow`, `OneFrame`). `ParserInv` says, for each
read that can be next, how far into its frame the parser is, that no frame before
it was a reason to stop, and that what was applied is the decoded frames before it,
in order (`ReadUpTo`). Neither property is inductive without that: framing after a
body needs that the body began three bytes into a frame of the expected length, and
`AppliesThePrefix` says nothing before the end. A body ends where the next frame
starts, since the widths of the fields add up (`DecodersReadTheLength`, which adds
them up for the nine types) or since the length says how much to skip (`NextFrame`).
That the time compared with the time to stop at is the one in the frame needs that
a message of which all bytes are there is read right (`WholeMessageIsRead`). How
numbers are read is a sum over bytes (`ReadingRoundsDown`), with `Power`, a
recursive function, for the weight of a byte: that its equation has a solution is
proved as in `PriceLevelProofs`, with the smallest number at which it could fail.

*Types.* `SessionInv` is the invariant of the parser, that of the replay engine
(`RInv`, kept by the lemmas of its first part) and that of `main`. Every step of
the program hands one message to the engine, finishes a replacement or leaves the
engine alone (`SessionSteps`), and the messages handed over are ones the engine may
get (`MessageFits`).

*The summary.* `ToldInv` says that what the engine holds, once no replacement is
pending, is what the frames it was handed mean, one after the other
(`AppliedMeaning`, `AppliedMeans`). That a handler does to the book what `After` does
to the meaning is one lemma per kind of message (`AddingMeans`, `ReducingMeans`,
`DeletingMeans`, `ReplacingMeans`, `DirectoryMeans`, `RefusingMeans`), joined in
`MessageMeans`. With `AppliesThePrefix` this gives the meaning of the capture at the
end, and a message that the end of the file cuts off is read with every field rounded
down (`CutOffIsRead`, `EndMeans`). What is printed of the book is then compared with
the orders: levels are the prices of orders (`PricesAreLevels`), a level's volume is the
sum of its orders, along a bijection from ids to blocks, and does not wrap
(`SharesAreVolumes`, `VolumesStayBelow`), the listed levels are those of the first
ranks (`TopLevelsAre`, `RanksTellApart`) and the cached best price is the first of
them (`BestIs`, `SideIsShown`). `Meaning` is shown to have a solution in the same way
as `Power` (`MeaningIs`).

*Hypotheses.* `FeedFits` asks that ids, locate codes and shares of the messages
fit the program's types, whichever bytes of them are there. `CapturesFitWide` shows
that for ids and codes as wide as the code has them (`IdsAreWide`: 8 and 2 bytes) only
the shares are asked for, which must fit a `Quantity` (`SharesAreHeld`); without that
the volumes are wrong, as `replay_wide` shows. `VolumesFit` says that the blocks are
too few for the volume of a level to wrap: a `Volume` has 64 bits and a `Quantity` 31,
so that 2^33 orders would have to be in memory.

*Assumptions:* captures are not empty, lengths are natural numbers and a decoded
frame has a number in each of its fields that the bytes of the field can hold
(`CapturesAreFrames`); a byte tells at least two values apart; no time is no number.

### The benchmarks

`BenchmarksProofs` proves, for all sets of batch sizes and depths:

| Theorem | Statement |
|---|---|
| `MeasurementsAreSound` | `BenchSpec => []MeasurementIsSound` |

*Argument.* The property bounds the resting orders, of which a state alone does not
say why they are no more. `CountInv` counts calls instead: there are no more orders,
with the one that is on its way, than calls so far that may leave one (`CountedTo`).
A modification takes an order out before it puts one in, whatever it trades. What
follows is that there is a block per counted call, and that no other call leaves an
order. `RunsFit` goes through the benchmarks and finds one of three reasons: all
calls are counted and fit; or no timed call can leave an order (IOC, FOK and market
orders, cancellations, the session end); or the timed calls are GTC orders that must
be filled, in the three benchmarks of `SubmitLimitOrderAggressiveBench.cpp`, whose
pool has room for the asks alone. That these are filled is not a matter of counting.
For each of the three `StockInv` gives the asks that are left at each price as a
function of the calls made and the shares still wanted (`OfOneMaker`, `OfOneLevel`,
`OfLevels`; `Sold`, `SoldSteps`): one ask that shrinks by a share per call, one level
that loses an order per call, and levels that go from the lowest price up, because
the best level is the one above what is sold. So the last timed call still finds
enough (`StockSuffices`). For the latency program
`LatencyInv` says that nothing but bids rests, so that each call adds exactly one
order, and the number is right when the script ends (`LatencySucceeds`). Behind both
is `NumberedInv`: what rests is what is left of an earlier call, and no two calls
have the same id, so that none is rejected. These invariants were checked on the
instance of the run `bench` before they were proved.

*Assumptions:* batch sizes and depths are positive (`SizesArePositive`, as the
benchmarks are registered); the ladder of the book starts at the price 1 and is long
enough for each benchmark (`LaddersFit`), because a benchmark brings its own ladder
and the model has one for all; `NoneIsNoExit`.

### Only model-checked

- `CallsReturn` and `LoopsEnd`: liveness under fairness is out of the prover's
  reach. What does not need fairness is proved: the steps of a call and of a loop
  are bounded (`CallsAreBounded`, `LoopsAreBounded`). That one in progress can always
  take its next step is what TLC adds.
- `EachCallTakesItsPath`: for every batch size it would take the exact state of the
  book after so many calls of a batch, for each benchmark, as `StockInv` gives it for
  three of them. TLC evaluates it for batches of up to four.

The proofs have been checked with every time limit cut to a sixth, so that they do not
depend on the speed of the machine.

## 5. Plan

The components are modelled, and every safety invariant that a run checks is proved.
What is left is `EachCallTakesItsPath` for every batch size.

## 6. Not modelled

- Scripts, plots, recorded results, tests and build files: outside the engine.
- How digits of an argument become numbers, the wording and layout of what is
  printed, clocks and the results file of the benchmarks: no property is about
  them.
- Negative quantities in submissions, a pool built for no elements, and an
  `idToOrderMap_.emplace` that throws: the code has no check and no handler for
  any of them, so that there is no promise to state; they are listed under the
  hazards.
- Pool sizes, the orders at a level and `check_level_exists`, which each read one
  member that an invariant already describes; `check_available_liquidity` has no
  caller.

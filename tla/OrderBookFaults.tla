-------------------------- MODULE OrderBookFaults ---------------------------
(***************************************************************************)
(* OrderBook when memory runs out.  Blocks is all the memory the pool can   *)
(* get: an allocation that finds no free block makes the pool grow, and     *)
(* growing throws std::bad_alloc.  The vector of executions may fail to     *)
(* grow as well.  Nothing in the engine catches the exception, so the call  *)
(* leaves with the book as it is at that point, and the caller has no       *)
(* result.                                                                  *)
(*                                                                         *)
(* The id map is taken to have room: emplace runs after the order has been *)
(* linked into its level, and a throw there would leave it there unmapped. *)
(***************************************************************************)
EXTENDS OrderBookRefinement

Free == {b \in Blocks : heap[b] = None}

\* The call leaves by an exception.
Thrown ==
    /\ pc' = "idle"
    /\ call' = NoCall
    /\ remaining' = 0
    /\ submission' = NoSubmission
    /\ outcome' = NoOutcome
    /\ UNCHANGED <<bookVars, cursor, pruned>>

\* memoryPool_.allocate throws where what is left of the order is to rest.
AllocateThrows ==
    /\ pc = "matching"
    /\ ~Matchable
    /\ remaining > 0
    /\ call.tif \in Lifetimes
    /\ Free = {}
    /\ Thrown

\* executions_.emplace_back throws, the first thing an iteration does.
RecordThrows ==
    /\ pc = "matching"
    /\ Matchable
    /\ Thrown

FaultRunning == Running \/ AllocateThrows \/ RecordThrows

FaultNext == Calling \/ FaultRunning

\* A call runs on its caller's thread until it returns or throws.
FaultSpec == Init /\ [][FaultNext]_vars /\ WF_vars(FaultRunning)

-----------------------------------------------------------------------------

\* Running out of blocks costs nobody anything: the pool throws only under a
\* fresh submission that has not traded.  One that has traded has freed the
\* block of an order it used up, and a modification the block of the order it
\* cancelled, and in both cases that block is still free when the order rests;
\* so no execution goes unreported and no modified order is lost this way.
OutOfBlocksLosesNothing ==
    [][pc = "matching" /\ ~Matchable /\ pc' = "idle" =>
          call.op = "submit" /\ submission.executions = <<>>]_vars

=============================================================================

---------------------------- MODULE MCRefinement ----------------------------
(***************************************************************************)
(* OrderBookRefinement on a small instance, driven by the results-only     *)
(* client of ResultHarness.                                                *)
(***************************************************************************)
EXTENDS OrderBookRefinement, ResultHarness

CONSTANTS id1, id2, id3

MCLevels == {"Buy", "Sell"} \X (0 .. kL1Count * kWordBits - 1)

\* Ids are opaque to the engine, the reference book and the client.
IdSymmetry == Permutations(OrderId)

(***************************************************************************)
(* What the rest of a behaviour can depend on: not the data left in free   *)
(* slots, not the index left when there is no best, not the result of a    *)
(* call that has returned.  Nothing reads these before writing them.       *)
(***************************************************************************)
HarnessView ==
    <<[h \in Resting |-> <<order[h], links.parent_level[h]>>],
      links.prev, links.next, links.head_, links.tail_, links.free_head_,
      [s \in Side |-> IF book[s].has_best_ THEN book[s]
                      ELSE [book[s] EXCEPT !.best_price_idx_ = 0]],
      pc, call, quantity,
      IF pc = "idle" THEN <<>> ELSE out,
      fifo, free, live_>>
=============================================================================

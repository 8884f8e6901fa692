------------------------- MODULE ArraySideBookSpec -------------------------
(***************************************************************************)
(* The life of one ArraySideBook, as its only client, OrderBook, drives    *)
(* it.  occupied is the set of indices whose PriceLevel is not empty.  A   *)
(* cancel empties a level without telling the side book: the level stays   *)
(* active, a "ghost", even when it is the best.  A level emptied by        *)
(* matching is erased before the matching loop goes on.                    *)
(*                                                                         *)
(* erasing is TRUE while the client is inside erase_best(), whose loop     *)
(* clear_ghost_best_level() takes one step per level it drops.             *)
(***************************************************************************)
EXTENDS ArraySideBook

CONSTANT IsAsk

ASSUME IsAskAssumption == IsAsk \in BOOLEAN

VARIABLES
    book,       \* active_tree, best_price_idx_, has_best_
    occupied,   \* indices i with ~levels_[i].empty()
    erasing

vars == <<book, occupied, erasing>>

TypeOK ==
    /\ book \in SideBook
    /\ occupied \in SUBSET Bits
    /\ erasing \in BOOLEAN

Init ==
    /\ book = EmptyBook
    /\ occupied = {}
    /\ erasing = FALSE

BestOccupied == book.best_price_idx_ \in occupied

(***************************************************************************)
(* add_limit_order() rests a remainder: get_or_create() and push_back().   *)
(***************************************************************************)
Rest(idx) ==
    /\ ~erasing
    /\ book' = GetOrCreate(IsAsk, book, idx)
    /\ occupied' = occupied \cup {idx}
    /\ UNCHANGED erasing

\* cancel_order() or modify_order() takes the last order of a level away.
Cancel(idx) ==
    /\ ~erasing
    /\ idx \in occupied
    /\ occupied' = occupied \ {idx}
    /\ UNCHANGED <<book, erasing>>

\* The matching loop takes the last order of the best level.
ConsumeBest ==
    /\ ~erasing
    /\ book.has_best_
    /\ BestOccupied
    /\ occupied' = occupied \ {book.best_price_idx_}
    /\ erasing' = TRUE
    /\ UNCHANGED book

\* Seeded fault: erase_best() without clear_ghost_best_level().
EraseBestStopsAtGhost ==
    /\ book.has_best_
    /\ ~BestOccupied
    /\ book' = DropBest(IsAsk, book)
    /\ erasing' = FALSE
    /\ UNCHANGED occupied

(***************************************************************************)
(* erase_best(), entered after ConsumeBest or when the matching loop meets *)
(* a ghost at the best price, and each turn of clear_ghost_best_level().   *)
(***************************************************************************)
EraseBest ==
    /\ book.has_best_
    /\ ~BestOccupied
    /\ book' = DropBest(IsAsk, book)
    /\ erasing' = (book'.has_best_ /\ book'.best_price_idx_ \notin occupied)
    /\ UNCHANGED occupied

Next ==
    \/ \E idx \in Bits : Rest(idx) \/ Cancel(idx)
    \/ ConsumeBest
    \/ EraseBest

Spec == Init /\ [][Next]_vars

-----------------------------------------------------------------------------
(***************************************************************************)
(* The L2 word names exactly the non-zero L1 words, after any history of   *)
(* set() and clear(): empty() and the searches read L2 alone.              *)
(***************************************************************************)
SummaryExact == Summarised(book.active_tree)

(***************************************************************************)
(* The cached best is the extreme of the active levels, ghosts included:   *)
(* get_or_create(), erase_best() and the ghost loop maintain it            *)
(* incrementally and never rescan.                                         *)
(***************************************************************************)
BestIsExtreme == BestIsExtremal(IsAsk, book)

(***************************************************************************)
(* No order is hidden from the matching loop: every level with an order is *)
(* active and not better than the cached best, so stopping at a best price *)
(* that does not cross (even a ghost's) and reporting an empty side are    *)
(* right (report/phase7_hot_ring_cold_map_design.md:201-202).              *)
(***************************************************************************)
NothingHidden ==
    \A i \in occupied :
        /\ i \in Active(book.active_tree)
        /\ book.has_best_
        /\ ~better_idx(IsAsk, i, book.best_price_idx_)

(***************************************************************************)
(* The assertions of clear() and of find_next_set()/find_prev_set() at the *)
(* moment erase_best() calls them: the best bit is set, and once it is     *)
(* cleared the search in the direction of the side meets an active level   *)
(* whenever empty() answers no.                                            *)
(***************************************************************************)
EraseAssertionsHold ==
    book.has_best_ /\ ~BestOccupied =>
        LET i == book.best_price_idx_
            t == ClearBit(book.active_tree, i) IN
        /\ i \in Active(book.active_tree)
        /\ ~TreeEmpty(t) => \E j \in Active(t) : better_idx(IsAsk, i, j)

(***************************************************************************)
(* A step that ends erase_best() leaves the best price "exposed to outside *)
(* callers": the new best level has an order, and every occupied level is  *)
(* still active.                                                           *)
(***************************************************************************)
EraseExposesBest ==
    [][EraseBest /\ ~erasing' =>
        \/ ~book'.has_best_ /\ occupied' = {}
        \/ book'.best_price_idx_ \in occupied']_vars

(***************************************************************************)
(* The flat array keeps the promise of any side book (SidePromise): the    *)
(* best moves only as resting orders and erase_best() may move it, and     *)
(* never past an order.                                                    *)
(***************************************************************************)
Promise == INSTANCE SidePromise WITH
    Prices  <- Bits,
    NoPrice <- -1,
    best    <- IF book.has_best_ THEN book.best_price_idx_ ELSE -1

KeepsPromise == Promise!Spec
=============================================================================

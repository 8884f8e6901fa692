--------------------------- MODULE ArraySideBook ---------------------------
(***************************************************************************)
(* One side of the book: a flat array of price levels, the occupancy tree  *)
(* over it and a cached best index (array_side_book.hpp).                  *)
(*                                                                         *)
(* A side book is a record [active_tree, best_price_idx_, has_best_]; the  *)
(* array levels_ is kept by the modules that own the orders, because a     *)
(* level's emptiness is a fact about the FIFO links.  isAsk is the         *)
(* template parameter IsAsk.                                               *)
(***************************************************************************)
EXTENDS OccupancyTree

CONSTANT base_price_    \* kDefaultBasePrice = 0 in the code

ASSUME BasePriceAssumption == base_price_ \in Int

\* The prices idx_of() accepts; it asserts on any other.
Prices == base_price_ .. base_price_ + kBitCount - 1

idx_of(price) == price - base_price_
price_of(idx) == base_price_ + idx

SideBook == [active_tree : Tree, best_price_idx_ : Bits, has_best_ : BOOLEAN]

EmptyBook == [active_tree |-> EmptyTree, best_price_idx_ |-> 0, has_best_ |-> FALSE]

better_idx(isAsk, i, j) == IF isAsk THEN i < j ELSE i > j

\* Seeded fault: the cached best is set once and never improved.
GetOrCreateNeverImproves(isAsk, b, idx) ==
    [active_tree     |-> SetBit(b.active_tree, idx),
     best_price_idx_ |-> IF b.has_best_ THEN b.best_price_idx_ ELSE idx,
     has_best_       |-> TRUE]

\* Seeded fault: the level touched last becomes the best.
GetOrCreateTakesLatest(isAsk, b, idx) ==
    [active_tree     |-> SetBit(b.active_tree, idx),
     best_price_idx_ |-> idx,
     has_best_       |-> TRUE]

\* Seeded fault: only a new best is marked active.
GetOrCreateMarksOnlyBest(isAsk, b, idx) ==
    LET improves == ~b.has_best_ \/ better_idx(isAsk, idx, b.best_price_idx_) IN
    IF improves THEN [active_tree     |-> SetBit(b.active_tree, idx),
                      best_price_idx_ |-> idx,
                      has_best_       |-> TRUE]
                ELSE b

(***************************************************************************)
(* get_or_create(): the level becomes active and, if it is strictly better *)
(* than the cached best (or there is none), the new best.                  *)
(***************************************************************************)
GetOrCreate(isAsk, b, idx) ==
    LET improves == ~b.has_best_ \/ better_idx(isAsk, idx, b.best_price_idx_) IN
    [active_tree     |-> SetBit(b.active_tree, idx),
     best_price_idx_ |-> IF improves THEN idx ELSE b.best_price_idx_,
     has_best_       |-> TRUE]

\* Seeded fault: the side is declared empty whatever the tree holds.
DropBestForgetsRest(isAsk, b) ==
    [b EXCEPT !.active_tree = ClearBit(b.active_tree, b.best_price_idx_),
              !.has_best_ = FALSE]

\* Seeded fault: the bit of the dropped level is not cleared.
DropBestKeepsBit(isAsk, b) ==
    [b EXCEPT !.best_price_idx_ = NextBest(isAsk, b.active_tree, b.best_price_idx_)]

(***************************************************************************)
(* The step erase_best() and each iteration of clear_ghost_best_level()    *)
(* share: the best bit is cleared and the best moves to the next active    *)
(* level, or there is no best any more.                                    *)
(***************************************************************************)
DropBest(isAsk, b) ==
    LET t == ClearBit(b.active_tree, b.best_price_idx_) IN
    IF TreeEmpty(t)
    THEN [b EXCEPT !.active_tree = t, !.has_best_ = FALSE]
    ELSE [b EXCEPT !.active_tree = t,
                   !.best_price_idx_ = NextBest(isAsk, t, b.best_price_idx_)]

-----------------------------------------------------------------------------
(***************************************************************************)
(* Facts about a side book that the machines state as invariants.          *)
(***************************************************************************)

\* The cached best is an active level that no active level beats, and there
\* is none exactly when the tree is empty.
BestIsExtremal(isAsk, b) ==
    /\ b.has_best_ <=> Active(b.active_tree) # {}
    /\ b.has_best_ =>
        /\ b.best_price_idx_ \in Active(b.active_tree)
        /\ \A i \in Active(b.active_tree) : ~better_idx(isAsk, i, b.best_price_idx_)
=============================================================================

-------------------------- MODULE SideBooksInStep --------------------------
(***************************************************************************)
(* One client on two storages: the flat array and the map that it replaced *)
(* are given the same orders, cancels and takers.  Each matching loop      *)
(* clears the ghosts of its own storage, in its own number of calls to     *)
(* erase_best(); the rest of the client's calls are made on both.          *)
(***************************************************************************)
EXTENDS ArraySideBookSpec

VARIABLES map_levels, map_occupied, map_erasing

mapVars == <<map_levels, map_occupied, map_erasing>>

Map == INSTANCE MapSideBook WITH
    LowPrice  <- 0,
    HighPrice <- kBitCount - 1,
    levels_   <- map_levels,
    occupied  <- map_occupied,
    erasing   <- map_erasing

BothInit == Init /\ Map!Init

BothNext ==
    \/ \E idx \in Bits : Rest(idx) /\ Map!Rest(idx)
    \/ \E idx \in Bits : Cancel(idx) /\ Map!Cancel(idx)
    \/ ConsumeBest /\ Map!ConsumeBest
    \/ EraseBest /\ UNCHANGED mapVars
    \/ Map!erase_best /\ UNCHANGED vars

BothSpec == BothInit /\ [][BothNext]_<<vars, mapVars>>

-----------------------------------------------------------------------------
\* A loop has settled when it has no ghost in front of it.
ArraySettled == ~erasing /\ (book.has_best_ => BestOccupied)
MapSettled   == ~map_erasing /\ (~Map!empty => Map!best_price \in map_occupied)

(***************************************************************************)
(* The change of storage changed no trade: the two sides lose their orders *)
(* level by level in the same order, and once both loops have skipped      *)
(* their ghosts they stand before the same level or both find the side     *)
(* empty, although the array drops ghosts the map keeps and forgets its    *)
(* best where the map does not.                                            *)
(***************************************************************************)
SidesAgree ==
    /\ occupied = map_occupied
    /\ ArraySettled /\ MapSettled =>
        /\ book.has_best_ <=> ~Map!empty
        /\ book.has_best_ => book.best_price_idx_ = Map!best_price
=============================================================================

---------------------------- MODULE MapSideBook ----------------------------
(***************************************************************************)
(* SideBook (order_book.hpp), the storage of Phase 4: an ordered map from  *)
(* price to level, under the client ArraySideBookSpec has.  A level a      *)
(* cancel emptied stays in the map, and erase_best() takes the first entry *)
(* away and looks no further: skipping the ghosts behind it is left to the *)
(* matching loop.                                                          *)
(***************************************************************************)
EXTENDS Integers

CONSTANTS
    IsAsk,                  \* a Boolean
    LowPrice, HighPrice     \* integers: the range of the prices in use

Prices == LowPrice .. HighPrice

VARIABLES
    levels_,    \* the keys of the map
    occupied,   \* the prices whose level has orders
    erasing     \* the client must call erase_best() next

vars == <<levels_, occupied, erasing>>

Init ==
    /\ levels_ = {}
    /\ occupied = {}
    /\ erasing = FALSE

\* Seeded fault: the greatest price comes first on both sides.
PriceCompareGreater(lhs, rhs) == lhs > rhs

PriceCompare(lhs, rhs) == IF IsAsk THEN lhs < rhs ELSE lhs > rhs

empty == levels_ = {}

\* levels_.begin()->first
best_price == CHOOSE p \in levels_ : \A q \in levels_ \ {p} : PriceCompare(p, q)

\* try_emplace() leaves an existing entry alone; an order joins the level.
Rest(price) ==
    /\ ~erasing
    /\ levels_' = levels_ \cup {price}
    /\ occupied' = occupied \cup {price}
    /\ UNCHANGED erasing

Cancel(price) ==
    /\ ~erasing
    /\ price \in occupied
    /\ occupied' = occupied \ {price}
    /\ UNCHANGED <<levels_, erasing>>

\* The matching loop takes the last order of the best level.
ConsumeBest ==
    /\ ~erasing
    /\ ~empty
    /\ best_price \in occupied
    /\ occupied' = occupied \ {best_price}
    /\ erasing' = TRUE
    /\ UNCHANGED levels_

\* Called after ConsumeBest, or when the loop meets a ghost at the best price.
erase_best ==
    /\ ~empty
    /\ best_price \notin occupied
    /\ levels_' = levels_ \ {best_price}
    /\ erasing' = FALSE
    /\ UNCHANGED occupied

Next ==
    \/ \E price \in Prices : Rest(price) \/ Cancel(price)
    \/ ConsumeBest
    \/ erase_best

Spec == Init /\ [][Next]_vars

-----------------------------------------------------------------------------
(***************************************************************************)
(* The map keeps the promise of any side book, although ghosts stay in     *)
(* front of the orders after erase_best().                                 *)
(***************************************************************************)
Promise == INSTANCE SidePromise WITH
    NoPrice <- LowPrice - 1,
    best    <- IF empty THEN LowPrice - 1 ELSE best_price

KeepsPromise == Promise!Spec
=============================================================================

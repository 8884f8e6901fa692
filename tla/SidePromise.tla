---------------------------- MODULE SidePromise ----------------------------
(***************************************************************************)
(* What one side of the book promises the matching loop, whatever stores   *)
(* the levels: the interface comments of cached_side_book.hpp and the      *)
(* design of report/phase7_hot_ring_cold_map_design.md, to which           *)
(* array_side_book.hpp conforms as well.  There is a best price and a set  *)
(* of occupied prices; the best may be a ghost, but no occupied price is   *)
(* better, and erase_best() moves it towards worse prices without passing  *)
(* an occupied one.                                                        *)
(***************************************************************************)
EXTENDS Integers

CONSTANTS
    IsAsk,      \* asks are better when lower, bids when higher
    Prices,
    NoPrice     \* the best price of an empty side

VARIABLES
    best,
    occupied,   \* the prices with orders
    erasing     \* erase_best() has been entered

vars == <<best, occupied, erasing>>

Better(p, q) == IF IsAsk THEN p < q ELSE p > q

Init == best = NoPrice /\ occupied = {} /\ erasing = FALSE

\* get_or_create() and an order joins the level.
Rest(p) ==
    /\ ~erasing
    /\ occupied' = occupied \cup {p}
    /\ \/ (best = NoPrice \/ (best # NoPrice /\ Better(p, best))) /\ best' = p
       \/ best # NoPrice /\ ~Better(p, best) /\ UNCHANGED best
    /\ UNCHANGED erasing

Cancel(p) ==
    /\ ~erasing
    /\ occupied' = occupied \ {p}
    /\ UNCHANGED <<best, erasing>>

\* The matching loop empties the best level, which must then be erased.
ConsumeBest ==
    /\ ~erasing
    /\ best \in occupied
    /\ occupied' = occupied \ {best}
    /\ erasing' = TRUE
    /\ UNCHANGED best

\* erase_best() is entered on a ghost.
Enter ==
    /\ best # NoPrice /\ best \notin occupied
    /\ erasing' = TRUE
    /\ UNCHANGED <<best, occupied>>

\* The best moves to a worse price, or the side is empty.
Advance ==
    /\ best # NoPrice /\ best \notin occupied
    /\ erasing' \in BOOLEAN
    /\ \/ best' = NoPrice /\ occupied = {}
       \/ /\ best' \in Prices
          /\ Better(best, best')
          /\ \A p \in occupied : ~Better(p, best')
    /\ UNCHANGED occupied

Leave ==
    /\ erasing
    /\ erasing' = FALSE
    /\ UNCHANGED <<best, occupied>>

Next ==
    \/ \E p \in Prices : Rest(p) \/ Cancel(p)
    \/ ConsumeBest
    \/ Enter
    \/ Advance
    \/ Leave

Spec == Init /\ [][Next]_vars
=============================================================================

-------------------------- MODULE SideBooksProofs --------------------------
(***************************************************************************)
(* The safety of ArraySideBookSpec, and its agreement with the map it      *)
(* replaced, for both sides and every size.                                *)
(*                                                                         *)
(* The array's inductive invariant is the conjunction of the properties    *)
(* the runs check: the best can be found again after a level is dropped    *)
(* only because it was extreme before, no order is hidden only because the *)
(* dropped level was empty, and both read the tree through an exact L2.    *)
(*                                                                         *)
(* Agreement adds that every occupied level is in the map; with            *)
(* NothingHidden, the best of the array and the best of the map are then   *)
(* the same level whenever both have an order, which is what the two       *)
(* taking engines look at.                                                 *)
(***************************************************************************)
EXTENDS SideBooksInStep, ArraySideBookLemmas

IInv == TypeOK /\ SummaryExact /\ BestIsExtreme /\ NothingHidden

LEMMA InitIInv == Init => IInv
<1> SUFFICES ASSUME Init PROVE IInv
  OBVIOUS
<1> USE DEF Init
<1>1. EmptyBook \in SideBook /\ Sound(IsAsk, EmptyBook)
  BY EmptyBookSound, IsAskAssumption
<1> QED BY <1>1 DEF IInv, TypeOK, SummaryExact, BestIsExtreme, NothingHidden, Sound

LEMMA NextIInv == IInv /\ [Next]_vars => IInv'
<1> SUFFICES ASSUME IInv, [Next]_vars PROVE IInv'
  OBVIOUS
<1>1. /\ book \in SideBook /\ occupied \in SUBSET Bits /\ erasing \in BOOLEAN
      /\ Sound(IsAsk, book) /\ NothingHidden /\ IsAsk \in BOOLEAN
  BY IsAskAssumption DEF IInv, TypeOK, SummaryExact, BestIsExtreme, Sound
<1> DEFINE Kept == /\ book' \in SideBook /\ occupied' \in SUBSET Bits
                   /\ erasing' \in BOOLEAN
                   /\ Sound(IsAsk, book') /\ NothingHidden'
<1>2. SUFFICES Kept
  BY DEF IInv, TypeOK, SummaryExact, BestIsExtreme, Sound
\* A new order makes its level active; the other levels stay active, and the
\* new best is extreme among all of them.
<1>3. ASSUME NEW idx \in Bits, Rest(idx)
      PROVE  Kept
  <2>1. /\ book' \in SideBook /\ Sound(IsAsk, book') /\ book'.has_best_
        /\ Active(book'.active_tree) = Active(book.active_tree) \cup {idx}
    BY <1>1, <1>3, GetOrCreateSound DEF Rest
  <2>2. occupied' = occupied \cup {idx} /\ erasing' = erasing
    BY <1>3 DEF Rest
  <2>3. NothingHidden'
    BY <1>1, <2>1, <2>2 DEF NothingHidden, Sound, BestIsExtremal
  <2> QED BY <1>1, <2>1, <2>2, <2>3
\* Taking orders away hides none.
<1>4. ASSUME NEW idx \in Bits, Cancel(idx)
      PROVE  Kept
  BY <1>1, <1>4 DEF Cancel, NothingHidden
<1>5. CASE ConsumeBest
  BY <1>1, <1>5 DEF ConsumeBest, NothingHidden
\* The dropped level had no order.
<1>6. CASE EraseBest
  <2>1. /\ book' \in SideBook /\ Sound(IsAsk, book')
        /\ Active(book'.active_tree) = Active(book.active_tree) \ {book.best_price_idx_}
    BY <1>1, <1>6, DropBestSound DEF EraseBest
  <2>2. /\ occupied' = occupied /\ book.best_price_idx_ \notin occupied
        /\ erasing' \in BOOLEAN
    BY <1>6 DEF EraseBest, BestOccupied
  <2>3. NothingHidden'
    BY <1>1, <2>1, <2>2 DEF NothingHidden, Sound, BestIsExtremal
  <2> QED BY <1>1, <2>1, <2>2, <2>3
<1>7. CASE UNCHANGED vars
  BY <1>1, <1>7 DEF vars, NothingHidden
<1> QED BY <1>3, <1>4, <1>5, <1>6, <1>7 DEF Next

(***************************************************************************)
(* Types, for all sizes.                                                   *)
(***************************************************************************)
THEOREM SideTypeOK == Spec => []TypeOK
<1>1. IInv => TypeOK
  BY DEF IInv
<1> QED BY InitIInv, NextIInv, <1>1, PTL DEF Spec

(***************************************************************************)
(* erase_best(), get_or_create() and the ghost loop keep the cached best   *)
(* extreme among the active levels, for all sizes and both sides.          *)
(***************************************************************************)
THEOREM SideBestIsExtreme == Spec => []BestIsExtreme
<1>1. IInv => BestIsExtreme
  BY DEF IInv
<1> QED BY InitIInv, NextIInv, <1>1, PTL DEF Spec

(***************************************************************************)
(* No order is ever hidden from the matching loop, for all sizes and both  *)
(* sides.                                                                  *)
(***************************************************************************)
THEOREM SideNothingHidden == Spec => []NothingHidden
<1>1. IInv => NothingHidden
  BY DEF IInv
<1> QED BY InitIInv, NextIInv, <1>1, PTL DEF Spec

(***************************************************************************)
(* The L2 word stays an exact summary of L1.                               *)
(***************************************************************************)
THEOREM SideSummaryExact == Spec => []SummaryExact
<1>1. IInv => SummaryExact
  BY DEF IInv
<1> QED BY InitIInv, NextIInv, <1>1, PTL DEF Spec

(***************************************************************************)
(* The assertions of clear() and of the searches hold whenever             *)
(* erase_best() reaches them.                                              *)
(***************************************************************************)
THEOREM SideEraseAssertionsHold == Spec => []EraseAssertionsHold
<1>1. IInv => EraseAssertionsHold
  <2> SUFFICES ASSUME IInv, book.has_best_ PROVE EraseAssertionsHold
    BY DEF EraseAssertionsHold
  <2> DEFINE bit == book.best_price_idx_
             t == ClearBit(book.active_tree, bit)
  <2>1. /\ book.active_tree \in Tree /\ bit \in Bits /\ Summarised(book.active_tree)
        /\ bit \in Active(book.active_tree)
        /\ \A i \in Active(book.active_tree) : ~better_idx(IsAsk, i, bit)
    BY DEF IInv, TypeOK, SideBook, SummaryExact, BestIsExtreme, BestIsExtremal
  <2>2. t \in Tree /\ Summarised(t) /\ Active(t) = Active(book.active_tree) \ {bit}
    BY <2>1, ClearBitFacts
  <2>3. ASSUME ~TreeEmpty(t) PROVE \E j \in Active(t) : better_idx(IsAsk, bit, j)
    <3>1. PICK j \in Active(t) : TRUE
      BY <2>2, <2>3, TreeEmptyExact
    <3>2. j # bit /\ ~better_idx(IsAsk, j, bit) /\ j \in Int /\ bit \in Int
      BY <2>1, <2>2, <3>1 DEF Active, Bits
    <3> QED BY <3>1, <3>2, IsAskAssumption DEF better_idx
  <2> QED BY <2>1, <2>3 DEF EraseAssertionsHold
<1> QED BY InitIInv, NextIInv, <1>1, PTL DEF Spec

(***************************************************************************)
(* When erase_best() returns, the best level has an order, or the side has *)
(* none at all.                                                            *)
(***************************************************************************)
THEOREM SideEraseExposesBest == Spec => EraseExposesBest
<1> DEFINE Exposed == EraseBest /\ ~erasing' =>
                        \/ ~book'.has_best_ /\ occupied' = {}
                        \/ book'.best_price_idx_ \in occupied'
<1>1. IInv' /\ [Next]_vars => [Exposed]_vars
  BY DEF IInv, NothingHidden, EraseBest
<1> QED BY InitIInv, NextIInv, <1>1, PTL DEF Spec, EraseExposesBest

(***************************************************************************)
(* The flat array implements the promise of a side book: every step of     *)
(* ArraySideBookSpec is a step of SidePromise or changes nothing of it.    *)
(***************************************************************************)
LEMMA PromiseStep == IInv /\ [Next]_vars => [Promise!Next]_(Promise!vars)
<1> DEFINE best == IF book.has_best_ THEN book.best_price_idx_ ELSE -1
<1> SUFFICES ASSUME IInv, [Next]_vars
             PROVE  Promise!Next \/ UNCHANGED <<best, occupied, erasing>>
  BY DEF Promise!vars
<1>1. /\ book \in SideBook /\ occupied \in SUBSET Bits /\ Sound(IsAsk, book)
      /\ NothingHidden /\ IsAsk \in BOOLEAN
  BY IsAskAssumption DEF IInv, TypeOK, SummaryExact, BestIsExtreme, Sound
<1>2. /\ book.best_price_idx_ \in Bits /\ \A i \in Bits : i \in Int /\ i # -1
  BY <1>1 DEF SideBook, Bits
<1>3. ASSUME NEW idx \in Bits, Rest(idx)
      PROVE  Promise!Rest(idx)
  <2>1. /\ book' = GetOrCreate(IsAsk, book, idx) /\ occupied' = occupied \cup {idx}
        /\ ~erasing /\ erasing' = erasing
    BY <1>3 DEF Rest
  <2>2. /\ book'.has_best_
        /\ book'.best_price_idx_ =
             IF ~book.has_best_ \/ better_idx(IsAsk, idx, book.best_price_idx_)
             THEN idx ELSE book.best_price_idx_
    BY <2>1 DEF GetOrCreate
  <2> QED BY <1>1, <1>2, <2>1, <2>2 DEF Promise!Rest, Promise!Better, better_idx
<1>4. ASSUME NEW idx \in Bits, Cancel(idx)
      PROVE  Promise!Cancel(idx)
  BY <1>4 DEF Cancel, Promise!Cancel
<1>5. CASE ConsumeBest
  BY <1>5 DEF ConsumeBest, BestOccupied, Promise!ConsumeBest, Promise!Next
<1>6. CASE EraseBest
  <2>1. /\ book.has_best_ /\ book.best_price_idx_ \notin occupied
        /\ book' = DropBest(IsAsk, book) /\ occupied' = occupied
    BY <1>6 DEF EraseBest, BestOccupied
  <2>2. /\ book' \in SideBook /\ Sound(IsAsk, book')
        /\ Active(book'.active_tree) = Active(book.active_tree) \ {book.best_price_idx_}
    BY <1>1, <2>1, DropBestSound
  <2>3. erasing' \in BOOLEAN
    BY <1>6 DEF EraseBest, SideBook
  <2>4. CASE ~book'.has_best_
    <3>1. occupied = {}
      BY <1>1, <2>1, <2>2, <2>4 DEF NothingHidden, Sound, BestIsExtremal
    <3> QED BY <1>2, <2>1, <2>3, <2>4, <3>1 DEF Promise!Advance, Promise!Next
  <2>5. CASE book'.has_best_
    <3>1. /\ book'.best_price_idx_ \in Bits
          /\ book'.best_price_idx_ \in Active(book.active_tree)
          /\ book'.best_price_idx_ # book.best_price_idx_
          /\ \A i \in Active(book.active_tree) \ {book.best_price_idx_} :
                ~better_idx(IsAsk, i, book'.best_price_idx_)
          /\ \A i \in Active(book.active_tree) : ~better_idx(IsAsk, i, book.best_price_idx_)
      BY <1>1, <2>1, <2>2, <2>5 DEF Sound, BestIsExtremal, SideBook
    <3>2. Promise!Better(book.best_price_idx_, book'.best_price_idx_)
      BY <1>1, <1>2, <3>1 DEF Promise!Better, better_idx
    <3>3. \A i \in occupied : ~Promise!Better(i, book'.best_price_idx_)
      BY <1>1, <2>1, <3>1 DEF NothingHidden, Promise!Better, better_idx
    <3> QED BY <1>2, <2>1, <2>3, <2>5, <3>1, <3>2, <3>3 DEF Promise!Advance, Promise!Next
  <2> QED BY <2>4, <2>5
<1>7. CASE UNCHANGED vars
  BY <1>7 DEF vars
<1> QED BY <1>3, <1>4, <1>5, <1>6, <1>7 DEF Next, Promise!Next

(***************************************************************************)
(* For all sizes and both sides, the flat array with its occupancy tree    *)
(* implements the abstract side book.                                      *)
(***************************************************************************)
THEOREM SideKeepsPromise == Spec => KeepsPromise
<1>1. Init => Promise!Init
  BY DEF Init, EmptyBook, Promise!Init
<1> QED BY <1>1, InitIInv, NextIInv, PromiseStep, PTL DEF Spec, KeepsPromise, Promise!Spec

-----------------------------------------------------------------------------
(***************************************************************************)
(* The array and the map in step.                                          *)
(***************************************************************************)
StepInv ==
    /\ IInv
    /\ occupied = map_occupied
    /\ map_occupied \subseteq map_levels
    /\ map_levels \subseteq Bits

\* A map with a level has a first entry.
LEMMA MapBestIsFirst ==
    ASSUME map_levels \subseteq Bits, map_levels # {}
    PROVE  /\ Map!best_price \in map_levels
           /\ \A q \in map_levels : ~better_idx(IsAsk, q, Map!best_price)
<1> DEFINE First(p) == \A q \in map_levels \ {p} : Map!PriceCompare(p, q)
<1>1. map_levels \in SUBSET Nat /\ kBitCount - 1 \in Nat
  <2>1. kL1Count * kWordBits \in Nat /\ kL1Count * kWordBits >= 1
    BY TreeSizeAssumption
  <2> QED BY <2>1 DEF Bits, kBitCount
<1>2. \E p \in map_levels : First(p)
  <2>1. CASE IsAsk
    <3>1. PICK p \in map_levels : \A q \in map_levels : p <= q
      BY <1>1, LeastNatural
    <3>2. \A q \in map_levels \ {p} : p < q
      BY <1>1, <3>1
    <3> QED BY <2>1, <3>2 DEF Map!PriceCompare
  <2>2. CASE ~IsAsk
    <3>1. PICK p \in map_levels : \A q \in map_levels : q <= p
      <4> DEFINE last == kBitCount - 1
      <4>1. map_levels \in SUBSET (0 .. last)
        BY DEF Bits
      <4>2. last \in Nat
        BY <1>1
      <4> HIDE DEF last
      <4> QED BY <4>1, <4>2, MaxIsGreatest
    <3>2. \A q \in map_levels \ {p} : p > q
      BY <1>1, <3>1
    <3> QED BY <2>2, <3>2 DEF Map!PriceCompare
  <2> QED BY <2>1, <2>2
<1>3. Map!best_price = CHOOSE p \in map_levels : First(p)
  BY DEF Map!best_price
<1>4. Map!best_price \in map_levels /\ First(Map!best_price)
  BY <1>2, <1>3
<1>5. \A q \in map_levels : q \in Int
  BY <1>1
<1>6. ASSUME NEW q \in map_levels PROVE ~better_idx(IsAsk, q, Map!best_price)
  BY <1>4, <1>5, IsAskAssumption DEF better_idx, Map!PriceCompare
<1> QED BY <1>4, <1>6

\* Where both bests have an order they are one level.
LEMMA SameBest ==
    ASSUME StepInv, book.has_best_, BestOccupied,
           ~Map!empty, Map!best_price \in map_occupied
    PROVE  book.best_price_idx_ = Map!best_price
<1>1. Map!best_price \in map_levels /\
      \A q \in map_levels : ~better_idx(IsAsk, q, Map!best_price)
  BY MapBestIsFirst DEF StepInv, Map!empty
<1>2. \A i \in occupied : ~better_idx(IsAsk, i, book.best_price_idx_)
  BY DEF StepInv, IInv, NothingHidden
<1>3. book.best_price_idx_ \in map_levels
  BY DEF StepInv, BestOccupied
<1>4. Map!best_price \in Int /\ book.best_price_idx_ \in Int
  <2>1. \A i \in Bits : i \in Int
    BY DEF Bits
  <2> QED BY <1>1, <1>3, <2>1 DEF StepInv
<1>5. /\ ~better_idx(IsAsk, book.best_price_idx_, Map!best_price)
      /\ ~better_idx(IsAsk, Map!best_price, book.best_price_idx_)
  BY <1>1, <1>2, <1>3 DEF StepInv
<1> QED BY <1>4, <1>5, IsAskAssumption DEF better_idx

LEMMA InitStepInv == BothInit => StepInv
BY InitIInv DEF BothInit, StepInv, Init, Map!Init

LEMMA NextStepInv == StepInv /\ [BothNext]_<<vars, mapVars>> => StepInv'
<1> SUFFICES ASSUME StepInv, [BothNext]_<<vars, mapVars>> PROVE StepInv'
  OBVIOUS
<1> DEFINE Rests == \E idx \in Bits : Rest(idx) /\ Map!Rest(idx)
           Cancels == \E idx \in Bits : Cancel(idx) /\ Map!Cancel(idx)
<1>1. [Next]_vars
  BY DEF BothNext, Next
<1>2. IInv'
  BY <1>1, NextIInv DEF StepInv
<1>3. CASE Rests
  BY <1>2, <1>3 DEF StepInv, Rest, Map!Rest
<1>4. CASE Cancels
  BY <1>2, <1>4 DEF StepInv, Cancel, Map!Cancel
\* Both loops take the last order of the same level.
<1>5. CASE ConsumeBest /\ Map!ConsumeBest
  <2>1. book.best_price_idx_ = Map!best_price
    BY <1>5, SameBest DEF ConsumeBest, Map!ConsumeBest
  <2> QED BY <1>2, <1>5, <2>1 DEF StepInv, ConsumeBest, Map!ConsumeBest
<1>6. CASE EraseBest /\ UNCHANGED mapVars
  BY <1>2, <1>6 DEF StepInv, EraseBest, mapVars
\* The map drops a level without orders.
<1>7. CASE Map!erase_best /\ UNCHANGED vars
  BY <1>2, <1>7 DEF StepInv, Map!erase_best, vars
<1>8. CASE UNCHANGED <<vars, mapVars>>
  BY <1>2, <1>8 DEF StepInv, vars, mapVars
<1> QED BY <1>3, <1>4, <1>5, <1>6, <1>7, <1>8 DEF BothNext

(***************************************************************************)
(* Replacing the map by the flat array changed no trade, for all sizes and *)
(* both sides: the engine on the array and the engine on the map take the  *)
(* same orders in the same order of levels, ghosts notwithstanding.        *)
(***************************************************************************)
THEOREM ArrayAgreesWithMap == BothSpec => []SidesAgree
<1>1. StepInv => SidesAgree
  <2> SUFFICES ASSUME StepInv PROVE SidesAgree
    OBVIOUS
  <2>1. occupied = map_occupied /\ occupied \subseteq map_levels
    BY DEF StepInv
  <2>2. book.has_best_ \in BOOLEAN
    BY DEF StepInv, IInv, TypeOK, SideBook
  <2>3. ASSUME ArraySettled, MapSettled
        PROVE  /\ book.has_best_ <=> ~Map!empty
               /\ book.has_best_ => book.best_price_idx_ = Map!best_price
    <3>1. book.has_best_ => ~Map!empty
      BY <2>1, <2>3 DEF ArraySettled, BestOccupied, Map!empty
    <3>2. ~Map!empty => book.has_best_
      <4>1. ~Map!empty => Map!best_price \in occupied
        BY <2>1, <2>3 DEF MapSettled
      <4> QED BY <4>1 DEF StepInv, IInv, NothingHidden
    <3>3. book.has_best_ => book.best_price_idx_ = Map!best_price
      BY <2>1, <2>3, <3>1, SameBest DEF ArraySettled, MapSettled
    <3> QED BY <2>2, <3>1, <3>2, <3>3
  <2> QED BY <2>1, <2>3 DEF SidesAgree
<1> QED BY InitStepInv, NextStepInv, <1>1, PTL DEF BothSpec

-----------------------------------------------------------------------------
(***************************************************************************)
(* The map alone: its levels are prices and hold every order, and a level  *)
(* that is first is the best price.                                        *)
(***************************************************************************)
MapInv == map_levels \subseteq Bits /\ map_occupied \subseteq map_levels

FirstIsBest ==
    map_levels # {} => /\ Map!best_price \in map_levels
                       /\ \A q \in map_levels : ~better_idx(IsAsk, q, Map!best_price)

LEMMA MapFirstIsBest == MapInv => FirstIsBest
BY MapBestIsFirst DEF MapInv, FirstIsBest

LEMMA MapNextInv == MapInv /\ [Map!Next]_(Map!vars) => MapInv'
BY DEF MapInv, Map!Next, Map!vars, Map!Prices, Map!Rest, Map!Cancel,
       Map!ConsumeBest, Map!erase_best, Bits

LEMMA MapPromiseStep ==
    MapInv /\ [Map!Next]_(Map!vars) => [Map!Promise!Next]_(Map!Promise!vars)
<1> DEFINE best == IF Map!empty THEN 0 - 1 ELSE Map!best_price
<1>1. MapInv' => FirstIsBest'
  BY MapFirstIsBest, PTL
<1> SUFFICES ASSUME MapInv, [Map!Next]_(Map!vars)
             PROVE  Map!Promise!Next \/ UNCHANGED <<best, map_occupied, map_erasing>>
  BY DEF Map!Promise!vars
<1>2. MapInv' /\ FirstIsBest /\ FirstIsBest'
  BY <1>1, MapNextInv, MapFirstIsBest
<1>3. /\ map_levels # {} => best = Map!best_price /\ best \in map_levels
      /\ map_levels = {} => best = -1
      /\ map_levels' # {} => best' = Map!best_price' /\ best' \in map_levels'
      /\ map_levels' = {} => best' = -1
  BY <1>2 DEF FirstIsBest, Map!empty
<1>4. /\ map_levels # {} => \A q \in map_levels : ~better_idx(IsAsk, q, best)
      /\ map_levels' # {} => \A q \in map_levels' : ~better_idx(IsAsk, q, best')
  BY <1>2, <1>3 DEF FirstIsBest
<1>5. /\ map_levels \subseteq Bits /\ map_occupied \subseteq map_levels
      /\ map_levels' \subseteq Bits /\ map_occupied' \subseteq map_levels'
      /\ \A i \in Bits : i \in Int /\ i # -1
  BY <1>2 DEF MapInv, Bits
<1> HIDE DEF best
\* The new level is first, or the best stays.
<1>6. ASSUME NEW p \in Bits, Map!Rest(p)
      PROVE  Map!Promise!Rest(p)
  <2>1. /\ ~map_erasing /\ map_levels' = map_levels \cup {p}
        /\ map_occupied' = map_occupied \cup {p} /\ map_erasing' = map_erasing
    BY <1>6 DEF Map!Rest
  <2>2. CASE map_levels = {}
    BY <1>3, <1>5, <2>1, <2>2 DEF Map!Promise!Rest, best
  <2>3. CASE map_levels # {}
    BY <1>3, <1>4, <1>5, <2>1, <2>3, IsAskAssumption
       DEF Map!Promise!Rest, Map!Promise!Better, better_idx, best
  <2> QED BY <2>2, <2>3
<1>7. ASSUME NEW p \in Bits, Map!Cancel(p)
      PROVE  Map!Promise!Cancel(p)
  BY <1>7 DEF Map!Cancel, Map!Promise!Cancel, Map!empty, Map!best_price
<1>8. CASE Map!ConsumeBest
  <2>1. UNCHANGED best
    BY <1>8 DEF Map!ConsumeBest, best, Map!empty, Map!best_price
  <2>2. Map!Promise!ConsumeBest
    BY <1>8, <2>1 DEF Map!ConsumeBest, Map!Promise!ConsumeBest, best
  <2> QED BY <2>2 DEF Map!Promise!Next
\* No order was behind the level that is dropped and before the next one.
<1>9. CASE Map!erase_best
  <2>1. /\ map_levels # {} /\ best \notin map_occupied /\ map_erasing' = FALSE
        /\ map_levels' = map_levels \ {best} /\ map_occupied' = map_occupied
    BY <1>3, <1>9 DEF Map!erase_best, Map!empty
  <2>2. best \in Bits /\ best # -1
    BY <1>3, <1>5, <2>1
  <2>3. \/ best' = -1 /\ map_occupied = {}
        \/ /\ best' \in Bits
           /\ Map!Promise!Better(best, best')
           /\ \A p \in map_occupied : ~Map!Promise!Better(p, best')
    <3>1. CASE map_levels' = {}
      BY <1>3, <1>5, <2>1, <3>1
    <3>2. CASE map_levels' # {}
      <4>1. best' \in map_levels /\ best' # best /\ best' \in Bits
        BY <1>3, <1>5, <2>1, <3>2
      <4>2. Map!Promise!Better(best, best')
        BY <1>4, <1>5, <2>1, <2>2, <4>1, IsAskAssumption
           DEF Map!Promise!Better, better_idx
      <4>3. \A p \in map_occupied : ~Map!Promise!Better(p, best')
        BY <1>4, <1>5, <2>1, <3>2 DEF Map!Promise!Better, better_idx
      <4> QED BY <4>1, <4>2, <4>3
    <3> QED BY <3>1, <3>2
  <2>4. Map!Promise!Advance
    <3>1. Map!Prices = Bits
      BY DEF Map!Prices, Bits
    <3>2. \/ best' = 0 - 1 /\ map_occupied = {}
          \/ /\ best' \in Map!Prices
             /\ Map!Promise!Better(best, best')
             /\ \A p \in map_occupied : ~Map!Promise!Better(p, best')
      BY <2>3, <3>1
    <3>3. best # 0 - 1
      BY <2>2
    <3> QED BY <2>1, <3>2, <3>3, Zenon DEF Map!Promise!Advance, best
  <2> QED BY <2>4 DEF Map!Promise!Next
<1>10. CASE UNCHANGED Map!vars
  BY <1>10 DEF Map!vars, best, Map!empty, Map!best_price
<1> QED BY <1>6, <1>7, <1>8, <1>9, <1>10 DEF Map!Next, Map!Promise!Next, Map!Prices, Bits

(***************************************************************************)
(* The map implements the abstract side book too, for all sizes and both   *)
(* sides: what the engine relies on did not change with the storage.       *)
(***************************************************************************)
THEOREM MapKeepsPromise == Map!Spec => Map!KeepsPromise
<1>1. Map!Init => MapInv
  BY DEF Map!Init, MapInv
<1>2. Map!Init => Map!Promise!Init
  BY DEF Map!Init, Map!Promise!Init, Map!empty
<1> QED
  BY <1>1, <1>2, MapNextInv, MapPromiseStep, PTL
  DEF Map!Spec, Map!KeepsPromise, Map!Promise!Spec
=============================================================================

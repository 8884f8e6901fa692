--------------------------- MODULE OccupancyTree ---------------------------
(***************************************************************************)
(* The two-level occupancy bitmap of one side of the book                  *)
(* (core/matching_engine: occupancy_tree.hpp, occupancy_tree.cpp).         *)
(*                                                                         *)
(* A word of the C++ array is the SET of the positions of its 1 bits:      *)
(* levels_[0 .. kL1Count-1] is l1 (one bit per price index) and            *)
(* levels_[kL2Offset] is l2 (one bit per L1 word).  The operators are pure *)
(* functions of a tree, so that ArraySideBook, OrderBook and the proofs    *)
(* use the same definitions.  That machine words with shifts, masks and    *)
(* countr_zero/countl_zero compute these operators is the subject of       *)
(* module OccupancyTreeWords.                                              *)
(***************************************************************************)
EXTENDS Integers, FiniteSetsExt

CONSTANTS
    kWordBits,  \* bits of a word: 64 in the code
    kL1Count    \* L1 words: kBitCount / 64 = 64 in the code

\* Both are positive compile-time constants; the code fixes both to 64.
ASSUME TreeSizeAssumption ==
    /\ kWordBits \in Nat \ {0}
    /\ kL1Count \in Nat \ {0}

kBitCount == kL1Count * kWordBits
Bits      == 0 .. kBitCount - 1     \* price indices
Words     == 0 .. kL1Count - 1      \* L1 words
Positions == 0 .. kWordBits - 1     \* bits of one L1 word

Tree == [l1 : [Words -> SUBSET Positions], l2 : SUBSET Words]

WordOf(bit)     == bit \div kWordBits
PositionOf(bit) == bit % kWordBits
BitAt(w, pos)   == w * kWordBits + pos

EmptyTree == [l1 |-> [w \in Words |-> {}], l2 |-> {}]

\* Seeded fault: the bit number is not reduced to its position in the word.
SetBitUnmasked(t, bit) ==
    LET w == WordOf(bit) IN
    [l1 |-> [t.l1 EXCEPT ![w] = @ \cup {bit}],
     l2 |-> IF t.l1[w] = {} THEN t.l2 \cup {w} ELSE t.l2]

\* Seeded fault: the was_empty test is inverted.
SetBitSummaryInverted(t, bit) ==
    LET w == WordOf(bit) IN
    [l1 |-> [t.l1 EXCEPT ![w] = @ \cup {PositionOf(bit)}],
     l2 |-> IF t.l1[w] # {} THEN t.l2 \cup {w} ELSE t.l2]

(***************************************************************************)
(* set(): the L2 word is written only when the L1 word was 0.              *)
(***************************************************************************)
SetBit(t, bit) ==
    LET w == WordOf(bit) IN
    [l1 |-> [t.l1 EXCEPT ![w] = @ \cup {PositionOf(bit)}],
     l2 |-> IF t.l1[w] = {} THEN t.l2 \cup {w} ELSE t.l2]

(***************************************************************************)
(* clear(): the L2 bit goes only with the last bit of its L1 word.  The    *)
(* assertion that the bit is set is the callers' obligation (NextIsActive  *)
(* and the invariants of ArraySideBookSpec).                               *)
(***************************************************************************)
ClearBit(t, bit) ==
    LET w    == WordOf(bit)
        rest == t.l1[w] \ {PositionOf(bit)} IN
    [l1 |-> [t.l1 EXCEPT ![w] = rest],
     l2 |-> IF rest = {} THEN t.l2 \ {w} ELSE t.l2]

\* empty() reads the L2 word only.
TreeEmpty(t) == t.l2 = {}

\* mask_high(i) and mask_low(i), applied to a word.
MaskHigh(word, i) == {x \in word : x >= i}
MaskLow(word, i)  == {x \in word : x <= i}

(***************************************************************************)
(* find_next_set(): the lowest set bit at or above a bit, in its own L1    *)
(* word if that has one, otherwise in the next L1 word that L2 names.  The *)
(* code asserts that there is one; so does the caller's invariant.         *)
(***************************************************************************)
FindNextSet(t, bit) ==
    LET w      == WordOf(bit)
        here   == MaskHigh(t.l1[w], PositionOf(bit))
        target == Min(MaskHigh(t.l2, w + 1)) IN
    IF here # {} THEN BitAt(w, Min(here))
                 ELSE BitAt(target, Min(t.l1[target]))

\* find_prev_set(): the mirror image, the highest set bit at or below a bit.
FindPrevSet(t, bit) ==
    LET w      == WordOf(bit)
        here   == MaskLow(t.l1[w], PositionOf(bit))
        target == Max(MaskLow(t.l2, w - 1)) IN
    IF here # {} THEN BitAt(w, Max(here))
                 ELSE BitAt(target, Max(t.l1[target]))

\* next_best<IsAsk>(): asks look upwards, bids downwards.
NextBest(isAsk, t, bit) ==
    IF isAsk THEN FindNextSet(t, bit) ELSE FindPrevSet(t, bit)

-----------------------------------------------------------------------------
(***************************************************************************)
(* What the tree stands for, used to state properties.                     *)
(***************************************************************************)
Active(t) == {bit \in Bits : PositionOf(bit) \in t.l1[WordOf(bit)]}

\* L2 names exactly the L1 words that are not zero.
Summarised(t) == t.l2 = {w \in Words : t.l1[w] # {}}
=============================================================================

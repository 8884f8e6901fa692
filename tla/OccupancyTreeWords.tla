------------------------- MODULE OccupancyTreeWords -------------------------
(***************************************************************************)
(* OccupancyTree as the code computes it: 64-bit words, shifts, masks and  *)
(* count-zeros (occupancy_tree.hpp, occupancy_tree.cpp), with kWordBits    *)
(* for 64.  The words are integers modulo 2^kWordBits.  The refinement of  *)
(* OccupancyTree's sets by these words is checked by TLC; what the sets    *)
(* compute is proved in ArraySideBookLemmas.                               *)
(***************************************************************************)
EXTENDS OccupancyTree, Bitwise

CONSTANT TouchedBits    \* the price indices the client ever sets

ASSUME TouchedBitsAssumption == TouchedBits \subseteq Bits

VARIABLE levels_    \* [0 .. kL1Count -> word]; the last word is L2

WordMod   == 2 ^ kWordBits
kL2Offset == kL1Count
AllOnes   == WordMod - 1

(***************************************************************************)
(* x << n.  A shift by kWordBits or more is undefined in C++; x86-64 takes *)
(* the count modulo the width.                                             *)
(***************************************************************************)
ShiftLeft(x, n) == (x * 2 ^ (n % kWordBits)) % WordMod
Complement(x)   == AllOnes - x

OneBits(word)      == {i \in Positions : (word \div 2 ^ i) % 2 = 1}
countr_zero(word)  == IF word = 0 THEN kWordBits ELSE Min(OneBits(word))
countl_zero(word)  == IF word = 0 THEN kWordBits ELSE kWordBits - 1 - Max(OneBits(word))

\* Seeded fault: the bit itself is masked out.
mask_high_exclusive(i) == ShiftLeft(AllOnes, i + 1)

mask_high(i) == ShiftLeft(AllOnes, i)
mask_low(i)  == IF i = kWordBits - 1 THEN AllOnes ELSE ShiftLeft(1, i + 1) - 1

BitMask(bit) == ShiftLeft(1, bit & (kWordBits - 1))

\* Seeded fault: the L1 word is overwritten.
set_overwrites(bit) ==
    LET w == bit \div kWordBits
        marked == [levels_ EXCEPT ![w] = BitMask(bit)] IN
    levels_' = IF levels_[w] = 0
               THEN [marked EXCEPT ![kL2Offset] = @ | ShiftLeft(1, w)]
               ELSE marked

set(bit) ==
    LET w == bit \div kWordBits
        marked == [levels_ EXCEPT ![w] = @ | BitMask(bit)] IN
    levels_' = IF levels_[w] = 0
               THEN [marked EXCEPT ![kL2Offset] = @ | ShiftLeft(1, w)]
               ELSE marked

\* The assertion of clear() is its precondition: the bit is set.
clear(bit) ==
    LET w == bit \div kWordBits
        cleared == [levels_ EXCEPT ![w] = @ & Complement(BitMask(bit))] IN
    /\ levels_[w] & BitMask(bit) # 0
    /\ levels_' = IF cleared[w] = 0
                  THEN [cleared EXCEPT ![kL2Offset] = @ & Complement(ShiftLeft(1, w))]
                  ELSE cleared

find_next_set(bit_pos) ==
    LET w      == bit_pos \div kWordBits
        here   == levels_[w] & mask_high(bit_pos & (kWordBits - 1))
        target == countr_zero(levels_[kL2Offset] & mask_high(w + 1)) IN
    IF here # 0 THEN w * kWordBits + countr_zero(here)
                ELSE target * kWordBits + countr_zero(levels_[target])

find_prev_set(bit_pos) ==
    LET w      == bit_pos \div kWordBits
        here   == levels_[w] & mask_low(bit_pos & (kWordBits - 1))
        target == kWordBits - 1 - countl_zero(levels_[kL2Offset] & mask_low(w - 1)) IN
    IF here # 0 THEN w * kWordBits + (kWordBits - 1 - countl_zero(here))
                ELSE target * kWordBits + (kWordBits - 1 - countl_zero(levels_[target]))

empty == levels_[kL2Offset] = 0

Init == levels_ = [i \in 0 .. kL1Count |-> 0]
Next == \E bit \in TouchedBits : set(bit) \/ clear(bit)
Spec == Init /\ [][Next]_levels_

-----------------------------------------------------------------------------
TypeOK == levels_ \in [0 .. kL1Count -> 0 .. AllOnes]

\* The sets the words stand for.
tree == [l1 |-> [w \in Words |-> OneBits(levels_[w])],
         l2 |-> OneBits(levels_[kL2Offset])]

(***************************************************************************)
(* Every set() and clear() of the words is one of the sets, L2 included:   *)
(* masks and shifts touch their own bit and no other.                      *)
(***************************************************************************)
WordsImplementTree ==
    [][\E bit \in Bits :
        \/ tree' = SetBit(tree, bit)
        \/ bit \in Active(tree) /\ tree' = ClearBit(tree, bit)]_levels_

(***************************************************************************)
(* Reference definition of the searches: from every bit that has an active *)
(* bit at or beyond it, find_next_set() returns the nearest one above and  *)
(* find_prev_set() the nearest one below, across word boundaries and at    *)
(* bit 63 of a word (mask_low's special case).  And empty(), which reads   *)
(* the L2 word alone, is right about all of L1.                            *)
(***************************************************************************)
SearchesExact ==
    /\ empty <=> \A w \in Words : levels_[w] = 0
    /\ \A bit \in Bits :
        LET above == {a \in Active(tree) : a >= bit}
            below == {a \in Active(tree) : a <= bit} IN
        /\ above # {} => find_next_set(bit) = Min(above)
        /\ below # {} => find_prev_set(bit) = Max(below)
=============================================================================

------------------------ MODULE ArraySideBookLemmas ------------------------
(***************************************************************************)
(* What the operators of a side book compute, for every word width and     *)
(* every number of words.                                                  *)
(*                                                                         *)
(* The occupancy tree is the set of its active bits, L2 stays its exact    *)
(* summary, and the searches return nearest active bits.  get_or_create()  *)
(* and one turn of erase_best(), for either side, keep the cached best     *)
(* extreme and change the set of active levels by the one level they are   *)
(* about.                                                                  *)
(***************************************************************************)
EXTENDS ArraySideBook, TLAPS, WellFoundedInduction

-----------------------------------------------------------------------------
(***************************************************************************)
(* Least and greatest elements: countr_zero and countl_zero.               *)
(***************************************************************************)
LessThanOnNat == OpToRel(<, Nat)

\* Every non-empty set of naturals has a least element.
LEMMA LeastNatural ==
    \A T \in SUBSET Nat : T # {} => \E x \in T : \A y \in T : x <= y
<1>1. SUFFICES ASSUME NEW T \in SUBSET Nat, T # {}
               PROVE  \E x \in T : \A y \in T : x <= y
  OBVIOUS
<1>2. IsWellFoundedOn(LessThanOnNat, Nat)
  BY NatLessThanWellFounded DEF LessThanOnNat
<1>3. LessThanOnNat = {ss \in Nat \X Nat : ss[1] < ss[2]}
  BY DEF LessThanOnNat, OpToRel
<1>4. PICK x \in T : \A y \in T : ~ (<<y, x>> \in LessThanOnNat)
  <2>1. \A R, S, U : IsWellFoundedOn(R, S) /\ U \subseteq S /\ U # {}
                       => \E x \in U : \A y \in U : ~ (<<y, x>> \in R)
    BY WFMin
  <2> QED BY <1>1, <1>2, <2>1, Zenon
<1>5. SUFFICES ASSUME NEW y \in T PROVE x <= y
  BY <1>4
<1>6. ~ (y < x)
  BY <1>3, <1>4
<1> QED BY <1>6

\* Min of a non-empty set of naturals is its least element.
LEMMA MinIsLeast ==
    ASSUME NEW S \in SUBSET Nat, S # {}
    PROVE  Min(S) \in S /\ \A y \in S : Min(S) <= y
BY LeastNatural DEF Min

\* Max of a non-empty set of naturals with an upper bound is its greatest.
LEMMA MaxIsGreatest ==
    ASSUME NEW n \in Nat, NEW S \in SUBSET (0 .. n), S # {}
    PROVE  Max(S) \in S /\ \A y \in S : y <= Max(S)
<1> DEFINE T == {n - x : x \in S}
<1>1. T \in SUBSET Nat /\ T # {}
  <2>1. \A x \in S : x \in Nat /\ x <= n
    OBVIOUS
  <2>2. T \in SUBSET Nat
    BY <2>1
  <2>3. PICK s \in S : TRUE
    OBVIOUS
  <2>4. n - s \in T
    BY <2>3
  <2> QED BY <2>2, <2>4
<1>2. PICK m \in T : \A y \in T : m <= y
  BY <1>1, LeastNatural
<1>3. PICK x \in S : m = n - x
  OBVIOUS
<1>4. \A y \in S : x >= y
  BY <1>2, <1>3
<1> QED BY <1>4 DEF Max

-----------------------------------------------------------------------------
(***************************************************************************)
(* bit / kWordBits and bit & (kWordBits - 1) name a place in a word, and   *)
(* the order of bits is the lexicographic order of places.                 *)
(***************************************************************************)
LEMMA PlaceOfBit ==
    ASSUME NEW bit \in Bits
    PROVE  /\ WordOf(bit) \in Words
           /\ PositionOf(bit) \in Positions
           /\ bit = BitAt(WordOf(bit), PositionOf(bit))
<1> DEFINE w == bit \div kWordBits
           p == bit % kWordBits
<1>1. bit \in Nat /\ kWordBits \in Nat /\ kWordBits > 0 /\ kL1Count \in Nat
  BY TreeSizeAssumption DEF Bits, kBitCount
<1>2. w \in Int /\ p \in Int /\ bit = kWordBits * w + p /\ 0 <= p /\ p < kWordBits
  BY <1>1
<1>3. bit < kL1Count * kWordBits
  BY <1>1 DEF Bits, kBitCount
<1>4. w >= 0
  <2>1. SUFFICES ASSUME w <= -1 PROVE FALSE
    BY <1>2
  <2>2. kWordBits * w <= kWordBits * (-1)
    BY <1>1, <1>2, <2>1
  <2> QED BY <1>1, <1>2, <2>2
<1>5. w < kL1Count
  <2>1. SUFFICES ASSUME w >= kL1Count PROVE FALSE
    BY <1>1, <1>2
  <2>2. kWordBits * w >= kWordBits * kL1Count
    BY <1>1, <1>2, <2>1
  <2> QED BY <1>1, <1>2, <1>3, <2>2
<1> HIDE DEF w, p
<1>6. w \in Words /\ p \in Positions /\ bit = w * kWordBits + p
  BY <1>1, <1>2, <1>4, <1>5 DEF Words, Positions
<1> QED BY <1>6 DEF w, p, WordOf, PositionOf, BitAt

LEMMA BitOfPlace ==
    ASSUME NEW w \in Words, NEW p \in Positions
    PROVE  /\ BitAt(w, p) \in Bits
           /\ WordOf(BitAt(w, p)) = w
           /\ PositionOf(BitAt(w, p)) = p
<1> DEFINE bit == w * kWordBits + p
<1>1. /\ kWordBits \in Nat /\ kWordBits > 0 /\ kL1Count \in Nat
      /\ w \in Nat /\ w <= kL1Count - 1 /\ p \in Nat /\ p < kWordBits
  BY TreeSizeAssumption DEF Words, Positions
<1>2. w * kWordBits \in Nat /\ kL1Count * kWordBits \in Nat
  BY <1>1
<1>3. w * kWordBits <= (kL1Count - 1) * kWordBits
  BY <1>1
<1>4. (kL1Count - 1) * kWordBits = kL1Count * kWordBits - kWordBits
  BY <1>1
<1>5. bit \in Bits
  BY <1>1, <1>2, <1>3, <1>4 DEF Bits, kBitCount
<1>6. bit \div kWordBits = w /\ bit % kWordBits = p
  <2> DEFINE v == bit \div kWordBits
             q == bit % kWordBits
  <2>1. v \in Int /\ q \in Int /\ bit = kWordBits * v + q /\ 0 <= q /\ q < kWordBits
    BY <1>1, <1>2
  <2> HIDE DEF v, q
  <2>2. kWordBits * (v - w) = p - q
    BY <1>1, <2>1
  <2>3. v <= w
    <3>1. SUFFICES ASSUME v - w >= 1 PROVE FALSE
      BY <1>1, <2>1
    <3>2. kWordBits * (v - w) >= kWordBits
      BY <1>1, <2>1, <3>1
    <3> QED BY <1>1, <2>1, <2>2, <3>2
  <2>4. v >= w
    <3>1. SUFFICES ASSUME w - v >= 1 PROVE FALSE
      BY <1>1, <2>1
    <3>2. kWordBits * (w - v) >= kWordBits
      BY <1>1, <2>1, <3>1
    <3>3. kWordBits * (w - v) = q - p
      BY <1>1, <2>1
    <3> QED BY <1>1, <2>1, <3>2, <3>3
  <2>5. v = w
    BY <1>1, <2>1, <2>3, <2>4
  <2>6. q = p
    BY <1>1, <2>1, <2>2, <2>5
  <2> QED BY <2>5, <2>6 DEF v, q
<1> QED BY <1>5, <1>6 DEF BitAt, WordOf, PositionOf

LEMMA PlaceOrder ==
    ASSUME NEW v \in Words, NEW p \in Positions, NEW w \in Words, NEW q \in Positions
    PROVE  /\ v < w => BitAt(v, p) < BitAt(w, q)
           /\ p <= q => BitAt(v, p) <= BitAt(v, q)
           /\ p < q => BitAt(v, p) < BitAt(v, q)
<1>1. /\ kWordBits \in Nat /\ kWordBits > 0 /\ v \in Nat /\ w \in Nat
      /\ p \in Nat /\ p < kWordBits /\ q \in Nat /\ q < kWordBits
  BY TreeSizeAssumption DEF Words, Positions
<1>2. v * kWordBits \in Nat /\ w * kWordBits \in Nat
  BY <1>1
<1>3. ASSUME v < w PROVE v * kWordBits + kWordBits <= w * kWordBits
  <2>1. (v + 1) * kWordBits <= w * kWordBits
    BY <1>1, <1>3
  <2>2. (v + 1) * kWordBits = v * kWordBits + kWordBits
    BY <1>1
  <2> QED BY <2>1, <2>2
<1> QED BY <1>1, <1>2, <1>3 DEF BitAt

-----------------------------------------------------------------------------
(***************************************************************************)
(* The tree as a set of bits.                                              *)
(***************************************************************************)
LEMMA ActivePlace ==
    ASSUME NEW t \in Tree, NEW w \in Words, NEW p \in t.l1[w]
    PROVE  p \in Positions /\ BitAt(w, p) \in Active(t)
<1>1. p \in Positions
  BY DEF Tree
<1> QED BY <1>1, BitOfPlace DEF Active

LEMMA EmptyTreeFacts ==
    EmptyTree \in Tree /\ Summarised(EmptyTree) /\ Active(EmptyTree) = {}
<1>1. EmptyTree \in Tree /\ Summarised(EmptyTree)
  BY DEF EmptyTree, Tree, Summarised
<1>2. \A bit \in Bits : EmptyTree.l1[WordOf(bit)] = {}
  BY PlaceOfBit DEF EmptyTree
<1> QED BY <1>1, <1>2 DEF Active

\* empty(), which reads L2 only, tells whether any bit is set.
LEMMA TreeEmptyExact ==
    ASSUME NEW t \in Tree, Summarised(t)
    PROVE  TreeEmpty(t) <=> Active(t) = {}
<1>1. ASSUME TreeEmpty(t) PROVE Active(t) = {}
  BY <1>1, PlaceOfBit DEF TreeEmpty, Active, Summarised
<1>2. ASSUME ~TreeEmpty(t) PROVE Active(t) # {}
  <2>1. PICK w \in Words : t.l1[w] # {}
    BY <1>2 DEF TreeEmpty, Summarised
  <2>2. PICK p \in t.l1[w] : TRUE
    BY <2>1
  <2> QED BY <2>2, ActivePlace
<1> QED BY <1>1, <1>2

\* set() adds one bit and keeps L2 an exact summary.
LEMMA SetBitFacts ==
    ASSUME NEW t \in Tree, Summarised(t), NEW bit \in Bits
    PROVE  /\ SetBit(t, bit) \in Tree
           /\ Summarised(SetBit(t, bit))
           /\ Active(SetBit(t, bit)) = Active(t) \cup {bit}
<1> DEFINE w == WordOf(bit)
           p == PositionOf(bit)
           u == SetBit(t, bit)
<1>1. w \in Words /\ p \in Positions /\ bit = BitAt(w, p)
  BY PlaceOfBit
<1>2. /\ u.l1 = [t.l1 EXCEPT ![w] = @ \cup {p}]
      /\ u.l2 = IF t.l1[w] = {} THEN t.l2 \cup {w} ELSE t.l2
      /\ u = [l1 |-> u.l1, l2 |-> u.l2]
  BY DEF SetBit
<1>3. t.l1 \in [Words -> SUBSET Positions] /\ t.l2 \in SUBSET Words
  BY DEF Tree
<1> HIDE DEF w, p, u
<1>4. u.l1 \in [Words -> SUBSET Positions] /\ u.l2 \in SUBSET Words
  BY <1>1, <1>2, <1>3
<1>5. u \in Tree
  BY <1>2, <1>4 DEF Tree
<1>6. u.l2 = {v \in Words : u.l1[v] # {}}
  BY <1>1, <1>2, <1>3 DEF Summarised
<1>7. \A b \in Bits : PositionOf(b) \in u.l1[WordOf(b)]
                     <=> PositionOf(b) \in t.l1[WordOf(b)] \/ b = bit
  <2> SUFFICES ASSUME NEW b \in Bits
               PROVE  PositionOf(b) \in u.l1[WordOf(b)]
                        <=> PositionOf(b) \in t.l1[WordOf(b)] \/ b = bit
    OBVIOUS
  <2>1. WordOf(b) \in Words /\ PositionOf(b) \in Positions
        /\ b = BitAt(WordOf(b), PositionOf(b))
    BY PlaceOfBit
  <2>2. b = bit <=> WordOf(b) = w /\ PositionOf(b) = p
    BY <1>1, <2>1 DEF w, p
  <2> QED BY <1>1, <1>2, <1>3, <2>1, <2>2
<1>8. Active(u) = Active(t) \cup {bit}
  BY <1>7 DEF Active
<1> QED BY <1>5, <1>6, <1>8 DEF u, Summarised

\* clear() removes one bit and keeps L2 an exact summary.
LEMMA ClearBitFacts ==
    ASSUME NEW t \in Tree, Summarised(t), NEW bit \in Bits
    PROVE  /\ ClearBit(t, bit) \in Tree
           /\ Summarised(ClearBit(t, bit))
           /\ Active(ClearBit(t, bit)) = Active(t) \ {bit}
<1> DEFINE w == WordOf(bit)
           p == PositionOf(bit)
           u == ClearBit(t, bit)
<1>1. w \in Words /\ p \in Positions /\ bit = BitAt(w, p)
  BY PlaceOfBit
<1>2. /\ u.l1 = [t.l1 EXCEPT ![w] = t.l1[w] \ {p}]
      /\ u.l2 = IF t.l1[w] \ {p} = {} THEN t.l2 \ {w} ELSE t.l2
      /\ u = [l1 |-> u.l1, l2 |-> u.l2]
  BY DEF ClearBit
<1>3. t.l1 \in [Words -> SUBSET Positions] /\ t.l2 \in SUBSET Words
  BY DEF Tree
<1> HIDE DEF w, p, u
<1>4. u.l1 \in [Words -> SUBSET Positions] /\ u.l2 \in SUBSET Words
  BY <1>1, <1>2, <1>3
<1>5. u \in Tree
  BY <1>2, <1>4 DEF Tree
<1>6. u.l2 = {v \in Words : u.l1[v] # {}}
  BY <1>1, <1>2, <1>3 DEF Summarised
<1>7. \A b \in Bits : PositionOf(b) \in u.l1[WordOf(b)]
                     <=> PositionOf(b) \in t.l1[WordOf(b)] /\ b # bit
  <2> SUFFICES ASSUME NEW b \in Bits
               PROVE  PositionOf(b) \in u.l1[WordOf(b)]
                        <=> PositionOf(b) \in t.l1[WordOf(b)] /\ b # bit
    OBVIOUS
  <2>1. WordOf(b) \in Words /\ PositionOf(b) \in Positions
        /\ b = BitAt(WordOf(b), PositionOf(b))
    BY PlaceOfBit
  <2>2. b = bit <=> WordOf(b) = w /\ PositionOf(b) = p
    BY <1>1, <2>1 DEF w, p
  <2> QED BY <1>1, <1>2, <1>3, <2>1, <2>2
<1>8. Active(u) = Active(t) \ {bit}
  BY <1>7 DEF Active
<1> QED BY <1>5, <1>6, <1>8 DEF u, Summarised

-----------------------------------------------------------------------------
(***************************************************************************)
(* The searches.                                                           *)
(***************************************************************************)

\* find_next_set() returns the nearest active bit at or above a bit.
LEMMA FindNextSetNearest ==
    ASSUME NEW t \in Tree, Summarised(t), NEW bit \in Bits,
           NEW a \in Active(t), a >= bit
    PROVE  /\ FindNextSet(t, bit) \in Active(t)
           /\ FindNextSet(t, bit) >= bit
           /\ \A b \in Active(t) : b >= bit => FindNextSet(t, bit) <= b
<1> DEFINE w == WordOf(bit)
           p == PositionOf(bit)
           here == MaskHigh(t.l1[w], p)
           later == MaskHigh(t.l2, w + 1)
           inWord == Min(here)
           target == Min(later)
           first == Min(t.l1[target])
<1>1. w \in Words /\ p \in Positions /\ bit = BitAt(w, p)
  BY PlaceOfBit
<1>2. FindNextSet(t, bit) = IF here # {} THEN BitAt(w, inWord) ELSE BitAt(target, first)
  BY DEF FindNextSet
<1>3. /\ here = {x \in t.l1[w] : x >= p}
      /\ later = {v \in t.l2 : v >= w + 1}
  BY DEF MaskHigh
<1>4. t.l1 \in [Words -> SUBSET Positions] /\ t.l2 \in SUBSET Words
  BY DEF Tree
<1>5. /\ \A v \in Words : v \in Nat /\ v <= kL1Count - 1
      /\ \A x \in Positions : x \in Nat /\ x <= kWordBits - 1
      /\ kL1Count - 1 \in Nat /\ kWordBits - 1 \in Nat
  BY TreeSizeAssumption DEF Words, Positions
<1>6. bit \in Int /\ \A b \in Active(t) : b \in Int
  BY DEF Bits, Active
<1>7. \A b \in Active(t) : \E v \in Words, x \in Positions :
          x \in t.l1[v] /\ b = BitAt(v, x)
  BY PlaceOfBit DEF Active
<1>8. \A v \in Words : v \in t.l2 <=> t.l1[v] # {}
  BY DEF Summarised
<1> HIDE DEF w, p, here, later
<1>9. ASSUME NEW b \in Active(t), b >= bit,
             NEW v \in Words, NEW x \in t.l1[v], x \in Positions, b = BitAt(v, x)
      PROVE  (v = w /\ x \in here) \/ w < v
  <2>1. SUFFICES ASSUME ~ (w < v) PROVE v = w /\ x \in here
    OBVIOUS
  <2>2. v \in Int /\ w \in Int /\ x \in Int /\ p \in Int
    BY <1>1, <1>5, <1>9
  <2>3. v = w
    <3>1. SUFFICES ASSUME v < w PROVE FALSE
      BY <2>1, <2>2
    <3>2. b < bit
      BY <1>1, <1>9, <3>1, PlaceOrder
    <3> QED BY <1>6, <1>9, <3>2
  <2>4. x >= p
    <3>1. SUFFICES ASSUME x < p PROVE FALSE
      BY <2>2
    <3>2. b < bit
      BY <1>1, <1>9, <2>3, <3>1, PlaceOrder
    <3> QED BY <1>6, <1>9, <3>2
  <2> QED BY <1>3, <1>9, <2>3, <2>4
<1>10. CASE here # {}
  <2>1. inWord \in here /\ \A x \in here : inWord <= x
    <3>1. here \in SUBSET Nat
      BY <1>1, <1>3, <1>4, <1>5
    <3> QED BY <1>5, <1>10, <3>1, MinIsLeast
  <2> HIDE DEF inWord
  <2>2. inWord \in t.l1[w] /\ inWord \in Positions /\ p <= inWord
    BY <1>1, <1>3, <1>4, <1>5, <2>1
  <2>3. BitAt(w, inWord) \in Active(t)
    BY <1>1, <2>2, ActivePlace
  <2>4. BitAt(w, inWord) >= bit
    <3>1. BitAt(w, p) <= BitAt(w, inWord)
      BY <1>1, <2>2, PlaceOrder
    <3> QED BY <1>1, <1>6, <2>3, <3>1
  <2>5. ASSUME NEW b \in Active(t), b >= bit PROVE BitAt(w, inWord) <= b
    <3>1. PICK v \in Words, x \in Positions : x \in t.l1[v] /\ b = BitAt(v, x)
      BY <1>7
    <3>2. CASE v = w /\ x \in here
      BY <1>1, <2>1, <2>2, <3>1, <3>2, PlaceOrder
    <3>3. CASE w < v
      <4>1. BitAt(w, inWord) < b
        BY <1>1, <2>2, <3>1, <3>3, PlaceOrder
      <4> QED BY <1>6, <2>3, <4>1
    <3> QED BY <1>9, <2>5, <3>1, <3>2, <3>3
  <2> QED BY <1>2, <1>10, <2>3, <2>4, <2>5
<1>11. CASE here = {}
  <2>1. \A b \in Active(t), v \in Words : \A x \in t.l1[v] :
           b >= bit /\ x \in Positions /\ b = BitAt(v, x) => v \in later
    <3> SUFFICES ASSUME NEW b \in Active(t), NEW v \in Words, NEW x \in t.l1[v],
                        b >= bit, x \in Positions, b = BitAt(v, x)
                 PROVE  v \in later
      OBVIOUS
    <3>1. w < v
      BY <1>9, <1>11
    <3>2. v \in t.l2
      BY <1>8
    <3>3. v >= w + 1
      BY <1>1, <1>5, <3>1
    <3> QED BY <1>3, <3>2, <3>3
  <2>2. target \in later /\ \A v \in later : target <= v
    <3>1. later \in SUBSET Nat
      BY <1>3, <1>4, <1>5
    <3>2. later # {}
      BY <1>7, <2>1
    <3> QED BY <1>5, <3>1, <3>2, MinIsLeast
  <2>3. target \in Words /\ w < target /\ t.l1[target] # {}
    <3>1. target \in t.l2 /\ target >= w + 1
      BY <1>3, <2>2
    <3> HIDE DEF target
    <3>2. target \in Words
      BY <1>4, <3>1
    <3> QED BY <1>1, <1>5, <1>8, <3>1, <3>2
  <2> HIDE DEF target
  <2>4. first \in t.l1[target] /\ \A x \in t.l1[target] : first <= x
    <3>1. t.l1[target] \in SUBSET Nat
      BY <1>4, <1>5, <2>3
    <3> QED BY <1>5, <2>3, <3>1, MinIsLeast
  <2> HIDE DEF first
  <2>5. first \in Positions /\ BitAt(target, first) \in Active(t)
    BY <2>3, <2>4, ActivePlace
  <2>6. BitAt(target, first) >= bit
    <3>1. BitAt(w, p) < BitAt(target, first)
      BY <1>1, <2>3, <2>5, PlaceOrder
    <3> QED BY <1>1, <1>6, <2>5, <3>1
  <2>7. ASSUME NEW b \in Active(t), b >= bit PROVE BitAt(target, first) <= b
    <3>1. PICK v \in Words, x \in Positions : x \in t.l1[v] /\ b = BitAt(v, x)
      BY <1>7
    <3>2. target <= v /\ target \in Nat /\ v \in Nat
      BY <1>5, <2>1, <2>2, <2>3, <2>7, <3>1
    <3>3. CASE target = v
      BY <2>3, <2>4, <2>5, <3>1, <3>3, PlaceOrder
    <3>4. CASE target < v
      <4>1. BitAt(target, first) < b
        BY <2>3, <2>5, <3>1, <3>4, PlaceOrder
      <4> QED BY <1>6, <2>5, <4>1
    <3> QED BY <3>2, <3>3, <3>4
  <2> QED BY <1>2, <1>11, <2>5, <2>6, <2>7
<1> QED BY <1>10, <1>11

\* find_prev_set() returns the nearest active bit at or below a bit.
LEMMA FindPrevSetNearest ==
    ASSUME NEW t \in Tree, Summarised(t), NEW bit \in Bits,
           NEW a \in Active(t), a <= bit
    PROVE  /\ FindPrevSet(t, bit) \in Active(t)
           /\ FindPrevSet(t, bit) <= bit
           /\ \A b \in Active(t) : b <= bit => b <= FindPrevSet(t, bit)
<1> DEFINE w == WordOf(bit)
           p == PositionOf(bit)
           here == MaskLow(t.l1[w], p)
           later == MaskLow(t.l2, w - 1)
           inWord == Max(here)
           target == Max(later)
           first == Max(t.l1[target])
<1>1. w \in Words /\ p \in Positions /\ bit = BitAt(w, p)
  BY PlaceOfBit
<1>2. FindPrevSet(t, bit) = IF here # {} THEN BitAt(w, inWord) ELSE BitAt(target, first)
  BY DEF FindPrevSet
<1>3. /\ here = {x \in t.l1[w] : x <= p}
      /\ later = {v \in t.l2 : v <= w - 1}
  BY DEF MaskLow
<1>4. t.l1 \in [Words -> SUBSET Positions] /\ t.l2 \in SUBSET Words
  BY DEF Tree
<1>5. /\ \A v \in Words : v \in Nat /\ v <= kL1Count - 1
      /\ \A x \in Positions : x \in Nat /\ x <= kWordBits - 1
      /\ kL1Count - 1 \in Nat /\ kWordBits - 1 \in Nat
  BY TreeSizeAssumption DEF Words, Positions
<1>6. bit \in Int /\ \A b \in Active(t) : b \in Int
  BY DEF Bits, Active
<1>7. \A b \in Active(t) : \E v \in Words, x \in Positions :
          x \in t.l1[v] /\ b = BitAt(v, x)
  BY PlaceOfBit DEF Active
<1>8. \A v \in Words : v \in t.l2 <=> t.l1[v] # {}
  BY DEF Summarised
<1> HIDE DEF w, p, here, later
<1>9. ASSUME NEW b \in Active(t), b <= bit,
             NEW v \in Words, NEW x \in t.l1[v], x \in Positions, b = BitAt(v, x)
      PROVE  (v = w /\ x \in here) \/ v < w
  <2>1. SUFFICES ASSUME ~ (v < w) PROVE v = w /\ x \in here
    OBVIOUS
  <2>2. v \in Int /\ w \in Int /\ x \in Int /\ p \in Int
    BY <1>1, <1>5, <1>9
  <2>3. v = w
    <3>1. SUFFICES ASSUME w < v PROVE FALSE
      BY <2>1, <2>2
    <3>2. bit < b
      BY <1>1, <1>9, <3>1, PlaceOrder
    <3> QED BY <1>6, <1>9, <3>2
  <2>4. x <= p
    <3>1. SUFFICES ASSUME p < x PROVE FALSE
      BY <2>2
    <3>2. bit < b
      BY <1>1, <1>9, <2>3, <3>1, PlaceOrder
    <3> QED BY <1>6, <1>9, <3>2
  <2> QED BY <1>3, <1>9, <2>3, <2>4
<1>10. CASE here # {}
  <2>1. inWord \in here /\ \A x \in here : x <= inWord
    <3>1. here \in SUBSET (0 .. kWordBits - 1)
      BY <1>1, <1>3, <1>4, <1>5 DEF Positions
    <3> QED BY <1>5, <1>10, <3>1, MaxIsGreatest
  <2> HIDE DEF inWord
  <2>2. inWord \in t.l1[w] /\ inWord \in Positions /\ inWord <= p
    BY <1>1, <1>3, <1>4, <1>5, <2>1
  <2>3. BitAt(w, inWord) \in Active(t)
    BY <1>1, <2>2, ActivePlace
  <2>4. BitAt(w, inWord) <= bit
    <3>1. BitAt(w, inWord) <= BitAt(w, p)
      BY <1>1, <2>2, PlaceOrder
    <3> QED BY <1>1, <1>6, <2>3, <3>1
  <2>5. ASSUME NEW b \in Active(t), b <= bit PROVE b <= BitAt(w, inWord)
    <3>1. PICK v \in Words, x \in Positions : x \in t.l1[v] /\ b = BitAt(v, x)
      BY <1>7
    <3>2. CASE v = w /\ x \in here
      BY <1>1, <2>1, <2>2, <3>1, <3>2, PlaceOrder
    <3>3. CASE v < w
      <4>1. b < BitAt(w, inWord)
        BY <1>1, <2>2, <3>1, <3>3, PlaceOrder
      <4> QED BY <1>6, <2>3, <4>1
    <3> QED BY <1>9, <2>5, <3>1, <3>2, <3>3
  <2> QED BY <1>2, <1>10, <2>3, <2>4, <2>5
<1>11. CASE here = {}
  <2>1. \A b \in Active(t), v \in Words : \A x \in t.l1[v] :
           b <= bit /\ x \in Positions /\ b = BitAt(v, x) => v \in later
    <3> SUFFICES ASSUME NEW b \in Active(t), NEW v \in Words, NEW x \in t.l1[v],
                        b <= bit, x \in Positions, b = BitAt(v, x)
                 PROVE  v \in later
      OBVIOUS
    <3>1. v < w
      BY <1>9, <1>11
    <3>2. v \in t.l2
      BY <1>8
    <3>3. v <= w - 1
      BY <1>1, <1>5, <3>1
    <3> QED BY <1>3, <3>2, <3>3
  <2>2. target \in later /\ \A v \in later : v <= target
    <3>1. later \in SUBSET (0 .. kL1Count - 1)
      BY <1>3, <1>4, <1>5 DEF Words
    <3>2. later # {}
      BY <1>7, <2>1
    <3> QED BY <1>5, <3>1, <3>2, MaxIsGreatest
  <2>3. target \in Words /\ target < w /\ t.l1[target] # {}
    <3>1. target \in t.l2 /\ target <= w - 1
      BY <1>3, <2>2
    <3> HIDE DEF target
    <3>2. target \in Words
      BY <1>4, <3>1
    <3> QED BY <1>1, <1>5, <1>8, <3>1, <3>2
  <2> HIDE DEF target
  <2>4. first \in t.l1[target] /\ \A x \in t.l1[target] : x <= first
    <3>1. t.l1[target] \in SUBSET (0 .. kWordBits - 1)
      BY <1>4, <1>5, <2>3 DEF Positions
    <3> QED BY <1>5, <2>3, <3>1, MaxIsGreatest
  <2> HIDE DEF first
  <2>5. first \in Positions /\ BitAt(target, first) \in Active(t)
    BY <2>3, <2>4, ActivePlace
  <2>6. BitAt(target, first) <= bit
    <3>1. BitAt(target, first) < BitAt(w, p)
      BY <1>1, <2>3, <2>5, PlaceOrder
    <3> QED BY <1>1, <1>6, <2>5, <3>1
  <2>7. ASSUME NEW b \in Active(t), b <= bit PROVE b <= BitAt(target, first)
    <3>1. PICK v \in Words, x \in Positions : x \in t.l1[v] /\ b = BitAt(v, x)
      BY <1>7
    <3>2. v <= target /\ target \in Nat /\ v \in Nat
      BY <1>5, <2>1, <2>2, <2>3, <2>7, <3>1
    <3>3. CASE target = v
      BY <2>3, <2>4, <2>5, <3>1, <3>3, PlaceOrder
    <3>4. CASE v < target
      <4>1. b < BitAt(target, first)
        BY <2>3, <2>5, <3>1, <3>4, PlaceOrder
      <4> QED BY <1>6, <2>5, <4>1
    <3> QED BY <3>2, <3>3, <3>4
  <2> QED BY <1>2, <1>11, <2>5, <2>6, <2>7
<1> QED BY <1>10, <1>11

-----------------------------------------------------------------------------
(***************************************************************************)
(* The side book.                                                          *)
(***************************************************************************)
\* The invariant of a side book.
Sound(isAsk, b) == Summarised(b.active_tree) /\ BestIsExtremal(isAsk, b)

LEMMA EmptyBookSound ==
    ASSUME NEW isAsk \in BOOLEAN
    PROVE  /\ EmptyBook \in SideBook /\ Sound(isAsk, EmptyBook)
           /\ Active(EmptyBook.active_tree) = {}
<1>1. 0 \in Bits
  <2>1. kL1Count * kWordBits >= 1
    BY TreeSizeAssumption
  <2>2. kL1Count * kWordBits \in Nat
    BY TreeSizeAssumption
  <2> QED BY <2>1, <2>2 DEF Bits, kBitCount
<1> QED BY <1>1, EmptyTreeFacts DEF EmptyBook, SideBook, Sound, BestIsExtremal

\* get_or_create() makes one level active and keeps the best extreme.
LEMMA GetOrCreateSound ==
    ASSUME NEW isAsk \in BOOLEAN, NEW b \in SideBook, Sound(isAsk, b), NEW idx \in Bits
    PROVE  LET c == GetOrCreate(isAsk, b, idx) IN
           /\ c \in SideBook
           /\ Sound(isAsk, c)
           /\ c.has_best_
           /\ Active(c.active_tree) = Active(b.active_tree) \cup {idx}
<1> DEFINE t == SetBit(b.active_tree, idx)
           c == GetOrCreate(isAsk, b, idx)
<1>1. b.active_tree \in Tree /\ b.best_price_idx_ \in Bits /\ b.has_best_ \in BOOLEAN
  BY DEF SideBook
<1>2. t \in Tree /\ Summarised(t) /\ Active(t) = Active(b.active_tree) \cup {idx}
  BY <1>1, SetBitFacts DEF Sound
<1>3. /\ c.active_tree = t
      /\ c.best_price_idx_ = IF ~b.has_best_ \/ better_idx(isAsk, idx, b.best_price_idx_)
                             THEN idx ELSE b.best_price_idx_
      /\ c.has_best_ = TRUE
  BY DEF GetOrCreate
<1>4. c \in SideBook
  BY <1>1, <1>2 DEF SideBook, GetOrCreate
<1>5. /\ b.has_best_ <=> Active(b.active_tree) # {}
      /\ b.has_best_ =>
          /\ b.best_price_idx_ \in Active(b.active_tree)
          /\ \A i \in Active(b.active_tree) : ~better_idx(isAsk, i, b.best_price_idx_)
  BY DEF Sound, BestIsExtremal
<1>6. \A i \in Active(b.active_tree) : i \in Int
  BY DEF Active, Bits
<1>7. idx \in Int /\ b.best_price_idx_ \in Int
  BY <1>1 DEF Bits
<1> HIDE DEF c, t
<1>8. c.best_price_idx_ \in Active(t)
  BY <1>2, <1>3, <1>5
<1>9. ASSUME NEW i \in Active(t) PROVE ~better_idx(isAsk, i, c.best_price_idx_)
  <2>1. CASE i = idx
    BY <1>3, <1>7, <2>1 DEF better_idx
  <2>2. CASE i # idx
    <3>1. i \in Active(b.active_tree)
      BY <1>2, <2>2
    <3>2. b.has_best_ /\ ~better_idx(isAsk, i, b.best_price_idx_)
      BY <1>5, <3>1
    <3> QED BY <1>3, <1>6, <1>7, <3>1, <3>2 DEF better_idx
  <2> QED BY <2>1, <2>2
<1>10. Sound(isAsk, c)
  BY <1>2, <1>3, <1>8, <1>9 DEF Sound, BestIsExtremal
<1> QED BY <1>2, <1>3, <1>4, <1>10 DEF c

\* next_best() after the best bit is cleared: the best of what is left.
LEMMA NextBestIsExtreme ==
    ASSUME NEW isAsk \in BOOLEAN, NEW t \in Tree, Summarised(t), NEW bit \in Bits,
           NEW a \in Active(t), \A i \in Active(t) : ~better_idx(isAsk, i, bit)
    PROVE  /\ NextBest(isAsk, t, bit) \in Active(t)
           /\ \A i \in Active(t) : ~better_idx(isAsk, i, NextBest(isAsk, t, bit))
<1>1. bit \in Int /\ \A i \in Active(t) : i \in Int
  BY DEF Active, Bits
<1>2. CASE isAsk
  <2>1. \A i \in Active(t) : i >= bit
    BY <1>1, <1>2 DEF better_idx
  <2>2. /\ FindNextSet(t, bit) \in Active(t)
        /\ \A i \in Active(t) : i >= bit => FindNextSet(t, bit) <= i
    BY <2>1, FindNextSetNearest
  <2>3. NextBest(isAsk, t, bit) = FindNextSet(t, bit)
    BY <1>2 DEF NextBest
  <2>4. \A i \in Active(t) : ~ (i < FindNextSet(t, bit))
    BY <1>1, <2>1, <2>2
  <2> QED BY <1>2, <2>2, <2>3, <2>4 DEF better_idx
<1>3. CASE ~isAsk
  <2>1. \A i \in Active(t) : i <= bit
    BY <1>1, <1>3 DEF better_idx
  <2>2. /\ FindPrevSet(t, bit) \in Active(t)
        /\ \A i \in Active(t) : i <= bit => i <= FindPrevSet(t, bit)
    BY <2>1, FindPrevSetNearest
  <2>3. NextBest(isAsk, t, bit) = FindPrevSet(t, bit)
    BY <1>3 DEF NextBest
  <2>4. \A i \in Active(t) : ~ (i > FindPrevSet(t, bit))
    BY <1>1, <2>1, <2>2
  <2> QED BY <1>3, <2>2, <2>3, <2>4 DEF better_idx
<1> QED BY <1>2, <1>3

\* One turn of erase_best() takes the best level out and moves to the next.
LEMMA DropBestSound ==
    ASSUME NEW isAsk \in BOOLEAN, NEW b \in SideBook, Sound(isAsk, b), b.has_best_
    PROVE  LET c == DropBest(isAsk, b) IN
           /\ c \in SideBook
           /\ Sound(isAsk, c)
           /\ Active(c.active_tree) = Active(b.active_tree) \ {b.best_price_idx_}
<1> DEFINE bit == b.best_price_idx_
           t == ClearBit(b.active_tree, bit)
           c == DropBest(isAsk, b)
<1>1. b.active_tree \in Tree /\ bit \in Bits
  BY DEF SideBook
<1>2. t \in Tree /\ Summarised(t) /\ Active(t) = Active(b.active_tree) \ {bit}
  BY <1>1, ClearBitFacts DEF Sound
<1>3. \A i \in Active(t) : ~better_idx(isAsk, i, bit)
  BY <1>2 DEF Sound, BestIsExtremal
<1>4. CASE TreeEmpty(t)
  <2>1. c = [b EXCEPT !.active_tree = t, !.has_best_ = FALSE]
    BY <1>4 DEF DropBest
  <2>2. Active(t) = {}
    BY <1>2, <1>4, TreeEmptyExact
  <2> HIDE DEF t, c
  <2>3. c \in SideBook /\ c.active_tree = t /\ c.has_best_ = FALSE
    BY <1>2, <2>1 DEF SideBook
  <2> QED BY <1>2, <2>2, <2>3 DEF c, Sound, BestIsExtremal
<1>5. CASE ~TreeEmpty(t)
  <2> DEFINE next == NextBest(isAsk, t, bit)
  <2>1. c = [b EXCEPT !.active_tree = t, !.best_price_idx_ = next]
    BY <1>5 DEF DropBest
  <2>2. PICK a \in Active(t) : TRUE
    BY <1>2, <1>5, TreeEmptyExact
  <2>3. /\ next \in Active(t)
        /\ \A i \in Active(t) : ~better_idx(isAsk, i, next)
    BY <1>1, <1>2, <1>3, <2>2, NextBestIsExtreme
  <2>4. next \in Bits
    BY <2>3 DEF Active
  <2> HIDE DEF t, c, next
  <2>5. c \in SideBook /\ c.active_tree = t /\ c.best_price_idx_ = next /\ c.has_best_
    BY <1>2, <2>1, <2>4 DEF SideBook
  <2> QED BY <1>2, <2>3, <2>5 DEF c, Sound, BestIsExtremal
<1> QED BY <1>4, <1>5
=============================================================================

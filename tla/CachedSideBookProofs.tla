------------------------ MODULE CachedSideBookProofs ------------------------
(***************************************************************************)
(* The safety of the Phase 7 side book, for either side and every size of  *)
(* ring and pool.                                                          *)
(*                                                                         *)
(* The invariant has two halves.  What the two tiers and the pool hold is  *)
(* the same at every step, also between two evictions of a slide           *)
(* (WellPlaced).  How the window lies between the tiers depends on where   *)
(* erase_best() stands (WindowInv).                                        *)
(***************************************************************************)
EXTENDS CachedSideBook, TLAPS, FiniteSetTheorems, SequenceTheorems, WellFoundedInduction

-----------------------------------------------------------------------------
\* The slot k ticks behind the anchor's slot a.
Turn(a, k) ==
    IF a + k >= RingSize THEN a + k - RingSize
    ELSE IF a + k < 0 THEN a + k + RingSize
    ELSE a + k

\* The live slots are the ones with a price and a level, each where its price
\* belongs.
Frame(r) ==
    /\ r \in Ring(Prices, Level)
    /\ \A i \in Slots : i \in r.live_mask_ <=> r.slots_[i].price # kNoPrice
    /\ \A i \in Slots : i \in r.live_mask_ <=> r.slots_[i].level # NULL
    /\ r.live_mask_ # {} => r.best_price_ \in Prices
    /\ \A i \in r.live_mask_ : /\ rank(r, r.slots_[i].price) \in Slots
                               /\ i = Turn(r.anchor_, rank(r, r.slots_[i].price))

\* Every level is in one place.
Placed(t) ==
    /\ \A j, k \in 1 .. Len(t.free) : t.free[j] = t.free[k] => j = k
    /\ \A i, j \in t.hot.live_mask_ : t.hot.slots_[i].level = t.hot.slots_[j].level => i = j
    /\ \A p, q \in DOMAIN t.cold : t.cold[p] = t.cold[q] => p = q
    /\ \A k \in 1 .. Len(t.free), i \in t.hot.live_mask_ : t.free[k] # t.hot.slots_[i].level
    /\ \A k \in 1 .. Len(t.free), p \in DOMAIN t.cold : t.free[k] # t.cold[p]
    /\ \A i \in t.hot.live_mask_, p \in DOMAIN t.cold : t.hot.slots_[i].level # t.cold[p]
    /\ \A l \in Level : \/ \E k \in 1 .. Len(t.free) : t.free[k] = l
                        \/ \E i \in t.hot.live_mask_ : t.hot.slots_[i].level = l
                        \/ \E p \in DOMAIN t.cold : t.cold[p] = l

\* The orders c of each level have the price under which the level is found.
Filed(t, c) ==
    /\ c \in [Level -> SUBSET Prices]
    /\ \A k \in 1 .. Len(t.free) : c[t.free[k]] = {}
    /\ \A i \in t.hot.live_mask_ : c[t.hot.slots_[i].level] \subseteq {t.hot.slots_[i].price}
    /\ \A p \in DOMAIN t.cold : c[t.cold[p]] \subseteq {p}

TiersTyped(t) ==
    /\ t = [hot |-> t.hot, cold |-> t.cold, free |-> t.free]
    /\ DOMAIN t.cold \subseteq Prices
    /\ t.cold \in [DOMAIN t.cold -> Level]
    /\ t.free \in Seq(Level)

\* No price is in both tiers.
PricesApart(t) == \A i \in t.hot.live_mask_ : t.hot.slots_[i].price \notin DOMAIN t.cold

WellPlaced(t, c) ==
    /\ TiersTyped(t)
    /\ Frame(t.hot)
    /\ Placed(t)
    /\ PricesApart(t)
    /\ Filed(t, c)

\* Every live slot is nearer than rank n, and every cold price at n or beyond.
Divided(t, n) ==
    /\ \A i \in t.hot.live_mask_ : rank(t.hot, t.hot.slots_[i].price) < n
    /\ \A p \in DOMAIN t.cold : rank(t.hot, p) >= n

\* Between calls: an empty side, or a window with its best at the anchor.
Settled(t) ==
    IF t.hot.live_mask_ = {}
    THEN t.hot.best_price_ = kNoPrice /\ DOMAIN t.cold = {}
    ELSE t.hot.anchor_ \in t.hot.live_mask_ /\ Divided(t, RingSize)

\* While erase_best() runs the window may reach the cold prices, which stay
\* behind the hot ones and behind the best.
Ordered(t) ==
    /\ t.hot.best_price_ \in Prices
    /\ \A p \in DOMAIN t.cold : rank(t.hot, p) > 0
    /\ \A i \in t.hot.live_mask_, p \in DOMAIN t.cold :
           rank(t.hot, t.hot.slots_[i].price) < rank(t.hot, p)

WindowInv ==
    /\ pc \in {"idle", "erase", "scan", "promote"}
    /\ pc \in {"idle", "erase"} => Settled(tiers)
    /\ pc \in {"scan", "promote"} => Ordered(tiers)
    /\ pc = "scan" => hot.anchor_ \notin hot.live_mask_
    /\ pc = "promote" => hot.anchor_ \in hot.live_mask_
    /\ pc = "erase" => hot.live_mask_ # {}

IInv == WellPlaced(tiers, content) /\ WindowInv

-----------------------------------------------------------------------------
(***************************************************************************)
(* Numbers: the mask of the ring, and extreme elements.                    *)
(***************************************************************************)
LEMMA RingSizeFacts == RingSize \in Nat /\ RingSize > 0 /\ IsAsk \in BOOLEAN
BY RingAssumption

\* Within one turn either way, % is an addition.
LEMMA ModTurn ==
    ASSUME NEW a \in Slots, NEW k \in Int, -RingSize <= a + k, a + k < 2 * RingSize
    PROVE  (a + k) % RingSize = Turn(a, k) /\ Turn(a, k) \in Slots
<1> DEFINE x == a + k
           q == x \div RingSize
           m == x % RingSize
<1>1. RingSize \in Nat /\ RingSize > 0 /\ x \in Int /\ a \in Int
  BY RingSizeFacts DEF Slots
<1>2. q \in Int /\ m \in Int /\ x = RingSize * q + m /\ 0 <= m /\ m < RingSize
  BY <1>1
<1>3. q >= -1
  <2>1. SUFFICES ASSUME q <= -2 PROVE FALSE
    BY <1>2
  <2>2. RingSize * q <= RingSize * (-2)
    BY <1>1, <1>2, <2>1
  <2> QED BY <1>1, <1>2, <2>2
<1>4. q <= 1
  <2>1. SUFFICES ASSUME q >= 2 PROVE FALSE
    BY <1>2
  <2>2. RingSize * q >= RingSize * 2
    BY <1>1, <1>2, <2>1
  <2> QED BY <1>1, <1>2, <2>2
<1>5. m = Turn(a, k)
  <2>1. CASE q = -1
    <3>1. x = m - RingSize
      BY <1>1, <1>2, <2>1
    <3> QED BY <1>1, <1>2, <3>1 DEF Turn
  <2>2. CASE q = 0
    <3>1. x = m
      BY <1>1, <1>2, <2>2
    <3> QED BY <1>1, <1>2, <3>1 DEF Turn
  <2>3. CASE q = 1
    <3>1. x = m + RingSize
      BY <1>1, <1>2, <2>3
    <3> QED BY <1>1, <1>2, <3>1 DEF Turn
  <2> QED BY <1>2, <1>3, <1>4, <2>1, <2>2, <2>3
<1> QED BY <1>1, <1>2, <1>5 DEF Slots

\* Different offsets lead to different slots.
LEMMA TurnInjective ==
    ASSUME NEW a \in Slots, NEW j \in Slots, NEW k \in Slots, Turn(a, j) = Turn(a, k)
    PROVE  j = k
BY RingSizeFacts DEF Turn, Slots

\* Every non-empty set of naturals has a least element.
LEMMA LeastNatural ==
    ASSUME NEW T \in SUBSET Nat, T # {}
    PROVE  \E x \in T : \A y \in T : x <= y
<1>1. IsWellFoundedOn(OpToRel(<, Nat), Nat)
  BY NatLessThanWellFounded
<1>2. \A R, S, U : IsWellFoundedOn(R, S) /\ U \subseteq S /\ U # {}
                     => \E x \in U : \A y \in U : ~ (<<y, x>> \in R)
  BY WFMin
<1>3. PICK x \in T : \A y \in T : ~ (<<y, x>> \in OpToRel(<, Nat))
  BY <1>1, <1>2, Zenon
<1>4. \A y \in T : ~ (y < x)
  BY <1>3 DEF OpToRel
<1> QED BY <1>4

\* A non-empty finite set of integers has a least element: otherwise take one
\* with the fewest elements, and without one of them it has a least element.
LEMMA LeastOfFinite ==
    ASSUME NEW S \in SUBSET Int, IsFiniteSet(S), S # {}
    PROVE  \E x \in S : \A y \in S : x <= y
<1> DEFINE Least(U) == \E x \in U : \A y \in U : x <= y
           Bad == {n \in Nat : \E U \in SUBSET S : U # {} /\ Cardinality(U) = n /\ ~Least(U)}
<1>1. SUFFICES ASSUME ~Least(S) PROVE FALSE
  OBVIOUS
<1>2. Bad # {}
  <2>1. Cardinality(S) \in Nat
    BY FS_CardinalityType
  <2>2. Cardinality(S) \in Bad
    BY <1>1, <2>1
  <2> QED BY <2>2
<1>3. PICK n \in Bad : \A m \in Bad : n <= m
  BY <1>2, LeastNatural
<1>4. PICK U \in SUBSET S : U # {} /\ Cardinality(U) = n /\ ~Least(U)
  OBVIOUS
<1>5. PICK x \in U : TRUE
  BY <1>4
<1> DEFINE V == U \ {x}
<1>6. IsFiniteSet(U) /\ IsFiniteSet(V) /\ Cardinality(V) \in Nat /\ Cardinality(V) = n - 1
  <2>1. IsFiniteSet(U)
    BY FS_Subset
  <2>2. IsFiniteSet(V) /\ Cardinality(V) = Cardinality(U) - 1
    BY <1>5, <2>1, FS_RemoveElement
  <2>3. Cardinality(V) \in Nat
    BY <2>2, FS_CardinalityType
  <2> QED BY <1>4, <2>1, <2>2, <2>3
<1>7. CASE V = {}
  BY <1>4, <1>5, <1>7
<1>8. CASE V # {}
  <2>1. Cardinality(V) \notin Bad
    <3>1. ~(n <= Cardinality(V)) /\ Cardinality(V) \in Nat
      BY <1>6
    <3> QED BY <1>3, <3>1
  <2>2. Least(V)
    BY <1>6, <1>8, <2>1
  <2>3. PICK y \in V : \A z \in V : y <= z
    BY <2>2
  <2>4. CASE x <= y
    BY <1>4, <1>5, <2>3, <2>4
  <2>5. CASE ~(x <= y)
    BY <1>4, <1>5, <2>3, <2>5
  <2> QED BY <2>4, <2>5
<1> QED BY <1>7, <1>8

\* Likewise a greatest one.
LEMMA GreatestOfFinite ==
    ASSUME NEW S \in SUBSET Int, IsFiniteSet(S), S # {}
    PROVE  \E x \in S : \A y \in S : x >= y
<1> DEFINE N == {-x : x \in S}
           f == [x \in S |-> -x]
<1>1. f \in Surjection(S, N)
  BY DEF Surjection
<1>2. IsFiniteSet(N)
  BY <1>1, FS_Surjection
<1>3. N \in SUBSET Int /\ N # {}
  <2>1. \A x \in S : x \in Int /\ -x \in Int
    OBVIOUS
  <2>2. PICK s \in S : TRUE
    OBVIOUS
  <2>3. -s \in N
    BY <2>2
  <2> QED BY <2>1, <2>3
<1>4. PICK m \in N : \A y \in N : m <= y
  BY <1>2, <1>3, LeastOfFinite
<1>5. PICK x \in S : m = -x
  OBVIOUS
<1>6. ASSUME NEW y \in S PROVE x >= y
  <2>1. m <= -y
    BY <1>4
  <2>2. x \in Int /\ y \in Int
    OBVIOUS
  <2> QED BY <1>5, <2>1, <2>2
<1> QED BY <1>6

-----------------------------------------------------------------------------
(***************************************************************************)
(* What the operations of the ring change, and that they keep its frame.   *)
(***************************************************************************)
LEMMA PriceFacts ==
    /\ \A p \in Prices : p \in Int /\ p # kNoPrice
    /\ \A l \in Level : l # NULL
    /\ Level = 0 .. pool_capacity - 1
BY RingAssumption, CachedAssumption DEF Level

LEMMA RingParts ==
    ASSUME NEW r \in Ring(Prices, Level)
    PROVE  /\ r = [slots_ |-> r.slots_, live_mask_ |-> r.live_mask_,
                   anchor_ |-> r.anchor_, best_price_ |-> r.best_price_]
           /\ r.slots_ \in [Slots -> [price : Prices \cup {kNoPrice}, level : Level \cup {NULL}]]
           /\ r.live_mask_ \in SUBSET Slots
           /\ r.anchor_ \in Slots
           /\ r.best_price_ \in Prices \cup {kNoPrice}
BY DEF Ring

\* v is r without the contents of slot i.
Vacated(r, i, v) ==
    /\ v \in Ring(Prices, Level)
    /\ v.anchor_ = r.anchor_ /\ v.best_price_ = r.best_price_
    /\ v.live_mask_ = r.live_mask_ \ {i}
    /\ v.slots_[i] = VacantSlot
    /\ \A j \in Slots \ {i} : v.slots_[j] = r.slots_[j]

LEMMA VacateFacts ==
    ASSUME NEW r \in Ring(Prices, Level), NEW i \in Slots
    PROVE  Vacated(r, i, Vacate(r, i))
<1> DEFINE v == Vacate(r, i)
           slots == [r.slots_ EXCEPT ![i] = VacantSlot]
<1>1. VacantSlot \in [price : Prices \cup {kNoPrice}, level : Level \cup {NULL}]
  BY DEF VacantSlot
<1>2. slots \in [Slots -> [price : Prices \cup {kNoPrice}, level : Level \cup {NULL}]]
  BY <1>1, RingParts
<1>3. /\ v.slots_ = slots /\ v.live_mask_ = r.live_mask_ \ {i}
      /\ v.anchor_ = r.anchor_ /\ v.best_price_ = r.best_price_
  BY DEF Ring, Vacate
<1>4. v \in Ring(Prices, Level)
  BY <1>2 DEF Ring, Vacate
<1>5. slots[i] = VacantSlot /\ \A j \in Slots \ {i} : slots[j] = r.slots_[j]
  BY RingParts
<1> HIDE DEF slots, v
<1> QED BY <1>3, <1>4, <1>5 DEF Vacated, v

\* v is r with price and level in slot i.
Inserted(r, i, price, level, v) ==
    /\ v \in Ring(Prices, Level)
    /\ v.anchor_ = r.anchor_ /\ v.best_price_ = r.best_price_
    /\ v.live_mask_ = r.live_mask_ \cup {i}
    /\ v.slots_[i] = [price |-> price, level |-> level]
    /\ \A j \in Slots \ {i} : v.slots_[j] = r.slots_[j]

LEMMA InsertFacts ==
    ASSUME NEW r \in Ring(Prices, Level), NEW i \in Slots, NEW price \in Prices, NEW level \in Level
    PROVE  Inserted(r, i, price, level, insert(r, i, price, level))
<1> DEFINE v == insert(r, i, price, level)
           slot == [price |-> price, level |-> level]
           slots == [r.slots_ EXCEPT ![i] = slot]
<1>2. slots \in [Slots -> [price : Prices \cup {kNoPrice}, level : Level \cup {NULL}]]
  BY RingParts
<1>3. /\ v.slots_ = slots /\ v.live_mask_ = r.live_mask_ \cup {i}
      /\ v.anchor_ = r.anchor_ /\ v.best_price_ = r.best_price_
  BY DEF Ring, insert
<1>4. v \in Ring(Prices, Level)
  BY <1>2 DEF Ring, insert
<1>5. slots[i] = slot /\ \A j \in Slots \ {i} : slots[j] = r.slots_[j]
  BY RingParts
<1> HIDE DEF slots, v
<1> QED BY <1>3, <1>4, <1>5 DEF Inserted, v

LEMMA SetAnchorFacts ==
    ASSUME NEW r \in Ring(Prices, Level), NEW a \in Slots, NEW price \in Prices \cup {kNoPrice}
    PROVE  /\ set_anchor(r, a, price) \in Ring(Prices, Level)
           /\ set_anchor(r, a, price).slots_ = r.slots_
           /\ set_anchor(r, a, price).live_mask_ = r.live_mask_
           /\ set_anchor(r, a, price).anchor_ = a
           /\ set_anchor(r, a, price).best_price_ = price
BY DEF Ring, set_anchor

LEMMA ResetFacts ==
    ASSUME NEW r \in Ring(Prices, Level)
    PROVE  /\ reset(r) \in Ring(Prices, Level)
           /\ reset(r).slots_ = r.slots_
           /\ reset(r).live_mask_ = {}
           /\ reset(r).anchor_ = r.anchor_
           /\ reset(r).best_price_ = kNoPrice
BY DEF Ring, reset

LEMMA FrameVacated ==
    ASSUME NEW r, NEW i \in Slots, NEW v, Frame(r), Vacated(r, i, v)
    PROVE  Frame(v)
<1>1. VacantSlot.price = kNoPrice /\ VacantSlot.level = NULL
  BY DEF VacantSlot
<1>2. v.live_mask_ \subseteq Slots /\ r.live_mask_ \subseteq Slots
  BY RingParts DEF Frame, Vacated
<1>3. \A j \in v.live_mask_ : /\ v.slots_[j] = r.slots_[j]
                              /\ rank(v, v.slots_[j].price) = rank(r, r.slots_[j].price)
  BY <1>2 DEF Vacated, rank
<1>4. \A j \in v.live_mask_ : /\ rank(v, v.slots_[j].price) \in Slots
                              /\ j = Turn(v.anchor_, rank(v, v.slots_[j].price))
  BY <1>3 DEF Frame, Vacated
<1>5. \A j \in Slots : /\ j \in v.live_mask_ <=> v.slots_[j].price # kNoPrice
                       /\ j \in v.live_mask_ <=> v.slots_[j].level # NULL
  BY <1>1 DEF Frame, Vacated
<1> QED BY <1>4, <1>5 DEF Frame, Vacated

LEMMA FrameInserted ==
    ASSUME NEW r, Frame(r), r.best_price_ \in Prices,
           NEW price \in Prices, NEW level \in Level, rank(r, price) \in Slots,
           NEW i \in Slots, i = Turn(r.anchor_, rank(r, price)),
           NEW v, Inserted(r, i, price, level, v)
    PROVE  Frame(v)
<1>1. v.slots_[i].price = price /\ v.slots_[i].level = level
  BY DEF Inserted
<1>2. v.live_mask_ \subseteq Slots /\ r.live_mask_ \subseteq Slots
  BY RingParts DEF Frame, Inserted
<1>3. ASSUME NEW j \in v.live_mask_, j # i
      PROVE  /\ rank(v, v.slots_[j].price) \in Slots
             /\ j = Turn(v.anchor_, rank(v, v.slots_[j].price))
  <2>1. /\ v.slots_[j] = r.slots_[j] /\ j \in r.live_mask_
        /\ rank(v, v.slots_[j].price) = rank(r, r.slots_[j].price)
    BY <1>2, <1>3 DEF Inserted, rank
  <2> QED BY <2>1 DEF Frame, Inserted
<1>4. rank(v, v.slots_[i].price) = rank(r, price)
  BY <1>1 DEF Inserted, rank
<1>5. \A j \in Slots : /\ j \in v.live_mask_ <=> v.slots_[j].price # kNoPrice
                       /\ j \in v.live_mask_ <=> v.slots_[j].level # NULL
  BY <1>1, PriceFacts DEF Frame, Inserted
<1> QED BY <1>3, <1>4, <1>5 DEF Frame, Inserted

\* The best moves by d ticks, and the anchor with it: a live slot that stays
\* in the window is where its price belongs.
LEMMA FrameMoves ==
    ASSUME NEW r, Frame(r), r.best_price_ \in Prices,
           NEW price \in Prices, NEW d \in Int, d = rank(r, price),
           -RingSize < d, d < RingSize,
           \A i \in r.live_mask_ : rank(r, r.slots_[i].price) - d \in Slots,
           NEW v, v = set_anchor(r, Turn(r.anchor_, d), price)
    PROVE  /\ Frame(v)
           /\ \A p \in Prices : rank(v, p) = rank(r, p) - d
<1>1. r \in Ring(Prices, Level) /\ r.anchor_ \in Slots /\ r.live_mask_ \subseteq Slots
  BY RingParts DEF Frame
<1>2. Turn(r.anchor_, d) \in Slots
  BY <1>1, RingSizeFacts DEF Turn, Slots
<1>3. /\ v \in Ring(Prices, Level) /\ v.slots_ = r.slots_ /\ v.live_mask_ = r.live_mask_
      /\ v.anchor_ = Turn(r.anchor_, d) /\ v.best_price_ = price
  BY <1>1, <1>2, SetAnchorFacts
<1>4. \A p \in Prices : rank(v, p) = rank(r, p) - d
  BY <1>3, PriceFacts DEF rank
<1>5. ASSUME NEW i \in v.live_mask_
      PROVE  /\ rank(v, v.slots_[i].price) \in Slots
             /\ i = Turn(v.anchor_, rank(v, v.slots_[i].price))
  <2> DEFINE k == rank(r, r.slots_[i].price)
  <2>1. i \in Slots /\ k \in Slots /\ k - d \in Slots /\ i = Turn(r.anchor_, k)
    BY <1>1, <1>3 DEF Frame
  <2>2. r.slots_[i].price \in Prices
    BY <1>1, <1>3, <2>1, RingParts DEF Frame
  <2>3. rank(v, v.slots_[i].price) = k - d
    BY <1>3, <1>4, <2>2
  <2>4. k \in Int
    BY <2>1 DEF Slots
  <2> HIDE DEF k
  <2>5. i = Turn(Turn(r.anchor_, d), k - d)
    BY <1>1, <2>1, <2>4, RingSizeFacts DEF Turn, Slots
  <2> QED BY <1>3, <2>1, <2>3, <2>5
<1> QED BY <1>3, <1>4, <1>5 DEF Frame

\* In an empty ring any slot may be the anchor.
LEMMA FrameOfEmpty ==
    ASSUME NEW r, Frame(r), r.live_mask_ = {}, NEW v \in Ring(Prices, Level),
           v.slots_ = r.slots_, v.live_mask_ = {}
    PROVE  Frame(v)
BY DEF Frame

\* A live slot is the only one that can hold its price.
LEMMA SlotOfPrice ==
    ASSUME NEW r, Frame(r), NEW price \in Prices, r.best_price_ \in Prices,
           rank(r, price) \in Slots, Turn(r.anchor_, rank(r, price)) \in r.live_mask_
    PROVE  r.slots_[Turn(r.anchor_, rank(r, price))].price = price
<1> DEFINE k == rank(r, price)
           i == Turn(r.anchor_, k)
           q == r.slots_[i].price
           j == rank(r, q)
<1>1. r.anchor_ \in Slots /\ i \in Slots /\ q \in Prices
  BY RingParts DEF Frame
<1>2. k \in Slots /\ j \in Slots /\ i = Turn(r.anchor_, j)
  BY DEF Frame
<1>3. q \in Int /\ price \in Int /\ r.best_price_ \in Int
  BY <1>1, PriceFacts
<1>4. k = j => q = price
  BY <1>3 DEF rank
<1> HIDE DEF j, q
<1>5. Turn(r.anchor_, k) = Turn(r.anchor_, j)
  BY <1>2
<1>6. k = j
  BY <1>1, <1>2, <1>5, TurnInjective
<1> QED BY <1>4, <1>6 DEF q
-----------------------------------------------------------------------------
(***************************************************************************)
(* A level moves from one place to another.                                *)
(***************************************************************************)

\* The free list grows and shrinks at its head.
LEMMA FreeGrows ==
    ASSUME NEW f \in Seq(Level), NEW l \in Level, NEW g, g = <<l>> \o f
    PROVE  /\ g \in Seq(Level)
           /\ Len(g) = Len(f) + 1 /\ Len(f) \in Nat
           /\ g[1] = l
           /\ \A k \in 1 .. Len(f) : g[k + 1] = f[k]
           /\ \A k \in 1 .. Len(g) : k = 1 \/ (k - 1 \in 1 .. Len(f) /\ g[k] = f[k - 1])
<1>1. <<l>> \in Seq(Level) /\ Len(<<l>>) = 1 /\ <<l>>[1] = l
  OBVIOUS
<1>2. /\ g \in Seq(Level)
      /\ Len(g) = Len(<<l>>) + Len(f)
      /\ \A k \in 1 .. Len(<<l>>) + Len(f) :
             g[k] = IF k <= Len(<<l>>) THEN <<l>>[k] ELSE f[k - Len(<<l>>)]
  BY <1>1, ConcatProperties
<1>3. Len(f) \in Nat
  BY LenProperties
<1> QED BY <1>1, <1>2, <1>3

LEMMA FreeShrinks ==
    ASSUME NEW f \in Seq(Level), f # <<>>, NEW g, g = Tail(f)
    PROVE  /\ Head(f) \in Level /\ Head(f) = f[1]
           /\ g \in Seq(Level)
           /\ Len(g) = Len(f) - 1 /\ Len(f) \in Nat /\ Len(f) >= 1
           /\ \A k \in 1 .. Len(g) : g[k] = f[k + 1]
<1>1. Len(f) \in Nat /\ Len(f) >= 1
  BY LenProperties, EmptySeq
<1>2. /\ Head(f) \in Level /\ g \in Seq(Level) /\ Len(g) = Len(f) - 1
      /\ \A k \in 1 .. Len(g) : g[k] = f[k + 1]
  BY HeadTailProperties
<1>3. Head(f) = f[1]
  BY DEF Head
<1> QED BY <1>1, <1>2, <1>3

\* An empty level leaves slot i for the pool.
LEMMA SlotToFree ==
    ASSUME NEW t, NEW c, WellPlaced(t, c),
           NEW i \in t.hot.live_mask_, NEW l, l = t.hot.slots_[i].level, c[l] = {},
           NEW u, Vacated(t.hot, i, u.hot), u.cold = t.cold, u.free = <<l>> \o t.free,
           u = [hot |-> u.hot, cold |-> u.cold, free |-> u.free]
    PROVE  WellPlaced(u, c)
<1>1. /\ t.hot.live_mask_ \subseteq Slots /\ i \in Slots /\ t.free \in Seq(Level)
      /\ t.hot \in Ring(Prices, Level) /\ l # NULL
  BY RingParts DEF WellPlaced, TiersTyped, Frame
<1>2. l \in Level
  BY <1>1, RingParts
<1>3. u.hot.live_mask_ = t.hot.live_mask_ \ {i}
  BY DEF Vacated
<1>4. \A j \in u.hot.live_mask_ : u.hot.slots_[j] = t.hot.slots_[j] /\ j \in t.hot.live_mask_ /\ j # i
  BY <1>1, <1>3 DEF Vacated
<1>5. /\ u.free \in Seq(Level)
      /\ Len(u.free) = Len(t.free) + 1 /\ Len(t.free) \in Nat
      /\ u.free[1] = l
      /\ \A k \in 1 .. Len(t.free) : u.free[k + 1] = t.free[k]
      /\ \A k \in 1 .. Len(u.free) : k = 1 \/ (k - 1 \in 1 .. Len(t.free) /\ u.free[k] = t.free[k - 1])
  BY <1>1, <1>2, FreeGrows
<1>6. TiersTyped(u)
  BY <1>5 DEF WellPlaced, TiersTyped
<1>7. Frame(u.hot)
  BY <1>1, FrameVacated DEF WellPlaced
<1>8. Placed(t)
  BY DEF WellPlaced
<1>9. Placed(u)
  <2>1. ASSUME NEW j \in 1 .. Len(u.free), NEW k \in 1 .. Len(u.free), u.free[j] = u.free[k]
        PROVE  j = k
    BY <1>5, <1>8, <2>1 DEF Placed
  <2>2. \A j, k \in u.hot.live_mask_ : u.hot.slots_[j].level = u.hot.slots_[k].level => j = k
    BY <1>4, <1>8 DEF Placed
  <2>3. ASSUME NEW k \in 1 .. Len(u.free), NEW j \in u.hot.live_mask_
        PROVE  u.free[k] # u.hot.slots_[j].level
    <3>1. u.hot.slots_[j].level = t.hot.slots_[j].level /\ j \in t.hot.live_mask_ /\ j # i
      BY <1>4
    <3>2. CASE k = 1
      BY <1>5, <1>8, <3>1, <3>2 DEF Placed
    <3>3. CASE k # 1
      <4>1. k - 1 \in 1 .. Len(t.free) /\ u.free[k] = t.free[k - 1]
        BY <1>5, <3>3
      <4> QED BY <1>8, <3>1, <4>1 DEF Placed
    <3> QED BY <3>2, <3>3
  <2>4. ASSUME NEW k \in 1 .. Len(u.free), NEW p \in DOMAIN u.cold
        PROVE  u.free[k] # u.cold[p]
    <3>1. CASE k = 1
      BY <1>5, <1>8, <3>1 DEF Placed
    <3>2. CASE k # 1
      BY <1>5, <1>8, <3>2 DEF Placed
    <3> QED BY <3>1, <3>2
  <2>5. \A j \in u.hot.live_mask_, p \in DOMAIN u.cold : u.hot.slots_[j].level # u.cold[p]
    BY <1>4, <1>8 DEF Placed
  <2>6. ASSUME NEW m \in Level
        PROVE  \/ \E k \in 1 .. Len(u.free) : u.free[k] = m
               \/ \E j \in u.hot.live_mask_ : u.hot.slots_[j].level = m
               \/ \E p \in DOMAIN u.cold : u.cold[p] = m
    <3>1. CASE \E k \in 1 .. Len(t.free) : t.free[k] = m
      <4>1. PICK k \in 1 .. Len(t.free) : t.free[k] = m
        BY <3>1
      <4>2. k + 1 \in 1 .. Len(u.free) /\ u.free[k + 1] = m
        BY <1>5, <4>1
      <4> QED BY <4>2
    <3>2. CASE \E j \in t.hot.live_mask_ : t.hot.slots_[j].level = m
      <4>1. PICK j \in t.hot.live_mask_ : t.hot.slots_[j].level = m
        BY <3>2
      <4>2. CASE j = i
        <5>1. 1 \in 1 .. Len(u.free) /\ u.free[1] = m
          BY <1>5, <4>1, <4>2
        <5> QED BY <5>1
      <4>3. CASE j # i
        BY <1>3, <1>4, <4>1, <4>3
      <4> QED BY <4>2, <4>3
    <3>3. CASE \E p \in DOMAIN t.cold : t.cold[p] = m
      BY <3>3
    <3> QED BY <1>8, <3>1, <3>2, <3>3 DEF Placed
  <2>7. \A p, q \in DOMAIN u.cold : u.cold[p] = u.cold[q] => p = q
    BY <1>8 DEF Placed
  <2> QED BY <2>1, <2>2, <2>3, <2>4, <2>5, <2>6, <2>7 DEF Placed
<1>10. PricesApart(u)
  BY <1>4 DEF WellPlaced, PricesApart
<1>11. Filed(u, c)
  <2>1. ASSUME NEW k \in 1 .. Len(u.free) PROVE c[u.free[k]] = {}
    BY <1>5 DEF WellPlaced, Filed
  <2> QED BY <1>4, <2>1 DEF WellPlaced, Filed
<1> QED BY <1>6, <1>7, <1>9, <1>10, <1>11 DEF WellPlaced

\* The level of slot i goes to the cold map, under its price.
LEMMA SlotToCold ==
    ASSUME NEW t, NEW c, WellPlaced(t, c),
           NEW i \in t.hot.live_mask_,
           NEW l, l = t.hot.slots_[i].level, NEW q, q = t.hot.slots_[i].price,
           NEW u, Vacated(t.hot, i, u.hot), u.free = t.free,
           u.cold = [p \in DOMAIN t.cold \cup {q} |-> IF p = q THEN l ELSE t.cold[p]],
           u = [hot |-> u.hot, cold |-> u.cold, free |-> u.free]
    PROVE  WellPlaced(u, c)
<1>1. /\ t.hot.live_mask_ \subseteq Slots /\ i \in Slots
      /\ t.hot \in Ring(Prices, Level) /\ l # NULL /\ q # kNoPrice
  BY RingParts DEF WellPlaced, Frame
<1>2. l \in Level /\ q \in Prices
  BY <1>1, RingParts
<1>3. q \notin DOMAIN t.cold
  BY DEF WellPlaced, PricesApart
<1>4. \A j \in u.hot.live_mask_ : u.hot.slots_[j] = t.hot.slots_[j] /\ j \in t.hot.live_mask_ /\ j # i
  BY <1>1 DEF Vacated
<1>5. /\ DOMAIN u.cold = DOMAIN t.cold \cup {q} /\ u.cold[q] = l
      /\ \A p \in DOMAIN t.cold : u.cold[p] = t.cold[p]
  BY <1>3
<1>6. TiersTyped(u)
  <2>1. \A p \in DOMAIN u.cold : u.cold[p] \in Level
    BY <1>2, <1>5 DEF WellPlaced, TiersTyped
  <2>2. DOMAIN u.cold \subseteq Prices
    BY <1>2, <1>5 DEF WellPlaced, TiersTyped
  <2>3. u.cold \in [DOMAIN u.cold -> Level]
    BY <2>1
  <2> QED BY <2>2, <2>3 DEF WellPlaced, TiersTyped
<1>7. Frame(u.hot)
  BY <1>1, FrameVacated DEF WellPlaced
<1>8. Placed(t)
  BY DEF WellPlaced
<1>9. Placed(u)
  <2>1. \A j, k \in 1 .. Len(u.free) : u.free[j] = u.free[k] => j = k
    BY <1>8 DEF Placed
  <2>2. \A j, k \in u.hot.live_mask_ : u.hot.slots_[j].level = u.hot.slots_[k].level => j = k
    BY <1>4, <1>8 DEF Placed
  <2>3. ASSUME NEW x \in DOMAIN u.cold, NEW y \in DOMAIN u.cold, u.cold[x] = u.cold[y]
        PROVE  x = y
    <3>1. CASE x = q \/ y = q
      <4>1. \A p \in DOMAIN t.cold : t.cold[p] # l
        BY <1>8 DEF Placed
      <4> QED BY <1>5, <2>3, <3>1, <4>1
    <3>2. CASE x # q /\ y # q
      <4>1. x \in DOMAIN t.cold /\ y \in DOMAIN t.cold /\ t.cold[x] = t.cold[y]
        BY <1>5, <2>3, <3>2
      <4> QED BY <1>8, <4>1 DEF Placed
    <3> QED BY <3>1, <3>2
  <2>4. \A k \in 1 .. Len(u.free), j \in u.hot.live_mask_ : u.free[k] # u.hot.slots_[j].level
    BY <1>4, <1>8 DEF Placed
  <2>5. \A k \in 1 .. Len(u.free), p \in DOMAIN u.cold : u.free[k] # u.cold[p]
    BY <1>5, <1>8 DEF Placed
  <2>6. ASSUME NEW j \in u.hot.live_mask_, NEW p \in DOMAIN u.cold
        PROVE  u.hot.slots_[j].level # u.cold[p]
    BY <1>4, <1>5, <1>8 DEF Placed
  <2>7. ASSUME NEW m \in Level
        PROVE  \/ \E k \in 1 .. Len(u.free) : u.free[k] = m
               \/ \E j \in u.hot.live_mask_ : u.hot.slots_[j].level = m
               \/ \E p \in DOMAIN u.cold : u.cold[p] = m
    <3>1. CASE \E j \in t.hot.live_mask_ : t.hot.slots_[j].level = m
      <4>1. PICK j \in t.hot.live_mask_ : t.hot.slots_[j].level = m
        BY <3>1
      <4>2. CASE j = i
        BY <1>5, <4>1, <4>2
      <4>3. CASE j # i
        <5>1. j \in u.hot.live_mask_
          BY <4>3 DEF Vacated
        <5> QED BY <1>4, <4>1, <5>1
      <4> QED BY <4>2, <4>3
    <3>2. CASE \E p \in DOMAIN t.cold : t.cold[p] = m
      BY <1>5, <3>2
    <3> QED BY <1>8, <3>1, <3>2 DEF Placed
  <2> QED BY <2>1, <2>2, <2>3, <2>4, <2>5, <2>6, <2>7 DEF Placed
<1>10. PricesApart(u)
  <2>1. ASSUME NEW j \in u.hot.live_mask_ PROVE u.hot.slots_[j].price # q
    <3>1. rank(t.hot, t.hot.slots_[j].price) # rank(t.hot, q)
      BY <1>4 DEF WellPlaced, Frame
    <3> QED BY <1>4, <3>1
  <2> QED BY <1>4, <1>5, <2>1 DEF WellPlaced, PricesApart
<1>11. Filed(u, c)
  <2>1. ASSUME NEW p \in DOMAIN u.cold PROVE c[u.cold[p]] \subseteq {p}
    <3>1. CASE p = q
      BY <1>5, <3>1 DEF WellPlaced, Filed
    <3>2. CASE p # q
      BY <1>5, <3>2 DEF WellPlaced, Filed
    <3> QED BY <3>1, <3>2
  <2>2. \A j \in u.hot.live_mask_ : c[u.hot.slots_[j].level] \subseteq {u.hot.slots_[j].price}
    BY <1>4 DEF WellPlaced, Filed
  <2> QED BY <2>1, <2>2 DEF WellPlaced, Filed
<1> QED BY <1>6, <1>7, <1>9, <1>10, <1>11 DEF WellPlaced
\* The level of a cold price goes to a vacant slot of the window.
LEMMA ColdToSlot ==
    ASSUME NEW t, NEW c, WellPlaced(t, c),
           NEW q \in DOMAIN t.cold, NEW l, l = t.cold[q],
           NEW i \in Slots, i \notin t.hot.live_mask_,
           NEW u, Inserted(t.hot, i, q, l, u.hot), Frame(u.hot), u.free = t.free,
           u.cold = [p \in DOMAIN t.cold \ {q} |-> t.cold[p]],
           u = [hot |-> u.hot, cold |-> u.cold, free |-> u.free]
    PROVE  WellPlaced(u, c)
<1>1. t.hot.live_mask_ \subseteq Slots
  BY RingParts DEF WellPlaced, Frame
<1>2. l \in Level /\ q \in Prices
  BY DEF WellPlaced, TiersTyped
<1>3. /\ i \in u.hot.live_mask_ /\ u.hot.slots_[i].price = q /\ u.hot.slots_[i].level = l
      /\ \A j \in u.hot.live_mask_ :
             j = i \/ (j # i /\ j \in t.hot.live_mask_ /\ u.hot.slots_[j] = t.hot.slots_[j])
      /\ \A j \in t.hot.live_mask_ : j \in u.hot.live_mask_ /\ j # i /\ u.hot.slots_[j] = t.hot.slots_[j]
  BY <1>1 DEF Inserted
<1>4. /\ DOMAIN u.cold = DOMAIN t.cold \ {q}
      /\ \A p \in DOMAIN u.cold : u.cold[p] = t.cold[p] /\ p \in DOMAIN t.cold /\ p # q
  OBVIOUS
<1>5. TiersTyped(u)
  <2>1. \A p \in DOMAIN u.cold : u.cold[p] \in Level
    BY <1>4 DEF WellPlaced, TiersTyped
  <2>2. DOMAIN u.cold \subseteq Prices
    BY <1>4 DEF WellPlaced, TiersTyped
  <2>3. u.cold \in [DOMAIN u.cold -> Level]
    BY <2>1
  <2> QED BY <2>2, <2>3 DEF WellPlaced, TiersTyped
<1>6. Placed(t)
  BY DEF WellPlaced
<1>7. Placed(u)
  <2>1. \A j, k \in 1 .. Len(u.free) : u.free[j] = u.free[k] => j = k
    BY <1>6 DEF Placed
  <2>2. ASSUME NEW j \in u.hot.live_mask_, NEW k \in u.hot.live_mask_,
               u.hot.slots_[j].level = u.hot.slots_[k].level
        PROVE  j = k
    BY <1>3, <1>6, <2>2 DEF Placed
  <2>3. \A p, r \in DOMAIN u.cold : u.cold[p] = u.cold[r] => p = r
    BY <1>4, <1>6 DEF Placed
  <2>4. ASSUME NEW k \in 1 .. Len(u.free), NEW j \in u.hot.live_mask_
        PROVE  u.free[k] # u.hot.slots_[j].level
    <3>1. CASE j = i
      BY <1>3, <1>6, <3>1 DEF Placed
    <3>2. CASE j # i
      BY <1>3, <1>6, <3>2 DEF Placed
    <3> QED BY <3>1, <3>2
  <2>5. \A k \in 1 .. Len(u.free), p \in DOMAIN u.cold : u.free[k] # u.cold[p]
    BY <1>4, <1>6 DEF Placed
  <2>6. ASSUME NEW j \in u.hot.live_mask_, NEW p \in DOMAIN u.cold
        PROVE  u.hot.slots_[j].level # u.cold[p]
    <3>1. CASE j = i
      BY <1>3, <1>4, <1>6, <3>1 DEF Placed
    <3>2. CASE j # i
      BY <1>3, <1>4, <1>6, <3>2 DEF Placed
    <3> QED BY <3>1, <3>2
  <2>7. ASSUME NEW m \in Level
        PROVE  \/ \E k \in 1 .. Len(u.free) : u.free[k] = m
               \/ \E j \in u.hot.live_mask_ : u.hot.slots_[j].level = m
               \/ \E p \in DOMAIN u.cold : u.cold[p] = m
    <3>1. CASE \E j \in t.hot.live_mask_ : t.hot.slots_[j].level = m
      BY <1>3, <3>1
    <3>2. CASE \E p \in DOMAIN t.cold : t.cold[p] = m
      <4>1. PICK p \in DOMAIN t.cold : t.cold[p] = m
        BY <3>2
      <4>2. CASE p = q
        BY <1>3, <4>1, <4>2
      <4>3. CASE p # q
        BY <1>4, <4>1, <4>3
      <4> QED BY <4>2, <4>3
    <3> QED BY <1>6, <3>1, <3>2 DEF Placed
  <2> QED BY <2>1, <2>2, <2>3, <2>4, <2>5, <2>6, <2>7 DEF Placed
<1>8. PricesApart(u)
  <2>1. ASSUME NEW j \in u.hot.live_mask_ PROVE u.hot.slots_[j].price \notin DOMAIN u.cold
    <3>1. CASE j = i
      BY <1>3, <1>4, <3>1
    <3>2. CASE j # i
      BY <1>3, <1>4, <3>2 DEF WellPlaced, PricesApart
    <3> QED BY <3>1, <3>2
  <2> QED BY <2>1 DEF PricesApart
<1>9. Filed(u, c)
  <2>1. ASSUME NEW j \in u.hot.live_mask_
        PROVE  c[u.hot.slots_[j].level] \subseteq {u.hot.slots_[j].price}
    <3>1. CASE j = i
      <4>1. c[t.cold[q]] \subseteq {q}
        BY DEF WellPlaced, Filed
      <4> QED BY <1>3, <3>1, <4>1
    <3>2. CASE j # i
      BY <1>3, <3>2 DEF WellPlaced, Filed
    <3> QED BY <3>1, <3>2
  <2>2. \A p \in DOMAIN u.cold : c[u.cold[p]] \subseteq {p}
    BY <1>4 DEF WellPlaced, Filed
  <2> QED BY <2>1, <2>2 DEF WellPlaced, Filed
<1> QED BY <1>5, <1>7, <1>8, <1>9 DEF WellPlaced

\* The free level used last goes to a vacant slot, under a new price.
LEMMA FreeToSlot ==
    ASSUME NEW t, NEW c, WellPlaced(t, c), t.free # <<>>,
           NEW l, l = Head(t.free),
           NEW q \in Prices, q \notin DOMAIN t.cold,
           NEW i \in Slots, i \notin t.hot.live_mask_,
           NEW u, Inserted(t.hot, i, q, l, u.hot), Frame(u.hot),
           u.cold = t.cold, u.free = Tail(t.free),
           u = [hot |-> u.hot, cold |-> u.cold, free |-> u.free]
    PROVE  WellPlaced(u, c)
<1>1. t.hot.live_mask_ \subseteq Slots
  BY RingParts DEF WellPlaced, Frame
<1>2. /\ l \in Level /\ l = t.free[1] /\ u.free \in Seq(Level)
      /\ Len(u.free) = Len(t.free) - 1 /\ Len(t.free) \in Nat /\ Len(t.free) >= 1
      /\ \A k \in 1 .. Len(u.free) : u.free[k] = t.free[k + 1]
  BY FreeShrinks DEF WellPlaced, TiersTyped
<1>3. /\ i \in u.hot.live_mask_ /\ u.hot.slots_[i].price = q /\ u.hot.slots_[i].level = l
      /\ \A j \in u.hot.live_mask_ :
             j = i \/ (j # i /\ j \in t.hot.live_mask_ /\ u.hot.slots_[j] = t.hot.slots_[j])
      /\ \A j \in t.hot.live_mask_ : j \in u.hot.live_mask_ /\ j # i /\ u.hot.slots_[j] = t.hot.slots_[j]
  BY <1>1 DEF Inserted
<1>4. \A k \in 1 .. Len(u.free) : k + 1 \in 1 .. Len(t.free) /\ k + 1 # 1 /\ u.free[k] = t.free[k + 1]
  BY <1>2
<1>5. 1 \in 1 .. Len(t.free)
  BY <1>2
<1>6. TiersTyped(u)
  BY <1>2 DEF WellPlaced, TiersTyped
<1>7. Placed(t)
  BY DEF WellPlaced
<1>8. Placed(u)
  <2>1. ASSUME NEW j \in 1 .. Len(u.free), NEW k \in 1 .. Len(u.free), u.free[j] = u.free[k]
        PROVE  j = k
    BY <1>2, <1>4, <1>7, <2>1 DEF Placed
  <2>2. ASSUME NEW j \in u.hot.live_mask_, NEW k \in u.hot.live_mask_,
               u.hot.slots_[j].level = u.hot.slots_[k].level
        PROVE  j = k
    <3>1. CASE j = i \/ k = i
      <4>1. \A h \in t.hot.live_mask_ : t.hot.slots_[h].level # l
        BY <1>2, <1>5, <1>7 DEF Placed
      <4> QED BY <1>3, <2>2, <3>1, <4>1
    <3>2. CASE j # i /\ k # i
      <4>1. /\ j \in t.hot.live_mask_ /\ k \in t.hot.live_mask_
            /\ t.hot.slots_[j].level = t.hot.slots_[k].level
        BY <1>3, <2>2, <3>2
      <4> QED BY <1>7, <4>1 DEF Placed
    <3> QED BY <3>1, <3>2
  <2>3. \A p, r \in DOMAIN u.cold : u.cold[p] = u.cold[r] => p = r
    BY <1>7 DEF Placed
  <2>4. ASSUME NEW k \in 1 .. Len(u.free), NEW j \in u.hot.live_mask_
        PROVE  u.free[k] # u.hot.slots_[j].level
    <3>1. k + 1 \in 1 .. Len(t.free) /\ k + 1 # 1 /\ u.free[k] = t.free[k + 1]
      BY <1>4
    <3>2. CASE j = i
      BY <1>2, <1>3, <1>5, <1>7, <3>1, <3>2 DEF Placed
    <3>3. CASE j # i
      <4>1. j \in t.hot.live_mask_ /\ u.hot.slots_[j] = t.hot.slots_[j]
        BY <1>3, <3>3
      <4> QED BY <1>7, <3>1, <4>1 DEF Placed
    <3> QED BY <3>2, <3>3
  <2>5. ASSUME NEW k \in 1 .. Len(u.free), NEW p \in DOMAIN u.cold
        PROVE  u.free[k] # u.cold[p]
    BY <1>4, <1>7 DEF Placed
  <2>6. ASSUME NEW j \in u.hot.live_mask_, NEW p \in DOMAIN u.cold
        PROVE  u.hot.slots_[j].level # u.cold[p]
    <3>1. CASE j = i
      BY <1>2, <1>3, <1>5, <1>7, <3>1 DEF Placed
    <3>2. CASE j # i
      BY <1>3, <1>7, <3>2 DEF Placed
    <3> QED BY <3>1, <3>2
  <2>7. ASSUME NEW m \in Level
        PROVE  \/ \E k \in 1 .. Len(u.free) : u.free[k] = m
               \/ \E j \in u.hot.live_mask_ : u.hot.slots_[j].level = m
               \/ \E p \in DOMAIN u.cold : u.cold[p] = m
    <3>1. CASE \E k \in 1 .. Len(t.free) : t.free[k] = m
      <4>1. PICK k \in 1 .. Len(t.free) : t.free[k] = m
        BY <3>1
      <4>2. CASE k = 1
        BY <1>2, <1>3, <4>1, <4>2
      <4>3. CASE k # 1
        <5>1. k - 1 \in 1 .. Len(u.free) /\ (k - 1) + 1 = k
          BY <1>2, <4>3
        <5>2. u.free[k - 1] = m
          BY <1>2, <4>1, <5>1
        <5> QED BY <5>1, <5>2
      <4> QED BY <4>2, <4>3
    <3>2. CASE \E j \in t.hot.live_mask_ : t.hot.slots_[j].level = m
      BY <1>3, <3>2
    <3>3. CASE \E p \in DOMAIN t.cold : t.cold[p] = m
      BY <3>3
    <3> QED BY <1>7, <3>1, <3>2, <3>3 DEF Placed
  <2> QED BY <2>1, <2>2, <2>3, <2>4, <2>5, <2>6, <2>7 DEF Placed
<1>9. PricesApart(u)
  BY <1>3 DEF WellPlaced, PricesApart
<1>10. Filed(u, c)
  <2>1. c[l] = {}
    BY <1>2, <1>5 DEF WellPlaced, Filed
  <2>2. ASSUME NEW j \in u.hot.live_mask_
        PROVE  c[u.hot.slots_[j].level] \subseteq {u.hot.slots_[j].price}
    BY <1>3, <2>1 DEF WellPlaced, Filed
  <2>3. \A k \in 1 .. Len(u.free) : c[u.free[k]] = {}
    <3>1. \A k \in 1 .. Len(t.free) : c[t.free[k]] = {}
      BY DEF WellPlaced, Filed
    <3> QED BY <1>4, <3>1
  <2> QED BY <2>2, <2>3 DEF WellPlaced, Filed
<1> QED BY <1>6, <1>8, <1>9, <1>10 DEF WellPlaced

\* The free level used last goes to the cold map, under a new price.
LEMMA FreeToCold ==
    ASSUME NEW t, NEW c, WellPlaced(t, c), t.free # <<>>,
           NEW l, l = Head(t.free),
           NEW q \in Prices, q \notin DOMAIN t.cold,
           \A i \in t.hot.live_mask_ : t.hot.slots_[i].price # q,
           NEW u, u.hot = t.hot, u.free = Tail(t.free),
           u.cold = Emplace(t.cold, q, l),
           u = [hot |-> u.hot, cold |-> u.cold, free |-> u.free]
    PROVE  WellPlaced(u, c)
<1>1. /\ l \in Level /\ l = t.free[1] /\ u.free \in Seq(Level)
      /\ Len(u.free) = Len(t.free) - 1 /\ Len(t.free) \in Nat /\ Len(t.free) >= 1
      /\ \A k \in 1 .. Len(u.free) : u.free[k] = t.free[k + 1]
  BY FreeShrinks DEF WellPlaced, TiersTyped
<1>2. \A k \in 1 .. Len(u.free) : k + 1 \in 1 .. Len(t.free) /\ k + 1 # 1 /\ u.free[k] = t.free[k + 1]
  BY <1>1
<1>3. 1 \in 1 .. Len(t.free)
  BY <1>1
<1>4. /\ DOMAIN u.cold = DOMAIN t.cold \cup {q} /\ u.cold[q] = l
      /\ \A p \in DOMAIN t.cold : u.cold[p] = t.cold[p] /\ p # q
  BY DEF Emplace
<1>5. TiersTyped(u)
  <2>1. \A p \in DOMAIN u.cold : u.cold[p] \in Level
    BY <1>1, <1>4 DEF WellPlaced, TiersTyped
  <2>2. DOMAIN u.cold \subseteq Prices
    BY <1>4 DEF WellPlaced, TiersTyped
  <2>3. u.cold = [p \in DOMAIN u.cold |-> u.cold[p]]
    BY DEF Emplace
  <2>4. u.cold \in [DOMAIN u.cold -> Level]
    BY <2>1, <2>3
  <2> QED BY <1>1, <2>2, <2>4 DEF TiersTyped
<1>6. Placed(t)
  BY DEF WellPlaced
<1>7. Placed(u)
  <2>1. ASSUME NEW j \in 1 .. Len(u.free), NEW k \in 1 .. Len(u.free), u.free[j] = u.free[k]
        PROVE  j = k
    BY <1>1, <1>2, <1>6, <2>1 DEF Placed
  <2>2. \A j, k \in u.hot.live_mask_ : u.hot.slots_[j].level = u.hot.slots_[k].level => j = k
    BY <1>6 DEF Placed
  <2>3. ASSUME NEW p \in DOMAIN u.cold, NEW r \in DOMAIN u.cold, u.cold[p] = u.cold[r]
        PROVE  p = r
    BY <1>1, <1>3, <1>4, <1>6, <2>3 DEF Placed
  <2>4. ASSUME NEW k \in 1 .. Len(u.free), NEW j \in u.hot.live_mask_
        PROVE  u.free[k] # u.hot.slots_[j].level
    BY <1>2, <1>6 DEF Placed
  <2>5. ASSUME NEW k \in 1 .. Len(u.free), NEW p \in DOMAIN u.cold
        PROVE  u.free[k] # u.cold[p]
    <3>1. k + 1 \in 1 .. Len(t.free) /\ k + 1 # 1 /\ u.free[k] = t.free[k + 1]
      BY <1>2
    <3>2. CASE p = q
      BY <1>1, <1>3, <1>4, <1>6, <3>1, <3>2 DEF Placed
    <3>3. CASE p # q
      BY <1>4, <1>6, <3>1, <3>3 DEF Placed
    <3> QED BY <3>2, <3>3
  <2>6. ASSUME NEW j \in u.hot.live_mask_, NEW p \in DOMAIN u.cold
        PROVE  u.hot.slots_[j].level # u.cold[p]
    <3>1. CASE p = q
      BY <1>1, <1>3, <1>4, <1>6, <3>1 DEF Placed
    <3>2. CASE p # q
      BY <1>4, <1>6, <3>2 DEF Placed
    <3> QED BY <3>1, <3>2
  <2>7. ASSUME NEW m \in Level
        PROVE  \/ \E k \in 1 .. Len(u.free) : u.free[k] = m
               \/ \E j \in u.hot.live_mask_ : u.hot.slots_[j].level = m
               \/ \E p \in DOMAIN u.cold : u.cold[p] = m
    <3>1. CASE \E k \in 1 .. Len(t.free) : t.free[k] = m
      <4>1. PICK k \in 1 .. Len(t.free) : t.free[k] = m
        BY <3>1
      <4>2. CASE k = 1
        BY <1>1, <1>4, <4>1, <4>2
      <4>3. CASE k # 1
        <5>1. k - 1 \in 1 .. Len(u.free) /\ (k - 1) + 1 = k
          BY <1>1, <4>3
        <5>2. u.free[k - 1] = m
          BY <1>1, <4>1, <5>1
        <5> QED BY <5>1, <5>2
      <4> QED BY <4>2, <4>3
    <3>2. CASE \E j \in t.hot.live_mask_ : t.hot.slots_[j].level = m
      BY <3>2
    <3>3. CASE \E p \in DOMAIN t.cold : t.cold[p] = m
      BY <1>4, <3>3
    <3> QED BY <1>6, <3>1, <3>2, <3>3 DEF Placed
  <2> QED BY <2>1, <2>2, <2>3, <2>4, <2>5, <2>6, <2>7 DEF Placed
<1>8. PricesApart(u)
  BY <1>4 DEF WellPlaced, PricesApart
<1>9. Filed(u, c)
  <2>1. c[l] = {}
    BY <1>1, <1>3 DEF WellPlaced, Filed
  <2>2. ASSUME NEW p \in DOMAIN u.cold PROVE c[u.cold[p]] \subseteq {p}
    BY <1>4, <2>1 DEF WellPlaced, Filed
  <2>3. ASSUME NEW k \in 1 .. Len(u.free) PROVE c[u.free[k]] = {}
    <3>1. k + 1 \in 1 .. Len(t.free) /\ u.free[k] = t.free[k + 1]
      BY <1>2
    <3> QED BY <3>1 DEF WellPlaced, Filed
  <2> QED BY <2>2, <2>3 DEF WellPlaced, Filed
<1> QED BY <1>5, <1>7, <1>8, <1>9 DEF WellPlaced

\* The window moves, the slots stay.
LEMMA FrameMovesTiers ==
    ASSUME NEW t, NEW c, WellPlaced(t, c),
           NEW u, Frame(u.hot), u.hot.slots_ = t.hot.slots_, u.hot.live_mask_ = t.hot.live_mask_,
           u.cold = t.cold, u.free = t.free,
           u = [hot |-> u.hot, cold |-> u.cold, free |-> u.free]
    PROVE  WellPlaced(u, c)
<1>1. TiersTyped(u)
  BY DEF WellPlaced, TiersTyped
<1>2. Placed(u)
  BY DEF WellPlaced, Placed
<1>3. PricesApart(u) /\ Filed(u, c)
  BY DEF WellPlaced, PricesApart, Filed
<1> QED BY <1>1, <1>2, <1>3 DEF WellPlaced
-----------------------------------------------------------------------------
(***************************************************************************)
(* Where a level is, and why the pool is never exhausted.                  *)
(***************************************************************************)

\* A lookup of price finds level l.
Located(t, l, price) ==
    \/ \E i \in t.hot.live_mask_ : t.hot.slots_[i].price = price /\ t.hot.slots_[i].level = l
    \/ price \in DOMAIN t.cold /\ t.cold[price] = l

\* Two live slots have different prices.
LEMMA SlotPricesDiffer ==
    ASSUME NEW r, Frame(r), NEW i \in r.live_mask_, NEW j \in r.live_mask_,
           r.slots_[i].price = r.slots_[j].price
    PROVE  i = j
BY DEF Frame

LEMMA LocatedTyped ==
    ASSUME NEW t, NEW c, WellPlaced(t, c), NEW l, NEW price, Located(t, l, price)
    PROVE  l \in Level /\ price \in Prices
<1>1. CASE \E i \in t.hot.live_mask_ : t.hot.slots_[i].price = price /\ t.hot.slots_[i].level = l
  <2>1. PICK i \in t.hot.live_mask_ : t.hot.slots_[i].price = price /\ t.hot.slots_[i].level = l
    BY <1>1
  <2>2. i \in Slots /\ price # kNoPrice /\ l # NULL
    BY <2>1, RingParts DEF WellPlaced, Frame
  <2> QED BY <2>1, <2>2, RingParts DEF WellPlaced, Frame
<1>2. CASE price \in DOMAIN t.cold /\ t.cold[price] = l
  BY <1>2 DEF WellPlaced, TiersTyped
<1> QED BY <1>1, <1>2 DEF Located

\* A price has one level, and a level one price.
LEMMA LocatedOnce ==
    ASSUME NEW t, NEW c, WellPlaced(t, c), NEW l, NEW m, NEW p, NEW q,
           Located(t, l, p), Located(t, m, q)
    PROVE  p = q <=> l = m
<1>1. Placed(t) /\ PricesApart(t) /\ Frame(t.hot)
  BY DEF WellPlaced
<1>2. CASE /\ \E i \in t.hot.live_mask_ : t.hot.slots_[i].price = p /\ t.hot.slots_[i].level = l
           /\ \E i \in t.hot.live_mask_ : t.hot.slots_[i].price = q /\ t.hot.slots_[i].level = m
  <2>1. PICK i \in t.hot.live_mask_ : t.hot.slots_[i].price = p /\ t.hot.slots_[i].level = l
    BY <1>2
  <2>2. PICK j \in t.hot.live_mask_ : t.hot.slots_[j].price = q /\ t.hot.slots_[j].level = m
    BY <1>2
  <2>3. p = q => i = j
    BY <1>1, <2>1, <2>2, SlotPricesDiffer
  <2>4. l = m => i = j
    BY <1>1, <2>1, <2>2 DEF Placed
  <2> QED BY <2>1, <2>2, <2>3, <2>4
<1>3. CASE p \in DOMAIN t.cold /\ t.cold[p] = l /\ q \in DOMAIN t.cold /\ t.cold[q] = m
  BY <1>1, <1>3 DEF Placed
<1>4. CASE /\ \E i \in t.hot.live_mask_ : t.hot.slots_[i].price = p /\ t.hot.slots_[i].level = l
           /\ q \in DOMAIN t.cold /\ t.cold[q] = m
  BY <1>1, <1>4 DEF Placed, PricesApart
<1>5. CASE /\ \E i \in t.hot.live_mask_ : t.hot.slots_[i].price = q /\ t.hot.slots_[i].level = m
           /\ p \in DOMAIN t.cold /\ t.cold[p] = l
  BY <1>1, <1>5 DEF Placed, PricesApart
<1> QED BY <1>2, <1>3, <1>4, <1>5 DEF Located

\* While a price in use has no level, some level is free: the levels that are
\* not free have different prices in use.
LEMMA PoolHasLevel ==
    ASSUME NEW t, NEW c, WellPlaced(t, c), NEW q \in Prices, \A l : ~Located(t, l, q)
    PROVE  t.free # <<>>
<1> SUFFICES ASSUME t.free = <<>> PROVE FALSE
  OBVIOUS
<1> DEFINE f == [l \in Level |-> CHOOSE p \in Prices : Located(t, l, p)]
<1>1. ASSUME NEW l \in Level PROVE \E p \in Prices : Located(t, l, p)
  <2>1. ~ \E k \in 1 .. Len(t.free) : t.free[k] = l
    OBVIOUS
  <2>2. \/ \E i \in t.hot.live_mask_ : t.hot.slots_[i].level = l
        \/ \E p \in DOMAIN t.cold : t.cold[p] = l
    BY <2>1 DEF WellPlaced, Placed
  <2>3. \E p : Located(t, l, p)
    BY <2>2 DEF Located
  <2> QED BY <2>3, LocatedTyped
<1>2. \A l \in Level : f[l] \in Prices /\ Located(t, l, f[l])
  BY <1>1
<1>3. f \in [Level -> Prices \ {q}]
  BY <1>2
<1> HIDE DEF f
<1>4. \A l, m \in Level : f[l] = f[m] => l = m
  BY <1>2, LocatedOnce
<1>5. f \in Injection(Level, Prices \ {q})
  BY <1>3, <1>4 DEF Injection, IsInjective
<1>6. IsFiniteSet(Prices) /\ Cardinality(Prices) <= pool_capacity /\ pool_capacity \in Nat
  BY CachedAssumption
<1>7. /\ IsFiniteSet(Prices \ {q}) /\ Cardinality(Prices \ {q}) = Cardinality(Prices) - 1
      /\ Cardinality(Prices) \in Nat
  BY <1>6, FS_RemoveElement, FS_CardinalityType
<1>8. Cardinality(Level) <= Cardinality(Prices \ {q})
  BY <1>5, <1>7, FS_Injection
<1>9. Cardinality(Level) = pool_capacity
  <2>1. Cardinality(0 .. pool_capacity - 1) =
            IF 0 > pool_capacity - 1 THEN 0 ELSE (pool_capacity - 1) - 0 + 1
    BY <1>6, FS_Interval
  <2> QED BY <1>6, <2>1 DEF Level
<1> QED BY <1>6, <1>7, <1>8, <1>9

-----------------------------------------------------------------------------
(***************************************************************************)
(* The operations.                                                         *)
(***************************************************************************)
LEMMA TiersUpdate ==
    ASSUME NEW t, t = [hot |-> t.hot, cold |-> t.cold, free |-> t.free], NEW x
    PROVE  /\ [t EXCEPT !.hot = x] = [hot |-> x, cold |-> t.cold, free |-> t.free]
           /\ [t EXCEPT !.cold = x] = [hot |-> t.hot, cold |-> x, free |-> t.free]
           /\ [t EXCEPT !.free = x] = [hot |-> t.hot, cold |-> t.cold, free |-> x]
OBVIOUS

LEMMA TierFields ==
    ASSUME NEW a, NEW b, NEW c, NEW t, t = [hot |-> a, cold |-> b, free |-> c]
    PROVE  /\ t.hot = a /\ t.cold = b /\ t.free = c
           /\ t = [hot |-> t.hot, cold |-> t.cold, free |-> t.free]
OBVIOUS

\* A vacant slot of the window gets a level for its price.
LEMMA MaterializeKeeps ==
    ASSUME NEW t, NEW c, WellPlaced(t, c), t.hot.best_price_ \in Prices,
           NEW price \in Prices, price \notin DOMAIN t.cold, rank(t.hot, price) \in Slots,
           NEW i \in Slots, i = Turn(t.hot.anchor_, rank(t.hot, price)), i \notin t.hot.live_mask_,
           NEW got, got = materialize(t, i, price),
           NEW u, u = got.tiers
    PROVE  /\ WellPlaced(u, c)
           /\ Inserted(t.hot, i, price, got.level, u.hot)
           /\ u.cold = t.cold
           /\ Located(u, got.level, price)
<1>1. TiersTyped(t) /\ Frame(t.hot) /\ t.hot \in Ring(Prices, Level)
  BY DEF WellPlaced, Frame
<1>2. \A j \in t.hot.live_mask_ : t.hot.slots_[j].price # price
  BY <1>1 DEF Frame
<1>3. t.free # <<>>
  BY <1>2, PoolHasLevel DEF Located
<1> DEFINE l == Head(t.free)
           r == insert(t.hot, i, price, l)
<1>4. l \in Level
  BY <1>1, <1>3, FreeShrinks DEF TiersTyped
<1>5. got.level = l /\ u = [hot |-> r, cold |-> t.cold, free |-> Tail(t.free)]
  BY <1>1 DEF materialize, acquire, Got, TiersTyped
<1>6. Inserted(t.hot, i, price, l, r)
  BY <1>1, <1>4, InsertFacts
<1> HIDE DEF r
<1>7. Frame(r)
  BY <1>1, <1>4, <1>6, FrameInserted
<1>8. u.hot = r /\ u.cold = t.cold /\ u.free = Tail(t.free)
      /\ u = [hot |-> u.hot, cold |-> u.cold, free |-> u.free]
  BY <1>5
<1>9. WellPlaced(u, c)
  BY <1>3, <1>6, <1>7, <1>8, FreeToSlot
<1>10. i \in u.hot.live_mask_ /\ u.hot.slots_[i].price = price /\ u.hot.slots_[i].level = l
  BY <1>6, <1>8 DEF Inserted
<1> QED BY <1>5, <1>6, <1>8, <1>9, <1>10 DEF Located

\* A price beyond the window gets its level from the cold map.
LEMMA ColdGetOrCreateKeeps ==
    ASSUME NEW t, NEW c, WellPlaced(t, c),
           NEW price \in Prices, \A i \in t.hot.live_mask_ : t.hot.slots_[i].price # price,
           NEW got, got = cold_get_or_create(t, price),
           NEW u, u = got.tiers
    PROVE  /\ WellPlaced(u, c)
           /\ u.hot = t.hot
           /\ DOMAIN u.cold = DOMAIN t.cold \cup {price}
           /\ Located(u, got.level, price)
<1>1. TiersTyped(t)
  BY DEF WellPlaced
<1>2. CASE price \in DOMAIN t.cold
  <2>1. u = t /\ got.level = t.cold[price]
    BY <1>2 DEF cold_get_or_create, Got
  <2> QED BY <1>2, <2>1 DEF Located
<1>3. CASE price \notin DOMAIN t.cold
  <2> DEFINE l == Head(t.free)
             map == [p \in DOMAIN t.cold \cup {price} |-> IF p = price THEN l ELSE t.cold[p]]
  <2>1. t.free # <<>>
    BY <1>3, PoolHasLevel DEF Located
  <2>2. got.level = l /\ u = [hot |-> t.hot, cold |-> map, free |-> Tail(t.free)]
    BY <1>1, <1>3 DEF cold_get_or_create, acquire, Got, Emplace, TiersTyped
  <2>3. u.hot = t.hot /\ u.cold = map /\ u.free = Tail(t.free)
        /\ u = [hot |-> u.hot, cold |-> u.cold, free |-> u.free]
    BY <2>2
  <2>4. WellPlaced(u, c)
    <3>1. l = Head(t.free) /\ u.cold = Emplace(t.cold, price, l)
      BY <1>3, <2>3 DEF Emplace
    <3> HIDE DEF l, map
    <3> QED BY <1>3, <2>1, <2>3, <3>1, FreeToCold
  <2>5. DOMAIN u.cold = DOMAIN t.cold \cup {price} /\ u.cold[price] = l
    BY <2>3
  <2> QED BY <2>2, <2>3, <2>4, <2>5 DEF Located
<1> QED BY <1>2, <1>3

\* u is t after the level of slot i left it: for the pool, or for the cold map.
Evicted(t, i, u) ==
    /\ Vacated(t.hot, i, u.hot)
    /\ DOMAIN t.cold \subseteq DOMAIN u.cold
    /\ \A p \in DOMAIN u.cold :
           p \in DOMAIN t.cold \/ (i \in t.hot.live_mask_ /\ p = t.hot.slots_[i].price)

LEMMA EvictSlotKeeps ==
    ASSUME NEW t, WellPlaced(t, content), NEW i \in Slots,
           NEW u, u = EvictSlot(t, i)
    PROVE  WellPlaced(u, content) /\ Evicted(t, i, u)
<1> DEFINE s == t.hot.slots_[i]
           r == Vacate(t.hot, i)
<1>1. TiersTyped(t) /\ Frame(t.hot) /\ t.hot \in Ring(Prices, Level)
  BY DEF WellPlaced, Frame
<1>2. Vacated(t.hot, i, r)
  BY <1>1, VacateFacts
<1> HIDE DEF r
<1>3. CASE s.level = NULL
  <2>1. u = t
    BY <1>3 DEF EvictSlot
  <2>2. i \notin t.hot.live_mask_ /\ s.price = kNoPrice
    BY <1>1, <1>3 DEF Frame
  <2>3. s = VacantSlot
    BY <1>1, <1>3, <2>2, RingParts DEF VacantSlot
  <2>4. Vacated(t.hot, i, t.hot)
    BY <1>1, <2>2, <2>3 DEF Vacated
  <2> QED BY <2>1, <2>4 DEF Evicted
<1>4. CASE s.level # NULL /\ content[s.level] = {}
  <2>1. i \in t.hot.live_mask_
    BY <1>1, <1>4 DEF Frame
  <2>2. u = [hot |-> r, cold |-> t.cold, free |-> <<s.level>> \o t.free]
    BY <1>1, <1>4 DEF EvictSlot, Release, r, TiersTyped
  <2>3. /\ u.hot = r /\ u.cold = t.cold /\ u.free = <<s.level>> \o t.free
        /\ u = [hot |-> u.hot, cold |-> u.cold, free |-> u.free]
    BY <2>2
  <2>4. WellPlaced(u, content)
    BY <1>2, <1>4, <2>1, <2>3, SlotToFree
  <2> QED BY <1>2, <2>3, <2>4 DEF Evicted
<1>5. CASE s.level # NULL /\ content[s.level] # {}
  <2> DEFINE map == [p \in DOMAIN t.cold \cup {s.price} |-> IF p = s.price THEN s.level ELSE t.cold[p]]
  <2>1. i \in t.hot.live_mask_ /\ s.price \notin DOMAIN t.cold
    BY <1>1, <1>5 DEF Frame, WellPlaced, PricesApart
  <2>2. u = [hot |-> r, cold |-> map, free |-> t.free]
    BY <1>1, <1>5, <2>1 DEF EvictSlot, Emplace, r, TiersTyped
  <2>3. /\ u.hot = r /\ u.cold = map /\ u.free = t.free
        /\ u = [hot |-> u.hot, cold |-> u.cold, free |-> u.free]
    BY <2>2
  <2>4. WellPlaced(u, content)
    BY <1>2, <2>1, <2>3, SlotToCold
  <2>5. DOMAIN u.cold = DOMAIN t.cold \cup {s.price}
    BY <2>3
  <2> QED BY <1>2, <2>1, <2>3, <2>4, <2>5 DEF Evicted
<1> QED BY <1>3, <1>4, <1>5
-----------------------------------------------------------------------------
(***************************************************************************)
(* Evicting slot after slot.  FoldLeft is a function on the sets of        *)
(* indices; read at the sets 1 .. k it is the chain of the tiers between   *)
(* two evictions.                                                          *)
(***************************************************************************)
LEMMA MaxOfIndices ==
    ASSUME NEW n \in Nat, NEW s \in SUBSET (1 .. n + 1), s # {}
    PROVE  /\ n + 1 \in s => Max(s) = n + 1
           /\ Max(s) \in s
           /\ n + 1 \notin s => s \in SUBSET (1 .. n)
           /\ s \ {n + 1} \in SUBSET (1 .. n)
<1>1. IsFiniteSet(s) /\ s \in SUBSET Int
  <2>1. IsFiniteSet(1 .. n + 1)
    BY FS_Interval
  <2>2. IsFiniteSet(s)
    BY <2>1, FS_Subset
  <2> QED BY <2>2
<1>2. Max(s) \in s /\ \A y \in s : Max(s) >= y
  BY <1>1, GreatestOfFinite DEF Max
<1>3. Max(s) \in 1 .. n + 1
  BY <1>2
<1>4. n + 1 \in s => Max(s) = n + 1
  BY <1>2, <1>3
<1> QED BY <1>2, <1>4

\* g evicts, for each set of indices, the slots seq has at them, in order.
Evicts(g, t, seq, n) ==
    g = [s \in SUBSET (1 .. n) |-> IF s = {} THEN t ELSE EvictSlot(g[s \ {Max(s)}], seq[Max(s)])]

\* One more index: g grows to h.
LEMMA EvictsNext ==
    ASSUME NEW t, NEW n \in Nat, NEW seq, NEW g, Evicts(g, t, seq, n),
           NEW h, h = [s \in SUBSET (1 .. n + 1) |->
                          IF n + 1 \in s THEN EvictSlot(g[s \ {n + 1}], seq[n + 1]) ELSE g[s]]
    PROVE  Evicts(h, t, seq, n + 1)
<1>1. ASSUME NEW s \in SUBSET (1 .. n + 1)
      PROVE  h[s] = IF s = {} THEN t ELSE EvictSlot(h[s \ {Max(s)}], seq[Max(s)])
  <2>1. CASE s = {}
    BY <2>1 DEF Evicts
  <2>2. CASE n + 1 \in s
    <3>1. Max(s) = n + 1 /\ s \ {n + 1} \in SUBSET (1 .. n)
      BY <2>2, MaxOfIndices
    <3>2. h[s] = EvictSlot(g[s \ {n + 1}], seq[n + 1])
      BY <2>2
    <3>3. h[s \ {n + 1}] = g[s \ {n + 1}]
      OBVIOUS
    <3> QED BY <2>2, <3>1, <3>2, <3>3
  <2>3. CASE s # {} /\ n + 1 \notin s
    <3>1. Max(s) \in s /\ s \in SUBSET (1 .. n)
      BY <2>3, MaxOfIndices
    <3>2. h[s] = g[s] /\ h[s \ {Max(s)}] = g[s \ {Max(s)}]
      BY <2>3
    <3>3. g[s] = EvictSlot(g[s \ {Max(s)}], seq[Max(s)])
      BY <2>3, <3>1 DEF Evicts
    <3> QED BY <2>3, <3>2, <3>3
  <2> QED BY <2>1, <2>2, <2>3
<1> QED BY <1>1 DEF Evicts

LEMMA EvictsDefined == ASSUME NEW t, NEW seq, NEW n \in Nat PROVE \E g : Evicts(g, t, seq, n)
<1> DEFINE Bad == {k \in Nat : ~ \E g : Evicts(g, t, seq, k)}
<1>1. SUFFICES ASSUME Bad # {} PROVE FALSE
  OBVIOUS
<1>2. PICK k \in Bad : \A j \in Bad : k <= j
  BY <1>1, LeastNatural
<1>3. CASE k = 0
  <2>1. 1 .. 0 = {} /\ SUBSET (1 .. 0) = {{}}
    OBVIOUS
  <2> DEFINE g == [s \in SUBSET (1 .. 0) |-> t]
  <2>2. Evicts(g, t, seq, 0)
    BY <2>1 DEF Evicts
  <2> QED BY <1>2, <1>3, <2>2
<1>4. CASE k # 0
  <2> DEFINE m == k - 1
  <2>1. m \in Nat /\ k = m + 1 /\ m \notin Bad
    BY <1>2, <1>4
  <2> HIDE DEF m
  <2>2. PICK g : Evicts(g, t, seq, m)
    BY <2>1
  <2> DEFINE h == [s \in SUBSET (1 .. m + 1) |->
                      IF m + 1 \in s THEN EvictSlot(g[s \ {m + 1}], seq[m + 1]) ELSE g[s]]
  <2>3. Evicts(h, t, seq, m + 1)
    BY <2>1, <2>2, EvictsNext
  <2> QED BY <1>2, <2>1, <2>3
<1> QED BY <1>3, <1>4

\* The tiers c[k] after the first k evictions of a fold.
Chain(c, t, seq, n) ==
    /\ c[0] = t
    /\ \A k \in 1 .. n : c[k] = EvictSlot(c[k - 1], seq[k])
    /\ FoldLeft(EvictSlot, t, seq) = c[n]

LEMMA FoldIsChain ==
    ASSUME NEW t, NEW n \in Nat, NEW seq, DOMAIN seq = 1 .. n
    PROVE  \E c : Chain(c, t, seq, n)
<1> DEFINE g == CHOOSE x : Evicts(x, t, seq, n)
           c == [k \in 0 .. n |-> g[1 .. k]]
<1>1. Evicts(g, t, seq, n)
  BY EvictsDefined
<1>2. FoldLeft(EvictSlot, t, seq) = g[1 .. n]
  BY DEF FoldLeft, MapThenFoldSet, Evicts
<1> HIDE DEF g
<1>3. c[0] = t
  <2>1. 1 .. 0 = {}
    OBVIOUS
  <2>2. c[0] = g[1 .. 0]
    OBVIOUS
  <2> QED BY <1>1, <2>1, <2>2 DEF Evicts
<1>4. ASSUME NEW k \in 1 .. n PROVE c[k] = EvictSlot(c[k - 1], seq[k])
  <2> DEFINE s == 1 .. k
             m == k - 1
  <2>1. m \in Nat /\ k = m + 1 /\ s \in SUBSET (1 .. m + 1) /\ s # {} /\ k \in s
    OBVIOUS
  <2>2. Max(s) = k
    BY <2>1, MaxOfIndices
  <2>3. s \ {k} = 1 .. (k - 1)
    OBVIOUS
  <2>4. s \in SUBSET (1 .. n)
    OBVIOUS
  <2>5. c[k] = g[s] /\ c[k - 1] = g[1 .. (k - 1)]
    OBVIOUS
  <2> HIDE DEF s
  <2>6. g[s] = IF s = {} THEN t ELSE EvictSlot(g[s \ {Max(s)}], seq[Max(s)])
    BY <1>1, <2>4 DEF Evicts
  <2> QED BY <2>1, <2>2, <2>3, <2>5, <2>6
<1>5. c[n] = g[1 .. n]
  OBVIOUS
<1> QED BY <1>2, <1>3, <1>4, <1>5 DEF Chain

\* Induction along a chain.
LEMMA ChainInduction ==
    ASSUME NEW n \in Nat, NEW good, 0 \in good,
           \A k \in 1 .. n : k - 1 \in good => k \in good
    PROVE  \A k \in 0 .. n : k \in good
<1> DEFINE Bad == {k \in 0 .. n : k \notin good}
<1>1. SUFFICES ASSUME Bad # {} PROVE FALSE
  OBVIOUS
<1>2. PICK k \in Bad : \A j \in Bad : k <= j
  <2>1. Bad \in SUBSET Nat
    OBVIOUS
  <2> QED BY <1>1, <2>1, LeastNatural
<1>3. k \in 1 .. n /\ k - 1 \notin Bad /\ k - 1 \in 0 .. n
  BY <1>2
<1> QED BY <1>2, <1>3
-----------------------------------------------------------------------------
(***************************************************************************)
(* The window slides or is flushed.                                        *)
(***************************************************************************)
LEMMA FlushKeeps ==
    ASSUME NEW t, WellPlaced(t, content), NEW u, u = flush_all_to_cold(t)
    PROVE  /\ WellPlaced(u, content)
           /\ u.hot.live_mask_ = {}
           /\ \A p \in DOMAIN u.cold :
                  \/ p \in DOMAIN t.cold
                  \/ \E i \in t.hot.live_mask_ : p = t.hot.slots_[i].price
<1> DEFINE seq == [k \in 1 .. RingSize |-> k - 1]
<1>1. RingSize \in Nat /\ DOMAIN seq = 1 .. RingSize /\ t.hot.live_mask_ \subseteq Slots
  BY RingSizeFacts, RingParts DEF WellPlaced, Frame
<1>2. PICK c : Chain(c, t, seq, RingSize)
  BY <1>1, FoldIsChain
<1> DEFINE Good(k) ==
               /\ WellPlaced(c[k], content)
               /\ c[k].hot.live_mask_ \subseteq {i \in t.hot.live_mask_ : i >= k}
               /\ \A i \in c[k].hot.live_mask_ : c[k].hot.slots_[i] = t.hot.slots_[i]
               /\ \A p \in DOMAIN c[k].cold :
                      \/ p \in DOMAIN t.cold
                      \/ \E i \in t.hot.live_mask_ : p = t.hot.slots_[i].price
           good == {k \in 0 .. RingSize : Good(k)}
<1>3. 0 \in good
  <2>1. c[0] = t
    BY <1>2 DEF Chain
  <2>2. \A i \in t.hot.live_mask_ : i >= 0
    BY <1>1 DEF Slots
  <2> QED BY <1>1, <2>1, <2>2
<1>4. ASSUME NEW k \in 1 .. RingSize, k - 1 \in good PROVE k \in good
  <2> DEFINE x == c[k - 1]
             i == k - 1
             y == c[k]
  <2>1. i \in Slots /\ i \in Int /\ k = i + 1
    BY <1>1 DEF Slots
  <2>2. Good(k - 1)
    BY <1>4
  <2>3. y = EvictSlot(x, i)
    <3>1. c[k] = EvictSlot(c[k - 1], seq[k])
      BY <1>2 DEF Chain
    <3>2. seq[k] = i
      OBVIOUS
    <3> QED BY <3>1, <3>2
  <2> HIDE DEF i
  <2>4. WellPlaced(y, content) /\ Evicted(x, i, y)
    BY <2>1, <2>2, <2>3, EvictSlotKeeps
  <2>5. y.hot.live_mask_ = x.hot.live_mask_ \ {i}
    BY <2>4 DEF Evicted, Vacated
  <2>6. \A j \in y.hot.live_mask_ : /\ j \in x.hot.live_mask_ /\ j # i /\ j \in Slots
                                    /\ y.hot.slots_[j] = x.hot.slots_[j]
    BY <1>1, <2>2, <2>4, <2>5 DEF Evicted, Vacated
  <2>7. y.hot.live_mask_ \subseteq {j \in t.hot.live_mask_ : j >= k}
    <3>1. \A j \in y.hot.live_mask_ : j \in t.hot.live_mask_ /\ j >= i /\ j # i /\ j \in Int
      BY <2>2, <2>6 DEF i, Slots
    <3> QED BY <2>1, <3>1
  <2>8. \A j \in y.hot.live_mask_ : y.hot.slots_[j] = t.hot.slots_[j]
    BY <2>2, <2>6
  <2>9. \A p \in DOMAIN y.cold :
            \/ p \in DOMAIN t.cold
            \/ \E j \in t.hot.live_mask_ : p = t.hot.slots_[j].price
    BY <2>2, <2>4 DEF Evicted
  <2> QED BY <2>4, <2>7, <2>8, <2>9
<1>5. RingSize \in good
  <2> HIDE DEF good
  <2>1. \A k \in 0 .. RingSize : k \in good
    BY <1>1, <1>3, <1>4, ChainInduction
  <2> QED BY <1>1, <2>1
<1> DEFINE z == FoldLeft(EvictSlot, t, seq)
<1>6. z = c[RingSize]
  BY <1>2 DEF Chain
<1>7. /\ WellPlaced(z, content)
      /\ \A p \in DOMAIN z.cold :
                      \/ p \in DOMAIN t.cold
                      \/ \E i \in t.hot.live_mask_ : p = t.hot.slots_[i].price
  BY <1>5, <1>6
<1>8. z.hot.live_mask_ = {}
  <2>1. z.hot.live_mask_ \subseteq {i \in t.hot.live_mask_ : i >= RingSize}
    BY <1>5, <1>6
  <2>2. \A i \in t.hot.live_mask_ : ~(i >= RingSize)
    BY <1>1 DEF Slots
  <2> QED BY <2>1, <2>2
<1> HIDE DEF z
<1>9. u = [hot |-> reset(z.hot), cold |-> z.cold, free |-> z.free]
  <2>1. u = [z EXCEPT !.hot = reset(z.hot)]
    BY DEF flush_all_to_cold, z
  <2> QED BY <1>7, <2>1, TiersUpdate DEF WellPlaced, TiersTyped
<1>10. /\ u.hot = reset(z.hot) /\ u.cold = z.cold /\ u.free = z.free
       /\ u = [hot |-> u.hot, cold |-> u.cold, free |-> u.free]
  BY <1>9
<1>11. /\ Frame(z.hot) /\ u.hot \in Ring(Prices, Level)
       /\ u.hot.slots_ = z.hot.slots_ /\ u.hot.live_mask_ = {}
  BY <1>7, <1>10, ResetFacts DEF WellPlaced, Frame
<1>12. Frame(u.hot)
  BY <1>8, <1>11, FrameOfEmpty
<1>13. WellPlaced(u, content)
  BY <1>7, <1>8, <1>10, <1>11, <1>12, FrameMovesTiers
<1> QED BY <1>7, <1>10, <1>11, <1>13

\* The slots that fall out of a window that slides by d ticks.
FarSlots(r, d) == [k \in 1 .. d |-> (r.anchor_ + RingSize - k) % RingSize]

LEMMA SlideKeeps ==
    ASSUME NEW t, WellPlaced(t, content), t.hot.best_price_ \in Prices, Divided(t, RingSize),
           NEW d \in 1 .. RingSize - 1,
           NEW u, u = FoldLeft(EvictSlot, t, FarSlots(t.hot, d))
    PROVE  /\ WellPlaced(u, content)
           /\ u.hot.anchor_ = t.hot.anchor_ /\ u.hot.best_price_ = t.hot.best_price_
           /\ Divided(u, RingSize - d)
<1> DEFINE seq == FarSlots(t.hot, d)
<1>1. /\ RingSize \in Nat /\ d \in Nat /\ d < RingSize /\ DOMAIN seq = 1 .. d
      /\ t.hot.anchor_ \in Slots
  BY RingSizeFacts, RingParts DEF WellPlaced, Frame, FarSlots
<1>2. PICK c : Chain(c, t, seq, d)
  BY <1>1, FoldIsChain
<1>3. \A k \in 1 .. d : seq[k] = Turn(t.hot.anchor_, RingSize - k) /\ seq[k] \in Slots
  <2>1. SUFFICES ASSUME NEW k \in 1 .. d
                 PROVE  seq[k] = Turn(t.hot.anchor_, RingSize - k) /\ seq[k] \in Slots
    OBVIOUS
  <2>2. /\ RingSize - k \in Int /\ t.hot.anchor_ \in Int
        /\ -RingSize <= t.hot.anchor_ + (RingSize - k)
        /\ t.hot.anchor_ + (RingSize - k) < 2 * RingSize
    BY <1>1 DEF Slots
  <2>3. seq[k] = (t.hot.anchor_ + RingSize - k) % RingSize
    BY DEF FarSlots
  <2>4. t.hot.anchor_ + RingSize - k = t.hot.anchor_ + (RingSize - k)
    BY <1>1, <2>2
  <2> QED BY <1>1, <2>2, <2>3, <2>4, ModTurn
<1> HIDE DEF seq
<1> DEFINE Good(k) ==
               /\ WellPlaced(c[k], content)
               /\ c[k].hot.anchor_ = t.hot.anchor_ /\ c[k].hot.best_price_ = t.hot.best_price_
               /\ Divided(c[k], RingSize - k)
           good == {k \in 0 .. d : Good(k)}
<1>4. 0 \in good
  <2>1. c[0] = t
    BY <1>2 DEF Chain
  <2> QED BY <1>1, <2>1
<1>5. ASSUME NEW k \in 1 .. d, k - 1 \in good PROVE k \in good
  <2> DEFINE x == c[k - 1]
             n == RingSize - k
             i == Turn(t.hot.anchor_, n)
             y == c[k]
  <2>1. Good(k - 1) /\ RingSize - (k - 1) = n + 1 /\ n \in Slots
    BY <1>1, <1>5 DEF Slots
  <2>2. y = EvictSlot(x, i) /\ i \in Slots
    BY <1>2, <1>3 DEF Chain
  <2> HIDE DEF i, n
  <2>3. WellPlaced(y, content) /\ Evicted(x, i, y)
    BY <2>1, <2>2, EvictSlotKeeps
  <2>4. y.hot.anchor_ = t.hot.anchor_ /\ y.hot.best_price_ = t.hot.best_price_
    BY <2>1, <2>3 DEF Evicted, Vacated
  <2>5. \A p : rank(y.hot, p) = rank(x.hot, p)
    BY <2>1, <2>4 DEF rank
  <2>6. ASSUME NEW j \in x.hot.live_mask_
        PROVE  /\ rank(x.hot, x.hot.slots_[j].price) \in Int
               /\ j = i <=> rank(x.hot, x.hot.slots_[j].price) = n
               /\ rank(x.hot, x.hot.slots_[j].price) < n + 1
    <3> DEFINE m == rank(x.hot, x.hot.slots_[j].price)
    <3>1. m \in Slots /\ j = Turn(t.hot.anchor_, m)
      BY <2>1 DEF WellPlaced, Frame
    <3>2. m < n + 1
      BY <2>1 DEF Divided
    <3> HIDE DEF m
    <3>3. m = n <=> Turn(t.hot.anchor_, m) = Turn(t.hot.anchor_, n)
      BY <1>1, <2>1, <3>1, TurnInjective
    <3>4. m \in Int
      BY <3>1 DEF Slots
    <3>5. i = Turn(t.hot.anchor_, n)
      BY DEF i
    <3>6. j = i <=> m = n
      BY <3>1, <3>3, <3>5
    <3> QED BY <3>2, <3>4, <3>6 DEF m
  <2>7. ASSUME NEW j \in y.hot.live_mask_
        PROVE  rank(y.hot, y.hot.slots_[j].price) < n
    <3>1. j \in x.hot.live_mask_ /\ j # i /\ y.hot.slots_[j] = x.hot.slots_[j]
      <4>1. j \in x.hot.live_mask_ /\ j # i
        BY <2>3 DEF Evicted, Vacated
      <4>2. j \in Slots
        BY <2>1, <4>1, RingParts DEF WellPlaced, Frame
      <4> QED BY <2>3, <4>1, <4>2 DEF Evicted, Vacated
    <3>2. n \in Int
      BY <2>1 DEF Slots
    <3>3. rank(x.hot, x.hot.slots_[j].price) < n
      BY <2>6, <3>1, <3>2
    <3> QED BY <2>5, <3>1, <3>3
  <2>8. ASSUME NEW p \in DOMAIN y.cold
        PROVE  rank(y.hot, p) >= n
    <3>1. CASE p \in DOMAIN x.cold
      <4>1. rank(x.hot, p) >= n + 1
        BY <2>1, <3>1 DEF Divided
      <4>2. p \in Int /\ x.hot.best_price_ \in Int /\ n \in Int
        BY <2>1, <3>1, PriceFacts DEF WellPlaced, TiersTyped, Slots
      <4>3. rank(x.hot, p) \in Int
        BY <4>2 DEF rank
      <4> QED BY <2>5, <4>1, <4>2, <4>3
    <3>2. CASE i \in x.hot.live_mask_ /\ p = x.hot.slots_[i].price
      <4>1. rank(x.hot, p) = n /\ n \in Int
        BY <2>1, <2>6, <3>2 DEF Slots
      <4> QED BY <2>5, <4>1
    <3> QED BY <2>3, <3>1, <3>2 DEF Evicted
  <2>9. Divided(y, n)
    BY <2>7, <2>8 DEF Divided
  <2> QED BY <2>3, <2>4, <2>9 DEF n
<1>6. d \in good
  <2> HIDE DEF good
  <2>1. \A k \in 0 .. d : k \in good
    BY <1>1, <1>4, <1>5, ChainInduction
  <2> QED BY <1>1, <2>1
<1>7. u = c[d]
  BY <1>2 DEF Chain, seq
<1> QED BY <1>6, <1>7
\* What get_or_create() makes of settled tiers.
GotLevel(t, price, got) ==
    /\ WellPlaced(got.tiers, content)
    /\ Settled(got.tiers)
    /\ Located(got.tiers, got.level, price)
    /\ got.tiers.hot.best_price_ =
           IF t.hot.live_mask_ = {} \/ rank(t.hot, price) < 0 THEN price ELSE t.hot.best_price_

LEMMA SettledParts ==
    ASSUME NEW t, WellPlaced(t, content), Settled(t), t.hot.live_mask_ # {}
    PROVE  /\ t.hot.best_price_ \in Prices /\ t.hot.anchor_ \in t.hot.live_mask_
           /\ Divided(t, RingSize)
BY DEF WellPlaced, Frame, Settled

\* The rank of a price in use is a number.
LEMMA RankTyped ==
    ASSUME NEW r, r.best_price_ \in Prices, NEW p \in Prices
    PROVE  rank(r, p) \in Int
BY PriceFacts DEF rank

\* The first level of a window that was emptied and set up around price.
LEMMA FirstLevel ==
    ASSUME NEW t, WellPlaced(t, content), NEW price \in Prices,
           NEW i \in Slots, t.hot.anchor_ = i, t.hot.best_price_ = price,
           i \notin t.hot.live_mask_,
           \A p \in DOMAIN t.cold : rank(t.hot, p) >= RingSize,
           NEW got, got = materialize(t, i, price)
    PROVE  /\ WellPlaced(got.tiers, content)
           /\ Settled(got.tiers)
           /\ Located(got.tiers, got.level, price)
           /\ got.tiers.hot.best_price_ = price
<1>1. rank(t.hot, price) = 0 /\ 0 \in Slots /\ i = Turn(i, 0)
  BY PriceFacts, RingSizeFacts DEF rank, Turn, Slots
<1>2. price \notin DOMAIN t.cold
  BY <1>1, RingSizeFacts
<1> DEFINE u == got.tiers
<1>3. /\ WellPlaced(u, content)
      /\ Inserted(t.hot, i, price, got.level, u.hot)
      /\ u.cold = t.cold
      /\ Located(u, got.level, price)
  BY <1>1, <1>2, MaterializeKeeps
<1> HIDE DEF u
<1>4. u.hot.anchor_ = i /\ u.hot.best_price_ = price /\ i \in u.hot.live_mask_
  BY <1>3 DEF Inserted
<1>5. \A p : rank(u.hot, p) = rank(t.hot, p)
  BY <1>4 DEF rank
<1>6. \A j \in u.hot.live_mask_ : rank(u.hot, u.hot.slots_[j].price) < RingSize
  BY <1>3, RingSizeFacts DEF WellPlaced, Frame, Slots
<1>7. Divided(u, RingSize)
  BY <1>3, <1>5, <1>6 DEF Divided
<1>8. Settled(u)
  BY <1>4, <1>7 DEF Settled
<1> QED BY <1>3, <1>4, <1>8 DEF u

\* A strictly better price: what leaves the window is behind what stays.
LEMMA ReanchorKeeps ==
    ASSUME NEW t, WellPlaced(t, content), Settled(t), t.hot.live_mask_ # {},
           NEW price \in Prices, rank(t.hot, price) < 0,
           NEW got, got = reanchor_to(t, price)
    PROVE  GotLevel(t, price, got)
<1> DEFINE d == -rank(t.hot, price)
<1>1. /\ TiersTyped(t) /\ Frame(t.hot) /\ t.hot \in Ring(Prices, Level) /\ t.hot.anchor_ \in Slots
      /\ t.hot.best_price_ \in Prices /\ Divided(t, RingSize)
      /\ t.hot.live_mask_ \subseteq Slots
  BY SettledParts, RingParts DEF WellPlaced, Frame
<1>2. rank(t.hot, price) \in Int /\ d \in Int /\ d > 0 /\ rank(t.hot, price) = -d
  BY <1>1, RankTyped
<1>3. RingSize \in Nat /\ RingSize > 0
  BY RingSizeFacts
<1> HIDE DEF d
<1>4. CASE d >= RingSize
  <2> DEFINE u == flush_all_to_cold(t)
             v == [u EXCEPT !.hot = set_anchor(@, 0, price)]
  <2>1. got = materialize(v, 0, price)
    BY <1>4 DEF reanchor_to, d
  <2>2. /\ WellPlaced(u, content) /\ u.hot.live_mask_ = {}
        /\ \A p \in DOMAIN u.cold :
               \/ p \in DOMAIN t.cold
               \/ \E i \in t.hot.live_mask_ : p = t.hot.slots_[i].price
    BY FlushKeeps
  <2> HIDE DEF u
  <2>3. v = [hot |-> set_anchor(u.hot, 0, price), cold |-> u.cold, free |-> u.free]
    BY <2>2, TiersUpdate DEF WellPlaced, TiersTyped
  <2>4. /\ v.hot = set_anchor(u.hot, 0, price) /\ v.cold = u.cold /\ v.free = u.free
        /\ v = [hot |-> v.hot, cold |-> v.cold, free |-> v.free]
    BY <2>3
  <2>5. 0 \in Slots
    BY <1>3 DEF Slots
  <2>6. /\ v.hot \in Ring(Prices, Level) /\ v.hot.slots_ = u.hot.slots_
        /\ v.hot.live_mask_ = {} /\ v.hot.anchor_ = 0 /\ v.hot.best_price_ = price
    <3>1. u.hot \in Ring(Prices, Level)
      BY <2>2 DEF WellPlaced, Frame
    <3>2. v.hot = set_anchor(u.hot, 0, price) /\ price \in Prices \cup {kNoPrice}
      BY <2>4
    <3> HIDE DEF v
    <3> QED BY <2>2, <2>5, <3>1, <3>2, SetAnchorFacts
  <2> HIDE DEF v
  <2>7. Frame(v.hot)
    BY <2>2, <2>6, FrameOfEmpty DEF WellPlaced
  <2>8. WellPlaced(v, content)
    BY <2>2, <2>4, <2>6, <2>7, FrameMovesTiers
  <2>9. ASSUME NEW p \in DOMAIN v.cold PROVE rank(v.hot, p) >= RingSize
    <3>1. p \in Prices
      BY <2>8 DEF WellPlaced, TiersTyped
    <3>2. rank(t.hot, p) >= 0
      <4>1. CASE p \in DOMAIN t.cold
        BY <1>1, <1>3, <3>1, <4>1, RankTyped DEF Divided
      <4>2. CASE \E i \in t.hot.live_mask_ : p = t.hot.slots_[i].price
        BY <1>1, <1>3, <4>2 DEF Frame, Slots
      <4> QED BY <2>2, <2>4, <4>1, <4>2
    <3>3. rank(v.hot, p) = rank(t.hot, p) + d /\ rank(t.hot, p) \in Int
      <4>1. p \in Int /\ price \in Int /\ t.hot.best_price_ \in Int
        BY <1>1, <3>1, PriceFacts
      <4>2. rank(t.hot, p) \in Int /\ rank(v.hot, p) = rank(t.hot, p) - rank(t.hot, price)
        BY <2>6, <4>1 DEF rank
      <4> QED BY <1>2, <4>2
    <3> QED BY <1>2, <1>3, <1>4, <3>2, <3>3
  <2>10. /\ WellPlaced(got.tiers, content) /\ Settled(got.tiers)
         /\ Located(got.tiers, got.level, price) /\ got.tiers.hot.best_price_ = price
    BY <2>1, <2>5, <2>6, <2>8, <2>9, FirstLevel
  <2> QED BY <2>10 DEF GotLevel
<1>5. CASE d < RingSize
  <2> DEFINE u == FoldLeft(EvictSlot, t, FarSlots(t.hot, d))
             home == Turn(t.hot.anchor_, -d)
             v == [u EXCEPT !.hot = set_anchor(@, home, price)]
  <2>1. -d \in Int /\ -RingSize <= t.hot.anchor_ + (-d) /\ t.hot.anchor_ + (-d) < 2 * RingSize
    BY <1>1, <1>2, <1>3, <1>5 DEF Slots
  <2>2. idx_of(t.hot, -d) = home /\ home \in Slots
    BY <1>1, <2>1, ModTurn DEF idx_of
  <2>3. got = materialize(v, home, price)
    <3>1. ~(d >= RingSize)
      BY <1>2, <1>3, <1>5
    <3> HIDE DEF home
    <3> QED BY <2>2, <3>1 DEF reanchor_to, d, FarSlots
  <2>4. d \in 1 .. RingSize - 1
    BY <1>2, <1>3, <1>5
  <2>5. /\ WellPlaced(u, content)
        /\ u.hot.anchor_ = t.hot.anchor_ /\ u.hot.best_price_ = t.hot.best_price_
        /\ Divided(u, RingSize - d)
    BY <1>1, <2>4, SlideKeeps
  <2> HIDE DEF u
  <2>6. v = [hot |-> set_anchor(u.hot, home, price), cold |-> u.cold, free |-> u.free]
    BY <2>5, TiersUpdate DEF WellPlaced, TiersTyped
  <2>7. /\ v.hot = set_anchor(u.hot, home, price) /\ v.cold = u.cold /\ v.free = u.free
        /\ v = [hot |-> v.hot, cold |-> v.cold, free |-> v.free]
    BY <2>6
  <2> HIDE DEF v
  <2>8. \A p : rank(u.hot, p) = rank(t.hot, p)
    BY <2>5 DEF rank
  <2>9. /\ Frame(u.hot) /\ u.hot \in Ring(Prices, Level) /\ u.hot.best_price_ \in Prices
        /\ home = Turn(u.hot.anchor_, -d) /\ -d = rank(u.hot, price)
        /\ -RingSize < -d /\ -d < RingSize
    BY <1>1, <1>2, <1>3, <1>5, <2>5, <2>8 DEF WellPlaced, Frame
  <2>10. \A i \in u.hot.live_mask_ : rank(u.hot, u.hot.slots_[i].price) - (-d) \in Slots
    <3>1. SUFFICES ASSUME NEW i \in u.hot.live_mask_
                   PROVE  rank(u.hot, u.hot.slots_[i].price) - (-d) \in Slots
      OBVIOUS
    <3>2. rank(u.hot, u.hot.slots_[i].price) \in Slots
      BY <2>9 DEF Frame
    <3>3. rank(u.hot, u.hot.slots_[i].price) < RingSize - d
      BY <2>5 DEF Divided
    <3> QED BY <1>2, <1>3, <3>2, <3>3 DEF Slots
  <2>11. /\ Frame(v.hot)
         /\ \A p \in Prices : rank(v.hot, p) = rank(u.hot, p) - (-d)
    <3> DEFINE e == -d
    <3>1. e \in Int /\ e = rank(u.hot, price) /\ -RingSize < e /\ e < RingSize
          /\ v.hot = set_anchor(u.hot, Turn(u.hot.anchor_, e), price)
          /\ \A i \in u.hot.live_mask_ : rank(u.hot, u.hot.slots_[i].price) - e \in Slots
      BY <2>1, <2>7, <2>9, <2>10
    <3> HIDE DEF e, home
    <3>2. /\ Frame(v.hot)
          /\ \A p \in Prices : rank(v.hot, p) = rank(u.hot, p) - e
      BY <2>9, <3>1, FrameMoves
    <3> QED BY <3>2 DEF e
  <2>12. /\ v.hot.slots_ = u.hot.slots_ /\ v.hot.live_mask_ = u.hot.live_mask_
         /\ v.hot.anchor_ = home /\ v.hot.best_price_ = price
    BY <2>2, <2>7, <2>9, SetAnchorFacts
  <2>13. WellPlaced(v, content)
    BY <2>5, <2>7, <2>11, <2>12, FrameMovesTiers
  <2>14. home \notin v.hot.live_mask_
    <3>1. SUFFICES ASSUME home \in v.hot.live_mask_ PROVE FALSE
      OBVIOUS
    <3> DEFINE q == v.hot.slots_[home].price
    <3>2. rank(v.hot, price) = 0 /\ 0 \in Slots /\ home = Turn(home, 0)
      BY <1>3, <2>2, <2>12, PriceFacts DEF rank, Turn, Slots
    <3>3. q = price
      <4>1. v.hot.best_price_ \in Prices
        BY <2>12
      <4>2. Turn(v.hot.anchor_, rank(v.hot, price)) = home
        BY <2>12, <3>2
      <4> QED BY <2>11, <3>1, <3>2, <4>1, <4>2, SlotOfPrice
    <3>4. rank(u.hot, u.hot.slots_[home].price) \in Slots
      BY <2>9, <2>12, <3>1 DEF Frame
    <3>5. rank(u.hot, price) \in Slots
      BY <2>12, <3>3, <3>4
    <3> QED BY <1>2, <2>9, <3>5 DEF Slots
  <2>15. ASSUME NEW p \in DOMAIN v.cold PROVE rank(v.hot, p) >= RingSize
    <3>1. p \in Prices /\ p \in DOMAIN u.cold
      BY <2>7, <2>13 DEF WellPlaced, TiersTyped
    <3>2. rank(u.hot, p) >= RingSize - d /\ rank(u.hot, p) \in Int
      BY <2>5, <2>9, <3>1, RankTyped DEF Divided
    <3>3. rank(v.hot, p) = rank(u.hot, p) - (-d)
      BY <2>11, <3>1
    <3> QED BY <1>2, <1>3, <3>2, <3>3
  <2>16. /\ WellPlaced(got.tiers, content) /\ Settled(got.tiers)
         /\ Located(got.tiers, got.level, price) /\ got.tiers.hot.best_price_ = price
    <3>1. home \in Slots /\ v.hot.anchor_ = home /\ v.hot.best_price_ = price
      BY <2>2, <2>12
    <3> HIDE DEF home
    <3> QED BY <2>3, <2>13, <2>14, <2>15, <3>1, FirstLevel
  <2> QED BY <1>2, <2>16 DEF GotLevel
<1> QED BY <1>2, <1>3, <1>4, <1>5

LEMMA GetOrCreateKeeps ==
    ASSUME NEW t, WellPlaced(t, content), Settled(t), NEW price \in Prices,
           NEW got, got = get_or_create(t, price)
    PROVE  GotLevel(t, price, got)
<1> DEFINE k == rank(t.hot, price)
           i == idx_of(t.hot, k)
<1>1. /\ TiersTyped(t) /\ Frame(t.hot) /\ t.hot \in Ring(Prices, Level) /\ t.hot.anchor_ \in Slots
      /\ RingSize \in Nat /\ RingSize > 0
  BY RingParts, RingSizeFacts DEF WellPlaced, Frame
<1>2. CASE t.hot.live_mask_ = {}
  <2> DEFINE v == [t EXCEPT !.hot = set_anchor(@, 0, price)]
  <2>1. got = materialize(v, 0, price)
    BY <1>2 DEF get_or_create, RingEmpty
  <2>2. v = [hot |-> set_anchor(t.hot, 0, price), cold |-> t.cold, free |-> t.free]
    BY <1>1, TiersUpdate DEF TiersTyped
  <2>3. /\ v.hot = set_anchor(t.hot, 0, price) /\ v.cold = t.cold /\ v.free = t.free
        /\ v = [hot |-> v.hot, cold |-> v.cold, free |-> v.free] /\ 0 \in Slots
    BY <1>1, <2>2 DEF Slots
  <2> HIDE DEF v
  <2>4. /\ v.hot \in Ring(Prices, Level) /\ v.hot.slots_ = t.hot.slots_
        /\ v.hot.live_mask_ = {} /\ v.hot.anchor_ = 0 /\ v.hot.best_price_ = price
    BY <1>1, <1>2, <2>3, SetAnchorFacts
  <2>5. Frame(v.hot)
    BY <1>1, <1>2, <2>4, FrameOfEmpty
  <2>6. WellPlaced(v, content)
    BY <1>2, <2>3, <2>4, <2>5, FrameMovesTiers
  <2>7. DOMAIN v.cold = {}
    BY <1>2, <2>3 DEF Settled
  <2>8. /\ WellPlaced(got.tiers, content) /\ Settled(got.tiers)
        /\ Located(got.tiers, got.level, price) /\ got.tiers.hot.best_price_ = price
    BY <2>1, <2>3, <2>4, <2>6, <2>7, FirstLevel
  <2> QED BY <1>2, <2>8 DEF GotLevel
<1>3. CASE t.hot.live_mask_ # {} /\ k \in Slots
  <2>1. /\ t.hot.best_price_ \in Prices /\ t.hot.anchor_ \in t.hot.live_mask_ /\ Divided(t, RingSize)
    BY <1>3, SettledParts
  <2>2. i = Turn(t.hot.anchor_, k) /\ i \in Slots /\ ~(k < 0) /\ k < RingSize
    <3>1. k \in Int /\ 0 <= k /\ k < RingSize
      BY <1>1, <1>3 DEF Slots
    <3> HIDE DEF k
    <3>2. /\ -RingSize <= t.hot.anchor_ + k /\ t.hot.anchor_ + k < 2 * RingSize
      BY <1>1, <3>1 DEF Slots
    <3> QED BY <1>1, <3>1, <3>2, ModTurn DEF idx_of
  <2>3. got = IF t.hot.slots_[i].price = price THEN Got(t, t.hot.slots_[i].level)
                                             ELSE materialize(t, i, price)
    BY <1>3 DEF get_or_create, in_hot_window, RingEmpty
  <2> HIDE DEF i
  <2>4. CASE t.hot.slots_[i].price = price
    <3>1. got.tiers = t /\ got.level = t.hot.slots_[i].level
      BY <2>3, <2>4 DEF Got
    <3>2. i \in t.hot.live_mask_
      BY <1>1, <2>2, <2>4, PriceFacts DEF Frame
    <3>3. Located(t, got.level, price)
      BY <2>4, <3>1, <3>2 DEF Located
    <3> QED BY <1>3, <2>2, <3>1, <3>3 DEF GotLevel
  <2>5. CASE t.hot.slots_[i].price # price
    <3> DEFINE u == got.tiers
    <3>1. got = materialize(t, i, price)
      BY <2>3, <2>5
    <3>2. i \notin t.hot.live_mask_
      BY <1>1, <1>3, <2>1, <2>2, <2>5, SlotOfPrice
    <3>3. price \notin DOMAIN t.cold
      <4>1. ~(k >= RingSize)
        BY <1>1, <1>3 DEF Slots
      <4> QED BY <2>1, <4>1 DEF Divided
    <3>4. /\ WellPlaced(u, content)
          /\ Inserted(t.hot, i, price, got.level, u.hot)
          /\ u.cold = t.cold
          /\ Located(u, got.level, price)
      <4> HIDE DEF k
      <4>1. k = rank(t.hot, price)
        BY DEF k
      <4> QED BY <1>3, <2>1, <2>2, <3>1, <3>2, <3>3, <4>1, MaterializeKeeps
    <3> HIDE DEF u
    <3>5. /\ u.hot.anchor_ = t.hot.anchor_ /\ u.hot.best_price_ = t.hot.best_price_
          /\ u.hot.anchor_ \in u.hot.live_mask_
      BY <2>1, <3>4 DEF Inserted
    <3>6. \A p : rank(u.hot, p) = rank(t.hot, p)
      BY <3>5 DEF rank
    <3>7. \A j \in u.hot.live_mask_ : rank(u.hot, u.hot.slots_[j].price) < RingSize
      BY <1>1, <3>4 DEF WellPlaced, Frame, Slots
    <3>8. Divided(u, RingSize)
      BY <2>1, <3>4, <3>6, <3>7 DEF Divided
    <3>9. Settled(u)
      BY <3>5, <3>8 DEF Settled
    <3> QED BY <1>3, <2>2, <3>4, <3>5, <3>9 DEF GotLevel, u
  <2> QED BY <2>4, <2>5
<1>4. CASE t.hot.live_mask_ # {} /\ k < 0
  <2>1. k \notin Slots
    BY <1>1, <1>4 DEF Slots
  <2>2. got = reanchor_to(t, price)
    BY <1>4, <2>1 DEF get_or_create, in_hot_window, RingEmpty
  <2> QED BY <1>4, <2>2, ReanchorKeeps
<1>5. CASE t.hot.live_mask_ # {} /\ k \notin Slots /\ ~(k < 0)
  <2> DEFINE u == got.tiers
  <2>1. /\ t.hot.best_price_ \in Prices /\ t.hot.anchor_ \in t.hot.live_mask_ /\ Divided(t, RingSize)
    BY <1>5, SettledParts
  <2>2. k \in Int /\ k >= RingSize
    <3>1. k \in Int
      BY <2>1, RankTyped
    <3> QED BY <1>1, <1>5, <3>1 DEF Slots
  <2>3. got = cold_get_or_create(t, price)
    BY <1>5 DEF get_or_create, in_hot_window, RingEmpty
  <2>4. \A j \in t.hot.live_mask_ : t.hot.slots_[j].price # price
    BY <1>1, <1>5 DEF Frame
  <2>5. /\ WellPlaced(u, content) /\ u.hot = t.hot
        /\ DOMAIN u.cold = DOMAIN t.cold \cup {price}
        /\ Located(u, got.level, price)
    BY <2>3, <2>4, ColdGetOrCreateKeeps
  <2> HIDE DEF u
  <2>6. Divided(u, RingSize)
    BY <2>1, <2>2, <2>5 DEF Divided
  <2>7. Settled(u)
    BY <2>1, <2>5, <2>6 DEF Settled
  <2> QED BY <1>5, <2>5, <2>7 DEF GotLevel, u
<1> QED BY <1>2, <1>3, <1>4, <1>5
-----------------------------------------------------------------------------
(***************************************************************************)
(* Orders come and go; erase_best() drops, scans and promotes.             *)
(***************************************************************************)

\* An order joins the level that a lookup of its price finds.
LEMMA OrderJoins ==
    ASSUME NEW t, NEW c, WellPlaced(t, c), NEW l, NEW price, Located(t, l, price),
           NEW e, e = [c EXCEPT ![l] = @ \cup {price}]
    PROVE  WellPlaced(t, e)
<1>1. l \in Level /\ price \in Prices
  BY LocatedTyped
<1>2. /\ c \in [Level -> SUBSET Prices] /\ e \in [Level -> SUBSET Prices]
      /\ e[l] = c[l] \cup {price}
      /\ \A m \in Level : m # l => e[m] = c[m]
  BY <1>1 DEF WellPlaced, Filed
<1>3. ASSUME NEW k \in 1 .. Len(t.free) PROVE e[t.free[k]] = {}
  <2>1. t.free[k] \in Level
    BY ElementOfSeq DEF WellPlaced, TiersTyped
  <2>2. t.free[k] # l
    BY DEF Located, WellPlaced, Placed
  <2> QED BY <1>2, <2>1, <2>2 DEF WellPlaced, Filed
<1>4. ASSUME NEW m, NEW q, Located(t, m, q), c[m] \subseteq {q} PROVE e[m] \subseteq {q}
  <2>1. m \in Level /\ (price = q <=> l = m)
    BY <1>4, LocatedTyped, LocatedOnce
  <2> QED BY <1>2, <1>4, <2>1
<1>5. \A i \in t.hot.live_mask_ : e[t.hot.slots_[i].level] \subseteq {t.hot.slots_[i].price}
  <2>1. SUFFICES ASSUME NEW i \in t.hot.live_mask_
                 PROVE  e[t.hot.slots_[i].level] \subseteq {t.hot.slots_[i].price}
    OBVIOUS
  <2>2. Located(t, t.hot.slots_[i].level, t.hot.slots_[i].price)
    BY DEF Located
  <2>3. c[t.hot.slots_[i].level] \subseteq {t.hot.slots_[i].price}
    BY DEF WellPlaced, Filed
  <2> QED BY <1>4, <2>2, <2>3
<1>6. \A p \in DOMAIN t.cold : e[t.cold[p]] \subseteq {p}
  <2>1. SUFFICES ASSUME NEW p \in DOMAIN t.cold PROVE e[t.cold[p]] \subseteq {p}
    OBVIOUS
  <2>2. Located(t, t.cold[p], p)
    BY DEF Located
  <2>3. c[t.cold[p]] \subseteq {p}
    BY DEF WellPlaced, Filed
  <2> QED BY <1>4, <2>2, <2>3
<1>7. Filed(t, e)
  BY <1>2, <1>3, <1>5, <1>6 DEF Filed
<1> QED BY <1>7 DEF WellPlaced

\* A level is emptied.
LEMMA OrdersLeave ==
    ASSUME NEW t, NEW c, WellPlaced(t, c), NEW l \in Level, NEW e, e = [c EXCEPT ![l] = {}]
    PROVE  WellPlaced(t, e)
<1>1. /\ c \in [Level -> SUBSET Prices] /\ e \in [Level -> SUBSET Prices]
      /\ e[l] = {}
      /\ \A m \in Level : m # l => e[m] = c[m]
  BY DEF WellPlaced, Filed
<1>2. \A m \in Level : e[m] \subseteq c[m]
  BY <1>1
<1>3. \A k \in 1 .. Len(t.free) : t.free[k] \in Level
  BY ElementOfSeq DEF WellPlaced, TiersTyped
<1>4. \A i \in t.hot.live_mask_ : t.hot.slots_[i].level \in Level
  BY LocatedTyped DEF Located
<1>5. \A p \in DOMAIN t.cold : t.cold[p] \in Level
  BY DEF WellPlaced, TiersTyped
<1>6. Filed(t, e)
  BY <1>1, <1>2, <1>3, <1>4, <1>5 DEF WellPlaced, Filed
<1> QED BY <1>6 DEF WellPlaced

\* An order is where a lookup of its price looks, alone with its likes.
LEMMA OrdersLocated ==
    ASSUME NEW t, NEW c, WellPlaced(t, c), NEW l \in Level, c[l] # {}
    PROVE  \E p \in Prices : c[l] = {p} /\ Located(t, l, p)
<1>1. ~ \E k \in 1 .. Len(t.free) : t.free[k] = l
  BY DEF WellPlaced, Filed
<1>2. CASE \E i \in t.hot.live_mask_ : t.hot.slots_[i].level = l
  <2>1. PICK i \in t.hot.live_mask_ : t.hot.slots_[i].level = l
    BY <1>2
  <2>2. c[l] \subseteq {t.hot.slots_[i].price}
    BY <2>1 DEF WellPlaced, Filed
  <2>3. Located(t, l, t.hot.slots_[i].price)
    BY <2>1 DEF Located
  <2> QED BY <2>2, <2>3, LocatedTyped
<1>3. CASE \E p \in DOMAIN t.cold : t.cold[p] = l
  <2>1. PICK p \in DOMAIN t.cold : t.cold[p] = l
    BY <1>3
  <2>2. c[l] \subseteq {p}
    BY <2>1 DEF WellPlaced, Filed
  <2>3. Located(t, l, p)
    BY <2>1 DEF Located
  <2> QED BY <2>2, <2>3, LocatedTyped
<1> QED BY <1>1, <1>2, <1>3 DEF WellPlaced, Placed

LEMMA DropSlotKeeps ==
    ASSUME NEW t, NEW c, WellPlaced(t, c), NEW i \in t.hot.live_mask_,
           c[t.hot.slots_[i].level] = {}, NEW u, u = DropSlot(t, i)
    PROVE  WellPlaced(u, c) /\ Vacated(t.hot, i, u.hot) /\ u.cold = t.cold
<1> DEFINE l == t.hot.slots_[i].level
           r == Vacate(t.hot, i)
<1>1. TiersTyped(t) /\ t.hot \in Ring(Prices, Level) /\ i \in Slots
  BY RingParts DEF WellPlaced, Frame
<1>2. Vacated(t.hot, i, r)
  BY <1>1, VacateFacts
<1> HIDE DEF r
<1>3. u = [hot |-> r, cold |-> t.cold, free |-> <<l>> \o t.free]
  BY <1>1 DEF DropSlot, Release, r, TiersTyped
<1>4. /\ u.hot = r /\ u.cold = t.cold /\ u.free = <<l>> \o t.free
      /\ u = [hot |-> u.hot, cold |-> u.cold, free |-> u.free]
  BY <1>3
<1> QED BY <1>2, <1>4, SlotToFree

\* The first cold price is the best one.
LEMMA ColdBeginIsBest ==
    ASSUME WellPlaced(tiers, content), DOMAIN cold # {}
    PROVE  /\ cold_begin \in DOMAIN cold
           /\ \A p \in DOMAIN cold : IF IsAsk THEN cold_begin <= p ELSE cold_begin >= p
<1> DEFINE D == DOMAIN cold
<1>1. D \subseteq Prices
  BY DEF WellPlaced, TiersTyped, cold
<1>2. D \in SUBSET Int /\ IsFiniteSet(D) /\ D # {}
  <2>1. IsFiniteSet(Prices) /\ Prices \subseteq Int
    BY CachedAssumption
  <2>2. IsFiniteSet(D)
    BY <1>1, <2>1, FS_Subset
  <2> QED BY <1>1, <2>1, <2>2
<1> HIDE DEF D
<1>3. CASE IsAsk
  <2>1. \E x \in D : \A y \in D : x <= y
    BY <1>2, LeastOfFinite
  <2>2. Min(D) \in D /\ \A y \in D : Min(D) <= y
    BY <2>1 DEF Min
  <2> QED BY <1>3, <2>2 DEF cold_begin, D
<1>4. CASE ~IsAsk
  <2>1. \E x \in D : \A y \in D : x >= y
    BY <1>2, GreatestOfFinite
  <2>2. Max(D) \in D /\ \A y \in D : Max(D) >= y
    BY <2>1 DEF Max
  <2> QED BY <1>4, <2>2 DEF cold_begin, D
<1> QED BY <1>3, <1>4

\* Moving it to the window leaves worse prices in the cold map only.
LEMMA PromotedKeeps ==
    ASSUME NEW t, WellPlaced(t, content), t.cold = cold, WellPlaced(tiers, content),
           DOMAIN cold # {}, t.hot.best_price_ \in Prices,
           NEW q, q = cold_begin, rank(t.hot, q) \in Slots,
           NEW i, i = Turn(t.hot.anchor_, rank(t.hot, q)),
           NEW u, u = Promoted(t)
    PROVE  /\ WellPlaced(u, content)
           /\ Inserted(t.hot, i, q, cold[q], u.hot)
           /\ DOMAIN u.cold = DOMAIN t.cold \ {q}
           /\ \A p \in DOMAIN u.cold : rank(u.hot, p) > rank(u.hot, q)
<1>1. /\ TiersTyped(t) /\ Frame(t.hot) /\ t.hot \in Ring(Prices, Level)
      /\ t.hot.anchor_ \in Slots
  BY RingParts DEF WellPlaced, Frame
<1>2. /\ q \in DOMAIN cold
      /\ \A p \in DOMAIN cold : IF IsAsk THEN q <= p ELSE q >= p
  BY ColdBeginIsBest
<1>3. /\ DOMAIN cold \subseteq Prices /\ q \in Prices /\ cold[q] \in Level
  BY <1>2 DEF WellPlaced, TiersTyped, cold
<1>4. i = idx_of(t.hot, rank(t.hot, q)) /\ i \in Slots
  <2> DEFINE k == rank(t.hot, q)
  <2>1. /\ k \in Int /\ -RingSize <= t.hot.anchor_ + k /\ t.hot.anchor_ + k < 2 * RingSize
    BY <1>1, RingSizeFacts DEF Slots
  <2> HIDE DEF k
  <2>2. (t.hot.anchor_ + k) % RingSize = Turn(t.hot.anchor_, k) /\ Turn(t.hot.anchor_, k) \in Slots
    BY <1>1, <2>1, ModTurn
  <2> QED BY <2>2 DEF idx_of, k
<1>5. i \notin t.hot.live_mask_
  <2>1. SUFFICES ASSUME i \in t.hot.live_mask_ PROVE FALSE
    OBVIOUS
  <2>2. t.hot.slots_[i].price = q
    BY <1>1, <1>3, <2>1, SlotOfPrice
  <2> QED BY <1>2, <2>1, <2>2 DEF WellPlaced, PricesApart
<1> DEFINE r == insert(t.hot, i, q, cold[q])
           map == [p \in DOMAIN t.cold \ {q} |-> t.cold[p]]
<1>6. Inserted(t.hot, i, q, cold[q], r)
  BY <1>1, <1>3, <1>4, InsertFacts
<1>7. u = [hot |-> r, cold |-> map, free |-> t.free]
  BY <1>1, <1>4 DEF Promoted, TiersTyped
<1> HIDE DEF r
<1>8. /\ u.hot = r /\ u.cold = map /\ u.free = t.free
      /\ u = [hot |-> u.hot, cold |-> u.cold, free |-> u.free]
  BY <1>7
<1>9. Frame(u.hot)
  BY <1>1, <1>3, <1>4, <1>6, <1>8, FrameInserted
<1>10. WellPlaced(u, content)
  <2>1. q \in DOMAIN t.cold /\ cold[q] = t.cold[q] /\ i \in Slots
        /\ Inserted(t.hot, i, q, cold[q], u.hot)
        /\ u.cold = [p \in DOMAIN t.cold \ {q} |-> t.cold[p]]
    BY <1>2, <1>4, <1>6, <1>8
  <2> HIDE DEF map
  <2> QED BY <1>5, <1>8, <1>9, <2>1, ColdToSlot
<1>11. DOMAIN u.cold = DOMAIN t.cold \ {q}
  BY <1>8
<1>12. u.hot.best_price_ = t.hot.best_price_
  BY <1>6, <1>8 DEF Inserted
<1>13. ASSUME NEW p \in DOMAIN u.cold PROVE rank(u.hot, p) > rank(u.hot, q)
  <2>1. p \in DOMAIN cold /\ p # q
    BY <1>11
  <2>2. p \in Int /\ q \in Int /\ u.hot.best_price_ \in Int
    BY <1>3, <1>12, <2>1, PriceFacts
  <2> QED BY <1>2, <2>1, <2>2, RingSizeFacts DEF rank
<1> QED BY <1>6, <1>8, <1>10, <1>11, <1>13

\* The next live slot is the one with the best price left.
LEMMA NextLive ==
    ASSUME NEW r, Frame(r), r.best_price_ \in Prices, NEW off, off = next_live_offset(r)
    PROVE  /\ r.live_mask_ = {} => off = -1
           /\ r.live_mask_ # {} =>
                /\ off \in Slots
                /\ (r.anchor_ + off) % RingSize = Turn(r.anchor_, off)
                /\ Turn(r.anchor_, off) \in r.live_mask_
                /\ rank(r, r.slots_[Turn(r.anchor_, off)].price) = off
                /\ \A i \in r.live_mask_ : rank(r, r.slots_[i].price) >= off
<1> DEFINE rotated == {(i - r.anchor_) % RingSize : i \in r.live_mask_}
<1>1. r.anchor_ \in Slots /\ r.live_mask_ \subseteq Slots /\ RingSize \in Nat /\ RingSize > 0
  BY RingParts, RingSizeFacts DEF Frame
<1>2. ASSUME NEW i \in r.live_mask_
      PROVE  (i - r.anchor_) % RingSize = rank(r, r.slots_[i].price)
  <2> DEFINE k == rank(r, r.slots_[i].price)
             a == r.anchor_
  <2>1. k \in Slots /\ i = Turn(a, k) /\ i \in Slots /\ a \in Slots
    BY <1>1 DEF Frame
  <2> HIDE DEF k, a
  <2>2. -a \in Int /\ -RingSize <= i + (-a) /\ i + (-a) < 2 * RingSize /\ i - a = i + (-a)
    BY <1>1, <2>1 DEF Slots
  <2>3. (i - a) % RingSize = Turn(i, -a)
    BY <2>1, <2>2, ModTurn
  <2>4. Turn(i, -a) = k
    BY <1>1, <2>1 DEF Turn, Slots
  <2> QED BY <2>3, <2>4 DEF k, a
<1>3. CASE r.live_mask_ = {}
  BY <1>3 DEF next_live_offset
<1>4. CASE r.live_mask_ # {}
  <2>1. rotated \in SUBSET Nat /\ rotated # {}
    <3>1. rotated \subseteq Slots
      BY <1>2 DEF Frame
    <3>2. PICK i \in r.live_mask_ : TRUE
      BY <1>4
    <3>3. (i - r.anchor_) % RingSize \in rotated
      OBVIOUS
    <3> QED BY <3>1, <3>3 DEF Slots
  <2>2. off = Min(rotated)
    BY <2>1 DEF next_live_offset
  <2>3. \E x \in rotated : \A y \in rotated : x <= y
    BY <2>1, LeastNatural
  <2>4. off \in rotated /\ \A y \in rotated : off <= y
    BY <2>2, <2>3 DEF Min
  <2>5. PICK i \in r.live_mask_ : off = (i - r.anchor_) % RingSize
    BY <2>4
  <2>6. off = rank(r, r.slots_[i].price) /\ off \in Slots /\ i = Turn(r.anchor_, off)
    BY <1>2, <2>5 DEF Frame
  <2>7. ASSUME NEW j \in r.live_mask_ PROVE rank(r, r.slots_[j].price) >= off
    <3>1. (j - r.anchor_) % RingSize \in rotated
      OBVIOUS
    <3>2. off <= (j - r.anchor_) % RingSize
      BY <2>4, <3>1
    <3>3. rank(r, r.slots_[j].price) \in Slots
      BY DEF Frame
    <3> HIDE DEF rotated
    <3> QED BY <1>1, <1>2, <2>6, <3>2, <3>3 DEF Slots
  <2>8. (r.anchor_ + off) % RingSize = Turn(r.anchor_, off)
    <3>1. off \in Int /\ -RingSize <= r.anchor_ + off /\ r.anchor_ + off < 2 * RingSize
      <4>1. /\ RingSize \in Nat /\ RingSize > 0
            /\ off \in 0 .. RingSize - 1 /\ r.anchor_ \in 0 .. RingSize - 1
        BY <1>1, <2>6 DEF Slots
      <4> QED BY <4>1
    <3> QED BY <1>1, <3>1, ModTurn
  <2> QED BY <1>4, <2>6, <2>7, <2>8
<1> QED BY <1>3, <1>4
-----------------------------------------------------------------------------
(***************************************************************************)
(* The invariant.                                                          *)
(***************************************************************************)
LEMMA InitIInv == Init => IInv
<1> SUFFICES ASSUME Init PROVE IInv
  OBVIOUS
<1> DEFINE f == [k \in 1 .. pool_capacity |-> pool_capacity - k]
<1>1. tiers = [hot |-> EmptyRing, cold |-> <<>>, free |-> f] /\ pc = "idle"
      /\ content = [l \in Level |-> {}]
  BY DEF Init
<1>2. tiers.hot = EmptyRing /\ tiers.cold = <<>> /\ tiers.free = f
      /\ tiers = [hot |-> tiers.hot, cold |-> tiers.cold, free |-> tiers.free]
  BY <1>1
<1>3. /\ pool_capacity \in Nat /\ RingSize \in Nat /\ RingSize > 0
      /\ Level = 0 .. pool_capacity - 1
  BY CachedAssumption, RingSizeFacts DEF Level
<1>4. f \in Seq(Level) /\ Len(f) = pool_capacity
  <2>1. \A k \in 1 .. pool_capacity : f[k] \in Level
    BY <1>3
  <2>2. f \in [1 .. pool_capacity -> Level]
    BY <2>1
  <2> QED BY <1>3, <2>2
<1>5. DOMAIN tiers.cold = {}
  BY <1>2
<1>6. TiersTyped(tiers)
  BY <1>2, <1>4, <1>5 DEF TiersTyped
<1>7. /\ EmptyRing \in Ring(Prices, Level)
      /\ EmptyRing.live_mask_ = {} /\ EmptyRing.best_price_ = kNoPrice
      /\ \A i \in Slots : EmptyRing.slots_[i] = VacantSlot
  BY <1>3 DEF EmptyRing, Ring, VacantSlot, Slots
<1>8. Frame(tiers.hot)
  BY <1>2, <1>7 DEF Frame, VacantSlot
<1>9. Placed(tiers)
  <2>1. \A j, k \in 1 .. Len(tiers.free) : tiers.free[j] = tiers.free[k] => j = k
    BY <1>2, <1>3, <1>4
  <2>2. ASSUME NEW l \in Level PROVE \E k \in 1 .. Len(tiers.free) : tiers.free[k] = l
    <3>1. pool_capacity - l \in 1 .. pool_capacity /\ f[pool_capacity - l] = l
      BY <1>3
    <3> QED BY <1>2, <1>4, <3>1
  <2> HIDE DEF f
  <2> QED BY <1>2, <1>5, <1>7, <2>1, <2>2 DEF Placed
<1>10. PricesApart(tiers)
  BY <1>5 DEF PricesApart
<1>11. Filed(tiers, content)
  <2>1. \A k \in 1 .. Len(tiers.free) : tiers.free[k] \in Level
    BY <1>6, ElementOfSeq DEF TiersTyped
  <2> QED BY <1>1, <1>2, <1>5, <1>7, <2>1 DEF Filed
<1>12. WindowInv
  BY <1>1, <1>2, <1>5, <1>7 DEF WindowInv, Settled
<1> QED BY <1>6, <1>8, <1>9, <1>10, <1>11, <1>12 DEF IInv, WellPlaced

\* Between calls a side that is not empty has its best level at the anchor.
LEMMA BestIsLive ==
    ASSUME IInv, pc \in {"idle", "erase"}, ~side_empty
    PROVE  /\ hot.anchor_ \in hot.live_mask_ /\ hot.best_price_ \in Prices
           /\ Divided(tiers, RingSize) /\ hot.live_mask_ # {}
           /\ Located(tiers, BestLevel, hot.best_price_)
           /\ BestLevel \in Level
<1>1. WellPlaced(tiers, content) /\ Settled(tiers)
  BY DEF IInv, WindowInv
<1>2. hot.live_mask_ # {}
  BY <1>1 DEF side_empty, RingEmpty, Settled, hot, cold
<1>3. /\ hot.best_price_ \in Prices /\ hot.anchor_ \in hot.live_mask_
      /\ Divided(tiers, RingSize) /\ Frame(hot) /\ hot.anchor_ \in Slots
  BY <1>1, <1>2, SettledParts, RingParts DEF hot, WellPlaced, Frame
<1>4. hot.slots_[hot.anchor_].price = hot.best_price_
  <2>1. rank(hot, hot.best_price_) = 0 /\ 0 \in Slots /\ hot.anchor_ = Turn(hot.anchor_, 0)
    BY <1>3, PriceFacts, RingSizeFacts DEF rank, Turn, Slots
  <2> QED BY <1>3, <2>1, SlotOfPrice
<1>5. Located(tiers, BestLevel, hot.best_price_)
  BY <1>3, <1>4 DEF Located, BestLevel, hot
<1>6. BestLevel \in Level
  BY <1>1, <1>5, LocatedTyped
<1> QED BY <1>2, <1>3, <1>5, <1>6

\* The anchor moves to the next live slot; nothing else does.
LEMMA AnchorMoves ==
    ASSUME WellPlaced(tiers, content), Ordered(tiers), hot.anchor_ \notin hot.live_mask_,
           next_live_offset(hot) >= 0,
           NEW i, i = (hot.anchor_ + next_live_offset(hot)) % RingSize,
           NEW t, t = [hot |-> set_anchor(hot, i, hot.slots_[i].price), cold |-> cold, free |-> tiers.free]
    PROVE  /\ WellPlaced(t, content) /\ Ordered(t)
           /\ i \in hot.live_mask_
           /\ t.hot.slots_ = hot.slots_ /\ t.hot.live_mask_ = hot.live_mask_ /\ t.cold = cold
           /\ t.hot.anchor_ = i
           /\ t.hot.best_price_ = hot.slots_[i].price
           /\ rank(hot, t.hot.best_price_) > 0
           /\ \A j \in hot.live_mask_ : rank(t.hot, hot.slots_[j].price) >= 0
<1> DEFINE off == next_live_offset(hot)
           price == hot.slots_[i].price
<1>1. /\ TiersTyped(tiers) /\ Frame(hot) /\ hot \in Ring(Prices, Level) /\ hot.best_price_ \in Prices
      /\ hot.anchor_ \in Slots /\ hot.live_mask_ \subseteq Slots /\ RingSize \in Nat /\ RingSize > 0
  BY RingParts, RingSizeFacts DEF WellPlaced, Frame, Ordered, hot
<1>2. /\ off \in Slots /\ i = Turn(hot.anchor_, off) /\ i \in hot.live_mask_
      /\ rank(hot, price) = off
      /\ \A j \in hot.live_mask_ : rank(hot, hot.slots_[j].price) >= off
  BY <1>1, NextLive
<1> HIDE DEF off
<1>3. i \in Slots /\ price \in Prices
  BY <1>1, <1>2, RingParts DEF Frame
<1>4. off \in Int /\ off > 0 /\ off < RingSize
  <2>1. off # 0
    BY <1>1, <1>2 DEF Turn, Slots
  <2> QED BY <1>1, <1>2, <2>1 DEF Slots
<1>5. /\ t.hot = set_anchor(hot, i, price) /\ t.cold = cold /\ t.free = tiers.free
      /\ t = [hot |-> t.hot, cold |-> t.cold, free |-> t.free]
  OBVIOUS
<1>6. \A j \in hot.live_mask_ : rank(hot, hot.slots_[j].price) - off \in Slots
  <2>1. SUFFICES ASSUME NEW j \in hot.live_mask_ PROVE rank(hot, hot.slots_[j].price) - off \in Slots
    OBVIOUS
  <2>2. rank(hot, hot.slots_[j].price) \in Slots /\ rank(hot, hot.slots_[j].price) >= off
    BY <1>1, <1>2 DEF Frame
  <2> QED BY <1>1, <1>4, <2>2 DEF Slots
<1>7. /\ Frame(t.hot)
      /\ \A p \in Prices : rank(t.hot, p) = rank(hot, p) - off
  <2>1. t.hot = set_anchor(hot, Turn(hot.anchor_, off), price) /\ -RingSize < off
    BY <1>1, <1>2, <1>4, <1>5
  <2> HIDE DEF price
  <2> QED BY <1>1, <1>2, <1>3, <1>4, <1>6, <2>1, FrameMoves
<1>8. /\ t.hot.slots_ = hot.slots_ /\ t.hot.live_mask_ = hot.live_mask_
      /\ t.hot.anchor_ = i /\ t.hot.best_price_ = price
  BY <1>1, <1>3, <1>5, SetAnchorFacts
<1>9. WellPlaced(t, content)
  BY <1>5, <1>7, <1>8, FrameMovesTiers DEF hot, cold
<1>10. ASSUME NEW p \in DOMAIN t.cold, NEW j \in t.hot.live_mask_
       PROVE  rank(t.hot, t.hot.slots_[j].price) < rank(t.hot, p)
  <2>1. p \in Prices /\ hot.slots_[j].price \in Prices
    <3>1. j \in Slots /\ hot.slots_[j].price # kNoPrice
      BY <1>1, <1>8 DEF Frame
    <3>2. hot.slots_[j].price \in Prices
      BY <1>1, <3>1, RingParts
    <3> QED BY <1>9, <3>2 DEF WellPlaced, TiersTyped
  <2>2. rank(hot, hot.slots_[j].price) < rank(hot, p)
    BY <1>5, <1>8 DEF Ordered, hot, cold
  <2>3. rank(hot, hot.slots_[j].price) \in Int /\ rank(hot, p) \in Int
    BY <1>1, <2>1, RankTyped
  <2>4. /\ rank(t.hot, p) = rank(hot, p) - off
        /\ rank(t.hot, hot.slots_[j].price) = rank(hot, hot.slots_[j].price) - off
    BY <1>7, <2>1
  <2>5. rank(t.hot, hot.slots_[j].price) < rank(t.hot, p)
    BY <1>4, <2>2, <2>3, <2>4
  <2> QED BY <1>8, <2>5
<1>11. ASSUME NEW p \in DOMAIN t.cold PROVE rank(t.hot, p) > 0
  <2>1. p \in Prices
    BY <1>9 DEF WellPlaced, TiersTyped
  <2>2. off < rank(hot, p) /\ rank(hot, p) \in Int
    BY <1>1, <1>2, <1>5, <2>1, RankTyped DEF Ordered, hot, cold
  <2> QED BY <1>4, <1>7, <2>1, <2>2
<1>12. Ordered(t)
  <2>1. t.hot.best_price_ \in Prices
    BY <1>3, <1>8
  <2>2. \A p \in DOMAIN t.cold : rank(t.hot, p) > 0
    BY <1>11
  <2>3. \A j \in t.hot.live_mask_, p \in DOMAIN t.cold :
            rank(t.hot, t.hot.slots_[j].price) < rank(t.hot, p)
    <3>1. SUFFICES ASSUME NEW j \in t.hot.live_mask_, NEW p \in DOMAIN t.cold
                   PROVE  rank(t.hot, t.hot.slots_[j].price) < rank(t.hot, p)
      OBVIOUS
    <3> QED BY <1>10
  <2> QED BY <2>1, <2>2, <2>3 DEF Ordered
<1>13. ASSUME NEW j \in hot.live_mask_ PROVE rank(t.hot, hot.slots_[j].price) >= 0
  <2>1. rank(t.hot, t.hot.slots_[j].price) \in Slots
    BY <1>7, <1>8 DEF Frame
  <2>2. t.hot.slots_[j].price = hot.slots_[j].price
    BY <1>8
  <2>3. \A n \in Slots : n >= 0
    BY <1>1 DEF Slots
  <2> QED BY <2>1, <2>2, <2>3
<1> QED BY <1>2, <1>4, <1>5, <1>8, <1>9, <1>12, <1>13
\* Each step, as the invariant sees it.
LEMMA RestStep ==
    ASSUME IInv, NEW price \in Prices, Rest(price)
    PROVE  /\ WellPlaced(tiers', content') /\ Settled(tiers') /\ pc = "idle" /\ pc' = "idle"
           /\ \E l \in Level : content' = [content EXCEPT ![l] = @ \cup {price}]
           /\ hot'.best_price_ = IF hot.live_mask_ = {} \/ rank(hot, price) < 0
                                 THEN price ELSE hot.best_price_
<1> DEFINE got == get_or_create(tiers, price)
<1>1. /\ pc = "idle" /\ pc' = "idle" /\ tiers' = got.tiers
      /\ content' = [content EXCEPT ![got.level] = @ \cup {price}]
  BY DEF Rest
<1>2. WellPlaced(tiers, content) /\ Settled(tiers)
  BY <1>1 DEF IInv, WindowInv
<1>3. GotLevel(tiers, price, got)
  BY <1>2, GetOrCreateKeeps
<1> HIDE DEF got
<1>4. /\ WellPlaced(got.tiers, content) /\ Settled(got.tiers) /\ Located(got.tiers, got.level, price)
      /\ got.tiers.hot.best_price_ =
             IF hot.live_mask_ = {} \/ rank(hot, price) < 0 THEN price ELSE hot.best_price_
  BY <1>3 DEF GotLevel, hot
<1>5. got.level \in Level
  BY <1>4, LocatedTyped
<1>6. WellPlaced(tiers', content')
  BY <1>1, <1>4, OrderJoins
<1> QED BY <1>1, <1>4, <1>5, <1>6 DEF hot

LEMMA EraseBestStep ==
    ASSUME IInv, erase_best
    PROVE  /\ WellPlaced(tiers', content') /\ Ordered(tiers') /\ hot'.anchor_ \notin hot'.live_mask_
           /\ pc' = "scan" /\ content' = content /\ hot'.best_price_ = hot.best_price_
           /\ hot.best_price_ \in Prices
<1>1. /\ pc \in {"idle", "erase"} /\ ~side_empty /\ content[BestLevel] = {}
      /\ tiers' = DropSlot(tiers, hot.anchor_) /\ pc' = "scan" /\ content' = content
  BY DEF erase_best, BestIsEmpty
<1>2. WellPlaced(tiers, content)
  BY DEF IInv
<1>3. /\ hot.anchor_ \in hot.live_mask_ /\ hot.best_price_ \in Prices
      /\ Divided(tiers, RingSize)
  BY <1>1, BestIsLive
<1>4. WellPlaced(tiers', content) /\ Vacated(hot, hot.anchor_, hot') /\ tiers'.cold = cold
  BY <1>1, <1>2, <1>3, DropSlotKeeps DEF hot, cold, BestLevel
<1>5. hot'.anchor_ \notin hot'.live_mask_ /\ hot'.best_price_ = hot.best_price_
  BY <1>4 DEF Vacated
<1>6. \A p : rank(hot', p) = rank(hot, p)
  BY <1>5 DEF rank
<1>7. ASSUME NEW p \in DOMAIN tiers'.cold
      PROVE  /\ rank(hot', p) > 0
             /\ \A j \in hot'.live_mask_ : rank(hot', hot'.slots_[j].price) < rank(hot', p)
  <2>1. rank(hot, p) >= RingSize /\ rank(hot, p) \in Int /\ RingSize \in Nat /\ RingSize > 0
    <3>1. p \in Prices
      BY <1>4 DEF WellPlaced, TiersTyped
    <3>2. rank(hot, p) \in Int
      BY <1>3, <3>1, RankTyped
    <3> QED BY <1>3, <1>4, <3>2, RingSizeFacts DEF Divided, hot, cold
  <2>2. Frame(hot')
    BY <1>4 DEF WellPlaced, hot
  <2>3. \A j \in hot'.live_mask_ : rank(hot', hot'.slots_[j].price) \in Slots
    BY <2>2 DEF Frame
  <2>4. \A n \in Slots : n < rank(hot, p)
    BY <2>1 DEF Slots
  <2> QED BY <1>6, <2>1, <2>3, <2>4
<1>8. Ordered(tiers')
  BY <1>3, <1>5, <1>7 DEF Ordered, hot
<1> QED BY <1>1, <1>3, <1>4, <1>5, <1>8

\* The scan moves on to a live slot, and drops a ghost it finds there.
LEMMA ScanHotStep ==
    ASSUME IInv, ScanHot
    PROVE  /\ WellPlaced(tiers', content') /\ Ordered(tiers')
           /\ pc = "scan" /\ content' = content
           /\ pc' \in {"scan", "promote"}
           /\ pc' = "scan" => hot'.anchor_ \notin hot'.live_mask_
           /\ pc' = "promote" => hot'.anchor_ \in hot'.live_mask_
           /\ hot.best_price_ \in Prices /\ hot'.best_price_ \in Prices
           /\ rank(hot, hot'.best_price_) > 0
<1> DEFINE off == next_live_offset(hot)
           i   == (hot.anchor_ + off) % RingSize
           price == hot.slots_[i].price
           t   == [hot |-> set_anchor(hot, i, price), cold |-> cold, free |-> tiers.free]
           ghost == content[hot.slots_[i].level] = {}
<1>1. WellPlaced(tiers, content) /\ TiersTyped(tiers)
  BY DEF IInv, WellPlaced
<1>2. [tiers EXCEPT !.hot = set_anchor(@, i, @.slots_[i].price)] = t
  BY <1>1, TiersUpdate DEF TiersTyped, hot, cold
<1>3. /\ pc = "scan" /\ content' = content /\ off >= 0
      /\ tiers' = IF ghost THEN DropSlot(t, i) ELSE t
      /\ pc' = IF ghost THEN "scan" ELSE "promote"
  BY <1>2 DEF ScanHot
<1>4. Ordered(tiers) /\ hot.anchor_ \notin hot.live_mask_ /\ hot.best_price_ \in Prices
  BY <1>3 DEF IInv, WindowInv, Ordered, hot
<1>5. /\ WellPlaced(t, content) /\ Ordered(t)
      /\ i \in hot.live_mask_
      /\ t.hot.slots_ = hot.slots_ /\ t.hot.live_mask_ = hot.live_mask_ /\ t.cold = cold
      /\ t.hot.anchor_ = i
      /\ t.hot.best_price_ = hot.slots_[i].price
      /\ rank(hot, t.hot.best_price_) > 0
  <2>1. i = (hot.anchor_ + next_live_offset(hot)) % RingSize /\ next_live_offset(hot) >= 0
        /\ t = [hot |-> set_anchor(hot, i, hot.slots_[i].price), cold |-> cold, free |-> tiers.free]
    BY <1>3
  <2> HIDE DEF i, t
  <2> QED BY <1>1, <1>4, <2>1, AnchorMoves
<1> HIDE DEF i, t
<1>6. CASE ghost
  <2>1. tiers' = DropSlot(t, i) /\ pc' = "scan"
    BY <1>3, <1>6
  <2>2. WellPlaced(tiers', content) /\ Vacated(t.hot, i, hot') /\ tiers'.cold = t.cold
    BY <1>5, <1>6, <2>1, DropSlotKeeps DEF hot
  <2>3. /\ hot'.anchor_ = i /\ i \notin hot'.live_mask_ /\ hot'.best_price_ = t.hot.best_price_
        /\ hot'.live_mask_ \subseteq t.hot.live_mask_
    BY <1>5, <2>2 DEF Vacated
  <2>4. \A p : rank(hot', p) = rank(t.hot, p)
    BY <2>3 DEF rank
  <2>5. \A j \in hot'.live_mask_ : hot'.slots_[j] = t.hot.slots_[j] /\ j \in t.hot.live_mask_
    <3>1. hot'.live_mask_ \subseteq Slots
      BY <2>2, RingParts DEF Vacated
    <3> QED BY <2>2, <3>1 DEF Vacated
  <2>6. Ordered(tiers')
    <3>1. hot'.best_price_ \in Prices
      BY <1>5, <2>3 DEF Ordered
    <3>2. \A p \in DOMAIN tiers'.cold : rank(hot', p) > 0
      BY <1>5, <2>2, <2>4 DEF Ordered
    <3>3. \A j \in hot'.live_mask_, p \in DOMAIN tiers'.cold :
              rank(hot', hot'.slots_[j].price) < rank(hot', p)
      BY <1>5, <2>2, <2>4, <2>5 DEF Ordered
    <3> QED BY <3>1, <3>2, <3>3 DEF Ordered, hot
  <2>7. hot'.best_price_ \in Prices
    BY <2>6 DEF Ordered, hot
  <2> QED BY <1>3, <1>4, <1>5, <2>1, <2>2, <2>3, <2>6, <2>7
<1>7. CASE ~ghost
  <2>1. tiers' = t /\ pc' = "promote" /\ hot' = t.hot
    BY <1>3, <1>7 DEF hot
  <2>2. hot'.best_price_ \in Prices
    BY <1>5, <2>1 DEF Ordered
  <2> QED BY <1>3, <1>4, <1>5, <2>1, <2>2
<1> QED BY <1>6, <1>7

\* The ring is exhausted: the first cold price becomes the best.
LEMMA ScanColdStep ==
    ASSUME IInv, ScanCold
    PROVE  /\ WellPlaced(tiers', content') /\ Ordered(tiers')
           /\ pc = "scan" /\ pc' = "promote" /\ content' = content
           /\ hot'.anchor_ \in hot'.live_mask_
           /\ hot.best_price_ \in Prices /\ hot'.best_price_ \in Prices
           /\ rank(hot, hot'.best_price_) > 0
<1> DEFINE q == cold_begin
           t == [hot |-> set_anchor(hot, 0, q), cold |-> cold, free |-> tiers.free]
<1>1. WellPlaced(tiers, content) /\ TiersTyped(tiers) /\ Frame(hot) /\ hot \in Ring(Prices, Level)
  BY DEF IInv, WellPlaced, Frame, hot
<1>2. [tiers EXCEPT !.hot = set_anchor(@, 0, cold_begin)] = t
  BY <1>1, TiersUpdate DEF TiersTyped, hot, cold
<1>3. /\ pc = "scan" /\ content' = content /\ pc' = "promote"
      /\ hot.live_mask_ = {} /\ DOMAIN cold # {} /\ tiers' = Promoted(t)
  BY <1>2 DEF ScanCold, RingEmpty
<1>4. Ordered(tiers) /\ hot.best_price_ \in Prices
  BY <1>3 DEF IInv, WindowInv, Ordered, hot
<1>5. q \in DOMAIN cold /\ q \in Prices /\ rank(hot, q) > 0
  <2>1. q \in DOMAIN cold
    BY <1>1, <1>3, ColdBeginIsBest
  <2> QED BY <1>1, <1>4, <2>1 DEF TiersTyped, Ordered, hot, cold
<1> HIDE DEF q
<1>6. /\ t.hot = set_anchor(hot, 0, q) /\ t.cold = cold /\ t.free = tiers.free
      /\ t = [hot |-> t.hot, cold |-> t.cold, free |-> t.free] /\ 0 \in Slots
  BY RingSizeFacts DEF Slots
<1> HIDE DEF t
<1>7. /\ t.hot \in Ring(Prices, Level) /\ t.hot.slots_ = hot.slots_ /\ t.hot.live_mask_ = {}
      /\ t.hot.anchor_ = 0 /\ t.hot.best_price_ = q
  BY <1>1, <1>3, <1>5, <1>6, SetAnchorFacts
<1>8. Frame(t.hot)
  BY <1>1, <1>3, <1>7, FrameOfEmpty
<1>9. WellPlaced(t, content)
  BY <1>1, <1>3, <1>6, <1>7, <1>8, FrameMovesTiers DEF hot, cold
<1>10. rank(t.hot, q) = 0 /\ Turn(t.hot.anchor_, rank(t.hot, q)) = 0
  BY <1>5, <1>7, PriceFacts, RingSizeFacts DEF rank, Turn
<1>11. /\ WellPlaced(tiers', content)
       /\ Inserted(t.hot, 0, q, cold[q], hot')
       /\ \A p \in DOMAIN tiers'.cold : rank(hot', p) > rank(hot', q)
  <2>1. /\ q = cold_begin /\ rank(t.hot, q) \in Slots /\ 0 = Turn(t.hot.anchor_, rank(t.hot, q))
        /\ t.hot.best_price_ \in Prices
    BY <1>5, <1>6, <1>7, <1>10 DEF q
  <2> QED BY <1>1, <1>3, <1>6, <1>9, <2>1, PromotedKeeps DEF hot
<1>12. /\ hot'.live_mask_ = {0} /\ hot'.anchor_ = 0 /\ hot'.best_price_ = q
       /\ hot'.slots_[0].price = q
  BY <1>7, <1>11 DEF Inserted
<1>13. rank(hot', q) = 0
  BY <1>7, <1>10, <1>12 DEF rank
<1>14. Ordered(tiers')
  <2>1. \A p \in DOMAIN tiers'.cold : rank(hot', p) > 0
    BY <1>11, <1>13
  <2>2. \A j \in hot'.live_mask_, p \in DOMAIN tiers'.cold :
            rank(hot', hot'.slots_[j].price) < rank(hot', p)
    <3>1. SUFFICES ASSUME NEW p \in DOMAIN tiers'.cold PROVE 0 < rank(hot', p)
      BY <1>12, <1>13
    <3>2. rank(hot', p) \in Int
      <4>1. p \in Prices
        BY <1>11 DEF WellPlaced, TiersTyped
      <4> QED BY <1>5, <1>12, <4>1, RankTyped
    <3> QED BY <2>1, <3>2
  <2> QED BY <1>5, <1>12, <2>1, <2>2 DEF Ordered, hot
<1> QED BY <1>3, <1>4, <1>5, <1>11, <1>12, <1>14

\* A cold price that the window reaches moves into it.
LEMMA PromoteStep ==
    ASSUME IInv, promote_cold
    PROVE  /\ WellPlaced(tiers', content') /\ Ordered(tiers')
           /\ pc = "promote" /\ pc' = "promote" /\ content' = content
           /\ hot'.anchor_ \in hot'.live_mask_
           /\ hot'.best_price_ = hot.best_price_
<1> DEFINE q == cold_begin
           i == Turn(hot.anchor_, rank(hot, q))
<1>1. /\ pc = "promote" /\ pc' = "promote" /\ content' = content /\ tiers' = Promoted(tiers)
      /\ DOMAIN cold # {} /\ rank(hot, q) \in Slots
  BY DEF promote_cold, cold_in_window, in_hot_window
<1>2. WellPlaced(tiers, content) /\ Ordered(tiers) /\ hot.anchor_ \in hot.live_mask_
  BY <1>1 DEF IInv, WindowInv
<1>3. hot.best_price_ \in Prices
  BY <1>2 DEF Ordered, hot
<1>4. /\ WellPlaced(tiers', content)
      /\ Inserted(hot, i, q, cold[q], hot')
      /\ DOMAIN tiers'.cold = DOMAIN cold \ {q}
      /\ \A p \in DOMAIN tiers'.cold : rank(hot', p) > rank(hot', q)
  <2>1. q = cold_begin /\ i = Turn(hot.anchor_, rank(hot, q)) /\ tiers.cold = cold
    BY DEF cold
  <2> HIDE DEF q, i
  <2> QED BY <1>1, <1>2, <1>3, <2>1, PromotedKeeps DEF hot, cold
<1> HIDE DEF q, i
<1>5. /\ hot'.live_mask_ = hot.live_mask_ \cup {i} /\ hot'.anchor_ = hot.anchor_
      /\ hot'.best_price_ = hot.best_price_
  BY <1>4 DEF Inserted
<1>6. \A p : rank(hot', p) = rank(hot, p)
  BY <1>5 DEF rank
<1>7. \A p \in DOMAIN tiers'.cold : rank(hot', p) > 0
  BY <1>2, <1>4, <1>6 DEF Ordered, hot, cold
<1>8. ASSUME NEW j \in hot'.live_mask_, NEW p \in DOMAIN tiers'.cold
      PROVE  rank(hot', hot'.slots_[j].price) < rank(hot', p)
  <2>1. rank(hot', p) \in Int /\ rank(hot', q) \in Int
    <3>1. p \in Prices /\ q \in Prices
      <4>1. q \in DOMAIN cold
        BY <1>1, <1>2, ColdBeginIsBest DEF q
      <4> QED BY <1>2, <1>4, <4>1 DEF WellPlaced, TiersTyped, cold
    <3> QED BY <1>3, <1>5, <3>1, RankTyped
  <2>2. CASE j = i
    BY <1>4, <2>1, <2>2 DEF Inserted
  <2>3. CASE j # i
    <3>1. j \in hot.live_mask_ /\ j \in Slots
      BY <1>2, <1>5, <2>3, RingParts DEF WellPlaced, Frame, hot
    <3>2. hot'.slots_[j] = hot.slots_[j]
      BY <1>4, <2>3, <3>1 DEF Inserted
    <3> QED BY <1>2, <1>4, <1>6, <3>1, <3>2 DEF Ordered, hot, cold
  <2> QED BY <2>2, <2>3
<1>9. Ordered(tiers')
  <2>1. \A j \in hot'.live_mask_, p \in DOMAIN tiers'.cold :
            rank(hot', hot'.slots_[j].price) < rank(hot', p)
    BY <1>8
  <2> QED BY <1>3, <1>5, <1>7, <2>1 DEF Ordered, hot
<1> QED BY <1>1, <1>2, <1>4, <1>5, <1>9
\* erase_best() returns when no cold price is left in the window.
LEMMA ReturnStep ==
    ASSUME IInv, EraseReturn
    PROVE  /\ tiers' = tiers /\ content' = content /\ pc = "promote" /\ pc' = "idle"
           /\ Settled(tiers)
<1>1. /\ pc = "promote" /\ pc' = "idle" /\ tiers' = tiers /\ content' = content /\ ~cold_in_window
  BY DEF EraseReturn
<1>2. WellPlaced(tiers, content) /\ Ordered(tiers) /\ hot.anchor_ \in hot.live_mask_
  BY <1>1 DEF IInv, WindowInv
<1>3. hot.best_price_ \in Prices /\ Frame(hot) /\ RingSize \in Nat
  BY <1>2, RingSizeFacts DEF Ordered, WellPlaced, hot
<1>4. ASSUME NEW p \in DOMAIN cold PROVE rank(hot, p) >= RingSize
  <2> DEFINE q == cold_begin
  <2>1. q \in DOMAIN cold /\ IF IsAsk THEN q <= p ELSE q >= p
    BY <1>2, ColdBeginIsBest
  <2>2. rank(hot, q) \notin Slots
    BY <1>1 DEF cold_in_window, in_hot_window
  <2> HIDE DEF q
  <2>3. p \in Prices /\ q \in Prices
    BY <1>2, <2>1 DEF WellPlaced, TiersTyped, cold
  <2>4. p \in Int /\ q \in Int /\ hot.best_price_ \in Int
    BY <1>3, <2>3, PriceFacts
  <2>5. rank(hot, q) > 0
    BY <1>2, <2>1 DEF Ordered, hot, cold
  <2>6. rank(hot, q) \in Int /\ rank(hot, p) \in Int /\ rank(hot, p) >= rank(hot, q)
    BY <2>1, <2>4, RingSizeFacts DEF rank
  <2>7. rank(hot, q) >= RingSize
    BY <1>3, <2>2, <2>5, <2>6 DEF Slots
  <2> QED BY <1>3, <2>6, <2>7
<1>5. \A j \in hot.live_mask_ : rank(hot, hot.slots_[j].price) < RingSize
  <2>1. \A n \in Slots : n < RingSize
    BY <1>3 DEF Slots
  <2> QED BY <1>3, <2>1 DEF Frame
<1>6. Divided(tiers, RingSize)
  BY <1>4, <1>5 DEF Divided, hot, cold
<1>7. Settled(tiers)
  BY <1>2, <1>6 DEF Settled, hot
<1> QED BY <1>1, <1>7

LEMMA NothingStep ==
    ASSUME IInv, ScanNothing
    PROVE  /\ WellPlaced(tiers', content') /\ Settled(tiers')
           /\ pc = "scan" /\ pc' = "idle" /\ content' = content
           /\ hot.live_mask_ = {} /\ DOMAIN cold = {}
           /\ hot'.best_price_ = kNoPrice /\ hot.best_price_ \in Prices
<1> DEFINE r == reset(hot)
<1>1. WellPlaced(tiers, content) /\ TiersTyped(tiers) /\ Frame(hot) /\ hot \in Ring(Prices, Level)
  BY DEF IInv, WellPlaced, Frame, hot
<1>2. /\ pc = "scan" /\ pc' = "idle" /\ content' = content
      /\ hot.live_mask_ = {} /\ DOMAIN cold = {}
      /\ tiers' = [hot |-> r, cold |-> cold, free |-> tiers.free]
  BY <1>1, TiersUpdate DEF ScanNothing, RingEmpty, TiersTyped, hot, cold
<1>3. /\ r \in Ring(Prices, Level) /\ r.slots_ = hot.slots_ /\ r.live_mask_ = {}
      /\ r.best_price_ = kNoPrice
  BY <1>1, ResetFacts
<1> HIDE DEF r
<1>4. /\ tiers'.hot = r /\ tiers'.cold = cold /\ tiers'.free = tiers.free
      /\ tiers' = [hot |-> tiers'.hot, cold |-> tiers'.cold, free |-> tiers'.free]
  BY <1>2
<1>5. Frame(tiers'.hot)
  BY <1>1, <1>2, <1>3, <1>4, FrameOfEmpty
<1>6. WellPlaced(tiers', content)
  BY <1>1, <1>2, <1>3, <1>4, <1>5, FrameMovesTiers DEF hot, cold
<1>7. Settled(tiers')
  BY <1>2, <1>3, <1>4 DEF Settled
<1>8. hot.best_price_ \in Prices
  BY <1>2 DEF IInv, WindowInv, Ordered, hot
<1> QED BY <1>2, <1>3, <1>4, <1>6, <1>7, <1>8 DEF hot

LEMMA NextIInv == IInv /\ [Next]_vars => IInv'
<1> SUFFICES ASSUME IInv, [Next]_vars PROVE IInv'
  OBVIOUS
<1>1. WellPlaced(tiers, content) /\ WindowInv
  BY DEF IInv
<1>2. ASSUME NEW price \in Prices, Rest(price) PROVE IInv'
  BY <1>2, RestStep DEF IInv, WindowInv
<1>3. ASSUME NEW l \in Level, Cancel(l) PROVE IInv'
  <2>1. pc = "idle" /\ pc' = "idle" /\ tiers' = tiers /\ content' = [content EXCEPT ![l] = {}]
    BY <1>3 DEF Cancel
  <2>2. WellPlaced(tiers, content')
    BY <1>1, <2>1, OrdersLeave
  <2> QED BY <1>1, <2>1, <2>2 DEF IInv, WindowInv, hot
<1>4. CASE ConsumeBest
  <2>1. /\ pc = "idle" /\ pc' = "erase" /\ tiers' = tiers /\ ~side_empty
        /\ content' = [content EXCEPT ![BestLevel] = {}]
    BY <1>4 DEF ConsumeBest
  <2>2. BestLevel \in Level /\ hot.live_mask_ # {}
    BY <2>1, BestIsLive
  <2>3. WellPlaced(tiers, content')
    BY <1>1, <2>1, <2>2, OrdersLeave
  <2> QED BY <1>1, <2>1, <2>2, <2>3 DEF IInv, WindowInv, hot
<1>5. CASE erase_best
  BY <1>5, EraseBestStep DEF IInv, WindowInv
<1>6. CASE ScanHot
  BY <1>6, ScanHotStep DEF IInv, WindowInv
<1>7. CASE ScanCold
  BY <1>7, ScanColdStep DEF IInv, WindowInv
<1>8. CASE ScanNothing
  BY <1>8, NothingStep DEF IInv, WindowInv
<1>9. CASE promote_cold
  BY <1>9, PromoteStep DEF IInv, WindowInv
<1>10. CASE EraseReturn
  <2>1. /\ tiers' = tiers /\ content' = content /\ pc' = "idle" /\ Settled(tiers)
    BY <1>10, ReturnStep
  <2> QED BY <1>1, <2>1 DEF IInv, WindowInv
<1>11. CASE UNCHANGED vars
  BY <1>1, <1>11 DEF IInv, WindowInv, vars, hot
<1> QED BY <1>2, <1>3, <1>4, <1>5, <1>6, <1>7, <1>8, <1>9, <1>10, <1>11 DEF Next, EraseSteps

\* In every state the slots, the cold map and the pool share out the levels,
\* and the window lies between the tiers as erase_best() has left it.
THEOREM RingInvariant == Spec => []IInv
<1>1. Init => IInv
  BY InitIInv
<1>2. IInv /\ [Next]_vars => IInv'
  BY NextIInv
<1> QED BY <1>1, <1>2, PTL DEF Spec

-----------------------------------------------------------------------------
(***************************************************************************)
(* What follows.                                                           *)
(***************************************************************************)
LEMMA TypesHold == IInv => TypeOK
<1> SUFFICES ASSUME IInv PROVE TypeOK
  OBVIOUS
<1>1. TiersTyped(tiers) /\ Frame(tiers.hot) /\ Filed(tiers, content) /\ WindowInv
  BY DEF IInv, WellPlaced
<1> QED BY <1>1 DEF TypeOK, TiersTyped, Frame, Filed, WindowInv

\* The ring, the cold map and the free list always have values of their types.
THEOREM RingTypeCorrect == Spec => []TypeOK
BY RingInvariant, TypesHold, PTL

LEMMA OrderHolds == IInv => TiersOrdered
<1> SUFFICES ASSUME IInv PROVE TiersOrdered
  OBVIOUS
<1>1. WellPlaced(tiers, content) /\ WindowInv /\ Frame(hot)
  BY DEF IInv, WellPlaced, hot
<1>2. /\ hot.live_mask_ # {} => hot.best_price_ \in Prices
      /\ \A i \in hot.live_mask_ : hot.slots_[i].price \in Prices
      /\ DOMAIN cold \subseteq Prices
      /\ RingSize \in Nat /\ IsAsk \in BOOLEAN
  <2>1. \A i \in hot.live_mask_ : Located(tiers, hot.slots_[i].level, hot.slots_[i].price)
    BY DEF Located, hot
  <2>2. \A i \in hot.live_mask_ : hot.slots_[i].price \in Prices
    BY <1>1, <2>1, LocatedTyped
  <2> QED BY <1>1, <2>2, RingSizeFacts DEF Frame, WellPlaced, TiersTyped, cold
<1>3. HotBeforeCold
  <2>1. SUFFICES ASSUME NEW i \in hot.live_mask_, NEW p \in DOMAIN cold
                 PROVE  IF IsAsk THEN hot.slots_[i].price < p ELSE hot.slots_[i].price > p
    BY DEF HotBeforeCold, Live
  <2> DEFINE q == hot.slots_[i].price
  <2>2. p \in Int /\ q \in Int /\ hot.best_price_ \in Int
    BY <1>2, PriceFacts
  <2>3. rank(hot, q) < rank(hot, p)
    <3>1. CASE pc \in {"idle", "erase"}
      <4>1. Divided(tiers, RingSize)
        BY <1>1, <3>1 DEF WindowInv, Settled, hot
      <4>2. rank(hot, q) < RingSize /\ rank(hot, p) >= RingSize
        BY <4>1 DEF Divided, hot, cold
      <4>3. rank(hot, q) \in Int /\ rank(hot, p) \in Int
        BY <2>2 DEF rank
      <4> QED BY <1>2, <4>2, <4>3
    <3>2. CASE pc \in {"scan", "promote"}
      BY <1>1, <3>2 DEF WindowInv, Ordered, hot, cold
    <3> QED BY <1>1, <3>1, <3>2 DEF WindowInv
  <2> HIDE DEF q
  <2>4. IF IsAsk THEN q < p ELSE q > p
    BY <1>2, <2>2, <2>3 DEF rank
  <2> QED BY <2>4 DEF q
<1>4. PromotionSafe
  <2>1. SUFFICES ASSUME pc = "promote", cold_in_window
                 PROVE  /\ rank(hot, cold_begin) > 0
                        /\ idx_of(hot, rank(hot, cold_begin)) \notin hot.live_mask_
    BY DEF PromotionSafe, Live
  <2> DEFINE q == cold_begin
             k == rank(hot, q)
  <2>2. q \in DOMAIN cold /\ k \in Slots /\ Ordered(tiers)
    BY <1>1, <2>1, ColdBeginIsBest DEF cold_in_window, in_hot_window, WindowInv
  <2>3. k > 0 /\ hot.best_price_ \in Prices /\ q \in Prices
    BY <1>2, <2>2 DEF Ordered, hot, cold
  <2>4. idx_of(hot, k) = Turn(hot.anchor_, k)
    <3>1. hot.anchor_ \in Slots
      BY <1>1, RingParts DEF Frame
    <3> HIDE DEF k
    <3>2. k \in Int /\ -RingSize <= hot.anchor_ + k /\ hot.anchor_ + k < 2 * RingSize
      BY <1>2, <2>2, <3>1 DEF Slots
    <3> QED BY <3>1, <3>2, ModTurn DEF idx_of
  <2>5. Turn(hot.anchor_, k) \notin hot.live_mask_
    <3>1. ASSUME Turn(hot.anchor_, k) \in hot.live_mask_ PROVE FALSE
      <4>1. hot.slots_[Turn(hot.anchor_, k)].price = q
        BY <1>1, <2>2, <2>3, <3>1, SlotOfPrice
      <4> QED BY <1>1, <2>2, <3>1, <4>1 DEF WellPlaced, PricesApart, hot, cold
    <3> QED BY <3>1
  <2> QED BY <2>3, <2>4, <2>5
<1>5. ASSUME pc \in {"idle", "erase"}
      PROVE  IF RingEmpty(hot) THEN DOMAIN cold = {} ELSE ColdOutsideWindow
  <2>1. Settled(tiers)
    BY <1>1, <1>5 DEF WindowInv
  <2>2. CASE hot.live_mask_ = {}
    BY <2>1, <2>2 DEF Settled, RingEmpty, hot, cold
  <2>3. CASE hot.live_mask_ # {}
    <3>1. \A p \in DOMAIN cold : rank(hot, p) >= RingSize
      BY <2>1, <2>3 DEF Settled, Divided, hot, cold
    <3>2. \A n \in Slots : ~(n >= RingSize)
      BY <1>2 DEF Slots
    <3>3. ColdOutsideWindow
      BY <3>1, <3>2 DEF ColdOutsideWindow, in_hot_window
    <3> QED BY <2>3, <3>3 DEF RingEmpty
  <2> QED BY <2>2, <2>3
<1> QED BY <1>3, <1>4, <1>5 DEF TiersOrdered

\* Every hot price is better than every cold one, and between calls no cold
\* price is in the window, after any number of slides, flushes and promotions.
THEOREM TiersAlwaysOrdered == Spec => []TiersOrdered
BY RingInvariant, OrderHolds, PTL

LEMMA FrameHolds == IInv => SlotsInFrame
<1> SUFFICES ASSUME IInv PROVE SlotsInFrame
  OBVIOUS
<1>1. WellPlaced(tiers, content) /\ WindowInv /\ Frame(hot) /\ hot.anchor_ \in Slots
  BY RingParts DEF IInv, WellPlaced, hot, Frame
<1>2. ASSUME NEW i \in Slots, i \in hot.live_mask_
      PROVE  /\ in_hot_window(rank(hot, hot.slots_[i].price))
             /\ i = idx_of(hot, rank(hot, hot.slots_[i].price))
  <2> DEFINE k == rank(hot, hot.slots_[i].price)
  <2>1. k \in Slots /\ i = Turn(hot.anchor_, k)
    BY <1>1, <1>2 DEF Frame
  <2> HIDE DEF k
  <2>2. k \in Int /\ -RingSize <= hot.anchor_ + k /\ hot.anchor_ + k < 2 * RingSize
    BY <1>1, <2>1, RingSizeFacts DEF Slots
  <2>3. idx_of(hot, k) = Turn(hot.anchor_, k)
    BY <1>1, <2>2, ModTurn DEF idx_of
  <2> QED BY <2>1, <2>3 DEF k, in_hot_window
<1>3. \A i \in Slots : /\ i \in hot.live_mask_ <=> hot.slots_[i].price # kNoPrice
                       /\ i \in hot.live_mask_ <=> hot.slots_[i].level # NULL
  BY <1>1 DEF Frame
<1>4. ASSUME pc \in {"idle", "erase"} PROVE hot.slots_[hot.anchor_].price = hot.best_price_
  <2>1. Settled(tiers)
    BY <1>1, <1>4 DEF WindowInv
  <2>2. CASE hot.live_mask_ = {}
    BY <1>1, <1>3, <2>1, <2>2 DEF Settled, hot
  <2>3. CASE hot.live_mask_ # {}
    <3>1. hot.anchor_ \in hot.live_mask_ /\ hot.best_price_ \in Prices
      BY <1>1, <2>1, <2>3, SettledParts DEF hot
    <3>2. rank(hot, hot.best_price_) = 0 /\ 0 \in Slots /\ hot.anchor_ = Turn(hot.anchor_, 0)
      BY <1>1, <3>1, PriceFacts, RingSizeFacts DEF rank, Turn, Slots
    <3> QED BY <1>1, <3>1, <3>2, SlotOfPrice
  <2> QED BY <2>2, <2>3
<1> QED BY <1>2, <1>3, <1>4 DEF SlotsInFrame, Live

\* A live slot is the one its price has in the current frame, however far the
\* anchor has moved since the slot was set; between calls the anchor is the best.
THEOREM SlotsAlwaysInFrame == Spec => []SlotsInFrame
BY RingInvariant, FrameHolds, PTL
\* A set with at most one element, counted.
LEMMA CountOfOne ==
    ASSUME NEW S, \A x, y \in S : x = y
    PROVE  Cardinality(S) = IF S = {} THEN 0 ELSE 1
<1>1. CASE S = {}
  BY <1>1, FS_EmptySet
<1>2. CASE S # {}
  <2>1. PICK x : x \in S
    BY <1>2
  <2>2. S = {x}
    BY <2>1
  <2>3. Cardinality({x}) = 1
    BY FS_Singleton
  <2> QED BY <1>2, <2>2, <2>3
<1> QED BY <1>1, <1>2

LEMMA PlacesHold == IInv => LevelsAccountedFor
<1> SUFFICES ASSUME IInv, NEW l \in Level
             PROVE  Cardinality({k \in 1 .. Len(tiers.free) : tiers.free[k] = l})
                  + Cardinality({i \in Slots : hot.slots_[i].level = l})
                  + Cardinality({p \in DOMAIN cold : cold[p] = l}) = 1
  BY DEF LevelsAccountedFor
<1> DEFINE F == {k \in 1 .. Len(tiers.free) : tiers.free[k] = l}
           H == {i \in Slots : hot.slots_[i].level = l}
           C == {p \in DOMAIN cold : cold[p] = l}
<1>1. Placed(tiers) /\ Frame(hot)
  BY DEF IInv, WellPlaced, hot
<1>2. \A i \in H : i \in hot.live_mask_ /\ hot.slots_[i].level = l
  BY <1>1, PriceFacts DEF Frame
<1>3. Cardinality(F) = IF F = {} THEN 0 ELSE 1
  <2>1. \A j, k \in F : j = k
    BY <1>1 DEF Placed
  <2> HIDE DEF F
  <2> QED BY <2>1, CountOfOne
<1>4. Cardinality(H) = IF H = {} THEN 0 ELSE 1
  <2>1. \A i, j \in H : i = j
    BY <1>1, <1>2 DEF Placed, hot
  <2> HIDE DEF H
  <2> QED BY <2>1, CountOfOne
<1>5. Cardinality(C) = IF C = {} THEN 0 ELSE 1
  <2>1. \A p, q \in C : p = q
    BY <1>1 DEF Placed, cold
  <2> HIDE DEF C
  <2> QED BY <2>1, CountOfOne
<1>6. F = {} \/ H = {}
  BY <1>1, <1>2 DEF Placed, hot
<1>7. F = {} \/ C = {}
  BY <1>1 DEF Placed, cold
<1>8. H = {} \/ C = {}
  BY <1>1, <1>2 DEF Placed, hot, cold
<1>9. F # {} \/ H # {} \/ C # {}
  <2>1. \/ \E k \in 1 .. Len(tiers.free) : tiers.free[k] = l
        \/ \E i \in hot.live_mask_ : hot.slots_[i].level = l
        \/ \E p \in DOMAIN cold : cold[p] = l
    BY <1>1 DEF Placed, hot, cold
  <2>2. hot.live_mask_ \subseteq Slots
    BY <1>1, RingParts DEF Frame
  <2> QED BY <2>1, <2>2
<1> HIDE DEF F, H, C
<1>10. Cardinality(F) + Cardinality(H) + Cardinality(C) = 1
  BY <1>3, <1>4, <1>5, <1>6, <1>7, <1>8, <1>9
<1> QED BY <1>10 DEF F, H, C

\* No level of the pool leaks, is released twice or is reached from two places.
THEOREM LevelsAlwaysAccountedFor == Spec => []LevelsAccountedFor
BY RingInvariant, PlacesHold, PTL

\* The best price is set and not worse than a price with a level.
LEMMA BestNotBehind ==
    ASSUME IInv, NEW l, NEW p, Located(tiers, l, p)
    PROVE  /\ hot.best_price_ \in Prices /\ p \in Prices
           /\ rank(hot, p) \in Int /\ rank(hot, p) >= 0
<1>1. WellPlaced(tiers, content) /\ WindowInv /\ Frame(hot) /\ RingSize \in Nat
  BY RingSizeFacts DEF IInv, WellPlaced, hot
<1>2. p \in Prices
  BY <1>1, LocatedTyped
<1>3. CASE \E i \in hot.live_mask_ : hot.slots_[i].price = p /\ hot.slots_[i].level = l
  <2>1. hot.best_price_ \in Prices /\ rank(hot, p) \in Slots
    BY <1>1, <1>3 DEF Frame
  <2> QED BY <1>1, <1>2, <2>1 DEF Slots
<1>4. CASE p \in DOMAIN cold /\ cold[p] = l
  <2>1. hot.best_price_ \in Prices /\ (rank(hot, p) > 0 \/ rank(hot, p) >= RingSize)
    <3>1. CASE pc \in {"idle", "erase"}
      <4>1. Settled(tiers) /\ hot.live_mask_ # {}
        BY <1>1, <1>4, <3>1 DEF WindowInv, Settled, hot, cold
      <4>2. Divided(tiers, RingSize) /\ hot.best_price_ \in Prices
        BY <1>1, <4>1, SettledParts DEF hot
      <4> QED BY <1>4, <4>2 DEF Divided, hot, cold
    <3>2. CASE pc \in {"scan", "promote"}
      BY <1>1, <1>4, <3>2 DEF WindowInv, Ordered, hot, cold
    <3> QED BY <1>1, <3>1, <3>2 DEF WindowInv
  <2>2. rank(hot, p) \in Int
    BY <1>2, <2>1, RankTyped
  <2> QED BY <1>1, <1>2, <2>1, <2>2
<1> QED BY <1>3, <1>4 DEF Located, hot, cold

LEMMA ReachHolds == IInv => NothingHidden
<1> SUFFICES ASSUME IInv, NEW l \in Level, content[l] # {}
             PROVE  \E p \in Prices : /\ content[l] = {p} /\ FoundAt(p, l)
                                      /\ hot.best_price_ # kNoPrice /\ rank(hot, p) >= 0
  BY DEF NothingHidden
<1>1. WellPlaced(tiers, content)
  BY DEF IInv
<1>2. PICK p \in Prices : content[l] = {p} /\ Located(tiers, l, p)
  BY <1>1, OrdersLocated
<1>3. hot.best_price_ # kNoPrice /\ rank(hot, p) >= 0
  BY <1>2, BestNotBehind, PriceFacts
<1>4. FoundAt(p, l)
  <2>1. CASE \E i \in hot.live_mask_ : hot.slots_[i].price = p /\ hot.slots_[i].level = l
    <3>1. PICK i \in hot.live_mask_ : hot.slots_[i].price = p /\ hot.slots_[i].level = l
      BY <2>1
    <3>2. hot.slots_[i] \in [price : Prices \cup {kNoPrice}, level : Level \cup {NULL}]
      BY <1>1, RingParts DEF WellPlaced, Frame, hot
    <3>3. hot.slots_[i] = [price |-> p, level |-> l]
      BY <3>1, <3>2
    <3> QED BY <3>3 DEF FoundAt, Live
  <2>2. CASE p \in DOMAIN cold /\ cold[p] = l
    BY <2>2 DEF FoundAt
  <2> QED BY <1>2, <2>1, <2>2 DEF Located, hot, cold
<1> QED BY <1>2, <1>3, <1>4

\* Every order is where a lookup of its price looks, and not better than the
\* best price, in whatever tier migration has put it.
THEOREM NothingEverHidden == Spec => []NothingHidden
BY RingInvariant, ReachHolds, PTL
-----------------------------------------------------------------------------
(***************************************************************************)
(* The promise of a side book.                                             *)
(***************************************************************************)
occupied == UNION {content[l] : l \in Level}

\* An occupied price has a level of its own, not better than the best price;
\* while the scan runs the best price itself has no orders.
Reachable ==
    /\ hot.best_price_ \in Prices \cup {kNoPrice}
    /\ content \in [Level -> SUBSET Prices]
    /\ \A p \in occupied : /\ p \in Prices /\ hot.best_price_ \in Prices
                           /\ rank(hot, p) \in Int /\ rank(hot, p) >= 0
                           /\ \E l \in Level : content[l] = {p} /\ Located(tiers, l, p)
    /\ pc = "scan" => hot.best_price_ \notin occupied

LEMMA ReachableHolds == IInv => Reachable
<1> SUFFICES ASSUME IInv PROVE Reachable
  OBVIOUS
<1>1. /\ WellPlaced(tiers, content) /\ WindowInv /\ Frame(hot) /\ hot.anchor_ \in Slots
      /\ hot.best_price_ \in Prices \cup {kNoPrice}
  BY RingParts DEF IInv, WellPlaced, hot, Frame
<1>2. content \in [Level -> SUBSET Prices]
  BY <1>1 DEF WellPlaced, Filed
<1>3. ASSUME NEW p \in occupied
      PROVE  \E l \in Level : content[l] = {p} /\ Located(tiers, l, p)
  <2>1. PICK l \in Level : p \in content[l]
    BY DEF occupied
  <2>2. PICK q \in Prices : content[l] = {q} /\ Located(tiers, l, q)
    BY <1>1, <2>1, OrdersLocated
  <2> QED BY <2>1, <2>2
<1>4. ASSUME NEW p \in occupied
      PROVE  /\ p \in Prices /\ hot.best_price_ \in Prices
             /\ rank(hot, p) \in Int /\ rank(hot, p) >= 0
  BY <1>3, BestNotBehind
<1>5. ASSUME pc = "scan", hot.best_price_ \in occupied PROVE FALSE
  <2> DEFINE b == hot.best_price_
  <2>1. PICK l \in Level : Located(tiers, l, b)
    BY <1>3, <1>5
  <2>2. b \in Prices /\ rank(hot, b) = 0 /\ Turn(hot.anchor_, 0) = hot.anchor_
    BY <1>1, <1>4, <1>5, PriceFacts, RingSizeFacts DEF rank, Turn, Slots
  <2>3. Ordered(tiers) /\ hot.anchor_ \notin hot.live_mask_
    BY <1>1, <1>5 DEF WindowInv
  <2> HIDE DEF b
  <2>4. CASE \E i \in hot.live_mask_ : hot.slots_[i].price = b
    BY <1>1, <2>2, <2>3, <2>4 DEF Frame
  <2>5. CASE b \in DOMAIN cold
    BY <2>2, <2>3, <2>5 DEF Ordered, hot, cold
  <2> QED BY <2>1, <2>4, <2>5 DEF Located, hot, cold
<1> QED BY <1>1, <1>2, <1>3, <1>4, <1>5 DEF Reachable

LEMMA OccupiedGrows ==
    ASSUME content \in [Level -> SUBSET Prices], NEW l \in Level, NEW p,
           content' = [content EXCEPT ![l] = @ \cup {p}]
    PROVE  occupied' = occupied \cup {p}
<1>1. content'[l] = content[l] \cup {p} /\ \A m \in Level : m # l => content'[m] = content[m]
  OBVIOUS
<1> QED BY <1>1 DEF occupied

LEMMA OccupiedShrinks ==
    ASSUME IInv, NEW l \in Level, NEW p, content[l] = {p},
           content' = [content EXCEPT ![l] = {}]
    PROVE  occupied' = occupied \ {p}
<1>1. Reachable /\ WellPlaced(tiers, content)
  BY ReachableHolds DEF IInv
<1>2. /\ content \in [Level -> SUBSET Prices] /\ content'[l] = {}
      /\ \A m \in Level : m # l => content'[m] = content[m]
  BY <1>1 DEF Reachable
<1>3. \A m \in Level : p \in content[m] => m = l
  <2>1. SUFFICES ASSUME NEW m \in Level, p \in content[m] PROVE m = l
    OBVIOUS
  <2>2. PICK q \in Prices : content[m] = {q} /\ Located(tiers, m, q)
    BY <1>1, <2>1, OrdersLocated
  <2>3. PICK r \in Prices : content[l] = {r} /\ Located(tiers, l, r)
    BY <1>1, OrdersLocated
  <2>4. q = p /\ r = p
    BY <2>1, <2>2, <2>3
  <2> QED BY <1>1, <2>2, <2>3, <2>4, LocatedOnce
<1> QED BY <1>2, <1>3 DEF occupied

\* The best level has the orders of the best price.
LEMMA BestLevelIsBest ==
    ASSUME IInv, pc \in {"idle", "erase"}, ~side_empty
    PROVE  /\ BestLevel \in Level /\ hot.best_price_ \in Prices
           /\ content[BestLevel] # {} => content[BestLevel] = {hot.best_price_}
           /\ content[BestLevel] = {} => hot.best_price_ \notin occupied
<1>1. /\ BestLevel \in Level /\ Located(tiers, BestLevel, hot.best_price_)
      /\ hot.best_price_ \in Prices
  BY BestIsLive
<1>2. Reachable /\ WellPlaced(tiers, content)
  BY ReachableHolds DEF IInv
<1>3. ASSUME content[BestLevel] # {} PROVE content[BestLevel] = {hot.best_price_}
  <2>1. PICK p \in Prices : content[BestLevel] = {p} /\ Located(tiers, BestLevel, p)
    BY <1>1, <1>2, <1>3, OrdersLocated
  <2> QED BY <1>1, <1>2, <2>1, LocatedOnce
<1>4. ASSUME content[BestLevel] = {}, hot.best_price_ \in occupied PROVE FALSE
  <2>1. PICK l \in Level : content[l] = {hot.best_price_} /\ Located(tiers, l, hot.best_price_)
    BY <1>2, <1>4 DEF Reachable
  <2>2. l = BestLevel
    BY <1>1, <1>2, <2>1, LocatedOnce
  <2> QED BY <1>4, <2>1, <2>2
<1> QED BY <1>1, <1>3, <1>4

\* A scan step passes ghosts only.
LEMMA ScanAdvances ==
    ASSUME IInv, IInv', pc = "scan", content' = content,
           hot.best_price_ \in Prices, hot'.best_price_ \in Prices,
           rank(hot, hot'.best_price_) > 0
    PROVE  Promise!Advance
<1>1. Reachable /\ (IInv' => Reachable')
  BY ReachableHolds, PTL
<1>2. occupied' = occupied
  BY DEF occupied
<1>3. hot.best_price_ # kNoPrice /\ hot.best_price_ \notin occupied
  BY <1>1, PriceFacts DEF Reachable
<1>4. hot.best_price_ \in Int /\ hot'.best_price_ \in Int
  BY PriceFacts
<1>5. Promise!Better(hot.best_price_, hot'.best_price_)
  BY <1>4 DEF Promise!Better, rank
<1>6. ASSUME NEW p \in occupied PROVE ~Promise!Better(p, hot'.best_price_)
  <2>1. rank(hot', p) >= 0 /\ p \in Prices
    BY <1>1, <1>2 DEF Reachable
  <2>2. p \in Int
    BY <2>1, PriceFacts
  <2> QED BY <1>4, <2>1, <2>2 DEF Promise!Better, rank
<1>7. (pc' # "idle") \in BOOLEAN
  OBVIOUS
<1> QED BY <1>2, <1>3, <1>5, <1>6, <1>7 DEF Promise!Advance, occupied

LEMMA PromiseStep == IInv /\ [Next]_vars => [Promise!Next]_(Promise!vars)
<1> SUFFICES ASSUME IInv, [Next]_vars
             PROVE  Promise!Next \/ UNCHANGED <<hot.best_price_, occupied, pc # "idle">>
  BY DEF Promise!vars, occupied
<1>1. IInv' /\ Reachable /\ WindowInv /\ WellPlaced(tiers, content)
  BY NextIInv, ReachableHolds DEF IInv
<1>2. ASSUME NEW price \in Prices, Rest(price) PROVE Promise!Next
  <2>1. /\ pc = "idle" /\ pc' = "idle"
        /\ hot'.best_price_ = IF hot.live_mask_ = {} \/ rank(hot, price) < 0
                              THEN price ELSE hot.best_price_
    BY <1>2, RestStep
  <2>2. PICK l \in Level : content' = [content EXCEPT ![l] = @ \cup {price}]
    BY <1>2, RestStep
  <2>3. occupied' = occupied \cup {price}
    BY <1>1, <2>2, OccupiedGrows DEF Reachable
  <2>4. IF hot.live_mask_ = {} THEN hot.best_price_ = kNoPrice ELSE hot.best_price_ \in Prices
    BY <1>1, <2>1, SettledParts DEF WindowInv, Settled, hot
  <2>5. \/ (hot.best_price_ = kNoPrice
               \/ (hot.best_price_ # kNoPrice /\ Promise!Better(price, hot.best_price_)))
           /\ hot'.best_price_ = price
        \/ /\ hot.best_price_ # kNoPrice /\ ~Promise!Better(price, hot.best_price_)
           /\ hot'.best_price_ = hot.best_price_
    <3>1. CASE hot.live_mask_ = {}
      BY <2>1, <2>4, <3>1
    <3>2. CASE hot.live_mask_ # {}
      <4>1. hot.best_price_ \in Int /\ price \in Int /\ hot.best_price_ # kNoPrice
        BY <2>4, <3>2, PriceFacts
      <4>2. Promise!Better(price, hot.best_price_) <=> rank(hot, price) < 0
        BY <4>1 DEF Promise!Better, rank
      <4> QED BY <2>1, <3>2, <4>1, <4>2
    <3> QED BY <3>1, <3>2
  <2>6. Promise!Rest(price)
    BY <2>1, <2>3, <2>5, Zenon DEF Promise!Rest, occupied
  <2> QED BY <2>6 DEF Promise!Next
<1>3. ASSUME NEW l \in Level, Cancel(l) PROVE Promise!Next
  <2>1. /\ pc = "idle" /\ pc' = "idle" /\ tiers' = tiers /\ hot' = hot
        /\ content[l] # {} /\ content' = [content EXCEPT ![l] = {}]
    BY <1>3 DEF Cancel, hot
  <2>2. PICK p \in Prices : content[l] = {p}
    BY <1>1, <2>1, OrdersLocated
  <2>3. occupied' = occupied \ {p}
    BY <2>1, <2>2, OccupiedShrinks
  <2>4. Promise!Cancel(p)
    BY <2>1, <2>3 DEF Promise!Cancel, occupied
  <2> QED BY <2>4 DEF Promise!Next
<1>4. CASE ConsumeBest
  <2>1. /\ pc = "idle" /\ pc' = "erase" /\ tiers' = tiers /\ hot' = hot /\ ~side_empty
        /\ content[BestLevel] # {} /\ content' = [content EXCEPT ![BestLevel] = {}]
    BY <1>4 DEF ConsumeBest, BestIsEmpty, hot
  <2>2. BestLevel \in Level /\ content[BestLevel] = {hot.best_price_}
    BY <2>1, BestLevelIsBest
  <2>3. occupied' = occupied \ {hot.best_price_} /\ hot.best_price_ \in occupied
    BY <2>1, <2>2, OccupiedShrinks DEF occupied
  <2>4. Promise!ConsumeBest
    BY <2>1, <2>3 DEF Promise!ConsumeBest, occupied
  <2> QED BY <2>4 DEF Promise!Next
<1>5. CASE erase_best
  <2>1. /\ pc' = "scan" /\ content' = content /\ hot'.best_price_ = hot.best_price_
        /\ hot.best_price_ \in Prices
    BY <1>5, EraseBestStep
  <2>2. pc \in {"idle", "erase"} /\ ~side_empty /\ content[BestLevel] = {}
    BY <1>5 DEF erase_best, BestIsEmpty
  <2>3. hot.best_price_ \notin occupied /\ hot.best_price_ # kNoPrice
    BY <2>1, <2>2, BestLevelIsBest, PriceFacts
  <2>4. occupied' = occupied
    BY <2>1 DEF occupied
  <2>5. Promise!Enter
    BY <2>1, <2>3, <2>4 DEF Promise!Enter, occupied
  <2> QED BY <2>5 DEF Promise!Next
<1>6. CASE ScanHot
  BY <1>1, <1>6, ScanHotStep, ScanAdvances DEF Promise!Next
<1>7. CASE ScanCold
  BY <1>1, <1>7, ScanColdStep, ScanAdvances DEF Promise!Next
<1>8. CASE ScanNothing
  <2>1. /\ pc = "scan" /\ pc' = "idle" /\ content' = content
        /\ hot.live_mask_ = {} /\ DOMAIN cold = {}
        /\ hot'.best_price_ = kNoPrice /\ hot.best_price_ \in Prices
    BY <1>8, NothingStep
  <2>2. occupied = {} /\ occupied' = occupied
    BY <1>1, <2>1 DEF Reachable, Located, hot, cold, occupied
  <2>3. hot.best_price_ # kNoPrice
    BY <2>1, PriceFacts
  <2>4. Promise!Advance
    BY <2>1, <2>2, <2>3 DEF Promise!Advance, occupied
  <2> QED BY <2>4 DEF Promise!Next
<1>9. CASE promote_cold
  <2>1. pc' = pc /\ content' = content /\ hot'.best_price_ = hot.best_price_
    BY <1>9, PromoteStep
  <2> QED BY <2>1 DEF occupied
<1>10. CASE EraseReturn
  <2>1. tiers' = tiers /\ content' = content /\ pc = "promote" /\ pc' = "idle"
    BY <1>10, ReturnStep
  <2>2. Promise!Leave
    BY <2>1 DEF Promise!Leave, hot
  <2> QED BY <2>2 DEF Promise!Next
<1>11. CASE UNCHANGED vars
  BY <1>11 DEF vars, hot, occupied
<1> QED BY <1>2, <1>3, <1>4, <1>5, <1>6, <1>7, <1>8, <1>9, <1>10, <1>11 DEF Next, EraseSteps

\* The ring over the cold map keeps the promise of a side book: its best price
\* moves only as a resting order or erase_best() may move it, and never past
\* an order, while the window slides, flushes and promotes.
THEOREM RingKeepsPromise == Spec => KeepsPromise
<1>1. Init => Promise!Init
  <2>1. SUFFICES ASSUME Init PROVE hot.best_price_ = kNoPrice /\ occupied = {} /\ pc = "idle"
    BY DEF Promise!Init, occupied
  <2>2. \A l \in Level : content[l] = {}
    BY <2>1 DEF Init
  <2> QED BY <2>1, <2>2 DEF Init, EmptyRing, hot, occupied
<1> QED BY <1>1, InitIInv, NextIInv, PromiseStep, PTL DEF Spec, KeepsPromise, Promise!Spec
=============================================================================

--------------------------- MODULE CachedSideBook ---------------------------
(***************************************************************************)
(* The Phase 7 side book (cached_side_book.hpp): a hot ring around the     *)
(* best price, a cold ordered map for the ticks beyond it, and a pool of   *)
(* price levels that both point into.  Its client is a matching engine     *)
(* that uses the interface as OrderBook does: orders join the level        *)
(* get_or_create() returns, a cancel empties a level behind the side       *)
(* book's back, and erase_best() is called on an empty best level only.    *)
(*                                                                         *)
(* erase_best() takes one step per turn of its two loops; every other      *)
(* operation is one step.                                                  *)
(***************************************************************************)
EXTENDS RingBuffer, SequencesExt

CONSTANTS
    Prices,         \* the ticks in use
    pool_capacity   \* levels of the pool: 100000 in the code

\* The pool has a level for every tick in use, so that acquire()'s assertion
\* never fails unless levels leak.
ASSUME CachedAssumption ==
    /\ Prices \subseteq Int
    /\ IsFiniteSet(Prices)
    /\ pool_capacity \in Nat
    /\ Cardinality(Prices) <= pool_capacity
    /\ NULL \notin 0 .. pool_capacity - 1

Level == 0 .. pool_capacity - 1

VARIABLES
    tiers,      \* hot_, cold_ and the pool's free list, most recent first
    content,    \* the prices of the orders in each level: {} if it is empty
    pc          \* "idle", or where erase_best() stands

vars == <<tiers, content, pc>>

hot  == tiers.hot
cold == tiers.cold

Init ==
    /\ tiers = [hot |-> EmptyRing, cold |-> <<>>,
                free |-> [k \in 1 .. pool_capacity |-> pool_capacity - k]]
    /\ content = [l \in Level |-> {}]
    /\ pc = "idle"

-----------------------------------------------------------------------------
(***************************************************************************)
(* Operations, as functions of the tiers t.                                *)
(***************************************************************************)

\* What an operation does and the level it returns.
Got(t, l) == [tiers |-> t, level |-> l]

\* The pool hands out the level released last.
acquire(t)    == Got([t EXCEPT !.free = Tail(@)], Head(t.free))
Release(t, l) == [t EXCEPT !.free = <<l>> \o @]

\* The pool's next level goes to a vacant slot of the ring.
materialize(t, i, price) ==
    LET got == acquire(t) IN
    [got EXCEPT !.tiers.hot = insert(@, i, price, got.level)]

\* emplace() and try_emplace() leave an existing entry alone.
Emplace(map, price, l) ==
    IF price \in DOMAIN map THEN map
    ELSE [p \in DOMAIN map \cup {price} |-> IF p = price THEN l ELSE map[p]]

cold_get_or_create(t, price) ==
    IF price \in DOMAIN t.cold
    THEN Got(t, t.cold[price])
    ELSE LET got == acquire(t) IN [got EXCEPT !.tiers.cold = Emplace(@, price, got.level)]

\* Seeded fault: the price is read after the slot was cleared.
EvictSlotReadsLate(t, i) ==
    LET s == t.hot.slots_[i] IN
    IF s.level = NULL THEN t
    ELSE [t EXCEPT !.cold = Emplace(@, VacantSlot.price, s.level),
                   !.hot = Vacate(@, i)]

\* Seeded fault: an empty level is dropped and not released.
EvictSlotLeaksGhost(t, i) ==
    LET s == t.hot.slots_[i]
        u == [t EXCEPT !.hot = Vacate(@, i)] IN
    IF s.level = NULL THEN t
    ELSE IF content[s.level] = {} THEN u
    ELSE [u EXCEPT !.cold = Emplace(@, s.price, s.level)]

\* A slot that falls out of the window: an empty level goes back to the pool,
\* one with orders to the cold map.
EvictSlot(t, i) ==
    LET s == t.hot.slots_[i]
        u == [t EXCEPT !.hot = Vacate(@, i)] IN
    IF s.level = NULL THEN t
    ELSE IF content[s.level] = {} THEN Release(u, s.level)
    ELSE [u EXCEPT !.cold = Emplace(@, s.price, s.level)]

flush_all_to_cold(t) ==
    LET u == FoldLeft(EvictSlot, t, [k \in 1 .. RingSize |-> k - 1]) IN
    [u EXCEPT !.hot = reset(@)]

\* A strictly better price: the window slides by d ticks, and the d slots at
\* its far end are evicted, or all of them if nothing stays in the window.
reanchor_to(t, price) ==
    LET d    == -rank(t.hot, price)
        far  == [k \in 1 .. d |-> (t.hot.anchor_ + RingSize - k) % RingSize]
        u    == IF d >= RingSize THEN flush_all_to_cold(t) ELSE FoldLeft(EvictSlot, t, far)
        home == IF d >= RingSize THEN 0 ELSE idx_of(t.hot, -d) IN
    materialize([u EXCEPT !.hot = set_anchor(@, home, price)], home, price)

get_or_create(t, price) ==
    LET k == rank(t.hot, price)
        i == idx_of(t.hot, k)
        s == t.hot.slots_[i] IN
    IF RingEmpty(t.hot)
    THEN materialize([t EXCEPT !.hot = set_anchor(@, 0, price)], 0, price)
    ELSE IF in_hot_window(k)
    THEN IF s.price = price THEN Got(t, s.level) ELSE materialize(t, i, price)
    ELSE IF k < 0 THEN reanchor_to(t, price) ELSE cold_get_or_create(t, price)

-----------------------------------------------------------------------------
side_empty   == RingEmpty(hot) /\ DOMAIN cold = {}
BestLevel    == hot.slots_[hot.anchor_].level
BestIsEmpty  == content[BestLevel] = {}

\* Seeded fault: the map is ordered by std::less on both sides.
cold_begin_least == Min(DOMAIN cold)

\* PriceCompare orders the map from the best price.
cold_begin   == IF IsAsk THEN Min(DOMAIN cold) ELSE Max(DOMAIN cold)

\* An order rests at price.
Rest(price) ==
    /\ pc = "idle"
    /\ LET got == get_or_create(tiers, price) IN
       /\ tiers' = got.tiers
       /\ content' = [content EXCEPT ![got.level] = @ \cup {price}]
    /\ UNCHANGED pc

\* A cancel takes the last order of a level away.
Cancel(l) ==
    /\ pc = "idle"
    /\ content[l] # {}
    /\ content' = [content EXCEPT ![l] = {}]
    /\ UNCHANGED <<tiers, pc>>

\* The matching loop takes the last order of the best level.
ConsumeBest ==
    /\ pc = "idle"
    /\ ~side_empty
    /\ ~BestIsEmpty
    /\ content' = [content EXCEPT ![BestLevel] = {}]
    /\ pc' = "erase"
    /\ UNCHANGED tiers

\* The empty level at slot i goes back to the pool.
DropSlot(t, i) == [Release(t, t.hot.slots_[i].level) EXCEPT !.hot = Vacate(@, i)]

\* erase_best() is entered, after ConsumeBest or on a ghost.
erase_best ==
    /\ pc \in {"idle", "erase"}
    /\ ~side_empty
    /\ BestIsEmpty
    /\ tiers' = DropSlot(tiers, hot.anchor_)
    /\ pc' = "scan"
    /\ UNCHANGED content

\* Seeded fault: the ghost the scan meets is left in its slot.
ScanHotKeepsGhost ==
    /\ pc = "scan"
    /\ LET off == next_live_offset(hot)
           i   == (hot.anchor_ + off) % RingSize IN
       /\ off >= 0
       /\ tiers' = [tiers EXCEPT !.hot = set_anchor(@, i, @.slots_[i].price)]
       /\ pc' = IF content[hot.slots_[i].level] = {} THEN "scan" ELSE "promote"
    /\ UNCHANGED content

\* The next live slot becomes the best; if its level is empty, it is dropped
\* too and the scan goes on.
ScanHot ==
    /\ pc = "scan"
    /\ LET off == next_live_offset(hot)
           i   == (hot.anchor_ + off) % RingSize
           t   == [tiers EXCEPT !.hot = set_anchor(@, i, @.slots_[i].price)]
           ghost == content[hot.slots_[i].level] = {} IN
       /\ off >= 0
       /\ tiers' = IF ghost THEN DropSlot(t, i) ELSE t
       /\ pc' = IF ghost THEN "scan" ELSE "promote"
    /\ UNCHANGED content

\* The best cold entry moves to the slot its price has in the window.
Promoted(t) ==
    [t EXCEPT !.hot  = insert(@, idx_of(@, rank(@, cold_begin)), cold_begin, cold[cold_begin]),
              !.cold = [p \in DOMAIN @ \ {cold_begin} |-> @[p]]]

\* The ring is exhausted: the best cold entry becomes the best, whether or
\* not it has orders.
ScanCold ==
    /\ pc = "scan"
    /\ RingEmpty(hot)
    /\ DOMAIN cold # {}
    /\ tiers' = Promoted([tiers EXCEPT !.hot = set_anchor(@, 0, cold_begin)])
    /\ pc' = "promote"
    /\ UNCHANGED content

\* Neither tier has a level left.
ScanNothing ==
    /\ pc = "scan"
    /\ RingEmpty(hot)
    /\ DOMAIN cold = {}
    /\ tiers' = [tiers EXCEPT !.hot = reset(@)]
    /\ pc' = "idle"
    /\ UNCHANGED content

cold_in_window == DOMAIN cold # {} /\ in_hot_window(rank(hot, cold_begin))

\* Seeded fault: at most one cold level is promoted.
promote_cold_once ==
    /\ pc = "promote"
    /\ cold_in_window
    /\ tiers' = Promoted(tiers)
    /\ pc' = "idle"
    /\ UNCHANGED content

\* The window moved: the best cold level that now fits moves to the ring.
promote_cold ==
    /\ pc = "promote"
    /\ cold_in_window
    /\ tiers' = Promoted(tiers)
    /\ UNCHANGED <<content, pc>>

EraseReturn ==
    /\ pc = "promote"
    /\ ~cold_in_window
    /\ pc' = "idle"
    /\ UNCHANGED <<tiers, content>>

EraseSteps == ScanHot \/ ScanCold \/ ScanNothing \/ promote_cold \/ EraseReturn

Next ==
    \/ \E price \in Prices : Rest(price)
    \/ \E l \in Level : Cancel(l)
    \/ ConsumeBest
    \/ erase_best
    \/ EraseSteps

Spec == Init /\ [][Next]_vars

\* Sequential code: erase_best(), once it must be or was entered, runs.
FairSpec == Spec /\ WF_vars(EraseSteps) /\ WF_vars(pc = "erase" /\ erase_best)

-----------------------------------------------------------------------------
TypeOK ==
    /\ tiers.hot \in Ring(Prices, Level)
    /\ DOMAIN tiers.cold \subseteq Prices
    /\ tiers.cold \in [DOMAIN tiers.cold -> Level]
    /\ tiers.free \in Seq(Level)
    /\ content \in [Level -> SUBSET Prices]
    /\ pc \in {"idle", "erase", "scan", "promote"}

\* The live slots, by index.
Live == hot.live_mask_

HotBeforeCold ==
    \A i \in Live, p \in DOMAIN cold :
        IF IsAsk THEN hot.slots_[i].price < p ELSE hot.slots_[i].price > p

\* What the promotion loop asserts: a promoted price is worse than the best,
\* and its slot is vacant.
PromotionSafe ==
    pc = "promote" /\ cold_in_window =>
        /\ rank(hot, cold_begin) > 0
        /\ idx_of(hot, rank(hot, cold_begin)) \notin Live

ColdOutsideWindow == \A p \in DOMAIN cold : ~in_hot_window(rank(hot, p))

(***************************************************************************)
(* Invariant 1 of report/phase7_hot_ring_cold_map_design.md, every hot     *)
(* price is better than every cold one; invariant 2, between calls no cold *)
(* price is in the hot window, so that no price is in both tiers; the      *)
(* lemma that an empty ring is an empty side; and the assertions of the    *)
(* promotion loop, which brings cold prices back.  A reanchor or an        *)
(* advance moves the window under prices that were classified before.      *)
(***************************************************************************)
TiersOrdered ==
    /\ HotBeforeCold
    /\ PromotionSafe
    /\ pc \in {"idle", "erase"} =>
           IF RingEmpty(hot) THEN DOMAIN cold = {} ELSE ColdOutsideWindow

(***************************************************************************)
(* Invariant 3 and what makes the hit test sound: a slot is live exactly   *)
(* when it has a price and a level, and a live slot is the one its price   *)
(* has in the current frame, although the anchor moved since it was set.   *)
(* Between calls the anchor's slot is the best, and an empty side has no   *)
(* best price.                                                             *)
(***************************************************************************)
SlotsInFrame ==
    /\ \A i \in Slots :
        LET s == hot.slots_[i] IN
        /\ i \in Live <=> s.price # kNoPrice
        /\ i \in Live <=> s.level # NULL
        /\ i \in Live => /\ in_hot_window(rank(hot, s.price))
                         /\ i = idx_of(hot, rank(hot, s.price))
    /\ pc \in {"idle", "erase"} => hot.slots_[hot.anchor_].price = hot.best_price_

(***************************************************************************)
(* No level leaks, is released twice, or is referenced from two places:    *)
(* each is in the free list, in one slot or under one cold price.          *)
(***************************************************************************)
LevelsAccountedFor ==
    \A l \in Level :
        Cardinality({k \in 1 .. Len(tiers.free) : tiers.free[k] = l})
      + Cardinality({i \in Slots : hot.slots_[i].level = l})
      + Cardinality({p \in DOMAIN cold : cold[p] = l}) = 1

\* The level a lookup of price would find, by tier.
FoundAt(price, l) ==
    \/ \E i \in Live : hot.slots_[i] = [price |-> price, level |-> l]
    \/ price \in DOMAIN cold /\ cold[price] = l

(***************************************************************************)
(* Every order can be reached: its level (the parent_level of its orders)  *)
(* holds no other price and is the one a lookup of its price finds, in     *)
(* whatever tier migration put it, and the best price is not worse.        *)
(***************************************************************************)
NothingHidden ==
    \A l \in Level : content[l] # {} =>
        \E p \in Prices : /\ content[l] = {p}
                          /\ FoundAt(p, l)
                          /\ hot.best_price_ # kNoPrice
                          /\ rank(hot, p) >= 0

(***************************************************************************)
(* The two tiers keep the promise of any side book: the best price moves   *)
(* only as resting orders and erase_best() may move it, and never past an  *)
(* order, while the window slides, flushes and promotes.                   *)
(***************************************************************************)
Promise == INSTANCE SidePromise WITH
    best     <- hot.best_price_,
    occupied <- UNION {content[l] : l \in Level},
    erasing  <- pc # "idle",
    NoPrice  <- kNoPrice

KeepsPromise == Promise!Spec

\* erase_best() returns.
EraseReturns == pc # "idle" ~> pc = "idle"
=============================================================================

----------------------------- MODULE RingBuffer -----------------------------
(***************************************************************************)
(* The hot ring of the Phase 7 side book (ring_buffer.hpp): RingSize slots *)
(* for the ticks nearest the best price, addressed relative to the anchor, *)
(* which is the slot of the best price.                                    *)
(*                                                                         *)
(* A ring is a record; live_mask_ is the set of the positions of its 1     *)
(* bits, NULL a null PriceLevel*, and kNoPrice no number, so that reading  *)
(* it as a price is an error.                                              *)
(***************************************************************************)
EXTENDS Integers, FiniteSetsExt

CONSTANTS
    RingSize,   \* slots of the ring: 16 in the code, a power of two
    IsAsk,      \* the template parameter
    kNoPrice,   \* INT64_MIN in the code
    NULL

ASSUME RingAssumption ==
    /\ RingSize \in Nat \ {0}
    /\ IsAsk \in BOOLEAN
    /\ kNoPrice \notin Int

Slots == 0 .. RingSize - 1

Ring(P, L) ==
    [slots_      : [Slots -> [price : P \cup {kNoPrice}, level : L \cup {NULL}]],
     live_mask_  : SUBSET Slots,
     anchor_     : Slots,
     best_price_ : P \cup {kNoPrice}]

VacantSlot == [price |-> kNoPrice, level |-> NULL]

EmptyRing == [slots_ |-> [i \in Slots |-> VacantSlot], live_mask_ |-> {},
              anchor_ |-> 0, best_price_ |-> kNoPrice]

RingEmpty(r) == r.live_mask_ = {}

\* Ticks from the best price to price, positive towards worse prices.
rank(r, price) == IF IsAsk THEN price - r.best_price_ ELSE r.best_price_ - price

\* The cast to unsigned puts a negative rank outside.
in_hot_window(k) == k \in Slots

\* The mask makes a negative rank wrap, as % does here.
idx_of(r, k) == (r.anchor_ + k) % RingSize

insert(r, i, price, level) ==
    [r EXCEPT !.slots_[i] = [price |-> price, level |-> level],
              !.live_mask_ = @ \cup {i}]

\* Seeded fault: the slot's price survives its level.
VacateKeepsPrice(r, i) ==
    [r EXCEPT !.slots_[i].level = NULL, !.live_mask_ = @ \ {i}]

\* remove() and evict(): the slot is cleared; evict() also returns the level.
Vacate(r, i) ==
    [r EXCEPT !.slots_[i] = VacantSlot, !.live_mask_ = @ \ {i}]

\* The live bits rotated so that the anchor's is bit 0; -1 if there is none.
next_live_offset(r) ==
    LET rotated == {(i - r.anchor_) % RingSize : i \in r.live_mask_} IN
    IF rotated = {} THEN -1 ELSE Min(rotated)

set_anchor(r, i, price) == [r EXCEPT !.anchor_ = i, !.best_price_ = price]

\* The anchor is left as it was.
reset(r) == [r EXCEPT !.live_mask_ = {}, !.best_price_ = kNoPrice]
=============================================================================

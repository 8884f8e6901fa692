----------------------------- MODULE OrderPool -----------------------------
(***************************************************************************)
(* The pool of preallocated Order slots (order_pool.hpp).  A handle is the *)
(* index of a slot, an Order* is written as the same handle, and NULL is   *)
(* both nullptr and kInvalidHandle.                                        *)
(*                                                                         *)
(* The intrusive links of the orders, the ends of the price levels' lists  *)
(* and the head of the free list live in one record, the link memory:      *)
(*   prev, next, parent_level   fields of the slots (types.hpp)            *)
(*   head_, tail_               fields of the levels (price_level.hpp)     *)
(*   free_head_                 the pool's                                 *)
(* because one slot's next field serves the free list and the FIFO list in *)
(* turn.                                                                   *)
(***************************************************************************)
EXTENDS Integers

CONSTANTS
    capacity,   \* slots of the pool
    Levels,     \* the price levels: addresses of PriceLevel objects
    NULL        \* nullptr, kInvalidHandle

ASSUME PoolAssumption ==
    /\ capacity \in Nat
    /\ NULL \notin Nat
    /\ NULL \notin Levels

Handles == 0 .. capacity - 1

OrNull(S) == S \cup {NULL}

Links ==
    [prev         : [Handles -> OrNull(Handles)],
     next         : [Handles -> OrNull(Handles)],
     parent_level : [Handles -> OrNull(Levels)],
     head_        : [Levels -> OrNull(Handles)],
     tail_        : [Levels -> OrNull(Handles)],
     free_head_   : OrNull(Handles)]

(***************************************************************************)
(* The constructor pushes the slots in ascending order, so that the        *)
(* highest index is acquired first.                                        *)
(***************************************************************************)
InitLinks ==
    [prev         |-> [h \in Handles |-> NULL],
     next         |-> [h \in Handles |-> IF h = 0 THEN NULL ELSE h - 1],
     parent_level |-> [h \in Handles |-> NULL],
     head_        |-> [l \in Levels |-> NULL],
     tail_        |-> [l \in Levels |-> NULL],
     free_head_   |-> IF capacity = 0 THEN NULL ELSE capacity - 1]

\* acquire() hands out m.free_head_ when it is not NULL; the links of the
\* slot are cleared.
Acquire(m) ==
    LET h == m.free_head_ IN
    [m EXCEPT !.free_head_ = m.next[h], !.prev[h] = NULL, !.next[h] = NULL]

\* release(): only next is written; the slot's data, prev and parent_level
\* stay as they were.
Release(m, h) == [m EXCEPT !.next[h] = m.free_head_, !.free_head_ = h]
=============================================================================

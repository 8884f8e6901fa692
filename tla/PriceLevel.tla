----------------------------- MODULE PriceLevel -----------------------------
(***************************************************************************)
(* The intrusive FIFO list of one price level (price_level.hpp), as        *)
(* functions of the link memory of OrderPool.                              *)
(***************************************************************************)
EXTENDS OrderPool, SequencesExt

empty(m, l) == m.head_[l] = NULL
front(m, l) == m.head_[l]

\* Seeded fault: the new order is put at the front.
PushBackAtFront(m, l, o) ==
    LET first == m.head_[l] IN
    [m EXCEPT
        !.next[o]  = first,
        !.prev     = [h \in Handles |-> IF h = first THEN o
                                        ELSE IF h = o THEN NULL ELSE m.prev[h]],
        !.tail_[l] = IF first = NULL THEN o ELSE @,
        !.head_[l] = o]

\* push_back(): o becomes the tail of l.
PushBack(m, l, o) ==
    LET t == m.tail_[l] IN
    [m EXCEPT
        !.prev[o]  = t,
        !.next     = [h \in Handles |-> IF h = t THEN o
                                        ELSE IF h = o THEN NULL ELSE m.next[h]],
        !.head_[l] = IF t = NULL THEN o ELSE @,
        !.tail_[l] = o]

\* Seeded fault: the successor's prev still points to the erased order.
EraseForwardOnly(m, l, o) ==
    LET p == m.prev[o]
        n == m.next[o] IN
    [m EXCEPT
        !.prev[o]  = NULL,
        !.next     = [h \in Handles |-> IF h = o THEN NULL
                                        ELSE IF h = p THEN n ELSE m.next[h]],
        !.head_[l] = IF p = NULL THEN n ELSE @,
        !.tail_[l] = IF n = NULL THEN p ELSE @]

\* erase(): o is unlinked from l wherever it stands in the list.
Erase(m, l, o) ==
    LET p == m.prev[o]
        n == m.next[o] IN
    [m EXCEPT
        !.prev     = [h \in Handles |-> IF h = o THEN NULL
                                        ELSE IF h = n THEN p ELSE m.prev[h]],
        !.next     = [h \in Handles |-> IF h = o THEN NULL
                                        ELSE IF h = p THEN n ELSE m.next[h]],
        !.head_[l] = IF p = NULL THEN n ELSE @,
        !.tail_[l] = IF n = NULL THEN p ELSE @]

-----------------------------------------------------------------------------
(***************************************************************************)
(* What the links stand for.  fifo is a sequence of handles per level and  *)
(* free one for the free list.                                             *)
(***************************************************************************)

\* Level l's links spell exactly the sequence q, front to back and back to
\* front, and every order of q points to its level.
Spells(m, l, q) ==
    /\ m.head_[l] = IF q = <<>> THEN NULL ELSE q[1]
    /\ m.tail_[l] = IF q = <<>> THEN NULL ELSE q[Len(q)]
    /\ \A k \in 1 .. Len(q) :
        /\ m.prev[q[k]] = IF k = 1 THEN NULL ELSE q[k - 1]
        /\ m.next[q[k]] = IF k = Len(q) THEN NULL ELSE q[k + 1]
        /\ m.parent_level[q[k]] = l

\* The free list spells the sequence q.
FreeListSpells(m, q) ==
    /\ m.free_head_ = IF q = <<>> THEN NULL ELSE q[1]
    /\ \A k \in 1 .. Len(q) : m.next[q[k]] = IF k = Len(q) THEN NULL ELSE q[k + 1]

\* q without its element o.
Without(q, o) == RemoveAt(q, CHOOSE k \in 1 .. Len(q) : q[k] = o)
=============================================================================

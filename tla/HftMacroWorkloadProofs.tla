----------------------- MODULE HftMacroWorkloadProofs -----------------------
(***************************************************************************)
(* The workload's tracking is exact, its shadow trees cover the engine's   *)
(* and its replays repeat the batch, for all values of the constants.      *)
(***************************************************************************)
EXTENDS HftMacroWorkload, OrderBookProofs, FiniteSetTheorems

-----------------------------------------------------------------------------
(***************************************************************************)
(* The tracking.                                                           *)
(***************************************************************************)
OrderInfo  == [side : Side, price : Prices, qty : Nat \ {0}]
HandleInfo == [handle : Handles, qty : Nat \ {0}]

TrackOK(t) ==
    /\ t = [orders |-> t.orders, handles |-> t.handles, counts |-> t.counts]
    /\ IsFiniteSet(DOMAIN t.orders) /\ DOMAIN t.orders \subseteq OrderId
    /\ t.orders \in [DOMAIN t.orders -> OrderInfo]
    /\ t.handles \in [DOMAIN t.handles -> HandleInfo]
    /\ t.counts \in [Side -> [Prices -> Nat]]

OrdersAt(t, s, p) ==
    {id \in DOMAIN t.orders : t.orders[id].side = s /\ t.orders[id].price = p}

\* The level counts count the tracked orders.
Counted(t) == \A s \in Side, p \in Prices : t.counts[s][p] = Cardinality(OrdersAt(t, s, p))

\* The same orders and handles but those of id.
SameBut(t, u, id) ==
    /\ \A i \in DOMAIN u.orders \ {id} : i \in DOMAIN t.orders /\ u.orders[i] = t.orders[i]
    /\ \A i \in DOMAIN u.handles \ {id} : i \in DOMAIN t.handles /\ u.handles[i] = t.handles[i]

\* u is t without id.
Drops(t, u, id) ==
    /\ TrackOK(u) /\ Counted(u) /\ SameBut(t, u, id)
    /\ DOMAIN u.orders = DOMAIN t.orders \ {id}
    /\ DOMAIN u.handles = DOMAIN t.handles \ {id}

\* u is t with left to come of id.
Lessens(t, u, id, left) ==
    /\ TrackOK(u) /\ Counted(u) /\ SameBut(t, u, id)
    /\ DOMAIN u.orders = DOMAIN t.orders
    /\ DOMAIN u.handles = DOMAIN t.handles
    /\ u.orders[id] = [side |-> t.orders[id].side, price |-> t.orders[id].price, qty |-> left]
    /\ u.handles[id] = [handle |-> t.handles[id].handle, qty |-> left]

\* u is t with order o of handle h under id.
Tracks(t, u, id, o, h) ==
    /\ TrackOK(u) /\ Counted(u) /\ SameBut(t, u, id)
    /\ DOMAIN u.orders = DOMAIN t.orders \cup {id}
    /\ DOMAIN u.handles = DOMAIN t.handles \cup {id}
    /\ u.orders[id] = o
    /\ u.handles[id] = [handle |-> h, qty |-> o.qty]

\* What track_remove() and track_add() do to a count.
Less(n) == IF n > 0 THEN n - 1 ELSE 0
Fewer(c, o) == [c EXCEPT ![o.side] = [c[o.side] EXCEPT ![o.price] = Less(c[o.side][o.price])]]

\* u is t with its fields changed by track_remove() and drop_handle().
Dropped(t, u, id) ==
    /\ u = [orders |-> u.orders, handles |-> u.handles, counts |-> u.counts]
    /\ u.orders  = [i \in DOMAIN t.orders \ {id} |-> t.orders[i]]
    /\ u.handles = [i \in DOMAIN t.handles \ {id} |-> t.handles[i]]
    /\ u.counts  = Fewer(t.counts, t.orders[id])

LEMMA DropIs ==
    ASSUME NEW t, TrackOK(t), NEW id \in DOMAIN t.orders,
           NEW u, u = track_remove(drop_handle(t, id), id)
    PROVE  Dropped(t, u, id)
<1> DEFINE o == t.orders[id]
<1> DEFINE d == drop_handle(t, id)
<1>1. d = [orders |-> t.orders, handles |-> [i \in DOMAIN t.handles \ {id} |-> t.handles[i]],
           counts |-> t.counts]
  <2>1. DOMAIN t.handles \cap (DOMAIN t.handles \ {id}) = DOMAIN t.handles \ {id}
    OBVIOUS
  <2>2. Forget(t.handles, id) = [i \in DOMAIN t.handles \ {id} |-> t.handles[i]]
    BY <2>1 DEF Forget, Restrict
  <2> QED BY <2>2 DEF TrackOK, drop_handle
<1>2. d.orders = t.orders /\ d.counts = t.counts /\ id \in DOMAIN d.orders
  BY <1>1
<1> HIDE DEF d
<1>3. Forget(t.orders, id) = [i \in DOMAIN t.orders \ {id} |-> t.orders[i]]
  BY DEF Forget, Restrict
<1>4. u = [d EXCEPT !.orders = Forget(t.orders, id), !.counts = Fewer(t.counts, o)]
  BY <1>2 DEF track_remove, d, Less, Fewer
<1> QED BY <1>1, <1>3, <1>4 DEF Dropped

\* One order less.
LEMMA LessOf ==
    ASSUME NEW t, TrackOK(t), Counted(t), NEW id \in DOMAIN t.orders,
           NEW u, Dropped(t, u, id)
    PROVE  Counted(u) /\ u.counts \in [Side -> [Prices -> Nat]]
<1> DEFINE o == t.orders[id]
<1>0. /\ DOMAIN u.orders = DOMAIN t.orders \ {id}
      /\ \A i \in DOMAIN u.orders : u.orders[i] = t.orders[i]
      /\ u.counts = [t.counts EXCEPT ![o.side] =
                        [t.counts[o.side] EXCEPT ![o.price] = Less(t.counts[o.side][o.price])]]
  BY DEF Dropped, Fewer
<1>1. o \in OrderInfo /\ o.side \in Side /\ o.price \in Prices /\ t.counts \in [Side -> [Prices -> Nat]]
  BY DEF TrackOK, OrderInfo
<1>2. ASSUME NEW s \in Side, NEW p \in Prices
      PROVE  u.counts[s][p] = Cardinality(OrdersAt(u, s, p)) /\ u.counts[s][p] \in Nat
  <2>1. /\ OrdersAt(t, s, p) \subseteq DOMAIN t.orders /\ IsFiniteSet(OrdersAt(t, s, p))
        /\ t.counts[s][p] = Cardinality(OrdersAt(t, s, p)) /\ t.counts[s][p] \in Nat
    <3>1. OrdersAt(t, s, p) \in SUBSET DOMAIN t.orders
      BY DEF OrdersAt
    <3> QED BY <1>1, <3>1, FS_Subset DEF TrackOK, Counted
  <2>2. OrdersAt(u, s, p) = OrdersAt(t, s, p) \ {id}
    BY <1>0 DEF OrdersAt
  <2>3. id \in OrdersAt(t, s, p) <=> o.side = s /\ o.price = p
    BY DEF OrdersAt
  <2>4. Cardinality(OrdersAt(u, s, p)) = IF o.side = s /\ o.price = p THEN t.counts[s][p] - 1
                                                                      ELSE t.counts[s][p]
    <3>1. Cardinality(OrdersAt(t, s, p) \ {id})
            = IF id \in OrdersAt(t, s, p) THEN Cardinality(OrdersAt(t, s, p)) - 1
                                          ELSE Cardinality(OrdersAt(t, s, p))
      BY <2>1, FS_RemoveElement
    <3> QED BY <2>1, <2>2, <2>3, <3>1
  <2>5. o.side = s /\ o.price = p => t.counts[s][p] > 0
    BY <2>1, <2>3, FS_EmptySet
  <2>6. u.counts[s][p] = IF o.side = s /\ o.price = p THEN Less(t.counts[s][p]) ELSE t.counts[s][p]
    <3> DEFINE c == t.counts
               row == [c[o.side] EXCEPT ![o.price] = Less(c[o.side][o.price])]
    <3>1. c \in [Side -> [Prices -> Nat]] /\ u.counts = [c EXCEPT ![o.side] = row]
      BY <1>0, <1>1
    <3>2. row[p] = IF p = o.price THEN Less(c[o.side][o.price]) ELSE c[o.side][p]
      BY <1>1
    <3> HIDE DEF c, row
    <3>3. u.counts[s] = IF s = o.side THEN row ELSE c[s]
      BY <3>1
    <3> USE DEF c
    <3> QED BY <3>2, <3>3
  <2>7. CASE o.side = s /\ o.price = p
    <3>1. u.counts[s][p] = t.counts[s][p] - 1 /\ t.counts[s][p] - 1 \in Nat
      BY <2>1, <2>5, <2>6, <2>7 DEF Less
    <3> QED BY <2>4, <2>7, <3>1
  <2>8. CASE ~(o.side = s /\ o.price = p)
    BY <2>1, <2>4, <2>6, <2>8
  <2> QED BY <2>7, <2>8
<1>3. u.counts \in [Side -> [Prices -> Nat]]
  <2> DEFINE row == [t.counts[o.side] EXCEPT ![o.price] = Less(t.counts[o.side][o.price])]
  <2>1. t.counts[o.side] \in [Prices -> Nat] /\ Less(t.counts[o.side][o.price]) \in Nat
    BY <1>1 DEF Less
  <2>2. row \in [Prices -> Nat]
    BY <2>1
  <2> HIDE DEF row
  <2>3. u.counts = [t.counts EXCEPT ![o.side] = row]
    BY <1>0 DEF row
  <2> QED BY <1>1, <2>2, <2>3
<1> QED BY <1>2, <1>3 DEF Counted

LEMMA DropFacts ==
    ASSUME NEW t, TrackOK(t), Counted(t), NEW id \in DOMAIN t.orders,
           NEW u, u = track_remove(drop_handle(t, id), id)
    PROVE  Drops(t, u, id)
<1>1. Dropped(t, u, id)
  BY DropIs
<1>2. /\ DOMAIN u.orders = DOMAIN t.orders \ {id} /\ DOMAIN u.handles = DOMAIN t.handles \ {id}
      /\ \A i \in DOMAIN u.orders : u.orders[i] = t.orders[i]
      /\ \A i \in DOMAIN u.handles : u.handles[i] = t.handles[i]
  BY <1>1 DEF Dropped
<1>3. Counted(u) /\ u.counts \in [Side -> [Prices -> Nat]]
  BY <1>1, LessOf
<1>4. IsFiniteSet(DOMAIN u.orders) /\ DOMAIN u.orders \subseteq OrderId
  BY <1>2, FS_RemoveElement DEF TrackOK
<1>5. u.orders \in [DOMAIN u.orders -> OrderInfo]
  BY <1>1, <1>2 DEF Dropped, TrackOK
<1>6. u.handles \in [DOMAIN u.handles -> HandleInfo]
  BY <1>1, <1>2 DEF Dropped, TrackOK
<1>7. TrackOK(u)
  BY <1>1, <1>3, <1>4, <1>5, <1>6 DEF Dropped, TrackOK
<1> QED BY <1>2, <1>3, <1>7 DEF Drops, SameBut

\* The smaller of a quantity and more than it.
LEMMA MinOfTwo == ASSUME NEW a \in Nat, NEW b \in Nat, b <= a PROVE Min({a, b}) = b
<1>1. {a, b} \in SUBSET Nat /\ {a, b} # {}
  OBVIOUS
<1>2. Min({a, b}) \in {a, b} /\ \A y \in {a, b} : Min({a, b}) <= y
  BY <1>1, MinIsLeast
<1> QED BY <1>2

LEMMA LessenFacts ==
    ASSUME NEW t, TrackOK(t), Counted(t), NEW id, id \in DOMAIN t.orders, id \in DOMAIN t.handles,
           t.handles[id].qty = t.orders[id].qty,
           NEW trade, trade.maker = id, trade.quantity \in Nat, trade.quantity < t.orders[id].qty,
           NEW u, u = ApplyFill(t, trade)
    PROVE  Lessens(t, u, id, t.orders[id].qty - trade.quantity)
<1> DEFINE left == t.orders[id].qty - trade.quantity
           o    == [side |-> t.orders[id].side, price |-> t.orders[id].price, qty |-> left]
           h    == [handle |-> t.handles[id].handle, qty |-> left]
<1>1. t.orders[id] \in OrderInfo /\ t.handles[id] \in HandleInfo
  BY DEF TrackOK
<1>2. left \in Nat \ {0}
  BY <1>1 DEF OrderInfo
<1>3. Min({t.handles[id].qty, trade.quantity}) = trade.quantity
  <2>1. t.handles[id].qty \in Nat /\ trade.quantity <= t.handles[id].qty
    BY <1>1 DEF HandleInfo
  <2> QED BY <2>1, MinOfTwo
<1>4. [t.orders[id] EXCEPT !.qty = t.orders[id].qty - trade.quantity] = o
  BY <1>1 DEF OrderInfo
<1>5. [t.handles[id] EXCEPT !.qty = t.handles[id].qty - trade.quantity] = h
  BY <1>1 DEF HandleInfo
<1>6. ~(trade.quantity >= t.orders[id].qty)
  BY <1>1 DEF OrderInfo
<1>7. u = [t EXCEPT !.orders = [t.orders EXCEPT ![id] =
                         [t.orders[id] EXCEPT !.qty = t.orders[id].qty - trade.quantity]],
                    !.handles = [t.handles EXCEPT ![id] =
                         [t.handles[id] EXCEPT !.qty = t.handles[id].qty
                                - Min({t.handles[id].qty, trade.quantity})]]]
  BY <1>6 DEF ApplyFill
<1> HIDE DEF left, o, h
<1>8. u = [t EXCEPT !.orders = [t.orders EXCEPT ![id] = o], !.handles = [t.handles EXCEPT ![id] = h]]
  BY <1>3, <1>4, <1>5, <1>7
<1>9. u = [orders  |-> [t.orders EXCEPT ![id] = o], handles |-> [t.handles EXCEPT ![id] = h],
           counts  |-> t.counts]
  BY <1>8 DEF TrackOK
<1>10. o \in OrderInfo /\ h \in HandleInfo
  BY <1>1, <1>2 DEF o, h, OrderInfo, HandleInfo
<1>11. /\ DOMAIN u.orders = DOMAIN t.orders /\ DOMAIN u.handles = DOMAIN t.handles
       /\ u.orders[id] = o /\ u.handles[id] = h
       /\ \A i \in DOMAIN t.orders : i # id => u.orders[i] = t.orders[i]
       /\ \A i \in DOMAIN t.handles : i # id => u.handles[i] = t.handles[i]
  BY <1>9
<1>12. u.orders \in [DOMAIN t.orders -> OrderInfo] /\ u.handles \in [DOMAIN t.handles -> HandleInfo]
  BY <1>9, <1>10 DEF TrackOK
<1>13. TrackOK(u)
  BY <1>9, <1>11, <1>12 DEF TrackOK
<1>14. \A s \in Side, p \in Prices : OrdersAt(u, s, p) = OrdersAt(t, s, p)
  BY <1>11 DEF OrdersAt, o
<1>15. Counted(u)
  BY <1>9, <1>14 DEF Counted
<1> QED BY <1>11, <1>13, <1>15 DEF Lessens, SameBut, o, h, left

\* One order more.
More(c, side, price) == [c EXCEPT ![side] = [c[side] EXCEPT ![price] = c[side][price] + 1]]

LEMMA TrackFacts ==
    ASSUME NEW t, TrackOK(t), Counted(t), NEW id \in OrderId, id \notin DOMAIN t.orders,
           NEW o \in OrderInfo, NEW h \in Handles, NEW u,
           u = [track_add(t, id, o.side, o.price, o.qty)
                  EXCEPT !.handles = Remember(@, id, [handle |-> h, qty |-> o.qty])]
    PROVE  Tracks(t, u, id, o, h)
<1> DEFINE O == [i \in DOMAIN t.orders \cup {id} |-> IF i = id THEN o ELSE t.orders[i]]
           x == [handle |-> h, qty |-> o.qty]
           H == [i \in DOMAIN t.handles \cup {id} |-> IF i = id THEN x ELSE t.handles[i]]
<1>0. /\ o = [side |-> o.side, price |-> o.price, qty |-> o.qty] /\ o.side \in Side
      /\ o.price \in Prices /\ x \in HandleInfo /\ t.counts \in [Side -> [Prices -> Nat]]
  BY DEF OrderInfo, HandleInfo, TrackOK
<1>1. track_remove(t, id) = t
  BY DEF track_remove
<1>2. track_add(t, id, o.side, o.price, o.qty)
        = [t EXCEPT !.orders = O, !.counts = More(t.counts, o.side, o.price)]
  BY <1>0, <1>1 DEF track_add, Remember, More
<1>3. track_add(t, id, o.side, o.price, o.qty)
        = [orders |-> O, handles |-> t.handles, counts |-> More(t.counts, o.side, o.price)]
  BY <1>2 DEF TrackOK
<1>4. Remember(t.handles, id, x) = H
  BY DEF Remember
<1>5. u = [orders |-> O, handles |-> H, counts |-> More(t.counts, o.side, o.price)]
  <2> DEFINE a == track_add(t, id, o.side, o.price, o.qty)
  <2>1. u = [a EXCEPT !.handles = Remember(a.handles, id, x)]
    OBVIOUS
  <2>2. a = [orders |-> O, handles |-> t.handles, counts |-> More(t.counts, o.side, o.price)]
    BY <1>3
  <2> HIDE DEF a, O, H, x
  <2>3. a.handles = t.handles
    BY <2>2
  <2>4. u = [a EXCEPT !.handles = H]
    BY <2>1, <2>3, <1>4
  <2> QED BY <2>2, <2>4
<1>6. /\ DOMAIN O = DOMAIN t.orders \cup {id} /\ DOMAIN H = DOMAIN t.handles \cup {id}
      /\ O[id] = o /\ H[id] = x
      /\ \A i \in DOMAIN t.orders : O[i] = t.orders[i]
      /\ \A i \in DOMAIN t.handles : i # id => H[i] = t.handles[i]
  OBVIOUS
<1>7. O \in [DOMAIN t.orders \cup {id} -> OrderInfo]
  BY DEF TrackOK
<1>8. H \in [DOMAIN t.handles \cup {id} -> HandleInfo]
  BY <1>0 DEF TrackOK
<1> HIDE DEF O, H, x
<1>9. u.orders = O /\ u.handles = H /\ u.counts = More(t.counts, o.side, o.price)
  BY <1>5
<1>10. ASSUME NEW s \in Side, NEW p \in Prices
       PROVE  u.counts[s][p] = Cardinality(OrdersAt(u, s, p)) /\ u.counts[s][p] \in Nat
  <2>1. /\ IsFiniteSet(OrdersAt(t, s, p)) /\ id \notin OrdersAt(t, s, p)
        /\ t.counts[s][p] = Cardinality(OrdersAt(t, s, p)) /\ t.counts[s][p] \in Nat
    <3>1. OrdersAt(t, s, p) \in SUBSET DOMAIN t.orders
      BY DEF OrdersAt
    <3> QED BY <1>0, <3>1, FS_Subset DEF TrackOK, Counted
  <2>2. CASE o.side = s /\ o.price = p
    <3>1. OrdersAt(u, s, p) = OrdersAt(t, s, p) \cup {id}
      BY <1>6, <1>9, <2>2 DEF OrdersAt
    <3>2. Cardinality(OrdersAt(t, s, p) \cup {id}) = Cardinality(OrdersAt(t, s, p)) + 1
      BY <2>1, FS_AddElement
    <3>3. u.counts[s][p] = t.counts[s][p] + 1
      BY <1>0, <1>9, <2>2 DEF More
    <3>4. t.counts[s][p] + 1 \in Nat
      BY <2>1
    <3> QED BY <2>1, <3>1, <3>2, <3>3, <3>4
  <2>3. CASE ~(o.side = s /\ o.price = p)
    <3>1. OrdersAt(u, s, p) = OrdersAt(t, s, p)
      BY <1>6, <1>9, <2>3 DEF OrdersAt
    <3>2. u.counts[s][p] = t.counts[s][p]
      BY <1>0, <1>9, <2>3 DEF More
    <3> QED BY <2>1, <3>1, <3>2
  <2> QED BY <2>2, <2>3
<1>11. u.counts \in [Side -> [Prices -> Nat]]
  <2> DEFINE row == [t.counts[o.side] EXCEPT ![o.price] = t.counts[o.side][o.price] + 1]
  <2>1. t.counts[o.side] \in [Prices -> Nat] /\ t.counts[o.side][o.price] + 1 \in Nat
    BY <1>0
  <2>2. row \in [Prices -> Nat]
    BY <2>1
  <2> HIDE DEF row
  <2>3. u.counts = [t.counts EXCEPT ![o.side] = row]
    BY <1>9 DEF More, row
  <2> QED BY <1>0, <2>2, <2>3
<1>12. IsFiniteSet(DOMAIN u.orders) /\ DOMAIN u.orders \subseteq OrderId
  BY <1>6, <1>9, FS_AddElement DEF TrackOK
<1>13. u.orders \in [DOMAIN u.orders -> OrderInfo] /\ u.handles \in [DOMAIN u.handles -> HandleInfo]
  BY <1>6, <1>7, <1>8, <1>9
<1>14. u = [orders |-> u.orders, handles |-> u.handles, counts |-> u.counts]
  BY <1>5, <1>9
<1>15. TrackOK(u) /\ Counted(u)
  BY <1>10, <1>11, <1>12, <1>13, <1>14 DEF TrackOK, Counted
<1>16. SameBut(t, u, id)
  BY <1>6, <1>9 DEF SameBut
<1> QED BY <1>6, <1>9, <1>15, <1>16 DEF Tracks, x

-----------------------------------------------------------------------------
(***************************************************************************)
(* The tracking and the book.                                              *)
(***************************************************************************)

\* The handles of t are the orders resting in F, with the data ord.
Names(t, ord, F) ==
    /\ DOMAIN t.handles = IdsIn(ord, F)
    /\ \A l \in Levels : \A h \in ToSet(F[l]) :
        /\ t.orders[ord[h].id] = [side |-> l[1], price |-> price_of(l[2]), qty |-> ord[h].quantity]
        /\ t.handles[ord[h].id] = [handle |-> h, qty |-> ord[h].quantity]

Follows(t, ord, F) ==
    TrackOK(t) /\ Counted(t) /\ DOMAIN t.orders = DOMAIN t.handles /\ Names(t, ord, F)

\* No two resting orders have the same id.
LEMMA OneHandlePerId ==
    ASSUME NEW t, NEW ord, NEW F, Names(t, ord, F), NEW g \in Listed(F), NEW h \in Listed(F),
           ord[g].id = ord[h].id
    PROVE  g = h
<1>1. PICK l \in Levels, m \in Levels : g \in ToSet(F[l]) /\ h \in ToSet(F[m])
  BY DEF Listed
<1>2. /\ t.handles[ord[g].id] = [handle |-> g, qty |-> ord[g].quantity]
      /\ t.handles[ord[h].id] = [handle |-> h, qty |-> ord[h].quantity]
  BY <1>1 DEF Names
<1> QED BY <1>2

LEMMA FollowsLeaves ==
    ASSUME NEW t, NEW ord, NEW F, Follows(t, ord, F),
           NEW G, NEW ord2, NEW l, NEW o, Leaves(F, G, ord, ord2, l, o),
           NEW u, Drops(t, u, ord[o].id)
    PROVE  Follows(u, ord2, G)
<1> DEFINE id == ord[o].id
<1>1. \A h \in Listed(G) : h \in Listed(F) /\ h # o /\ ord2[h] = ord[h] /\ ord[h].id # id
  <2>1. \A h \in Listed(G) : h \in Listed(F) /\ h # o /\ h \in Handles
    BY DEF Leaves, Listed
  <2>2. \A h \in Listed(G) : ord[h].id = id => h = o
    BY <2>1, OneHandlePerId DEF Follows, Leaves
  <2> QED BY <2>1, <2>2 DEF Leaves
<1>2. IdsIn(ord2, G) = IdsIn(ord, F) \ {id}
  <2>1. \A h \in Listed(F) : h # o => h \in Listed(G)
    BY DEF Leaves
  <2> QED BY <1>1, <2>1 DEF IdsIn, Leaves
<1>3. DOMAIN u.handles = IdsIn(ord2, G) /\ DOMAIN u.orders = DOMAIN u.handles
  BY <1>2 DEF Drops, Follows, Names
<1>4. ASSUME NEW x \in Levels, NEW h \in ToSet(G[x])
      PROVE  /\ u.orders[ord2[h].id] =
                  [side |-> x[1], price |-> price_of(x[2]), qty |-> ord2[h].quantity]
             /\ u.handles[ord2[h].id] = [handle |-> h, qty |-> ord2[h].quantity]
  <2>1. h \in ToSet(F[x]) /\ h \in Handles /\ h \in Listed(G)
    BY DEF Leaves, Listed
  <2>2. ord2[h] = ord[h] /\ ord[h].id # id /\ ord2[h].id \in IdsIn(ord2, G)
    BY <1>1, <2>1 DEF IdsIn
  <2>3. u.orders[ord[h].id] = t.orders[ord[h].id] /\ u.handles[ord[h].id] = t.handles[ord[h].id]
    BY <1>3, <2>2 DEF Drops, SameBut
  <2> QED BY <2>1, <2>2, <2>3 DEF Follows, Names
<1> QED BY <1>3, <1>4 DEF Follows, Names, Drops

LEMMA FollowsShrinks ==
    ASSUME NEW t, NEW ord, NEW F, Follows(t, ord, F),
           NEW ord2, NEW l, NEW o, NEW left, Shrinks(F, ord, ord2, l, o, left),
           NEW u, Lessens(t, u, ord[o].id, left)
    PROVE  Follows(u, ord2, F)
<1> DEFINE id == ord[o].id
<1>1. \A h \in Listed(F) : h # o => ord2[h] = ord[h] /\ ord[h].id # id
  <2>1. \A h \in Listed(F) : h \in Handles
    BY DEF Listed
  <2>2. \A h \in Listed(F) : ord[h].id = id => h = o
    BY OneHandlePerId DEF Follows, Shrinks
  <2> QED BY <2>1, <2>2 DEF Shrinks
<1>2. \A h \in Listed(F) : ord2[h].id = ord[h].id
  BY <1>1 DEF Shrinks
<1>3. IdsIn(ord2, F) = IdsIn(ord, F)
  BY <1>2 DEF IdsIn
<1>4. DOMAIN u.handles = IdsIn(ord2, F) /\ DOMAIN u.orders = DOMAIN u.handles
  BY <1>3 DEF Lessens, Follows, Names
<1>5. ASSUME NEW x \in Levels, NEW h \in ToSet(F[x])
      PROVE  /\ u.orders[ord2[h].id] =
                  [side |-> x[1], price |-> price_of(x[2]), qty |-> ord2[h].quantity]
             /\ u.handles[ord2[h].id] = [handle |-> h, qty |-> ord2[h].quantity]
  <2>1. h \in Listed(F) /\ ord2[h].id = ord[h].id /\ ord[h].id \in IdsIn(ord, F)
    BY <1>2 DEF Listed, Shrinks, IdsIn
  <2>2. /\ t.orders[ord[h].id] = [side |-> x[1], price |-> price_of(x[2]), qty |-> ord[h].quantity]
        /\ t.handles[ord[h].id] = [handle |-> h, qty |-> ord[h].quantity]
    BY DEF Follows, Names
  <2>3. CASE h = o
    BY <2>1, <2>2, <2>3 DEF Lessens, Shrinks
  <2>4. CASE h # o
    <3>1. u.orders[ord[h].id] = t.orders[ord[h].id] /\ u.handles[ord[h].id] = t.handles[ord[h].id]
      BY <1>1, <1>3, <1>4, <2>1, <2>4 DEF Lessens, SameBut
    <3> QED BY <1>1, <2>1, <2>2, <2>4, <3>1
  <2> QED BY <2>3, <2>4
<1> QED BY <1>4, <1>5 DEF Follows, Names, Lessens

LEMMA NamesJoins ==
    ASSUME NEW t, NEW ord, NEW F, Names(t, ord, F),
           NEW G, NEW ord2, NEW l, NEW o, Joins(F, G, ord, ord2, l, o),
           NEW id, id \notin IdsIn(ord, F), ord2[o].id = id,
           NEW u, SameBut(t, u, id), DOMAIN u.handles = DOMAIN t.handles \cup {id},
           DOMAIN u.handles \subseteq DOMAIN u.orders,
           u.orders[id] = [side |-> l[1], price |-> price_of(l[2]), qty |-> ord2[o].quantity],
           u.handles[id] = [handle |-> o, qty |-> ord2[o].quantity]
    PROVE  Names(u, ord2, G)
<1>1. \A h \in Listed(F) : h # o /\ ord2[h] = ord[h] /\ ord[h].id # id
  BY DEF Joins, Listed, IdsIn
<1>2. IdsIn(ord2, G) = IdsIn(ord, F) \cup {id}
  BY <1>1 DEF IdsIn, Joins
<1>3. DOMAIN u.handles = IdsIn(ord2, G)
  BY <1>2 DEF Names
<1>4. ASSUME NEW y \in Levels, NEW h \in ToSet(G[y])
      PROVE  /\ u.orders[ord2[h].id] =
                  [side |-> y[1], price |-> price_of(y[2]), qty |-> ord2[h].quantity]
             /\ u.handles[ord2[h].id] = [handle |-> h, qty |-> ord2[h].quantity]
  <2>1. CASE h = o
    <3>1. y = l
      BY <2>1 DEF Joins, Listed
    <3> QED BY <2>1, <3>1
  <2>2. CASE h # o
    <3>1. h \in ToSet(F[y]) /\ h \in Listed(F)
      BY <2>2 DEF Joins, Listed
    <3>2. ord2[h] = ord[h] /\ ord[h].id # id /\ ord2[h].id \in IdsIn(ord2, G)
      BY <1>1, <1>2, <3>1 DEF IdsIn
    <3>3. u.orders[ord[h].id] = t.orders[ord[h].id] /\ u.handles[ord[h].id] = t.handles[ord[h].id]
      BY <1>3, <3>2 DEF SameBut
    <3> QED BY <3>1, <3>2, <3>3 DEF Names
  <2> QED BY <2>1, <2>2
<1> QED BY <1>3, <1>4 DEF Names

LEMMA FollowsJoins ==
    ASSUME NEW t, NEW ord, NEW F, Follows(t, ord, F),
           NEW G, NEW ord2, NEW l, NEW o, Joins(F, G, ord, ord2, l, o),
           NEW id, id \notin IdsIn(ord, F), ord2[o].id = id,
           NEW u, NEW x, Tracks(t, u, id, x, o),
           x = [side |-> l[1], price |-> price_of(l[2]), qty |-> ord2[o].quantity]
    PROVE  Follows(u, ord2, G)
<1>1. /\ Names(t, ord, F) /\ SameBut(t, u, id) /\ DOMAIN u.handles = DOMAIN t.handles \cup {id}
      /\ DOMAIN u.orders = DOMAIN u.handles /\ TrackOK(u) /\ Counted(u)
      /\ u.orders[id] = x /\ u.handles[id] = [handle |-> o, qty |-> ord2[o].quantity]
  BY DEF Follows, Tracks
<1>2. Names(u, ord2, G)
  BY <1>1, NamesJoins
<1> QED BY <1>1, <1>2 DEF Follows

\* A level has orders if and only if the tracking has orders there.
LEMMA LiveLevels ==
    ASSUME NEW t, NEW ord, NEW F, Follows(t, ord, F),
           \A l \in Levels : ToSet(F[l]) \subseteq Handles, NEW s \in Side, NEW i \in Bits
    PROVE  i \in Live(t, s) <=> ToSet(F[<<s, i>>]) # {}
<1> DEFINE p == price_of(i)
<1>1. p \in Prices /\ idx_of(p) = i /\ <<s, i>> \in Levels
      /\ \A q \in Prices : idx_of(q) = i => q = p
  BY LevelFacts
<1>2. t.counts[s][p] \in Nat /\ IsFiniteSet(OrdersAt(t, s, p))
      /\ t.counts[s][p] = Cardinality(OrdersAt(t, s, p))
  <2>1. OrdersAt(t, s, p) \in SUBSET DOMAIN t.orders
    BY DEF OrdersAt
  <2> QED BY <1>1, <2>1, FS_Subset DEF Follows, TrackOK, Counted
<1>3. t.counts[s][p] > 0 <=> OrdersAt(t, s, p) # {}
  BY <1>2, FS_EmptySet
<1>4. i \in Live(t, s) <=> t.counts[s][p] > 0
  BY <1>1 DEF Live, Tracked
<1>5. ASSUME NEW h \in ToSet(F[<<s, i>>]) PROVE OrdersAt(t, s, p) # {}
  <2>1. ord[h].id \in DOMAIN t.orders
    BY <1>1 DEF Follows, Names, IdsIn, Listed
  <2>2. t.orders[ord[h].id] = [side |-> s, price |-> p, qty |-> ord[h].quantity]
    BY <1>1 DEF Follows, Names
  <2> QED BY <2>1, <2>2 DEF OrdersAt
<1>6. ASSUME NEW id \in OrdersAt(t, s, p) PROVE ToSet(F[<<s, i>>]) # {}
  <2>1. id \in IdsIn(ord, F)
    BY DEF OrdersAt, Follows, Names
  <2>2. PICK l \in Levels : \E h \in ToSet(F[l]) : ord[h].id = id
    BY <2>1 DEF IdsIn, Listed
  <2>3. l[1] = s /\ price_of(l[2]) = p
    <3>1. PICK h \in ToSet(F[l]) : ord[h].id = id
      BY <2>2
    <3>2. t.orders[id] = [side |-> l[1], price |-> price_of(l[2]), qty |-> ord[h].quantity]
      BY <3>1 DEF Follows, Names
    <3> QED BY <3>2 DEF OrdersAt
  <2>4. l = <<s, i>>
    BY <1>1, <2>3, LevelFacts
  <2> QED BY <2>2, <2>4
<1> QED BY <1>3, <1>4, <1>5, <1>6

-----------------------------------------------------------------------------
(***************************************************************************)
(* apply_trade_fills(): the fold over the trades is a function on the sets *)
(* of their indices, and one more trade is one more turn of the loop.      *)
(***************************************************************************)

\* g applies the fills T[k] for k in a set s to tr, in order.
Fills(g, tr, T, n) ==
    g = [s \in SUBSET (1 .. n) |-> IF s = {} THEN tr ELSE ApplyFill(g[s \ {Max(s)}], T[Max(s)])]

FillsDefined(tr, T, n) == \E g : Fills(g, tr, T, n) /\ \A h : Fills(h, tr, T, n) => h = g

\* One more index: g grows to h.
LEMMA FillsNext ==
    ASSUME NEW tr, NEW n \in Nat, NEW T, NEW g, Fills(g, tr, T, n),
           NEW h, h = [s \in SUBSET (1 .. n + 1) |->
                          IF n + 1 \in s THEN ApplyFill(g[s \ {n + 1}], T[n + 1]) ELSE g[s]]
    PROVE  Fills(h, tr, T, n + 1)
<1>1. ASSUME NEW s \in SUBSET (1 .. n + 1)
      PROVE  h[s] = IF s = {} THEN tr ELSE ApplyFill(h[s \ {Max(s)}], T[Max(s)])
  <2>1. CASE s = {}
    BY <2>1 DEF Fills
  <2>2. CASE n + 1 \in s
    <3>1. Max(s) = n + 1 /\ s \ {n + 1} \in SUBSET (1 .. n)
      BY <2>2, MaxOfIndices
    <3>2. h[s] = ApplyFill(g[s \ {n + 1}], T[n + 1])
      BY <2>2
    <3>3. h[s \ {n + 1}] = g[s \ {n + 1}]
      OBVIOUS
    <3> QED BY <2>2, <3>1, <3>2, <3>3
  <2>3. CASE s # {} /\ n + 1 \notin s
    <3>1. Max(s) \in s /\ s \in SUBSET (1 .. n)
      BY <2>3, MaxOfIndices
    <3>2. h[s] = g[s] /\ h[s \ {Max(s)}] = g[s \ {Max(s)}]
      BY <2>3
    <3>3. g[s] = ApplyFill(g[s \ {Max(s)}], T[Max(s)])
      BY <2>3, <3>1 DEF Fills
    <3> QED BY <2>3, <3>2, <3>3
  <2> QED BY <2>1, <2>2, <2>3
<1> QED BY <1>1 DEF Fills

\* h is g with fill n + 1 of U applied.
FilledMore(g, h, U, n) ==
    \A s \in SUBSET (1 .. n + 1) :
        h[s] = IF n + 1 \in s THEN ApplyFill(g[s \ {n + 1}], U[n + 1]) ELSE g[s]

\* One index less: h shrinks to the first n fills.
LEMMA FillsPrevious ==
    ASSUME NEW tr, NEW n \in Nat, NEW T, NEW U, Agree(T, U, n),
           NEW h, Fills(h, tr, U, n + 1),
           NEW g, g = [s \in SUBSET (1 .. n) |-> h[s]]
    PROVE  Fills(g, tr, T, n) /\ FilledMore(g, h, U, n)
<1>1. SUBSET (1 .. n) \subseteq SUBSET (1 .. n + 1)
  OBVIOUS
<1>2. \A s \in SUBSET (1 .. n + 1) :
        h[s] = IF s = {} THEN tr ELSE ApplyFill(h[s \ {Max(s)}], U[Max(s)])
  BY DEF Fills
<1>3. ASSUME NEW s \in SUBSET (1 .. n)
      PROVE  g[s] = IF s = {} THEN tr ELSE ApplyFill(g[s \ {Max(s)}], T[Max(s)])
  <2>1. s # {} => Max(s) \in s
    BY <1>1, MaxOfIndices
  <2> QED BY <1>1, <1>2, <2>1 DEF Agree
<1>4. Fills(g, tr, T, n)
  BY <1>3 DEF Fills
<1>5. ASSUME NEW s \in SUBSET (1 .. n + 1)
      PROVE  h[s] = IF n + 1 \in s THEN ApplyFill(g[s \ {n + 1}], U[n + 1]) ELSE g[s]
  <2>1. CASE n + 1 \in s
    <3>1. Max(s) = n + 1 /\ s \ {n + 1} \in SUBSET (1 .. n)
      BY <2>1, MaxOfIndices
    <3>2. h[s] = ApplyFill(h[s \ {n + 1}], U[n + 1])
      BY <1>2, <2>1, <3>1
    <3> QED BY <2>1, <3>1, <3>2
  <2>2. CASE n + 1 \notin s
    <3>1. s \in SUBSET (1 .. n)
      BY <2>2
    <3> QED BY <2>2, <3>1
  <2> QED BY <2>1, <2>2
<1> QED BY <1>4, <1>5 DEF FilledMore

LEMMA FillsAlwaysDefined == ASSUME NEW tr, NEW T, NEW n \in Nat PROVE FillsDefined(tr, T, n)
<1> DEFINE Bad == {k \in Nat : ~FillsDefined(tr, T, k)}
<1>1. SUFFICES ASSUME Bad # {} PROVE FALSE
  OBVIOUS
<1>2. PICK k \in Bad : \A j \in Bad : k <= j
  BY <1>1, LeastNatural
<1>3. CASE k = 0
  <2>1. 1 .. 0 = {} /\ SUBSET (1 .. 0) = {{}}
    OBVIOUS
  <2> DEFINE g == [s \in SUBSET (1 .. 0) |-> tr]
  <2>2. Fills(g, tr, T, 0) /\ \A h : Fills(h, tr, T, 0) => h = g
    BY <2>1 DEF Fills
  <2> QED BY <1>2, <1>3, <2>2 DEF FillsDefined
<1>4. CASE k # 0
  <2> DEFINE m == k - 1
  <2>1. m \in Nat /\ k = m + 1 /\ m \notin Bad
    BY <1>2, <1>4
  <2> HIDE DEF m
  <2>2. PICK g : Fills(g, tr, T, m) /\ \A h : Fills(h, tr, T, m) => h = g
    BY <2>1 DEF FillsDefined
  <2> DEFINE h == [s \in SUBSET (1 .. m + 1) |->
                      IF m + 1 \in s THEN ApplyFill(g[s \ {m + 1}], T[m + 1]) ELSE g[s]]
  <2>3. Fills(h, tr, T, m + 1)
    BY <2>1, <2>2, FillsNext
  <2>4. ASSUME NEW x, Fills(x, tr, T, m + 1) PROVE x = h
    <3> DEFINE y == [s \in SUBSET (1 .. m) |-> x[s]]
    <3>0. y = [s \in SUBSET (1 .. m) |-> x[s]] /\ Agree(T, T, m)
      BY DEF Agree
    <3> HIDE DEF y
    <3>1. Fills(y, tr, T, m) /\ FilledMore(y, x, T, m)
      BY <2>1, <2>4, <3>0, FillsPrevious
    <3>2. y = g
      BY <2>2, <3>1
    <3>3. x = [s \in SUBSET (1 .. m + 1) |-> x[s]]
      BY <2>4 DEF Fills
    <3> QED BY <3>1, <3>2, <3>3 DEF FilledMore
  <2> QED BY <1>2, <2>1, <2>3, <2>4 DEF FillsDefined
<1> QED BY <1>3, <1>4

\* The tracking after the trades T.
Filled(tr, T) == FoldLeft(ApplyFill, tr, T)

LEMMA FilledIs ==
    ASSUME NEW tr, NEW T, NEW n, DOMAIN T = 1 .. n
    PROVE  Filled(tr, T) = (CHOOSE g : Fills(g, tr, T, n))[1 .. n]
BY DEF Filled, FoldLeft, MapThenFoldSet, Fills

LEMMA FilledFacts ==
    /\ \A tr : Filled(tr, <<>>) = tr
    /\ \A tr : \A T \in Seq(TradeRecord), t \in TradeRecord :
         Filled(tr, Append(T, t)) = ApplyFill(Filled(tr, T), t)
<1>1. ASSUME NEW tr PROVE Filled(tr, <<>>) = tr
  <2>1. DOMAIN <<>> = 1 .. 0 /\ 1 .. 0 = {}
    BY EmptySeq, LenProperties
  <2>2. PICK g : Fills(g, tr, <<>>, 0) /\ \A h : Fills(h, tr, <<>>, 0) => h = g
    BY FillsAlwaysDefined DEF FillsDefined
  <2>3. Filled(tr, <<>>) = g[{}]
    BY <2>1, <2>2, FilledIs
  <2> QED BY <2>1, <2>2, <2>3 DEF Fills
<1>2. ASSUME NEW tr, NEW T \in Seq(TradeRecord), NEW t \in TradeRecord
      PROVE  Filled(tr, Append(T, t)) = ApplyFill(Filled(tr, T), t)
  <2> DEFINE n == Len(T)
             U == Append(T, t)
  <2>1. /\ n \in Nat /\ DOMAIN T = 1 .. n /\ DOMAIN U = 1 .. n + 1
        /\ U[n + 1] = t /\ \A k \in 1 .. n : U[k] = T[k]
    BY LenProperties, AppendProperties
  <2> HIDE DEF n, U
  <2>2. PICK g : Fills(g, tr, T, n) /\ \A x : Fills(x, tr, T, n) => x = g
    BY <2>1, FillsAlwaysDefined DEF FillsDefined
  <2>3. n + 1 \in Nat
    BY <2>1
  <2>4. PICK h : Fills(h, tr, U, n + 1) /\ \A x : Fills(x, tr, U, n + 1) => x = h
    BY <2>3, FillsAlwaysDefined DEF FillsDefined
  <2>5. Filled(tr, T) = g[1 .. n]
    BY <2>1, <2>2, FilledIs
  <2>6. Filled(tr, U) = h[1 .. n + 1]
    BY <2>1, <2>4, FilledIs
  <2> DEFINE y == [s \in SUBSET (1 .. n) |-> h[s]]
  <2>7. y = [s \in SUBSET (1 .. n) |-> h[s]] /\ Agree(T, U, n)
    BY <2>1 DEF Agree
  <2> HIDE DEF y
  <2>8. Fills(y, tr, T, n) /\ FilledMore(y, h, U, n)
    BY <2>1, <2>4, <2>7, FillsPrevious
  <2>9. y = g
    BY <2>2, <2>8
  <2>10. (1 .. n + 1) \ {n + 1} = 1 .. n /\ n + 1 \in 1 .. n + 1
    BY <2>1
  <2>11. h[1 .. n + 1] = ApplyFill(g[1 .. n], t)
    BY <2>1, <2>8, <2>9, <2>10 DEF FilledMore
  <2> QED BY <2>5, <2>6, <2>11 DEF U
<1> QED BY <1>1, <1>2

-----------------------------------------------------------------------------
(***************************************************************************)
(* The invariant.                                                          *)
(***************************************************************************)

\* The stages in which the tracking is kept.
SettingUp == stage \in {"warmup", "generate"}

\* The engine works exactly when an operation is in progress, on its behalf.
CallsInv ==
    /\ pc = "idle" <=> op = NoOp
    /\ pc = "idle" => call = NoCall /\ quantity = 0
    /\ pc # "idle" => /\ op.type \in {"limit", "modify", "market"} /\ call.op = op.type
                      /\ call.id = op.id /\ call.side = op.side /\ call.price = op.price
                      /\ out.code = "Success"

\* The id of the operation is not in the book.
FreshInv == pc # "idle" /\ (SettingUp \/ rebuild # {}) => call.id \notin RestingIds

\* A taker that is filled leaves no empty best level.
MakerInv == pc = "match" /\ quantity = 0 /\ oppo_book.has_best_ => ~empty(links, best_level)

EngineInv == IInv /\ CallsInv /\ FreshInv /\ MakerInv

PhaseInv ==
    /\ stage \in {"warmup", "generate", "dry_run", "replay"}
    /\ stage = "warmup" => /\ pending_ = <<>> /\ pregen_queue_ = <<>> /\ cluster = NoCluster
                           /\ base = <<>> /\ rebuild = {}
    /\ cluster # NoCluster => /\ stage = "generate" /\ rebuild = {} /\ op = NoOp
                              /\ pregen_queue_ = <<>>
    /\ stage = "generate" /\ op # NoOp => pregen_queue_ = <<>>
    /\ stage = "generate" /\ rebuild # {} => pregen_queue_ = <<>> /\ pending_ = <<>>
    /\ stage \in {"dry_run", "replay"} => Len(pending_) = batch_size

IsSeq(q) == \E S : q \in Seq(S)

QueuesInv ==
    /\ IsSeq(pending_) /\ IsSeq(pregen_queue_) /\ IsSeq(cluster.ops)
    /\ cluster = [left |-> cluster.left, ops |-> cluster.ops, best |-> cluster.best]
    /\ cluster.left \in Nat
    /\ cluster_queue_ \in Seq(OrderId)

\* The ids given out.
Ids == 1 .. id_counter_ - 1

IdsInv ==
    /\ id_counter_ \in Nat \ {0}
    /\ DOMAIN track.orders \subseteq Ids /\ DOMAIN base \subseteq Ids
    /\ SettingUp /\ op # NoOp => op.id \in Ids
    /\ stage = "warmup" => id_counter_ <= events + 1 + (IF op = NoOp THEN 0 ELSE 1)
    /\ stage = "generate" => id_counter_ <= SeedEvents + WarmupEvents + Len(pending_) + 1
                                            + (IF op = NoOp \/ rebuild # {} THEN 0 ELSE 1)

EventsInv ==
    /\ events \in Nat
    /\ stage = "warmup" => /\ events <= SeedEvents + WarmupEvents
                           /\ op # NoOp => events < SeedEvents + WarmupEvents
    /\ stage = "generate" => /\ events = 0
                             /\ op # NoOp /\ rebuild = {} => Len(pending_) < batch_size
    /\ stage \in {"dry_run", "replay"} => /\ events <= batch_size
                                          /\ op # NoOp /\ rebuild = {} => events < batch_size
                                          /\ rebuild # {} => events = 0
    /\ Len(pending_) <= batch_size

\* The base orders are a book that is not crossed.
BaseInv ==
    /\ IsFiniteSet(DOMAIN base) /\ DOMAIN base \subseteq OrderId
    /\ base \in [DOMAIN base -> OrderInfo]
    /\ \A i, j \in DOMAIN base :
        base[i].side = "Buy" /\ base[j].side = "Sell" => base[i].price < base[j].price
    /\ rebuild \subseteq DOMAIN base

BatchInv == PhaseInv /\ QueuesInv /\ IdsInv /\ EventsInv /\ BaseInv

ReaddOp(id) == [type |-> "limit", id |-> id, side |-> base[id].side, price |-> base[id].price,
                qty |-> base[id].qty]

\* A book being rebuilt holds the base orders added so far; no add trades.
RebuildInv ==
    rebuild # {} =>
        /\ track.orders = base /\ Names(track, order, fifo)
        /\ DOMAIN track.handles = DOMAIN base \ rebuild
        /\ op # NoOp => /\ op = ReaddOp(Min(rebuild))
                        /\ out.trades = <<>> /\ quantity = op.qty

\* The tracking once it knows what the call in progress has done so far.
Gone(t, o) == IF o.type = "modify" THEN track_remove(drop_handle(t, o.id), o.id) ELSE t
Believed   == IF op = NoOp THEN track ELSE Filled(Gone(track, op), out.trades)

TrackingInv ==
    /\ TrackOK(track)
    /\ SettingUp => Counted(track)
    /\ SettingUp /\ rebuild = {} => /\ Follows(Believed, order, fifo)
                                    /\ RestingIds \subseteq DOMAIN track.orders

\* No bit of the engine's trees is missing in the shadow trees.
ShadowInv ==
    /\ shadow \in [Side -> SUBSET Bits]
    /\ stage = "generate" =>
        \A s \in Side : /\ Active(book[s].active_tree) \subseteq shadow[s]
                        /\ rebuild # {} => shadow[s] = Live(track, s)

WInv == EngineInv /\ BatchInv /\ RebuildInv /\ TrackingInv /\ ShadowInv

-----------------------------------------------------------------------------
(***************************************************************************)
(* The engine's calls, for the operations of the workload.                 *)
(***************************************************************************)
CallOp == {"limit", "modify", "market"}

\* The call of o was accepted and goes to the matching loop.
Started(o) ==
    /\ IInv' /\ op' = o /\ o # NoOp
    /\ pc' = "match" /\ quantity' = o.qty /\ o.qty \in Nat \ {0}
    /\ call' = [op |-> o.type, id |-> o.id, side |-> o.side, price |-> o.price]
    /\ out'.trades = <<>> /\ out'.code = "Success" /\ UNCHANGED <<order, book>>
    /\ o.type \in CallOp

LEMMA BegunFacts ==
    ASSUME NEW type \in CallOp, NEW id, NEW side, NEW price, NEW qty \in Nat \ {0},
           Begin(type, id, side, price, qty)
    PROVE  /\ pc' = "match" /\ quantity' = qty
           /\ call' = [op |-> type, id |-> id, side |-> side, price |-> price]
           /\ out'.trades = <<>> /\ out'.code = "Success"
BY DEF Begin, Result

LEMMA IssueLimit ==
    ASSUME IInv, NEW o, o.type = "limit", o.id \in OrderId, o.side \in Side, o.price \in Prices,
           o.qty \in Nat \ {0}, Issue(o)
    PROVE  Started(o) /\ UNCHANGED <<links, fifo, free>>
<1>1. op' = o /\ add_limit_order(o.id, o.side, o.price, o.qty)
  BY DEF Issue
<1>2. /\ pc = "idle" /\ Begin("limit", o.id, o.side, o.price, o.qty)
      /\ UNCHANGED <<order, links, book, fifo, free>>
  BY <1>1 DEF add_limit_order
<1>3. o.price \in OrNull(Prices) /\ o.qty \in Nat
  BY DEF OrNull
<1>4. CallInv'
  BY <1>2, <1>3, BeginStep DEF IInv
<1>5. IInv'
  BY <1>2, <1>4, StoreFrame DEF IInv
<1>6. o # NoOp
  BY DEF NoOp
<1> QED BY <1>1, <1>2, <1>5, <1>6, BegunFacts DEF Started, CallOp

LEMMA IssueMarket ==
    ASSUME IInv, NEW o, o.type = "market", o.id \in OrderId, o.side \in Side, o.price = NULL,
           o.qty \in Nat \ {0}, Issue(o)
    PROVE  Started(o) /\ UNCHANGED <<links, fifo, free>>
<1>1. op' = o /\ add_market_order(o.id, o.side, o.qty)
  BY DEF Issue
<1>2. /\ pc = "idle" /\ Begin("market", o.id, o.side, o.price, o.qty)
      /\ UNCHANGED <<order, links, book, fifo, free>>
  BY <1>1 DEF add_market_order
<1>3. o.price \in OrNull(Prices) /\ o.qty \in Nat
  BY DEF OrNull
<1>4. CallInv'
  BY <1>2, <1>3, BeginStep DEF IInv
<1>5. IInv'
  BY <1>2, <1>4, StoreFrame DEF IInv
<1>6. o # NoOp
  BY DEF NoOp
<1> QED BY <1>1, <1>2, <1>5, <1>6, BegunFacts DEF Started, CallOp

LEMMA IssueModify ==
    ASSUME IInv, NEW o, o.type = "modify", o.handle \in Resting, order[o.handle].id = o.id,
           o.side \in Side, o.price \in Prices, o.qty \in Nat \ {0}, Issue(o)
    PROVE  Started(o) /\ \E l \in Levels : Leaves(fifo, fifo', order, order', l, o.handle)
<1>1. op' = o /\ modify_order(o.handle, o.side, o.price, o.qty)
  BY DEF Issue
<1>2. /\ pc = "idle" /\ Unlink(o.handle) /\ UNCHANGED <<order, book>>
      /\ Begin("modify", o.id, o.side, o.price, o.qty)
  BY <1>1 DEF modify_order
<1>3. o.price \in OrNull(Prices) /\ o.qty \in Nat
  BY DEF OrNull
<1>4. StoreInv' /\ free' # <<>> /\ StoreInv
  BY <1>2, UnlinkStore DEF IInv
<1>5. o.id \in OrderId
  BY <1>4 DEF StoreInv, OrdersAtTheirLevel, Resting
<1>6. CallInv'
  BY <1>2, <1>3, <1>4, <1>5, BeginStep DEF IInv
<1>7. \E l \in Levels : Leaves(fifo, fifo', order, order', l, o.handle)
  BY <1>2, <1>4, UnlinkLeaves
<1>8. o # NoOp
  BY DEF NoOp
<1> QED BY <1>1, <1>2, <1>4, <1>6, <1>7, <1>8, BegunFacts DEF Started, CallOp, IInv

LEMMA CancelCall ==
    ASSUME IInv, NEW h \in Resting, cancel_order(h)
    PROVE  /\ IInv' /\ UNCHANGED <<order, book, pc, call, quantity, out>>
           /\ \E l \in Levels : Leaves(fifo, fifo', order, order', l, h)
<1>1. pc = "idle" /\ Unlink(h) /\ UNCHANGED <<order, book, pc, call, quantity, out>>
  BY DEF cancel_order
<1>2. IInv'
  BY CallsStep DEF Calls
<1>3. \E l \in Levels : Leaves(fifo, fifo', order, order', l, h)
  BY <1>1, UnlinkLeaves DEF IInv
<1> QED BY <1>1, <1>2, <1>3

-----------------------------------------------------------------------------
(***************************************************************************)
(* The engine's steps, seen by the tracking.                               *)
(***************************************************************************)

\* What the tracking knows of a resting order.
LEMMA Known ==
    ASSUME NEW t, NEW ord, NEW F, Follows(t, ord, F), NEW l \in Levels, NEW o \in Handles,
           o \in ToSet(F[l])
    PROVE  /\ ord[o].id \in DOMAIN t.orders /\ ord[o].id \in DOMAIN t.handles
           /\ t.orders[ord[o].id] = [side |-> l[1], price |-> price_of(l[2]), qty |-> ord[o].quantity]
           /\ t.handles[ord[o].id] = [handle |-> o, qty |-> ord[o].quantity]
BY DEF Follows, Names, IdsIn, Listed

LEMMA FillPartFollows ==
    ASSUME IInv, FillPart, NEW g, Follows(Filled(g, out.trades), order, fifo)
    PROVE  Follows(Filled(g, out'.trades), order', fifo')
<1> DEFINE b == Filled(g, out.trades)
<1>1. PICK l \in Levels, o \in Handles :
             /\ Shrinks(fifo, order, order', l, o, order[o].quantity - quantity)
             /\ quantity \in Nat \ {0} /\ quantity < order[o].quantity
             /\ Reported(out, out', o, quantity) /\ fifo' = fifo
  BY FillPartLedger
<1>2. PICK t \in TradeRecord : /\ t.maker = order[o].id /\ t.quantity = quantity
                               /\ out'.trades = Append(out.trades, t)
  BY <1>1 DEF Reported
<1>3. Filled(g, out'.trades) = ApplyFill(b, t)
  BY <1>1, <1>2, FilledFacts DEF Reported
<1> HIDE DEF b
<1>4. Follows(b, order, fifo) /\ TrackOK(b) /\ Counted(b) /\ o \in ToSet(fifo[l])
  BY <1>1 DEF b, Follows, Shrinks
<1> DEFINE id == order[o].id
<1>5. /\ id \in DOMAIN b.orders /\ id \in DOMAIN b.handles
      /\ b.orders[id] = [side |-> l[1], price |-> price_of(l[2]), qty |-> order[o].quantity]
      /\ b.handles[id] = [handle |-> o, qty |-> order[o].quantity]
  BY <1>4, Known
<1>6. b.handles[id].qty = b.orders[id].qty /\ b.orders[id].qty = order[o].quantity
  BY <1>5
<1>7. t.maker = id /\ t.quantity \in Nat /\ t.quantity < b.orders[id].qty
  BY <1>1, <1>2, <1>6
<1> HIDE DEF id
<1>8. Lessens(b, ApplyFill(b, t), id, b.orders[id].qty - t.quantity)
  BY <1>4, <1>5, <1>6, <1>7, LessenFacts
<1>9. Lessens(b, ApplyFill(b, t), order[o].id, order[o].quantity - quantity)
  BY <1>2, <1>6, <1>8 DEF id
<1>10. Follows(ApplyFill(b, t), order', fifo)
  BY <1>1, <1>4, <1>9, FollowsShrinks
<1> QED BY <1>1, <1>3, <1>10

LEMMA FillAllFollows ==
    ASSUME IInv, FillAll, NEW g, Follows(Filled(g, out.trades), order, fifo)
    PROVE  Follows(Filled(g, out'.trades), order', fifo')
<1> DEFINE b == Filled(g, out.trades)
<1>1. PICK l \in Levels, o \in Handles :
             /\ Leaves(fifo, fifo', order, order', l, o)
             /\ order[o].quantity \in Nat \ {0}
             /\ Reported(out, out', o, order[o].quantity)
  BY FillAllLedger
<1>2. PICK t \in TradeRecord : /\ t.maker = order[o].id /\ t.quantity = order[o].quantity
                               /\ out'.trades = Append(out.trades, t)
  BY <1>1 DEF Reported
<1>3. Filled(g, out'.trades) = ApplyFill(b, t)
  BY <1>1, <1>2, FilledFacts DEF Reported
<1> HIDE DEF b
<1>4. Follows(b, order, fifo) /\ TrackOK(b) /\ Counted(b) /\ o \in ToSet(fifo[l])
  BY <1>1 DEF b, Follows, Leaves
<1>5. order[o].id \in DOMAIN b.orders /\ b.orders[order[o].id].qty = order[o].quantity
  <2> DEFINE id == order[o].id
  <2>1. /\ id \in DOMAIN b.orders /\ id \in DOMAIN b.handles
        /\ b.orders[id] = [side |-> l[1], price |-> price_of(l[2]), qty |-> order[o].quantity]
        /\ b.handles[id] = [handle |-> o, qty |-> order[o].quantity]
    BY <1>4, Known
  <2> QED BY <2>1
<1>6. ApplyFill(b, t) = track_remove(drop_handle(b, order[o].id), order[o].id)
  BY <1>1, <1>2, <1>5 DEF ApplyFill
<1>7. Drops(b, ApplyFill(b, t), order[o].id)
  BY <1>4, <1>5, <1>6, DropFacts
<1>8. Follows(ApplyFill(b, t), order', fifo')
  BY <1>1, <1>4, <1>7, FollowsLeaves
<1> QED BY <1>3, <1>8

\* The steps in which no order enters the book.
Working == FillPart \/ FillAll \/ erase_best \/ SkipGhost \/ PoolExhausted \/ ReturnUnrested

LEMMA WorkingFollows ==
    ASSUME IInv, Working, NEW g, Follows(Filled(g, out.trades), order, fifo)
    PROVE  Follows(Filled(g, out'.trades), order', fifo')
<1>1. CASE FillPart
  BY <1>1, FillPartFollows
<1>2. CASE FillAll
  BY <1>2, FillAllFollows
<1>3. CASE erase_best \/ SkipGhost \/ PoolExhausted
  BY <1>3 DEF erase_best, SkipGhost, DropEmptyBest, PoolExhausted
<1>4. CASE ReturnUnrested
  <2>1. out'.trades = out.trades
    BY <1>4 DEF ReturnUnrested, Return, IInv, CallInv, CallTypeOK, ResultRecord
  <2> QED BY <1>4, <2>1 DEF ReturnUnrested
<1> QED BY <1>1, <1>2, <1>3, <1>4 DEF Working

\* Until the call returns, it keeps its arguments and no id enters the book.
LEMMA WorkingKeeps ==
    ASSUME IInv, Steps, pc' # "idle"
    PROVE  /\ Working /\ pc # "idle" /\ call' = call /\ out'.code = out.code
           /\ RestingIds' \subseteq RestingIds
<1>1. CASE FillPart
  <2>1. PICK l \in Levels, o \in Handles :
             /\ Shrinks(fifo, order, order', l, o, order[o].quantity - quantity)
             /\ Reported(out, out', o, quantity) /\ pc = "match" /\ UNCHANGED <<fifo, call>>
    BY <1>1, FillPartLedger
  <2>2. \A h \in Listed(fifo) : order'[h].id = order[h].id
    BY <2>1 DEF Shrinks, Listed
  <2> QED BY <1>1, <2>1, <2>2, RestingIs, RestingIsNext DEF Working, Reported, IdsIn
<1>2. CASE FillAll
  <2>1. PICK l \in Levels, o \in Handles :
             /\ Leaves(fifo, fifo', order, order', l, o)
             /\ Reported(out, out', o, order[o].quantity) /\ pc = "match" /\ call' = call
    BY <1>2, FillAllLedger
  <2>2. \A h \in Listed(fifo') : h \in Listed(fifo) /\ order'[h].id = order[h].id
    BY <2>1 DEF Leaves, Listed
  <2> QED BY <1>2, <2>1, <2>2, RestingIs, RestingIsNext DEF Working, Reported, IdsIn
<1>3. CASE erase_best \/ SkipGhost \/ PoolExhausted
  <2>1. UNCHANGED <<order, fifo, call, out>> /\ pc # "idle"
    BY <1>3 DEF erase_best, SkipGhost, DropEmptyBest, PoolExhausted, MustRest, LoopDone
  <2> QED BY <1>3, <2>1 DEF Working, RestingIds, Resting
<1>4. CASE ReturnUnrested \/ RestRemainder
  BY <1>4 DEF ReturnUnrested, RestRemainder, Return
<1> QED BY <1>1, <1>2, <1>3, <1>4 DEF Steps

LEMMA WorkingMaker == ASSUME IInv, Steps PROVE MakerInv'
<1>1. CASE FillPart
  <2>1. UNCHANGED <<links, book, call>> /\ ~empty(links, best_level)
    BY <1>1 DEF FillPart, Fill, AtMaker
  <2> QED BY <2>1 DEF MakerInv, best_level, oppo_book, oppo_side
<1>2. CASE FillAll
  <2>1. UNCHANGED <<book, call>> /\ pc' = IF empty(links', best_level) THEN "erase" ELSE "match"
    BY <1>2 DEF FillAll, Fill
  <2> QED BY <2>1 DEF MakerInv, best_level, oppo_book, oppo_side
<1>3. CASE erase_best \/ SkipGhost
  <2>1. DropEmptyBest
    BY <1>3 DEF erase_best, SkipGhost
  <2>2. /\ UNCHANGED <<call, links>> /\ oppo_side' = oppo_side
        /\ pc' = IF /\ book'[oppo_side].has_best_
                    /\ empty(links, <<oppo_side, book'[oppo_side].best_price_idx_>>)
                 THEN "erase" ELSE "match"
    BY <2>1 DEF DropEmptyBest, oppo_side
  <2> QED BY <2>2 DEF MakerInv, best_level, oppo_book
<1>4. CASE PoolExhausted \/ ReturnUnrested \/ RestRemainder
  BY <1>4 DEF PoolExhausted, ReturnUnrested, RestRemainder, Return, MakerInv
<1> QED BY <1>1, <1>2, <1>3, <1>4 DEF Steps

\* The engine, in the middle of a call.
LEMMA EngineWorks ==
    ASSUME EngineInv, Steps, pc' # "idle", op # NoOp, UNCHANGED <<op, stage, rebuild>>
    PROVE  EngineInv'
<1>1. IInv'
  BY StepInv DEF EngineInv, Next
<1>2. pc # "idle" /\ call' = call /\ out'.code = out.code /\ RestingIds' \subseteq RestingIds
  BY WorkingKeeps DEF EngineInv
<1>3. CallsInv'
  BY <1>2 DEF EngineInv, CallsInv
<1>4. FreshInv'
  BY <1>2 DEF EngineInv, FreshInv, SettingUp
<1>5. MakerInv'
  BY WorkingMaker DEF EngineInv
<1> QED BY <1>1, <1>3, <1>4, <1>5 DEF EngineInv

\* A book being rebuilt is never crossed by the order being added.
LEMMA RebuildNeverTrades ==
    ASSUME WInv, rebuild # {}, op # NoOp
    PROVE  /\ ~FillPart /\ ~FillAll /\ ~ReturnUnrested
           /\ op = ReaddOp(Min(rebuild)) /\ Min(rebuild) \in rebuild /\ Min(rebuild) \in DOMAIN base
<1>1. /\ IInv /\ StoreInv /\ CallInv /\ CallsInv /\ BaseInv /\ track.orders = base
      /\ Names(track, order, fifo) /\ DOMAIN track.handles = DOMAIN base \ rebuild
      /\ op = ReaddOp(Min(rebuild)) /\ quantity = op.qty
  BY DEF WInv, EngineInv, BatchInv, RebuildInv, IInv
<1> DEFINE id == Min(rebuild)
<1>2. id \in rebuild /\ id \in DOMAIN base
  <2>1. rebuild \in SUBSET Nat
    BY DEF WInv, BatchInv, IdsInv, BaseInv, Ids
  <2> QED BY <1>1, <2>1, MinIsLeast DEF BaseInv
<1>3. /\ call.op = "limit" /\ call.side = base[id].side /\ call.price = base[id].price
      /\ quantity = base[id].qty
  BY <1>1 DEF CallsInv, ReaddOp
<1>4. base[id] \in OrderInfo
  BY <1>1, <1>2 DEF BaseInv
<1> HIDE DEF id
<1>5. ~AtMaker
  <2>1. SUFFICES ASSUME AtMaker PROVE FALSE
    OBVIOUS
  <2>2. /\ best_level \in Levels /\ maker \in ToSet(fifo[best_level]) /\ maker \in Handles
        /\ order[maker].price = best_price /\ WouldTradeAt(best_price) /\ oppo_side \in Side
    BY <1>1, <2>1, MakerFacts
  <2> DEFINE j == order[maker].id
  <2>3. j \in DOMAIN base
    BY <1>1, <2>2 DEF Names, IdsIn, Listed
  <2>4. base[j] = [side |-> best_level[1], price |-> price_of(best_level[2]),
                   qty |-> order[maker].quantity]
    BY <1>1, <2>2 DEF Names
  <2>5. base[j].side = oppo_side /\ base[j].price = best_price
    BY <2>4 DEF best_level, best_price
  <2>6. base[j].price \in Int /\ base[id].price \in Int
    BY <1>1, <1>2, <2>3, LevelFacts DEF BaseInv, OrderInfo
  <2> HIDE DEF j
  <2>7. IF base[id].side = "Buy" THEN base[id].price >= base[j].price
                                 ELSE base[id].price <= base[j].price
    BY <1>3, <2>2, <2>5 DEF WouldTradeAt
  <2>8. base[j].side = Opposite(base[id].side) /\ base[id].side \in Side
    BY <1>3, <1>4, <2>5 DEF oppo_side, OrderInfo
  <2>9. CASE base[id].side = "Buy"
    BY <1>1, <1>2, <2>3, <2>6, <2>7, <2>8, <2>9 DEF BaseInv, Opposite
  <2>10. CASE base[id].side = "Sell"
    BY <1>1, <1>2, <2>3, <2>6, <2>7, <2>8, <2>10 DEF BaseInv, Opposite
  <2> QED BY <2>8, <2>9, <2>10 DEF Side
<1>6. ~ReturnUnrested
  BY <1>3, <1>4 DEF ReturnUnrested, OrderInfo
<1> QED BY <1>1, <1>2, <1>5, <1>6 DEF FillPart, FillAll, id

\* The side books only lose bits until the call returns.
LEMMA WorkingBits ==
    ASSUME IInv, Working, NEW s \in Side
    PROVE  Active(book'[s].active_tree) \subseteq Active(book[s].active_tree)
<1>1. CASE FillPart \/ FillAll
  BY <1>1 DEF FillPart, FillAll, Fill
<1>2. CASE PoolExhausted \/ ReturnUnrested
  BY <1>2 DEF PoolExhausted, ReturnUnrested
<1>3. CASE erase_best \/ SkipGhost
  <2>1. oppo_book.has_best_ /\ DropEmptyBest
    BY <1>3 DEF erase_best, SkipGhost, CanMatch, IInv, CallInv, ErasesEmptyBest
  <2>2. oppo_side \in Side /\ IsAskSide(oppo_side) \in BOOLEAN
    BY SideFacts DEF IInv, CallInv, CallTypeOK, oppo_side
  <2>3. oppo_book \in SideBook /\ Sound(IsAskSide(oppo_side), oppo_book) /\ book \in [Side -> SideBook]
    BY <2>2 DEF IInv, StoreInv, StoreTypeOK, SidesSound, oppo_book
  <2>4. Active(DropBest(IsAskSide(oppo_side), oppo_book).active_tree)
           = Active(oppo_book.active_tree) \ {oppo_book.best_price_idx_}
    BY <2>1, <2>2, <2>3, DropBestSound
  <2>5. book' = [book EXCEPT ![oppo_side] = DropBest(IsAskSide(oppo_side), oppo_book)]
    BY <2>1 DEF DropEmptyBest, oppo_book
  <2>6. CASE s = oppo_side
    BY <2>2, <2>3, <2>4, <2>5, <2>6 DEF oppo_book
  <2>7. CASE s # oppo_side
    BY <2>3, <2>5, <2>7
  <2> QED BY <2>6, <2>7
<1> QED BY <1>1, <1>2, <1>3 DEF Working

\* What the batch knows does not depend on the book.
LEMMA BatchSame ==
    ASSUME BatchInv, UNCHANGED <<phaseVars, events, op, track, id_counter_, cluster_queue_, batchVars>>
    PROVE  BatchInv'
BY DEF BatchInv, PhaseInv, QueuesInv, IsSeq, IdsInv, Ids, EventsInv, BaseInv, SettingUp, phaseVars,
       batchVars

LEMMA EngineStepsKeep == ASSUME WInv, EngineSteps PROVE WInv'
<1>1. /\ op # NoOp /\ Steps /\ pc' # "idle" /\ EngineInv /\ IInv
      /\ UNCHANGED <<phaseVars, events, op, track, id_counter_, cluster_queue_, batchVars, shadow>>
      /\ UNCHANGED <<stage, rebuild, base>>
  BY DEF EngineSteps, phaseVars, WInv, EngineInv
<1>2. EngineInv'
  BY <1>1, EngineWorks
<1>3. BatchInv'
  BY <1>1, BatchSame DEF WInv
<1>4. Working
  BY <1>1, WorkingKeeps
<1>5. RebuildInv'
  <2>1. CASE rebuild # {}
    <3>1. erase_best \/ SkipGhost \/ PoolExhausted
      BY <1>1, <1>4, <2>1, RebuildNeverTrades DEF Working
    <3>2. UNCHANGED <<order, fifo, out, quantity>>
      BY <3>1 DEF erase_best, SkipGhost, DropEmptyBest, PoolExhausted
    <3> QED BY <1>1, <3>2 DEF WInv, RebuildInv, Names, IdsIn, Listed, ReaddOp
  <2> QED BY <1>1, <2>1 DEF RebuildInv
<1>6. TrackingInv'
  <2>1. TrackOK(track') /\ (SettingUp' => Counted(track'))
    BY <1>1 DEF WInv, TrackingInv, SettingUp
  <2>2. ASSUME SettingUp, rebuild = {}
        PROVE  Follows(Believed', order', fifo') /\ RestingIds' \subseteq DOMAIN track'.orders
    <3>1. Follows(Filled(Gone(track, op), out.trades), order, fifo)
      BY <1>1, <2>2 DEF WInv, TrackingInv, Believed
    <3>2. Follows(Filled(Gone(track, op), out'.trades), order', fifo')
      BY <1>1, <1>4, <3>1, WorkingFollows
    <3>3. RestingIds' \subseteq DOMAIN track'.orders
      BY <1>1, <2>2, WorkingKeeps DEF WInv, TrackingInv
    <3> QED BY <1>1, <3>2, <3>3 DEF Believed
  <2> QED BY <1>1, <2>1, <2>2 DEF TrackingInv, SettingUp
<1>7. ShadowInv'
  <2>1. \A s \in Side : Active(book'[s].active_tree) \subseteq Active(book[s].active_tree)
    BY <1>1, <1>4, WorkingBits
  <2> QED BY <1>1, <2>1 DEF WInv, ShadowInv
<1> QED BY <1>2, <1>3, <1>5, <1>6, <1>7 DEF WInv

-----------------------------------------------------------------------------
(***************************************************************************)
(* Sequences of anything.                                                  *)
(***************************************************************************)
LEMMA AppendIsSeq ==
    ASSUME NEW q, IsSeq(q), NEW e
    PROVE  IsSeq(Append(q, e)) /\ Len(Append(q, e)) = Len(q) + 1 /\ Len(q) \in Nat
<1>1. PICK S : q \in Seq(S)
  BY DEF IsSeq
<1>2. q \in Seq(S \cup {e}) /\ e \in S \cup {e}
  BY <1>1, SeqMonotonic
<1> QED BY <1>2, AppendProperties, LenProperties DEF IsSeq

LEMMA FrontInSeq == ASSUME NEW S, NEW q \in Seq(S), q # <<>> PROVE Front(q) \in Seq(S)
<1>1. Len(q) \in Nat /\ \A i \in 1 .. Len(q) - 1 : q[i] \in S
  BY ElementOfSeq, LenProperties
<1> QED BY <1>1, SubSeqProperties DEF Front

LEMMA ReverseInSeq == ASSUME NEW S, NEW q \in Seq(S) PROVE Reverse(q) \in Seq(S)
<1>1. Len(q) \in Nat /\ \A i \in 1 .. Len(q) : Len(q) - i + 1 \in 1 .. Len(q)
  BY LenProperties
<1>2. \A i \in 1 .. Len(q) : q[Len(q) - i + 1] \in S
  BY <1>1, ElementOfSeq
<1>3. Reverse(q) \in [1 .. Len(q) -> S]
  BY <1>1, <1>2 DEF Reverse
<1> QED BY <1>1, <1>3, SeqDef

LEMMA JoinedIsSeq == ASSUME NEW q, IsSeq(q), NEW r, IsSeq(r) PROVE IsSeq(q \o Reverse(r))
<1>1. PICK S, T : q \in Seq(S) /\ r \in Seq(T)
  BY DEF IsSeq
<1>2. q \in Seq(S \cup T) /\ Reverse(r) \in Seq(S \cup T)
  BY <1>1, ReverseInSeq, SeqMonotonic
<1> QED BY <1>2, ConcatProperties DEF IsSeq

LEMMA BoundedIsSeq == ASSUME NEW S, NEW n \in Nat, NEW q \in BoundedSeq(S, n) PROVE q \in Seq(S)
<1>1. PICK m \in 0 .. n : q \in [1 .. m -> S]
  BY DEF BoundedSeq, SeqOf
<1> QED BY <1>1, SeqDef

LEMMA PoppedInSeq == ASSUME NEW S, NEW q \in Seq(S) PROVE Popped(q) \in Seq(S)
BY FrontInSeq, EmptySeq DEF Popped

-----------------------------------------------------------------------------
(***************************************************************************)
(* The draws that call the engine.                                         *)
(***************************************************************************)

\* Between the operations of the set-up, the tracking is exact.
LEMMA BetweenFollows ==
    ASSUME WInv, SettingUp, op = NoOp, rebuild = {}
    PROVE  /\ Follows(track, order, fifo) /\ pc = "idle"
           /\ \A l \in Levels : ToSet(fifo[l]) \subseteq Handles
           /\ RestingIds = DOMAIN track.orders /\ RestingIds = DOMAIN track.handles
<1>1. Follows(track, order, fifo)
  BY DEF WInv, TrackingInv, Believed
<1>2. pc = "idle"
  BY DEF WInv, EngineInv, CallsInv
<1>3. \A l \in Levels : ToSet(fifo[l]) \subseteq Handles
  BY LevelsHoldHandles DEF WInv, EngineInv, IInv
<1>4. RestingIds = DOMAIN track.orders /\ RestingIds = DOMAIN track.handles
  BY <1>1, RestingIs DEF Follows, Names
<1> QED BY <1>1, <1>2, <1>3, <1>4

\* A tracked handle is that of its order.
LEMMA HandleOf ==
    ASSUME WInv, SettingUp, op = NoOp, rebuild = {}, NEW id \in DOMAIN track.handles,
           NEW h, h = track.handles[id].handle
    PROVE  h \in Resting /\ order[h].id = id
<1>1. Follows(track, order, fifo) /\ \A l \in Levels : ToSet(fifo[l]) \subseteq Handles
  BY BetweenFollows
<1>2. PICK g \in Listed(fifo) : order[g].id = id
  BY <1>1 DEF Follows, Names, IdsIn
<1>3. PICK l \in Levels : g \in ToSet(fifo[l])
  BY <1>2 DEF Listed
<1>4. track.handles[id] = [handle |-> g, qty |-> order[g].quantity]
  BY <1>1, <1>2, <1>3 DEF Follows, Names
<1> QED BY <1>2, <1>4, RestingIs

\* There is an id for the next event.
LEMMA NextIdIsFree ==
    ASSUME WInv, Draws
    PROVE  id_counter_ \in OrderId /\ id_counter_ \in Nat /\ id_counter_ \notin RestingIds
<1>1. SettingUp /\ op = NoOp /\ rebuild = {}
  BY DEF Draws, Between, SettingUp
<1>2. RestingIds \subseteq Ids /\ id_counter_ \in Nat \ {0}
  BY <1>1, BetweenFollows DEF WInv, BatchInv, IdsInv
<1>3. id_counter_ <= SeedEvents + WarmupEvents + batch_size
  <2>1. Len(pending_) \in Nat
    BY LenProperties DEF WInv, BatchInv, QueuesInv, IsSeq
  <2>2. CASE stage = "warmup" /\ events < SeedEvents + WarmupEvents
    BY <1>1, <1>2, <2>2, WorkloadAssumption DEF WInv, BatchInv, IdsInv, EventsInv
  <2>3. CASE stage = "generate" /\ Len(pending_) < batch_size
    BY <1>1, <1>2, <2>1, <2>3, WorkloadAssumption DEF WInv, BatchInv, IdsInv
  <2> QED BY <2>2, <2>3 DEF Draws
<1> QED BY <1>2, <1>3, IdAssumption, WorkloadAssumption DEF Ids

LEMMA DrawnKeeps ==
    ASSUME WInv, Draws, NEW o, IssueDrawn(o), Started(o), o.id \in 1 .. id_counter_,
           o.id \notin RestingIds', RestingIds' \subseteq RestingIds,
           Follows(Gone(track, o), order', fifo')
    PROVE  WInv'
<1>1. /\ SettingUp /\ op = NoOp /\ rebuild = {} /\ cluster = NoCluster
      /\ stage = "warmup" => events < SeedEvents + WarmupEvents
      /\ stage = "generate" => Len(pending_) < batch_size /\ pregen_queue_ = <<>>
  BY DEF Draws, Between, SettingUp
<1>2. /\ UNCHANGED <<stage, rebuild, base, events, track, cluster, pregen_queue_, pending_, shadow>>
      /\ id_counter_' = id_counter_ + 1 /\ cluster_queue_' = Popped(cluster_queue_)
  BY DEF IssueDrawn, phaseVars, batchVars
<1>3. EngineInv'
  <2>1. CallsInv'
    BY DEF Started, CallsInv, CallOp
  <2>2. FreshInv' /\ MakerInv'
    BY DEF Started, FreshInv, MakerInv
  <2> QED BY <2>1, <2>2 DEF Started, EngineInv
<1>4. BatchInv'
  <2>1. PhaseInv'
    BY <1>1, <1>2 DEF WInv, BatchInv, PhaseInv
  <2>2. QueuesInv'
    BY <1>2, PoppedInSeq DEF WInv, BatchInv, QueuesInv, IsSeq
  <2>3. IdsInv'
    <3>1. id_counter_ \in Nat \ {0} /\ Ids \subseteq 1 .. id_counter_ /\ Ids' = 1 .. id_counter_
      BY <1>2 DEF WInv, BatchInv, IdsInv, Ids
    <3>2. op' # NoOp /\ op'.id \in Ids'
      BY <3>1 DEF Started
    <3>3. Len(pending_) \in Nat
      BY LenProperties DEF WInv, BatchInv, QueuesInv, IsSeq
    <3>4. events \in Nat /\ SeedEvents \in Nat /\ WarmupEvents \in Nat
      BY WorkloadAssumption DEF WInv, BatchInv, EventsInv
    <3>5. DOMAIN track'.orders \subseteq Ids' /\ DOMAIN base' \subseteq Ids'
      BY <1>2, <3>1 DEF WInv, BatchInv, IdsInv
    <3>6. stage' = "warmup" => id_counter_' <= events' + 1 + 1
      BY <1>1, <1>2, <3>1, <3>4 DEF WInv, BatchInv, IdsInv
    <3>7. stage' = "generate" =>
            id_counter_' <= SeedEvents + WarmupEvents + Len(pending_') + 1 + 1
      BY <1>1, <1>2, <3>1, <3>3, <3>4 DEF WInv, BatchInv, IdsInv
    <3>8. rebuild' = {} /\ id_counter_' \in Nat \ {0}
      BY <1>1, <1>2, <3>1
    <3> QED BY <3>2, <3>5, <3>6, <3>7, <3>8 DEF IdsInv
  <2>4. EventsInv'
    BY <1>1, <1>2 DEF WInv, BatchInv, EventsInv, SettingUp
  <2>5. BaseInv'
    BY <1>2 DEF WInv, BatchInv, BaseInv
  <2> QED BY <2>1, <2>2, <2>3, <2>4, <2>5 DEF BatchInv
<1>5. RebuildInv'
  BY <1>1, <1>2 DEF RebuildInv
<1>6. TrackingInv'
  <2>1. op' = o /\ o # NoOp /\ out'.trades = <<>>
    BY DEF Started
  <2>2. Believed' = Gone(track, o)
    BY <1>2, <2>1, FilledFacts DEF Believed
  <2>3. RestingIds' \subseteq DOMAIN track'.orders
    BY <1>1, <1>2 DEF WInv, TrackingInv
  <2> QED BY <1>2, <2>2, <2>3 DEF WInv, TrackingInv, SettingUp
<1>7. ShadowInv'
  BY <1>1, <1>2 DEF Started, WInv, ShadowInv
<1> QED BY <1>3, <1>4, <1>5, <1>6, <1>7 DEF WInv

LEMMA limit_addKeeps == ASSUME WInv, limit_add PROVE WInv'
<1>1. PICK side \in Side, qty \in AddQuantity : \E price \in Prices :
        IssueDrawn([type |-> "limit", id |-> id_counter_, side |-> side, price |-> price,
                    qty |-> qty])
  BY DEF limit_add
<1>2. PICK price \in Prices :
        IssueDrawn([type |-> "limit", id |-> id_counter_, side |-> side, price |-> price,
                    qty |-> qty])
  BY <1>1
<1> DEFINE o == [type |-> "limit", id |-> id_counter_, side |-> side, price |-> price, qty |-> qty]
<1>3. /\ o.type = "limit" /\ o.id = id_counter_ /\ o.side \in Side /\ o.price \in Prices
      /\ o.qty \in Nat \ {0} /\ IssueDrawn(o)
  BY <1>2, WorkloadAssumption
<1> HIDE DEF o
<1>4. Draws /\ Issue(o) /\ SettingUp /\ op = NoOp /\ rebuild = {} /\ IInv
  BY <1>3 DEF limit_add, IssueDrawn, Draws, Between, SettingUp, WInv, EngineInv
<1>5. id_counter_ \in OrderId /\ id_counter_ \in Nat \ {0} /\ id_counter_ \notin RestingIds
  BY <1>4, NextIdIsFree DEF WInv, BatchInv, IdsInv
<1>6. Started(o) /\ UNCHANGED <<links, fifo, free>>
  BY <1>3, <1>4, <1>5, IssueLimit
<1>7. UNCHANGED <<order, fifo>> /\ o.id \in 1 .. id_counter_
  BY <1>3, <1>5, <1>6 DEF Started
<1>8. o.id \notin RestingIds' /\ RestingIds' \subseteq RestingIds
  BY <1>3, <1>5, <1>7 DEF RestingIds, Resting
<1>9. Follows(Gone(track, o), order', fifo')
  BY <1>3, <1>4, <1>7, BetweenFollows DEF Gone
<1> QED BY <1>3, <1>4, <1>6, <1>7, <1>8, <1>9, DrawnKeeps

\* The quantity of a market order is a part of the orders tracked.
LEMMA MarketQuantity ==
    ASSUME NEW n \in Nat, NEW qty \in {Max({1, (n * c) \div 20}) : c \in {5, 10, 16}}
    PROVE  qty \in Nat \ {0}
<1>1. PICK c \in {5, 10, 16} : qty = Max({1, (n * c) \div 20})
  OBVIOUS
<1>2. n * c \in Nat
  OBVIOUS
<1>3. (n * c) \div 20 \in Nat
  BY <1>2
<1> DEFINE k == (n * c) \div 20
           S == {1, k}
<1>4. S \in SUBSET (0 .. k + 1) /\ S # {} /\ k + 1 \in Nat /\ 1 \in S
  BY <1>3
<1>5. Max(S) \in S /\ \A y \in S : y <= Max(S)
  BY <1>4, MaxIsGreatest
<1> QED BY <1>1, <1>3, <1>5

LEMMA marketKeeps == ASSUME WInv, market PROVE WInv'
<1> DEFINE total == Cardinality(DOMAIN track.orders)
<1>1. PICK side \in Side, qty \in {Max({1, (total * c) \div 20}) : c \in {5, 10, 16}} :
        IssueDrawn([type |-> "market", id |-> id_counter_, side |-> side, price |-> NULL,
                    qty |-> qty])
  BY DEF market
<1> DEFINE o == [type |-> "market", id |-> id_counter_, side |-> side, price |-> NULL, qty |-> qty]
<1>2. qty \in Nat \ {0}
  <2>1. total \in Nat
    BY FS_CardinalityType DEF WInv, TrackingInv, TrackOK
  <2> QED BY <2>1, MarketQuantity
<1>3. /\ o.type = "market" /\ o.id = id_counter_ /\ o.side \in Side /\ o.price = NULL
      /\ o.qty \in Nat \ {0} /\ IssueDrawn(o)
  BY <1>1, <1>2
<1> HIDE DEF o
<1>4. Draws /\ Issue(o) /\ SettingUp /\ op = NoOp /\ rebuild = {} /\ IInv
  BY <1>3 DEF market, Rolled, IssueDrawn, Draws, Between, SettingUp, WInv, EngineInv
<1>5. id_counter_ \in OrderId /\ id_counter_ \in Nat \ {0} /\ id_counter_ \notin RestingIds
  BY <1>4, NextIdIsFree DEF WInv, BatchInv, IdsInv
<1>6. Started(o) /\ UNCHANGED <<links, fifo, free>>
  BY <1>3, <1>4, <1>5, IssueMarket
<1>7. UNCHANGED <<order, fifo>> /\ o.id \in 1 .. id_counter_
  BY <1>3, <1>5, <1>6 DEF Started
<1>8. o.id \notin RestingIds' /\ RestingIds' \subseteq RestingIds
  BY <1>3, <1>5, <1>7 DEF RestingIds, Resting
<1>9. Follows(Gone(track, o), order', fifo')
  BY <1>3, <1>4, <1>7, BetweenFollows DEF Gone
<1> QED BY <1>3, <1>4, <1>6, <1>7, <1>8, <1>9, DrawnKeeps

\* Dropping a tracked order and taking it out of the book agree.
LEMMA DroppedFollows ==
    ASSUME WInv, SettingUp, op = NoOp, rebuild = {}, NEW id \in DOMAIN track.handles,
           NEW l \in Levels, Leaves(fifo, fifo', order, order', l, track.handles[id].handle),
           NEW u, u = track_remove(drop_handle(track, id), id)
    PROVE  /\ Follows(u, order', fifo') /\ Drops(track, u, id)
           /\ RestingIds' = RestingIds \ {id}
<1> DEFINE h == track.handles[id].handle
<1>1. /\ Follows(track, order, fifo) /\ TrackOK(track) /\ Counted(track)
      /\ RestingIds = DOMAIN track.handles
  BY BetweenFollows DEF Follows
<1>2. order[h].id = id
  BY HandleOf
<1>3. id \in DOMAIN track.orders
  BY <1>1 DEF Follows
<1>4. Drops(track, u, id)
  BY <1>1, <1>3, DropFacts
<1>5. Drops(track, u, order[h].id) /\ Leaves(fifo, fifo', order, order', l, h)
  BY <1>2, <1>4
<1> HIDE DEF h
<1>6. Follows(u, order', fifo')
  BY <1>1, <1>5, FollowsLeaves
<1>7. RestingIds' = RestingIds \ {id}
  BY <1>1, <1>4, <1>6, RestingIsNext DEF Drops, Follows, Names
<1> QED BY <1>4, <1>6, <1>7

LEMMA modifyKeeps == ASSUME WInv, modify PROVE WInv'
<1>1. PICK target \in DOMAIN track.handles, side \in Side, qty \in ModifyQuantity :
        \E price \in Prices :
          IssueDrawn([type |-> "modify", id |-> target, side |-> side, price |-> price,
                      qty |-> qty, handle |-> track.handles[target].handle])
  BY DEF modify
<1>2. PICK price \in Prices :
        IssueDrawn([type |-> "modify", id |-> target, side |-> side, price |-> price,
                    qty |-> qty, handle |-> track.handles[target].handle])
  BY <1>1
<1> DEFINE o == [type |-> "modify", id |-> target, side |-> side, price |-> price, qty |-> qty,
                 handle |-> track.handles[target].handle]
<1>3. /\ o.type = "modify" /\ o.id = target /\ o.side \in Side /\ o.price \in Prices
      /\ o.qty \in Nat \ {0} /\ IssueDrawn(o) /\ o.handle = track.handles[target].handle
  BY <1>2, WorkloadAssumption
<1> HIDE DEF o
<1>4. Draws /\ Issue(o) /\ SettingUp /\ op = NoOp /\ rebuild = {} /\ IInv
  BY <1>3 DEF modify, Rolled, IssueDrawn, Draws, Between, SettingUp, WInv, EngineInv
<1>5. o.handle \in Resting /\ order[o.handle].id = o.id
  BY <1>3, <1>4, HandleOf
<1>6. Started(o) /\ \E l \in Levels : Leaves(fifo, fifo', order, order', l, o.handle)
  BY <1>3, <1>4, <1>5, IssueModify
<1>7. PICK l \in Levels : Leaves(fifo, fifo', order, order', l, track.handles[target].handle)
  BY <1>3, <1>6
<1> DEFINE u == track_remove(drop_handle(track, target), target)
<1>8. Follows(u, order', fifo') /\ RestingIds' = RestingIds \ {target}
  BY <1>4, <1>7, DroppedFollows
<1>9. /\ o.id \notin RestingIds' /\ RestingIds' \subseteq RestingIds
      /\ Follows(Gone(track, o), order', fifo')
  BY <1>3, <1>8 DEF Gone
<1>10. o.id \in 1 .. id_counter_
  <2>1. target \in DOMAIN track.orders
    BY <1>4, BetweenFollows
  <2> QED BY <1>3, <2>1 DEF WInv, BatchInv, IdsInv, Ids
<1> QED BY <1>3, <1>4, <1>6, <1>9, <1>10, DrawnKeeps

-----------------------------------------------------------------------------
(***************************************************************************)
(* The cancels, and the queues they go through.                            *)
(***************************************************************************)

\* What a cancel between two operations of the set-up does.
LEMMA CancelTrackedKeeps ==
    ASSUME WInv, SettingUp, op = NoOp, rebuild = {}, NEW id \in DOMAIN track.handles,
           CancelTracked(id), UNCHANGED <<phaseVars, op, id_counter_, shadow>>
    PROVE  /\ EngineInv' /\ RebuildInv' /\ TrackingInv' /\ ShadowInv'
           /\ DOMAIN track'.orders \subseteq DOMAIN track.orders
           /\ DOMAIN track'.orders \subseteq OrderId
<1> DEFINE h == track.handles[id].handle
<1>1. h \in Resting /\ cancel_order(h) /\ IInv
  BY HandleOf DEF CancelTracked, WInv, EngineInv
<1>2. /\ IInv' /\ UNCHANGED <<order, book, pc, call, quantity, out>>
      /\ \E l \in Levels : Leaves(fifo, fifo', order, order', l, h)
  BY <1>1, CancelCall
<1>3. Follows(track', order', fifo') /\ Drops(track, track', id)
  BY <1>2, DroppedFollows DEF CancelTracked
<1>4. UNCHANGED <<stage, rebuild, base, op, id_counter_, shadow>> /\ pc = "idle"
  BY BetweenFollows DEF phaseVars
<1>5. EngineInv'
  <2>1. CallsInv'
    BY <1>2, <1>4 DEF WInv, EngineInv, CallsInv
  <2>2. FreshInv' /\ MakerInv'
    BY <1>2, <1>4 DEF FreshInv, MakerInv
  <2> QED BY <1>2, <2>1, <2>2 DEF EngineInv
<1>6. RebuildInv'
  BY <1>4 DEF RebuildInv
<1>7. TrackingInv'
  <2>1. RestingIds' = DOMAIN track'.orders
    BY <1>3, RestingIsNext DEF Follows, Names
  <2> QED BY <1>3, <1>4, <2>1 DEF TrackingInv, Believed, Drops
<1>8. ShadowInv'
  BY <1>2, <1>4 DEF WInv, ShadowInv
<1> QED BY <1>3, <1>5, <1>6, <1>7, <1>8 DEF Drops, TrackOK

LEMMA IdsWithCancel ==
    ASSUME WInv, op = NoOp, UNCHANGED <<stage, rebuild, base, op, id_counter_>>,
           DOMAIN track'.orders \subseteq DOMAIN track.orders,
           events' \in Nat, events' >= events,
           Len(pending_') \in Nat, Len(pending_') >= Len(pending_)
    PROVE  IdsInv'
<1>1. events \in Nat /\ SeedEvents \in Nat /\ WarmupEvents \in Nat /\ id_counter_ \in Nat
      /\ Len(pending_) \in Nat
  BY WorkloadAssumption, LenProperties DEF WInv, BatchInv, EventsInv, IdsInv, QueuesInv, IsSeq
<1>2. /\ id_counter_ \in Nat \ {0}
      /\ DOMAIN track'.orders \subseteq Ids' /\ DOMAIN base' \subseteq Ids'
  BY DEF WInv, BatchInv, IdsInv, Ids
<1>3. stage' = "warmup" => id_counter_' <= events' + 1 + 0
  <2>1. stage = "warmup" => id_counter_ <= events + 1
    BY <1>1 DEF WInv, BatchInv, IdsInv
  <2>2. \A i, m, n \in Nat : i <= m + 1 /\ n >= m => i <= n + 1 + 0
    OBVIOUS
  <2>3. id_counter_' \in Nat /\ id_counter_' = id_counter_ /\ stage' = stage
    BY <1>1
  <2>4. events' \in Nat /\ events' >= events
    OBVIOUS
  <2> QED BY <1>1, <2>1, <2>2, <2>3, <2>4
<1>4. stage' = "generate" => id_counter_' <= SeedEvents + WarmupEvents + Len(pending_') + 1 + 0
  <2>1. stage = "generate" => id_counter_ <= SeedEvents + WarmupEvents + Len(pending_) + 1 + 0
    BY DEF WInv, BatchInv, IdsInv
  <2> QED BY <1>1, <2>1
<1> QED BY <1>2, <1>3, <1>4 DEF IdsInv

LEMMA WarmupCancelKeeps ==
    ASSUME WInv, Between, stage = "warmup", events < SeedEvents + WarmupEvents,
           NEW id \in DOMAIN track.handles, WarmupCancel(id)
    PROVE  WInv'
<1>1. /\ SettingUp /\ op = NoOp /\ rebuild = {} /\ cluster = NoCluster /\ CancelTracked(id)
      /\ events' = events + 1 /\ UNCHANGED <<phaseVars, op, id_counter_, batchVars, shadow>>
      /\ UNCHANGED <<stage, rebuild, base, cluster, pregen_queue_, pending_>>
  BY DEF Between, SettingUp, WarmupCancel, phaseVars, batchVars
<1>2. /\ EngineInv' /\ RebuildInv' /\ TrackingInv' /\ ShadowInv'
      /\ DOMAIN track'.orders \subseteq DOMAIN track.orders
      /\ DOMAIN track'.orders \subseteq OrderId
  BY <1>1, CancelTrackedKeeps
<1> DEFINE best == best_ask(track')
<1>3. PICK n \in ClusterSizes :
        \E ids \in BoundedSeq(NearBest(track', best), n) :
            cluster_queue_' = Popped(cluster_queue_) \o ids
  BY DEF WarmupCancel
<1>4. cluster_queue_' \in Seq(OrderId)
  <2>0. PICK ids \in BoundedSeq(NearBest(track', best), n) :
          cluster_queue_' = Popped(cluster_queue_) \o ids
    BY <1>3
  <2>1. ids \in Seq(NearBest(track', best))
    BY WorkloadAssumption, BoundedIsSeq
  <2>2. NearBest(track', best) \subseteq OrderId
    BY <1>2 DEF NearBest
  <2>3. ids \in Seq(OrderId)
    BY <2>1, <2>2, SeqMonotonic
  <2>4. Popped(cluster_queue_) \in Seq(OrderId)
    BY PoppedInSeq DEF WInv, BatchInv, QueuesInv
  <2> QED BY <2>0, <2>3, <2>4, ConcatProperties
<1>5. BatchInv'
  <2>1. PhaseInv'
    BY <1>1 DEF WInv, BatchInv, PhaseInv
  <2>2. QueuesInv'
    BY <1>1, <1>4 DEF WInv, BatchInv, QueuesInv, IsSeq
  <2>3. events \in Nat /\ Len(pending_) \in Nat
    BY LenProperties DEF WInv, BatchInv, EventsInv, QueuesInv, IsSeq
  <2>4. IdsInv'
    BY <1>1, <1>2, <2>3, IdsWithCancel
  <2>5. EventsInv'
    <3>1. events' \in Nat /\ events' <= SeedEvents + WarmupEvents
      BY <1>1, <2>3, WorkloadAssumption
    <3> QED BY <1>1, <3>1 DEF WInv, BatchInv, EventsInv
  <2>6. BaseInv'
    BY <1>1 DEF WInv, BatchInv, BaseInv
  <2> QED BY <2>1, <2>2, <2>4, <2>5, <2>6 DEF BatchInv
<1> QED BY <1>2, <1>5 DEF WInv

LEMMA QueuedCancelKeeps == ASSUME WInv, QueuedCancel PROVE WInv'
<1>1. /\ Between /\ stage = "warmup" /\ events < SeedEvents + WarmupEvents
      /\ Last(cluster_queue_) \in DOMAIN track.handles /\ WarmupCancel(Last(cluster_queue_))
  BY DEF QueuedCancel, Cancellable
<1> QED BY <1>1, WarmupCancelKeeps

LEMMA PendingCancelKeeps ==
    ASSUME WInv, Draws, stage = "generate", NEW id \in DOMAIN track.handles, PendingCancel(id)
    PROVE  WInv'
<1>1. /\ SettingUp /\ op = NoOp /\ rebuild = {} /\ CancelTracked(id)
      /\ Len(pending_) < batch_size /\ pregen_queue_ = <<>>
      /\ pending_' = Append(pending_, CancelOp(id))
      /\ UNCHANGED <<phaseVars, op, id_counter_, shadow>>
      /\ UNCHANGED <<stage, rebuild, base, events, cluster_queue_, pregen_queue_>>
  BY DEF Draws, Between, SettingUp, PendingCancel, phaseVars
<1>2. /\ EngineInv' /\ RebuildInv' /\ TrackingInv' /\ ShadowInv'
      /\ DOMAIN track'.orders \subseteq DOMAIN track.orders
  BY <1>1, CancelTrackedKeeps
<1>3. cluster' \in {NoCluster} \cup {[left |-> n, ops |-> <<>>, best |-> best_ask(track')] : n \in ClusterSizes}
  BY DEF PendingCancel
<1>4. IsSeq(pending_') /\ Len(pending_') = Len(pending_) + 1 /\ Len(pending_) \in Nat
  BY <1>1, AppendIsSeq DEF WInv, BatchInv, QueuesInv
<1>5. BatchInv'
  <2>1. PhaseInv'
    BY <1>1 DEF WInv, BatchInv, PhaseInv
  <2>2. /\ cluster' = [left |-> cluster'.left, ops |-> cluster'.ops, best |-> cluster'.best]
        /\ cluster'.left \in Nat /\ cluster'.ops = <<>>
    BY <1>3, WorkloadAssumption DEF NoCluster
  <2>3. IsSeq(<<>>)
    BY EmptySeq DEF IsSeq
  <2>4. QueuesInv'
    BY <1>1, <1>4, <2>2, <2>3 DEF WInv, BatchInv, QueuesInv
  <2>5. events \in Nat
    BY DEF WInv, BatchInv, EventsInv
  <2>6. IdsInv'
    <3>1. Len(pending_') \in Nat /\ Len(pending_') >= Len(pending_)
      BY <1>4
    <3> QED BY <1>1, <1>2, <2>5, <3>1, IdsWithCancel
  <2>7. EventsInv'
    <3>1. Len(pending_') <= batch_size
      BY <1>1, <1>4, WorkloadAssumption
    <3> QED BY <1>1, <3>1 DEF WInv, BatchInv, EventsInv
  <2>8. BaseInv'
    BY <1>1 DEF WInv, BatchInv, BaseInv
  <2> QED BY <2>1, <2>4, <2>6, <2>7, <2>8 DEF BatchInv
<1> QED BY <1>2, <1>5 DEF WInv

LEMMA cancelKeeps == ASSUME WInv, cancel PROVE WInv'
<1>1. /\ Draws /\ (stage = "warmup" => events < SeedEvents + WarmupEvents) /\ Between
      /\ \E id \in DOMAIN track.handles : \/ stage = "warmup" /\ WarmupCancel(id)
                                          \/ stage = "generate" /\ PendingCancel(id)
  BY DEF cancel, Rolled, Draws
<1> QED BY <1>1, WarmupCancelKeeps, PendingCancelKeeps

LEMMA ClusterCancelKeeps == ASSUME WInv, ClusterCancel PROVE WInv'
<1>1. PICK id \in NearBest(track, cluster.best) :
        /\ CancelTracked(id)
        /\ cluster' = [cluster EXCEPT !.left = @ - 1, !.ops = Append(@, CancelOp(id))]
  BY DEF ClusterCancel
<1>2. cluster.left > 0 /\ cluster # NoCluster
  BY DEF ClusterCancel, NoCluster
<1>3. /\ stage = "generate" /\ SettingUp /\ rebuild = {} /\ op = NoOp /\ pregen_queue_ = <<>>
      /\ UNCHANGED <<phaseVars, op, id_counter_, shadow>>
      /\ UNCHANGED <<stage, rebuild, base, events, cluster_queue_, pregen_queue_, pending_>>
  BY <1>2 DEF WInv, BatchInv, PhaseInv, SettingUp, ClusterCancel, phaseVars
<1>4. id \in DOMAIN track.handles
  BY <1>1, <1>3, BetweenFollows DEF NearBest
<1>5. /\ EngineInv' /\ RebuildInv' /\ TrackingInv' /\ ShadowInv'
      /\ DOMAIN track'.orders \subseteq DOMAIN track.orders
  BY <1>1, <1>3, <1>4, CancelTrackedKeeps
<1>6. BatchInv'
  <2>1. PhaseInv'
    BY <1>3 DEF WInv, BatchInv, PhaseInv
  <2>2. /\ cluster' = [left |-> cluster'.left, ops |-> cluster'.ops, best |-> cluster'.best]
        /\ cluster'.left \in Nat /\ cluster'.ops = Append(cluster.ops, CancelOp(id))
    <3>1. /\ cluster = [left |-> cluster.left, ops |-> cluster.ops, best |-> cluster.best]
          /\ cluster.left \in Nat
      BY DEF WInv, BatchInv, QueuesInv
    <3>2. cluster' = [left |-> cluster.left - 1, ops |-> Append(cluster.ops, CancelOp(id)),
                      best |-> cluster.best]
      BY <1>1, <3>1
    <3>3. cluster.left - 1 \in Nat
      BY <1>2, <3>1
    <3> QED BY <3>2, <3>3
  <2>3. IsSeq(cluster'.ops)
    BY <2>2, AppendIsSeq DEF WInv, BatchInv, QueuesInv
  <2>4. QueuesInv'
    BY <1>3, <2>2, <2>3 DEF WInv, BatchInv, QueuesInv
  <2>5. events \in Nat /\ Len(pending_) \in Nat
    BY LenProperties DEF WInv, BatchInv, EventsInv, QueuesInv, IsSeq
  <2>6. IdsInv'
    BY <1>3, <1>5, <2>5, IdsWithCancel
  <2>7. EventsInv' /\ BaseInv'
    BY <1>3 DEF WInv, BatchInv, EventsInv, BaseInv
  <2> QED BY <2>1, <2>4, <2>6, <2>7 DEF BatchInv
<1> QED BY <1>5, <1>6 DEF WInv

\* Steps of the queues alone.
LEMMA QueueStep ==
    ASSUME WInv, op = NoOp,
           UNCHANGED <<vars, phaseVars, events, op, track, id_counter_, cluster_queue_, shadow>>,
           PhaseInv', QueuesInv', Len(pending_') >= Len(pending_), Len(pending_') <= batch_size
    PROVE  WInv'
<1>1. UNCHANGED <<stage, rebuild, base>> /\ UNCHANGED vars
  BY DEF phaseVars
<1>2. IInv'
  BY <1>1, StepInv DEF WInv, EngineInv
<1>3. EngineInv'
  BY <1>1, <1>2 DEF WInv, EngineInv, CallsInv, FreshInv, SettingUp, RestingIds, Resting, MakerInv,
                    best_level, oppo_book, oppo_side, vars
<1>4. events \in Nat /\ Len(pending_') \in Nat
  BY LenProperties DEF WInv, BatchInv, EventsInv, QueuesInv, IsSeq
<1>5. IdsInv'
  BY <1>1, <1>4, IdsWithCancel
<1>6. EventsInv' /\ BaseInv'
  BY <1>1 DEF WInv, BatchInv, EventsInv, BaseInv
<1>7. RebuildInv'
  BY <1>1 DEF WInv, RebuildInv, Names, IdsIn, Listed, ReaddOp, vars
<1>8. TrackingInv'
  <2>1. Believed = track /\ Believed' = track
    BY DEF Believed
  <2>2. RestingIds' = RestingIds
    BY <1>1 DEF RestingIds, Resting, vars
  <2> QED BY <1>1, <2>1, <2>2 DEF WInv, TrackingInv, SettingUp, vars
<1>9. ShadowInv'
  BY <1>1 DEF WInv, ShadowInv, vars
<1> QED BY <1>3, <1>5, <1>6, <1>7, <1>8, <1>9 DEF WInv, BatchInv

LEMMA ClusterEndKeeps == ASSUME WInv, ClusterEnd PROVE WInv'
<1>1. /\ op = NoOp /\ stage = "generate" /\ cluster' = NoCluster /\ pending_' = pending_
      /\ UNCHANGED <<vars, phaseVars, events, op, track, id_counter_, cluster_queue_, shadow>>
      /\ UNCHANGED <<stage, rebuild, base>> /\ rebuild = {}
      /\ pregen_queue_' = pregen_queue_ \o Reverse(cluster.ops)
  BY DEF ClusterEnd, WInv, BatchInv, PhaseInv, phaseVars
<1>2. PhaseInv'
  BY <1>1 DEF WInv, BatchInv, PhaseInv
<1>3. QueuesInv'
  <2>1. IsSeq(pregen_queue_') /\ IsSeq(<<>>)
    BY <1>1, JoinedIsSeq, EmptySeq DEF WInv, BatchInv, QueuesInv, IsSeq
  <2>2. /\ cluster' = [left |-> 0, ops |-> <<>>, best |-> DefaultAsk]
        /\ cluster'.left = 0 /\ cluster'.ops = <<>> /\ cluster'.best = DefaultAsk
    BY <1>1 DEF NoCluster
  <2> QED BY <1>1, <2>1, <2>2 DEF WInv, BatchInv, QueuesInv
<1>4. Len(pending_) <= batch_size /\ Len(pending_) \in Nat
  BY LenProperties DEF WInv, BatchInv, EventsInv, QueuesInv, IsSeq
<1> QED BY <1>1, <1>2, <1>3, <1>4, QueueStep

LEMMA TakeQueuedKeeps == ASSUME WInv, TakeQueued PROVE WInv'
<1>1. /\ op = NoOp /\ stage = "generate" /\ cluster' = cluster /\ rebuild = {}
      /\ cluster = NoCluster
      /\ UNCHANGED <<vars, phaseVars, events, op, track, id_counter_, cluster_queue_, shadow>>
      /\ UNCHANGED <<stage, rebuild, base>>
      /\ pending_' = Append(pending_, Last(pregen_queue_)) /\ Len(pending_) < batch_size
      /\ pregen_queue_ # <<>> /\ pregen_queue_' = Front(pregen_queue_)
  BY DEF TakeQueued, Between, phaseVars
<1>2. PhaseInv'
  BY <1>1 DEF WInv, BatchInv, PhaseInv
<1>3. IsSeq(pending_') /\ Len(pending_') = Len(pending_) + 1 /\ Len(pending_) \in Nat
  BY <1>1, AppendIsSeq DEF WInv, BatchInv, QueuesInv
<1>4. IsSeq(pregen_queue_')
  BY <1>1, FrontInSeq DEF WInv, BatchInv, QueuesInv, IsSeq
<1>5. QueuesInv'
  BY <1>1, <1>3, <1>4 DEF WInv, BatchInv, QueuesInv
<1>6. Len(pending_') >= Len(pending_) /\ Len(pending_') <= batch_size
  BY <1>1, <1>3, WorkloadAssumption
<1> QED BY <1>1, <1>2, <1>5, <1>6, QueueStep

-----------------------------------------------------------------------------
(***************************************************************************)
(* The returns.                                                            *)
(***************************************************************************)

\* The call in progress leaves its remainder q in the book as order h.
Remains(o, q, h) ==
    /\ o.type # "market" /\ q \in Nat \ {0} /\ o.side \in Side /\ o.price \in Prices
    /\ \E l \in Levels :
        /\ l = <<o.side, idx_of(o.price)>> /\ l[1] = o.side /\ price_of(l[2]) = o.price
        /\ Joins(fifo, fifo', order, order', l, h)
        /\ order'[h] = [id |-> o.id, price |-> o.price, quantity |-> q]
    /\ out'.handle = h /\ out'.code = "Success" /\ out'.remaining_quantity = q

\* It leaves nothing.
Unrested(o) ==
    /\ UNCHANGED <<fifo, order>>
    /\ ~(o.type # "market" /\ out'.code = "Success" /\ out'.remaining_quantity > 0)

ReturnFacts ==
    /\ EngineInv' /\ out'.trades = out.trades /\ pc = "match" /\ ~CanMatch
    /\ quantity \in Nat /\ op.type \in CallOp
    /\ \/ ReturnUnrested /\ Unrested(op)
       \/ RestRemainder /\ \E h \in Handles : Remains(op, quantity, h)

LEMMA ReturnedFacts == ASSUME EngineInv, Returned PROVE ReturnFacts
<1>1. /\ op # NoOp /\ op' = NoOp /\ Steps /\ pc' = "idle" /\ IInv /\ CallInv
      /\ quantity \in Nat /\ out \in ResultRecord
  BY DEF Returned, EngineInv, IInv, CallInv, CallTypeOK
<1>2. ReturnUnrested \/ RestRemainder
  <2>1. FillPart => pc' = "match"
    BY FillPartLedger, <1>1
  <2>2. FillAll => pc' # "idle"
    BY DEF FillAll
  <2>3. erase_best \/ SkipGhost \/ PoolExhausted => pc' # "idle"
    BY DEF erase_best, SkipGhost, DropEmptyBest, PoolExhausted
  <2> QED BY <1>1, <2>1, <2>2, <2>3 DEF Steps
<1>3. pc = "match" /\ ~CanMatch /\ call' = NoCall /\ quantity' = 0
  BY <1>2 DEF ReturnUnrested, RestRemainder, MustRest, LoopDone, Return
<1>4. /\ op.type \in CallOp /\ call.op = op.type /\ call.id = op.id /\ call.side = op.side
      /\ call.price = op.price /\ out.code = "Success"
  BY <1>3 DEF EngineInv, CallsInv, CallOp
<1>5. EngineInv'
  <2>1. IInv'
    BY <1>1, StepInv DEF Next
  <2>2. CallsInv' /\ FreshInv' /\ MakerInv'
    BY <1>1, <1>3 DEF CallsInv, FreshInv, MakerInv
  <2> QED BY <2>1, <2>2 DEF EngineInv
<1>6. CASE ReturnUnrested
  <2>1. /\ quantity = 0 \/ op.type = "market"
        /\ out' = [[out EXCEPT !.code = IF quantity = 0 THEN "Success"
                                   ELSE "MarketRemainderCancelled"] EXCEPT !.remaining_quantity = quantity]
        /\ UNCHANGED <<fifo, order>>
    BY <1>4, <1>6 DEF ReturnUnrested, Return
  <2>2. out'.trades = out.trades /\ out'.remaining_quantity = quantity
    BY <1>1, <2>1 DEF ResultRecord
  <2>3. Unrested(op)
    BY <1>1, <2>1, <2>2 DEF Unrested
  <2> QED BY <1>1, <1>3, <1>4, <1>5, <1>6, <2>2, <2>3 DEF ReturnFacts
<1>7. CASE RestRemainder
  <2>1. PICK l \in Levels, h \in Handles :
             /\ l = <<call.side, idx_of(call.price)>> /\ l[1] = call.side /\ price_of(l[2]) = call.price
             /\ Joins(fifo, fifo', order, order', l, h)
             /\ order'[h] = [id |-> call.id, price |-> call.price, quantity |-> quantity]
             /\ out'.trades = out.trades /\ out'.code = out.code
             /\ out'.remaining_quantity = quantity /\ out'.handle = h
             /\ quantity \in Nat \ {0} /\ call.op # "market"
    BY <1>1, <1>7, RestLedger
  <2>2. op.side \in Side /\ op.price \in Prices
    BY <1>1, <1>3, <1>4, <2>1 DEF CallInv, CallTypeOK, CallArgs
  <2>3. Remains(op, quantity, h)
    BY <1>4, <2>1, <2>2 DEF Remains
  <2> QED BY <1>1, <1>3, <1>4, <1>5, <1>7, <2>1, <2>3 DEF ReturnFacts
<1> QED BY <1>2, <1>6, <1>7

\* The tracking after the call is that of the book after the call.
LEMMA ResultFollows ==
    ASSUME WInv, SettingUp, rebuild = {}, op # NoOp, ReturnFacts,
           NEW u, u = TrackResult(track, op, out')
    PROVE  Follows(u, order', fifo') /\ DOMAIN u.orders \subseteq DOMAIN track.orders \cup {op.id}
<1> DEFINE b == Filled(Gone(track, op), out.trades)
<1>1. Follows(b, order, fifo) /\ TrackOK(b) /\ Counted(b) /\ DOMAIN b.orders = IdsIn(order, fifo)
  BY DEF WInv, TrackingInv, Believed, Follows, Names
<1>2. out'.trades = out.trades /\ quantity \in Nat
  BY DEF ReturnFacts
<1>3. u = IF op.type # "market" /\ out'.code = "Success" /\ out'.remaining_quantity > 0
          THEN [track_add(b, op.id, op.side, op.price, out'.remaining_quantity)
                   EXCEPT !.handles = Remember(@, op.id, [handle |-> out'.handle,
                                                          qty |-> out'.remaining_quantity])]
          ELSE b
  BY <1>2 DEF TrackResult, Gone, Filled
<1>4. op.id \notin IdsIn(order, fifo) /\ op.id \in OrderId
  <2>1. pc # "idle" /\ call.id = op.id /\ call.id \in OrderId
    BY DEF ReturnFacts, WInv, EngineInv, CallsInv, IInv, CallInv, CallArgs
  <2> QED BY <2>1, RestingIs DEF WInv, EngineInv, FreshInv
<1>5. DOMAIN b.orders \subseteq DOMAIN track.orders
  BY <1>1, RestingIs DEF WInv, TrackingInv
<1> HIDE DEF b
<1>6. CASE ReturnUnrested /\ Unrested(op)
  <2>1. u = b /\ UNCHANGED <<fifo, order>>
    BY <1>3, <1>6 DEF Unrested
  <2> QED BY <1>1, <1>5, <2>1
<1>7. CASE \E h \in Handles : Remains(op, quantity, h)
  <2>1. PICK h \in Handles : Remains(op, quantity, h)
    BY <1>7
  <2>2. PICK l \in Levels :
        /\ l = <<op.side, idx_of(op.price)>> /\ l[1] = op.side /\ price_of(l[2]) = op.price
        /\ Joins(fifo, fifo', order, order', l, h)
        /\ order'[h] = [id |-> op.id, price |-> op.price, quantity |-> quantity]
    BY <2>1 DEF Remains
  <2> DEFINE x == [side |-> op.side, price |-> op.price, qty |-> quantity]
  <2>3. /\ x \in OrderInfo /\ x.side = op.side /\ x.price = op.price /\ x.qty = quantity
        /\ x = [side |-> l[1], price |-> price_of(l[2]), qty |-> order'[h].quantity]
    BY <2>1, <2>2 DEF Remains, OrderInfo
  <2>4. u = [track_add(b, op.id, op.side, op.price, quantity)
               EXCEPT !.handles = Remember(@, op.id, [handle |-> h, qty |-> quantity])]
    BY <1>3, <2>1 DEF Remains
  <2>5. u = [track_add(b, op.id, x.side, x.price, x.qty)
               EXCEPT !.handles = Remember(@, op.id, [handle |-> h, qty |-> x.qty])]
    BY <2>4
  <2> HIDE DEF x
  <2>6. op.id \notin DOMAIN b.orders
    BY <1>1, <1>4
  <2>7. Tracks(b, u, op.id, x, h)
    BY <1>1, <1>4, <2>3, <2>5, <2>6, TrackFacts
  <2>8. order'[h].id = op.id
    BY <2>2
  <2>9. Follows(u, order', fifo')
    BY <1>1, <1>4, <2>2, <2>3, <2>7, <2>8, FollowsJoins
  <2> QED BY <1>5, <2>7, <2>9 DEF Tracks
<1> QED BY <1>6, <1>7 DEF ReturnFacts

\* What every return of the set-up does but to the batch.
LEMMA ReturnKeeps ==
    ASSUME WInv, SettingUp, rebuild = {}, Returned, track' = TrackResult(track, op, out'),
           UNCHANGED <<phaseVars, id_counter_>>
    PROVE  /\ ReturnFacts /\ EngineInv' /\ RebuildInv' /\ TrackingInv'
           /\ op # NoOp /\ op' = NoOp /\ pc' = "idle" /\ Follows(track', order', fifo')
           /\ UNCHANGED <<stage, rebuild, base>> /\ DOMAIN track'.orders \subseteq Ids
<1>1. op # NoOp /\ op' = NoOp /\ pc' = "idle" /\ UNCHANGED <<stage, rebuild, base>>
  BY DEF Returned, phaseVars
<1>2. ReturnFacts /\ EngineInv'
  BY ReturnedFacts DEF WInv, ReturnFacts
<1>3. Follows(track', order', fifo') /\ DOMAIN track'.orders \subseteq DOMAIN track.orders \cup {op.id}
  BY <1>1, <1>2, ResultFollows
<1>4. DOMAIN track'.orders \subseteq Ids
  BY <1>1, <1>3 DEF WInv, BatchInv, IdsInv
<1>5. RebuildInv'
  BY <1>1 DEF RebuildInv
<1>6. TrackingInv'
  <2>1. Believed' = track'
    BY <1>1 DEF Believed
  <2>2. RestingIds' = DOMAIN track'.orders
    BY <1>3, RestingIsNext DEF Follows, Names
  <2> QED BY <1>1, <1>3, <2>1, <2>2 DEF TrackingInv, Follows
<1> QED BY <1>1, <1>2, <1>3, <1>4, <1>5, <1>6

LEMMA WarmupReturnedKeeps == ASSUME WInv, WarmupReturned PROVE WInv'
<1>1. /\ stage = "warmup" /\ SettingUp /\ Returned /\ track' = TrackResult(track, op, out')
      /\ UNCHANGED <<phaseVars, id_counter_>>
      /\ UNCHANGED <<cluster_queue_, cluster, pregen_queue_, pending_, shadow>>
      /\ events' = events + 1 /\ rebuild = {}
  BY DEF WarmupReturned, SettingUp, batchVars, WInv, BatchInv, PhaseInv
<1>2. /\ EngineInv' /\ RebuildInv' /\ TrackingInv' /\ op # NoOp /\ op' = NoOp
      /\ UNCHANGED <<stage, rebuild, base>> /\ DOMAIN track'.orders \subseteq Ids
  BY <1>1, ReturnKeeps
<1>3. events \in Nat /\ events < SeedEvents + WarmupEvents /\ id_counter_ \in Nat \ {0}
      /\ SeedEvents \in Nat /\ WarmupEvents \in Nat
  BY <1>1, <1>2, WorkloadAssumption DEF WInv, BatchInv, EventsInv, IdsInv
<1>4. BatchInv'
  <2>1. PhaseInv'
    BY <1>1, <1>2 DEF WInv, BatchInv, PhaseInv
  <2>2. QueuesInv'
    BY <1>1 DEF WInv, BatchInv, QueuesInv, IsSeq
  <2>3. IdsInv'
    <3>1. id_counter_' = id_counter_ /\ Ids' = Ids
      BY <1>1 DEF Ids
    <3>2. id_counter_ <= events + 1 + 1
      BY <1>1, <1>2 DEF WInv, BatchInv, IdsInv
    <3>3. id_counter_' <= events' + 1 + 0
      BY <1>1, <1>3, <3>1, <3>2
    <3>4. DOMAIN track'.orders \subseteq Ids' /\ DOMAIN base' \subseteq Ids'
      BY <1>2, <3>1 DEF WInv, BatchInv, IdsInv
    <3>5. stage' = "warmup"
      BY <1>1, <1>2
    <3> QED BY <1>2, <1>3, <3>1, <3>3, <3>4, <3>5 DEF IdsInv
  <2>4. EventsInv'
    <3>1. events' \in Nat /\ events' <= SeedEvents + WarmupEvents
      BY <1>1, <1>3
    <3> QED BY <1>1, <1>2, <3>1 DEF WInv, BatchInv, EventsInv
  <2>5. BaseInv'
    BY <1>2 DEF WInv, BatchInv, BaseInv
  <2> QED BY <2>1, <2>2, <2>3, <2>4, <2>5 DEF BatchInv
<1>5. ShadowInv'
  BY <1>1, <1>2 DEF WInv, ShadowInv
<1> QED BY <1>2, <1>4, <1>5 DEF WInv

\* The best level of the other side survives apply_matching_attribution(), and
\* so does every level behind it.
LEMMA MatchedShadowCovers ==
    ASSUME EngineInv, pc = "match", ~CanMatch, CallInv,
           NEW o, o.type = call.op, o.side = call.side, o.price = call.price,
           NEW t, \A i \in Bits : fifo[<<oppo_side, i>>] # <<>> => i \in Live(t, oppo_side),
           NEW sh \in [Side -> SUBSET Bits],
           \A s \in Side : Active(book[s].active_tree) \subseteq sh[s],
           NEW m, m = MatchedShadow(sh, t, o)
    PROVE  /\ m \in [Side -> SUBSET Bits]
           /\ \A s \in Side : Active(book[s].active_tree) \subseteq m[s]
<1> DEFINE s == oppo_side
           b == oppo_book.best_price_idx_
           Crosses(i) == o.type # "market" =>
                            IF o.side = "Buy" THEN o.price >= price_of(i) ELSE o.price <= price_of(i)
           Behind(i) == {j \in sh[s] \cap Live(t, s) : ~better_idx(IsAskSide(s), i, j)}
           left == sh[s] \ {i \in sh[s] : Crosses(i) /\ Behind(i) = {}}
<1>1. /\ call.side \in Side /\ s \in Side /\ IsAskSide(s) \in BOOLEAN /\ Opposite(o.side) = s
      /\ quantity \in Nat
  BY SideFacts DEF CallInv, CallTypeOK, oppo_side
<1>2. m = [sh EXCEPT ![s] = left]
  BY <1>1 DEF MatchedShadow
<1>3. ASSUME NEW i \in Active(book[s].active_tree) PROVE ~(Crosses(i) /\ Behind(i) = {})
  <2>1. SUFFICES ASSUME Crosses(i), Behind(i) = {} PROVE FALSE
    OBVIOUS
  <2>2. /\ oppo_book \in SideBook /\ oppo_book = book[s] /\ Sound(IsAskSide(s), oppo_book)
    BY <1>1 DEF EngineInv, IInv, StoreInv, StoreTypeOK, SidesSound, oppo_book
  <2>3. /\ oppo_book.has_best_ /\ b \in Active(book[s].active_tree) /\ b \in Bits
        /\ ~better_idx(IsAskSide(s), i, b)
    BY <2>2 DEF Sound, BestIsExtremal, SideBook
  <2>4. i \in Bits /\ i \in Int /\ b \in Int
    BY <1>1, <2>3, LevelFacts
  <2>5. quantity = 0 => b \in Live(t, s)
    <3>1. SUFFICES ASSUME quantity = 0 PROVE b \in Live(t, s)
      OBVIOUS
    <3>2. ~empty(links, <<s, b>>)
      BY <2>3, <3>1 DEF EngineInv, MakerInv, best_level
    <3>3. fifo[<<s, b>>] # <<>>
      BY <1>1, <2>3, <3>2, StoredIs, OccupiedExact DEF EngineInv, IInv
    <3> QED BY <2>3, <3>3
  <2>6. quantity # 0
    BY <1>1, <2>1, <2>3, <2>5
  <2>7. call.op # "market" /\ ~can_cross
    BY <1>1, <2>3, <2>6 DEF CanMatch
  <2>8. call.price \in Int
    BY <2>7, LevelFacts DEF CallInv, CallArgs
  <2>9. CASE call.side = "Buy"
    <3>1. IsAskSide(s) /\ ~(call.price >= best_price) /\ call.price >= price_of(i)
      BY <2>1, <2>7, <2>9 DEF oppo_side, Opposite, IsAskSide, can_cross
    <3>2. ~(i < b)
      BY <2>3, <3>1 DEF better_idx
    <3> QED BY <2>4, <2>8, <3>1, <3>2, BasePriceAssumption DEF best_price, price_of
  <2>10. CASE call.side = "Sell"
    <3>1. ~IsAskSide(s) /\ ~(call.price <= best_price) /\ call.price <= price_of(i)
      BY <2>1, <2>7, <2>10 DEF oppo_side, Opposite, IsAskSide, can_cross
    <3>2. ~(i > b)
      BY <2>3, <3>1 DEF better_idx
    <3> QED BY <2>4, <2>8, <3>1, <3>2, BasePriceAssumption DEF best_price, price_of
  <2> QED BY <1>1, <2>9, <2>10 DEF Side
<1>4. Active(book[s].active_tree) \subseteq left /\ left \in SUBSET Bits
  BY <1>1, <1>3
<1> HIDE DEF left
<1> QED BY <1>1, <1>2, <1>4

\* No bit of the engine's trees is missing after the operation either.
LEMMA ResultShadowCovers ==
    ASSUME WInv, SettingUp, rebuild = {}, op # NoOp, ReturnFacts, Follows(track', order', fifo'),
           \A s \in Side : Active(book[s].active_tree) \subseteq shadow[s],
           shadow' = ShadowResult(shadow, track', op, out')
    PROVE  /\ shadow' \in [Side -> SUBSET Bits]
           /\ \A s \in Side : Active(book'[s].active_tree) \subseteq shadow'[s]
<1> DEFINE m == MatchedShadow(shadow, track', op)
<1>1. /\ IInv /\ StoreInv /\ CallInv /\ EngineInv /\ EngineInv' /\ pc = "match" /\ ~CanMatch
      /\ op.type = call.op /\ op.side = call.side /\ op.price = call.price /\ call.side \in Side
      /\ oppo_side \in Side /\ shadow \in [Side -> SUBSET Bits]
  BY SideFacts DEF WInv, EngineInv, CallsInv, IInv, CallInv, CallTypeOK, oppo_side, ShadowInv,
                   ReturnFacts
<1>2. ASSUME NEW i \in Bits, fifo[<<oppo_side, i>>] # <<>> PROVE i \in Live(track', oppo_side)
  <2> DEFINE l == <<oppo_side, i>>
  <2>1. l \in Levels /\ fifo[l] \in Seq(Handles) /\ fifo[l] # <<>>
    BY <1>1, <1>2, LevelFacts DEF StoreInv, StoreTypeOK
  <2>2. ToSet(fifo[l]) # {}
    BY <2>1, TailIsRemoveAt, ToSetOfSeq
  <2>3. ToSet(fifo[l]) \subseteq ToSet(fifo'[l])
    <3>1. CASE UNCHANGED <<fifo, order>>
      BY <3>1
    <3>2. CASE \E h \in Handles : Remains(op, quantity, h)
      <4>1. PICK h \in Handles, k \in Levels : Joins(fifo, fifo', order, order', k, h)
        BY <3>2 DEF Remains
      <4> QED BY <2>1, <4>1 DEF Joins
    <3> QED BY <3>1, <3>2 DEF ReturnFacts, Unrested
  <2>4. \A k \in Levels : ToSet(fifo'[k]) \subseteq Handles
    <3>1. StoreInv'
      BY <1>1 DEF EngineInv, IInv
    <3>2. StoreInv' => \A k \in Levels : ToSet(fifo'[k]) \subseteq Handles
      BY StoredIsNext, ToSetOfSeq DEF Stored
    <3> QED BY <3>1, <3>2
  <2>5. ToSet(fifo'[l]) # {}
    BY <2>2, <2>3
  <2> QED BY <1>1, <2>4, <2>5, LiveLevels
<1>3. /\ m \in [Side -> SUBSET Bits]
      /\ \A s \in Side : Active(book[s].active_tree) \subseteq m[s]
  BY <1>1, <1>2, MatchedShadowCovers
<1>4. shadow' = IF op.type # "market" /\ out'.code = "Success" /\ out'.remaining_quantity > 0
                THEN [m EXCEPT ![op.side] = m[op.side] \cup {idx_of(op.price)}]
                ELSE m
  BY DEF ShadowResult
<1> HIDE DEF m
<1>5. CASE ReturnUnrested /\ Unrested(op)
  <2>1. shadow' = m /\ book' = book
    BY <1>4, <1>5 DEF Unrested, ReturnUnrested
  <2> QED BY <1>3, <2>1
<1>6. CASE RestRemainder /\ \E h \in Handles : Remains(op, quantity, h)
  <2> DEFINE idx == idx_of(call.price)
             c   == GetOrCreate(IsAskSide(call.side), book[call.side], idx)
  <2>1. op.type # "market" /\ out'.code = "Success" /\ out'.remaining_quantity > 0
        /\ op.price \in Prices
    BY <1>6 DEF Remains
  <2>2. idx \in Bits /\ shadow' = [m EXCEPT ![call.side] = m[call.side] \cup {idx}]
    BY <1>1, <1>4, <2>1, LevelFacts
  <2>3. book' = [book EXCEPT ![call.side] = c] /\ book \in [Side -> SideBook]
    BY <1>1, <1>6 DEF RestRemainder, StoreInv, StoreTypeOK
  <2>4. Active(c.active_tree) = Active(book[call.side].active_tree) \cup {idx}
    <3>1. /\ IsAskSide(call.side) \in BOOLEAN /\ book[call.side] \in SideBook
          /\ Sound(IsAskSide(call.side), book[call.side])
      BY <1>1, SideFacts DEF StoreInv, StoreTypeOK, SidesSound
    <3> QED BY <2>2, <3>1, GetOrCreateSound
  <2> HIDE DEF c, idx
  <2>5. shadow' \in [Side -> SUBSET Bits]
    BY <1>1, <1>3, <2>2
  <2>6. ASSUME NEW s \in Side PROVE Active(book'[s].active_tree) \subseteq shadow'[s]
    <3>1. CASE s = call.side
      BY <1>1, <1>3, <2>2, <2>3, <2>4, <3>1
    <3>2. CASE s # call.side
      BY <1>3, <2>2, <2>3, <3>2
    <3> QED BY <3>1, <3>2
  <2> QED BY <2>5, <2>6
<1> QED BY <1>5, <1>6 DEF ReturnFacts

LEMMA GenerateReturnedKeeps == ASSUME WInv, GenerateReturned PROVE WInv'
<1> DEFINE e == Recorded(op, Scenario(track, op, out'), out')
<1>1. /\ stage = "generate" /\ SettingUp /\ rebuild = {} /\ Returned
      /\ track' = TrackResult(track, op, out') /\ shadow' = ShadowResult(shadow, track', op, out')
      /\ UNCHANGED <<phaseVars, id_counter_>>
      /\ UNCHANGED <<events, cluster_queue_, cluster, pregen_queue_>>
      /\ pending_' = Append(pending_, e)
  BY DEF GenerateReturned, SettingUp
<1> HIDE DEF e
<1>2. /\ ReturnFacts /\ EngineInv' /\ RebuildInv' /\ TrackingInv'
      /\ op # NoOp /\ op' = NoOp /\ pc' = "idle" /\ Follows(track', order', fifo')
      /\ UNCHANGED <<stage, rebuild, base>> /\ DOMAIN track'.orders \subseteq Ids
  BY <1>1, ReturnKeeps
<1>3. IsSeq(pending_') /\ Len(pending_') = Len(pending_) + 1 /\ Len(pending_) \in Nat
  BY <1>1, AppendIsSeq DEF WInv, BatchInv, QueuesInv
<1>4. /\ id_counter_ \in Nat \ {0} /\ SeedEvents \in Nat /\ WarmupEvents \in Nat
      /\ Len(pending_) < batch_size /\ batch_size \in Nat /\ cluster = NoCluster
  BY <1>1, <1>2, WorkloadAssumption DEF WInv, BatchInv, EventsInv, IdsInv, PhaseInv
<1>5. BatchInv'
  <2>1. PhaseInv'
    BY <1>1, <1>2, <1>4 DEF WInv, BatchInv, PhaseInv
  <2>2. QueuesInv'
    BY <1>1, <1>3 DEF WInv, BatchInv, QueuesInv, IsSeq
  <2>3. IdsInv'
    <3>1. id_counter_' = id_counter_ /\ Ids' = Ids /\ stage' = "generate"
      BY <1>1, <1>2 DEF Ids
    <3>2. id_counter_ <= SeedEvents + WarmupEvents + Len(pending_) + 1 + 1
      BY <1>1, <1>2 DEF WInv, BatchInv, IdsInv
    <3>3. id_counter_' <= SeedEvents + WarmupEvents + Len(pending_') + 1 + 0
      BY <1>3, <1>4, <3>1, <3>2
    <3>4. DOMAIN track'.orders \subseteq Ids' /\ DOMAIN base' \subseteq Ids'
      BY <1>2, <3>1 DEF WInv, BatchInv, IdsInv
    <3> QED BY <1>2, <1>4, <3>1, <3>3, <3>4 DEF IdsInv
  <2>4. EventsInv'
    <3>1. Len(pending_') <= batch_size
      BY <1>3, <1>4
    <3> QED BY <1>1, <1>2, <3>1 DEF WInv, BatchInv, EventsInv
  <2>5. BaseInv'
    BY <1>2 DEF WInv, BatchInv, BaseInv
  <2> QED BY <2>1, <2>2, <2>3, <2>4, <2>5 DEF BatchInv
<1>6. ShadowInv'
  <2>1. \A s \in Side : Active(book[s].active_tree) \subseteq shadow[s]
    BY <1>1 DEF WInv, ShadowInv
  <2>2. /\ shadow' \in [Side -> SUBSET Bits]
        /\ \A s \in Side : Active(book'[s].active_tree) \subseteq shadow'[s]
    BY <1>1, <1>2, <2>1, ResultShadowCovers
  <2>3. rebuild' = {}
    BY <1>1, <1>2
  <2> QED BY <2>2, <2>3 DEF ShadowInv
<1> QED BY <1>2, <1>5, <1>6 DEF WInv

-----------------------------------------------------------------------------
(***************************************************************************)
(* A new book, and the base orders added to it.                            *)
(***************************************************************************)
LEMMA NewBookFacts ==
    ASSUME EngineInv, op = NoOp, NewBook, UNCHANGED op
    PROVE  /\ EngineInv' /\ RestingIds' = {} /\ Listed(fifo') = {}
           /\ \A l \in Levels : ToSet(fifo'[l]) = {}
           /\ \A s \in Side : Active(book'[s].active_tree) = {}
<1>1. EmptyStore' /\ UNCHANGED <<pc, call, quantity, out, op>> /\ pc = "idle"
  BY DEF NewBook, EmptyStore, EngineInv, CallsInv
<1>2. StoreInv' /\ Listed(fifo') = {} /\ \A l \in Levels : fifo'[l] = <<>>
  <2>1. EmptyStore' => (StoreInv /\ Listed(fifo) = {} /\ \A l \in Levels : fifo[l] = <<>>)'
    BY EmptyStoreInv, PTL
  <2> QED BY <1>1, <2>1 DEF Listed
<1>3. CallInv'
  <2>1. CallTypeOK'
    BY <1>1 DEF EngineInv, IInv, CallInv, CallTypeOK
  <2>2. CallArgs' /\ ErasesEmptyBest' /\ ModifyHasSlot' /\ ModifyNeverExhausts'
    BY <1>1 DEF CallArgs, ErasesEmptyBest, ModifyHasSlot, ModifyNeverExhausts
  <2> QED BY <2>1, <2>2 DEF CallInv
<1>4. CallsInv' /\ FreshInv' /\ MakerInv'
  BY <1>1 DEF EngineInv, CallsInv, FreshInv, MakerInv
<1>5. RestingIds' = {}
  BY <1>2, RestingIsNext DEF IdsIn
<1>6. \A l \in Levels : ToSet(fifo'[l]) = {}
  BY <1>2 DEF ToSet
<1>7. \A s \in Side : Active(book'[s].active_tree) = {}
  <2>1. \A s \in Side : book'[s] = EmptyBook /\ Sound(IsAskSide(s), book'[s])
    BY <1>1, <1>2 DEF EmptyStore, StoreInv, SidesSound
  <2>2. ~EmptyBook.has_best_
    BY DEF EmptyBook
  <2> QED BY <2>1, <2>2 DEF Sound, BestIsExtremal
<1> QED BY <1>2, <1>3, <1>4, <1>5, <1>6, <1>7 DEF EngineInv, IInv

\* The tracked orders are a book that is not crossed, as the engine's is.
LEMMA TrackedApart ==
    ASSUME StoreInv, Follows(track, order, fifo),
           NEW i \in DOMAIN track.orders, NEW j \in DOMAIN track.orders,
           track.orders[i].side = "Buy", track.orders[j].side = "Sell"
    PROVE  track.orders[i].price < track.orders[j].price
<1>1. \A id \in DOMAIN track.orders : \E l \in Levels :
          /\ track.orders[id].side = l[1] /\ track.orders[id].price = price_of(l[2])
          /\ fifo[l] # <<>>
  <2>1. TAKE id \in DOMAIN track.orders
  <2>2. PICK l \in Levels : \E h \in ToSet(fifo[l]) : order[h].id = id
    BY DEF Follows, Names, IdsIn, Listed
  <2>3. PICK h \in ToSet(fifo[l]) : order[h].id = id
    BY <2>2
  <2>4. track.orders[id] = [side |-> l[1], price |-> price_of(l[2]), qty |-> order[h].quantity]
    BY <2>3 DEF Follows, Names
  <2>5. fifo[l] # <<>>
    <3>1. ToSet(<<>>) = {}
      BY DEF ToSet
    <3> QED BY <2>3, <3>1
  <2> QED BY <2>4, <2>5
<1>2. PICK l \in Levels : /\ track.orders[i].side = l[1] /\ track.orders[i].price = price_of(l[2])
                          /\ fifo[l] # <<>>
  BY <1>1
<1>3. PICK m \in Levels : /\ track.orders[j].side = m[1] /\ track.orders[j].price = price_of(m[2])
                          /\ fifo[m] # <<>>
  BY <1>1
<1>4. /\ l = <<"Buy", l[2]>> /\ m = <<"Sell", m[2]>> /\ l[2] \in Bits /\ m[2] \in Bits
      /\ l[2] \in Int /\ m[2] \in Int
  BY <1>2, <1>3, LevelFacts
<1>5. l[2] < m[2]
  BY <1>2, <1>3, <1>4 DEF StoreInv, SidesApart
<1> QED BY <1>2, <1>3, <1>4, <1>5, BasePriceAssumption DEF price_of

LEMMA EndWarmupKeeps == ASSUME WInv, EndWarmup PROVE WInv'
<1>1. /\ stage = "warmup" /\ SettingUp /\ op = NoOp /\ rebuild = {} /\ cluster = NoCluster
      /\ events = SeedEvents + WarmupEvents /\ base' = track.orders /\ NewBook
      /\ shadow' = [s \in Side |-> Live(track, s)]
      /\ stage' = "generate" /\ events' = 0 /\ rebuild' = DOMAIN track.orders
      /\ track' = [track EXCEPT !.orders = track.orders, !.handles = <<>>]
      /\ UNCHANGED <<op, id_counter_, cluster_queue_, cluster, pregen_queue_, pending_>>
  BY DEF EndWarmup, Between, SettingUp, EnterStage, batchVars
<1>2. Follows(track, order, fifo) /\ TrackOK(track) /\ Counted(track)
  BY <1>1, BetweenFollows DEF Follows
<1>3. /\ EngineInv' /\ RestingIds' = {} /\ Listed(fifo') = {}
      /\ \A l \in Levels : ToSet(fifo'[l]) = {}
      /\ \A s \in Side : Active(book'[s].active_tree) = {}
  BY <1>1, NewBookFacts DEF WInv
<1>4. /\ track' = [orders |-> track.orders, handles |-> <<>>, counts |-> track.counts]
      /\ track'.orders = track.orders /\ track'.handles = <<>> /\ track'.counts = track.counts
      /\ DOMAIN track'.handles = {}
  <2>1. DOMAIN <<>> = {}
    OBVIOUS
  <2>2. track' = [orders |-> track.orders, handles |-> <<>>, counts |-> track.counts]
    BY <1>1, <1>2 DEF TrackOK
  <2> QED BY <2>1, <2>2
<1>5. TrackOK(track') /\ Counted(track')
  <2>1. track'.handles \in [DOMAIN track'.handles -> HandleInfo]
    BY <1>4
  <2>2. TrackOK(track')
    BY <1>2, <1>4, <2>1 DEF TrackOK
  <2>3. \A s \in Side, p \in Prices : OrdersAt(track', s, p) = OrdersAt(track, s, p)
    BY <1>4 DEF OrdersAt
  <2> QED BY <1>2, <1>4, <2>2, <2>3 DEF Counted
<1>6. Names(track', order', fifo')
  BY <1>3, <1>4 DEF Names, IdsIn
<1>7. BatchInv'
  <2>0. pending_ = <<>> /\ pregen_queue_ = <<>> /\ Len(pending_) = 0
    BY <1>1 DEF WInv, BatchInv, PhaseInv
  <2>1. PhaseInv'
    BY <1>1, <2>0 DEF PhaseInv
  <2>2. QueuesInv'
    BY <1>1 DEF WInv, BatchInv, QueuesInv, IsSeq
  <2>3. IdsInv'
    <3>1. /\ id_counter_ \in Nat \ {0} /\ SeedEvents \in Nat /\ WarmupEvents \in Nat
          /\ id_counter_ <= SeedEvents + WarmupEvents + 1 + 0
      BY <1>1, WorkloadAssumption DEF WInv, BatchInv, IdsInv
    <3>2. id_counter_' <= SeedEvents + WarmupEvents + Len(pending_') + 1 + 0
      BY <1>1, <2>0, <3>1
    <3>3. DOMAIN track'.orders \subseteq Ids' /\ DOMAIN base' \subseteq Ids'
      BY <1>1, <1>4 DEF WInv, BatchInv, IdsInv, Ids
    <3> QED BY <1>1, <3>1, <3>2, <3>3 DEF IdsInv
  <2>4. EventsInv'
    BY <1>1, <2>0, WorkloadAssumption DEF EventsInv
  <2>5. BaseInv'
    <3>1. \A i, j \in DOMAIN track.orders :
            track.orders[i].side = "Buy" /\ track.orders[j].side = "Sell"
              => track.orders[i].price < track.orders[j].price
      BY <1>2, TrackedApart DEF WInv, EngineInv, IInv
    <3> QED BY <1>1, <1>2, <3>1 DEF BaseInv, TrackOK
  <2> QED BY <2>1, <2>2, <2>3, <2>4, <2>5 DEF BatchInv
<1>8. RebuildInv'
  BY <1>1, <1>4, <1>6 DEF RebuildInv
<1>9. TrackingInv'
  <2>1. rebuild' = {} => Follows(track', order', fifo')
    BY <1>1, <1>4, <1>5, <1>6 DEF Follows
  <2>2. Believed' = track'
    BY <1>1 DEF Believed
  <2> QED BY <1>3, <1>5, <2>1, <2>2 DEF TrackingInv
<1>10. ShadowInv'
  <2>1. \A s \in Side : Live(track', s) = Live(track, s)
    BY <1>4 DEF Live, Tracked
  <2>2. \A s \in Side : Live(track, s) \subseteq Bits
    BY LevelFacts DEF Live, Tracked
  <2>3. shadow' \in [Side -> SUBSET Bits] /\ \A s \in Side : shadow'[s] = Live(track', s)
    BY <1>1, <2>1, <2>2
  <2> QED BY <1>3, <2>3 DEF ShadowInv
<1> QED BY <1>3, <1>7, <1>8, <1>9, <1>10 DEF WInv

LEMMA ReaddKeeps == ASSUME WInv, Readd PROVE WInv'
<1> DEFINE id == Min(rebuild)
           o  == ReaddOp(id)
<1>1. /\ rebuild # {} /\ op = NoOp /\ track.orders = base
      /\ DOMAIN track.handles = DOMAIN base \ rebuild /\ Names(track, order, fifo)
  BY DEF Readd, WInv, RebuildInv
<1>2. id \in rebuild /\ id \in DOMAIN base /\ id \in OrderId /\ id \in Ids
  <2>1. rebuild \in SUBSET Nat /\ rebuild \subseteq DOMAIN base
    BY DEF WInv, BatchInv, IdsInv, BaseInv, Ids
  <2> QED BY <1>1, <2>1, MinIsLeast DEF WInv, BatchInv, BaseInv, IdsInv
<1>3. /\ Issue(o) /\ UNCHANGED <<stage, rebuild, base, events, track, id_counter_, cluster_queue_>>
      /\ UNCHANGED <<cluster, pregen_queue_, pending_, shadow>>
  BY <1>1 DEF Readd, ReaddOp, phaseVars, batchVars
<1>4. base[id] \in OrderInfo
  BY <1>2 DEF WInv, BatchInv, BaseInv
<1>5. /\ o.type = "limit" /\ o.id = id /\ o.id \in OrderId /\ o.side \in Side /\ o.price \in Prices
      /\ o.qty \in Nat \ {0}
  BY <1>2, <1>4 DEF ReaddOp, OrderInfo
<1>6. o = ReaddOp(Min(rebuild))
  OBVIOUS
<1> HIDE DEF o
<1>7. Started(o) /\ UNCHANGED <<links, fifo, free>>
  BY <1>3, <1>5, IssueLimit DEF WInv, EngineInv
<1>8. UNCHANGED <<order, fifo, book>> /\ op' = o /\ o # NoOp
  BY <1>7 DEF Started
<1>9. id \notin RestingIds'
  <2>1. RestingIds' = RestingIds
    BY <1>8 DEF RestingIds, Resting
  <2>2. RestingIds = DOMAIN track.handles
    BY <1>1, RestingIs DEF Names
  <2> QED BY <1>1, <1>2, <2>1, <2>2
<1>10. EngineInv'
  <2>1. CallsInv'
    BY <1>7 DEF Started, CallsInv, CallOp
  <2>2. FreshInv' /\ MakerInv'
    BY <1>5, <1>7, <1>9 DEF Started, FreshInv, MakerInv
  <2> QED BY <1>7, <2>1, <2>2 DEF Started, EngineInv
<1>11. BatchInv'
  <2>1. PhaseInv'
    BY <1>1, <1>3 DEF WInv, BatchInv, PhaseInv
  <2>2. QueuesInv'
    BY <1>3 DEF WInv, BatchInv, QueuesInv, IsSeq
  <2>3. IdsInv'
    <3>1. op'.id \in Ids' /\ Ids' = Ids
      BY <1>2, <1>3, <1>5, <1>8 DEF Ids
    <3>2. stage # "warmup"
      BY <1>1 DEF WInv, BatchInv, PhaseInv
    <3> QED BY <1>1, <1>3, <3>1, <3>2 DEF WInv, BatchInv, IdsInv
  <2>4. EventsInv'
    <3>1. stage # "warmup"
      BY <1>1 DEF WInv, BatchInv, PhaseInv
    <3> QED BY <1>1, <1>3, <3>1 DEF WInv, BatchInv, EventsInv
  <2>5. BaseInv'
    BY <1>3 DEF WInv, BatchInv, BaseInv
  <2> QED BY <2>1, <2>2, <2>3, <2>4, <2>5 DEF BatchInv
<1>12. RebuildInv'
  <2>1. Names(track', order', fifo')
    BY <1>1, <1>3, <1>8 DEF Names, IdsIn, Listed
  <2>2. op' = ReaddOp(Min(rebuild))' /\ out'.trades = <<>> /\ quantity' = op'.qty
    BY <1>3, <1>6, <1>7, <1>8 DEF Started, ReaddOp
  <2> QED BY <1>1, <1>3, <2>1, <2>2 DEF RebuildInv
<1>13. TrackingInv'
  BY <1>1, <1>3 DEF WInv, TrackingInv, SettingUp
<1>14. ShadowInv'
  BY <1>3, <1>8 DEF WInv, ShadowInv
<1> QED BY <1>10, <1>11, <1>12, <1>13, <1>14 DEF WInv

LEMMA ReaddedKeeps == ASSUME WInv, Readded PROVE WInv'
<1> DEFINE id == op.id
<1>1. /\ rebuild # {} /\ Returned /\ op # NoOp /\ op' = NoOp /\ rebuild' = rebuild \ {id}
      /\ UNCHANGED <<stage, events, base, id_counter_, cluster_queue_, cluster, pregen_queue_>>
      /\ UNCHANGED <<pending_, shadow>>
  BY DEF Readded, Returned, batchVars
<1>2. ReturnFacts
  BY <1>1, ReturnedFacts DEF WInv
<1>3. /\ ~ReturnUnrested /\ op = ReaddOp(Min(rebuild)) /\ Min(rebuild) \in rebuild
      /\ Min(rebuild) \in DOMAIN base /\ EngineInv' /\ RestRemainder
  BY <1>1, <1>2, RebuildNeverTrades DEF ReturnFacts
<1>4. id = Min(rebuild) /\ id \in rebuild /\ id \in DOMAIN base
      /\ op.side = base[id].side /\ op.price = base[id].price /\ op.qty = base[id].qty
  BY <1>3 DEF ReaddOp
<1>5. /\ track.orders = base /\ Names(track, order, fifo)
      /\ DOMAIN track.handles = DOMAIN base \ rebuild /\ quantity = base[id].qty
  BY <1>1, <1>4 DEF WInv, RebuildInv
<1>6. base[id] \in OrderInfo /\ rebuild \subseteq DOMAIN base
  BY <1>4 DEF WInv, BatchInv, BaseInv
<1>7. PICK h \in Handles : Remains(op, quantity, h)
  BY <1>2, <1>3 DEF ReturnFacts
<1>8. PICK l \in Levels :
        /\ l = <<op.side, idx_of(op.price)>> /\ l[1] = op.side /\ price_of(l[2]) = op.price
        /\ Joins(fifo, fifo', order, order', l, h)
        /\ order'[h] = [id |-> op.id, price |-> op.price, quantity |-> quantity]
  BY <1>7 DEF Remains
<1> DEFINE x == [handle |-> h, qty |-> quantity]
<1>9. track' = [track EXCEPT !.handles = Remember(track.handles, id, x)]
  <2>1. out'.handle = h /\ out'.code = "Success" /\ out'.remaining_quantity = quantity
        /\ quantity \in Nat \ {0}
    BY <1>7 DEF Remains
  <2> QED BY <2>1 DEF Readded
<1>10. /\ TrackOK(track) /\ x \in HandleInfo
       /\ track' = [orders |-> base, handles |-> Remember(track.handles, id, x),
                    counts |-> track.counts]
  <2>1. TrackOK(track)
    BY DEF WInv, TrackingInv
  <2>2. x \in HandleInfo
    BY <1>7 DEF Remains, HandleInfo
  <2> HIDE DEF x
  <2> QED BY <1>5, <1>9, <2>1, <2>2 DEF TrackOK
<1>11. /\ track'.orders = base /\ track'.counts = track.counts
       /\ DOMAIN track'.handles = DOMAIN track.handles \cup {id} /\ track'.handles[id] = x
       /\ \A i \in DOMAIN track.handles : i # id => track'.handles[i] = track.handles[i]
       /\ track'.handles \in [DOMAIN track'.handles -> HandleInfo]
  <2>1. track'.handles = [i \in DOMAIN track.handles \cup {id} |->
                             IF i = id THEN x ELSE track.handles[i]]
    BY <1>10 DEF Remember
  <2> HIDE DEF x, id
  <2> QED BY <1>10, <2>1 DEF TrackOK
<1> HIDE DEF x, id
<1>12. Names(track', order', fifo')
  <2>1. id \notin IdsIn(order, fifo)
    <3>1. pc # "idle" /\ call.id = op.id
      BY <1>2 DEF ReturnFacts, WInv, EngineInv, CallsInv
    <3> QED BY <1>1, <3>1, RestingIs DEF WInv, EngineInv, FreshInv, id
  <2>2. SameBut(track, track', id)
    BY <1>5, <1>11 DEF SameBut
  <2>3. DOMAIN track'.handles \subseteq DOMAIN track'.orders
    BY <1>4, <1>5, <1>11
  <2>4. track'.orders[id] = [side |-> l[1], price |-> price_of(l[2]), qty |-> order'[h].quantity]
    BY <1>4, <1>5, <1>6, <1>8, <1>11 DEF OrderInfo
  <2>5. track'.handles[id] = [handle |-> h, qty |-> order'[h].quantity] /\ order'[h].id = id
    BY <1>8, <1>11 DEF x, id
  <2>6. /\ Joins(fifo, fifo', order, order', l, h) /\ Names(track, order, fifo)
        /\ DOMAIN track'.handles = DOMAIN track.handles \cup {id}
    BY <1>5, <1>8, <1>11
  <2> QED BY <2>1, <2>2, <2>3, <2>4, <2>5, <2>6, NamesJoins
<1>13. DOMAIN track'.handles = DOMAIN base' \ rebuild'
  BY <1>1, <1>4, <1>5, <1>11 DEF id
<1>14. BatchInv'
  <2>1. PhaseInv'
    BY <1>1 DEF WInv, BatchInv, PhaseInv
  <2>2. QueuesInv'
    BY <1>1 DEF WInv, BatchInv, QueuesInv, IsSeq
  <2>3. IdsInv'
    <3>1. stage # "warmup" /\ Ids' = Ids
      BY <1>1 DEF WInv, BatchInv, PhaseInv, Ids
    <3> QED BY <1>1, <1>11, <3>1 DEF WInv, BatchInv, IdsInv
  <2>4. EventsInv'
    <3>1. stage # "warmup"
      BY <1>1 DEF WInv, BatchInv, PhaseInv
    <3> QED BY <1>1, <3>1 DEF WInv, BatchInv, EventsInv
  <2>5. BaseInv'
    BY <1>1 DEF WInv, BatchInv, BaseInv
  <2> QED BY <2>1, <2>2, <2>3, <2>4, <2>5 DEF BatchInv
<1>15. RebuildInv'
  BY <1>1, <1>11, <1>12, <1>13 DEF RebuildInv
<1>16. TrackOK(track') /\ (SettingUp => Counted(track'))
  <2>1. TrackOK(track')
    BY <1>5, <1>10, <1>11 DEF TrackOK
  <2>2. \A s \in Side, p \in Prices : OrdersAt(track', s, p) = OrdersAt(track, s, p)
    BY <1>5, <1>11 DEF OrdersAt
  <2> QED BY <1>11, <2>1, <2>2 DEF Counted, WInv, TrackingInv
<1>17. TrackingInv'
  <2>1. Believed' = track'
    BY <1>1 DEF Believed
  <2>2. SettingUp' = SettingUp
    BY <1>1 DEF SettingUp
  <2>3. ASSUME rebuild' = {}, SettingUp
        PROVE  Follows(track', order', fifo') /\ RestingIds' \subseteq DOMAIN track'.orders
    <3>1. DOMAIN track'.orders = DOMAIN track'.handles
      BY <1>1, <1>11, <1>13, <2>3
    <3> QED BY <1>12, <1>16, <2>3, <3>1, RestingIsNext DEF Follows, Names
  <2> QED BY <1>16, <2>1, <2>2, <2>3 DEF TrackingInv
<1>18. ShadowInv'
  <2>1. ASSUME stage = "generate", NEW s \in Side
        PROVE  /\ Active(book'[s].active_tree) \subseteq shadow[s]
               /\ shadow[s] = Live(track', s)
    <3> DEFINE idx == idx_of(call.price)
               c   == GetOrCreate(IsAskSide(call.side), book[call.side], idx)
    <3>1. /\ shadow[s] = Live(track, s) /\ Active(book[s].active_tree) \subseteq shadow[s]
          /\ Live(track', s) = Live(track, s)
      BY <1>1, <1>11, <2>1 DEF WInv, ShadowInv, Live, Tracked
    <3>2. /\ call.side = op.side /\ call.price = op.price /\ op.side \in Side /\ op.price \in Prices
          /\ StoreInv
      BY <1>2, <1>7 DEF ReturnFacts, WInv, EngineInv, CallsInv, IInv, Remains
    <3>3. book' = [book EXCEPT ![call.side] = c] /\ book \in [Side -> SideBook]
      BY <1>3, <3>2 DEF RestRemainder, StoreInv, StoreTypeOK
    <3>4. idx \in Bits
      BY <3>2, LevelFacts
    <3>5. Active(c.active_tree) = Active(book[call.side].active_tree) \cup {idx}
      <4>1. /\ IsAskSide(call.side) \in BOOLEAN /\ book[call.side] \in SideBook
            /\ Sound(IsAskSide(call.side), book[call.side])
        BY <3>2, SideFacts DEF StoreInv, StoreTypeOK, SidesSound
      <4> QED BY <3>4, <4>1, GetOrCreateSound
    <3>6. track.counts[op.side][op.price] > 0
      <4>1. Counted(track) /\ TrackOK(track)
        BY <1>10, <2>1 DEF WInv, TrackingInv, SettingUp
      <4>2. OrdersAt(track, op.side, op.price) \in SUBSET DOMAIN track.orders
            /\ id \in OrdersAt(track, op.side, op.price)
        BY <1>4, <1>5 DEF OrdersAt
      <4>3. IsFiniteSet(OrdersAt(track, op.side, op.price))
        BY <4>1, <4>2, FS_Subset DEF TrackOK
      <4>4. /\ track.counts[op.side][op.price] = Cardinality(OrdersAt(track, op.side, op.price))
            /\ track.counts[op.side][op.price] \in Nat
        BY <3>2, <4>1 DEF Counted, TrackOK
      <4> QED BY <4>2, <4>3, <4>4, FS_EmptySet
    <3>7. idx \in Live(track, op.side)
      BY <3>2, <3>6 DEF Live, Tracked
    <3> HIDE DEF c, idx
    <3>8. CASE s = call.side
      BY <3>1, <3>2, <3>3, <3>5, <3>7, <3>8
    <3>9. CASE s # call.side
      BY <3>1, <3>3, <3>9
    <3> QED BY <3>1, <3>8, <3>9
  <2> QED BY <1>1, <2>1 DEF WInv, ShadowInv
<1> QED BY <1>3, <1>14, <1>15, <1>17, <1>18 DEF WInv

-----------------------------------------------------------------------------
(***************************************************************************)
(* The workload begins in the invariant, and stuttering keeps it.          *)
(***************************************************************************)
LEMMA WorkloadInitInv == WorkloadInit => WInv
<1> SUFFICES ASSUME WorkloadInit PROVE WInv
  OBVIOUS
<1>1. /\ Init /\ stage = "warmup" /\ events = 0 /\ rebuild = {} /\ op = NoOp /\ track = NoTrack
      /\ base = <<>> /\ id_counter_ = 1 /\ cluster_queue_ = <<>> /\ cluster = NoCluster
      /\ pregen_queue_ = <<>> /\ pending_ = <<>> /\ shadow = [s \in Side |-> {}]
  BY DEF WorkloadInit
<1>2. /\ DOMAIN <<>> = {} /\ IsSeq(<<>>) /\ <<>> \in Seq(OrderId) /\ Len(<<>>) = 0
      /\ IsFiniteSet({}) /\ Cardinality({}) = 0
  BY EmptySeq, FS_EmptySet DEF IsSeq
<1>3. /\ track.orders = <<>> /\ track.handles = <<>>
      /\ track.counts = [s \in Side |-> [p \in Prices |-> 0]]
      /\ track = [orders |-> track.orders, handles |-> track.handles, counts |-> track.counts]
  BY <1>1 DEF NoTrack
<1>4. Listed(fifo) = {} /\ \A l \in Levels : ToSet(fifo[l]) = {}
  <2>1. Listed(fifo) = {} /\ \A l \in Levels : fifo[l] = <<>>
    BY <1>1, EmptyStoreInv DEF Init, EmptyStore
  <2> QED BY <2>1 DEF ToSet
<1>5. EngineInv
  <2>1. IInv
    BY <1>1, InitInv
  <2> QED BY <1>1, <2>1 DEF EngineInv, CallsInv, FreshInv, MakerInv, Init
<1>6. BatchInv
  <2>1. PhaseInv /\ QueuesInv
    BY <1>1, <1>2 DEF PhaseInv, QueuesInv, NoCluster
  <2>2. IdsInv
    BY <1>1, <1>2, <1>3 DEF IdsInv, Ids
  <2>3. EventsInv
    BY <1>1, <1>2, WorkloadAssumption DEF EventsInv
  <2>4. BaseInv
    BY <1>1, <1>2 DEF BaseInv
  <2> QED BY <2>1, <2>2, <2>3, <2>4 DEF BatchInv
<1>7. RebuildInv
  BY <1>1 DEF RebuildInv
<1>8. TrackingInv
  <2>1. TrackOK(track)
    <3>1. /\ track.orders \in [DOMAIN track.orders -> OrderInfo]
          /\ track.handles \in [DOMAIN track.handles -> HandleInfo]
          /\ track.counts \in [Side -> [Prices -> Nat]]
      BY <1>2, <1>3
    <3> QED BY <1>2, <1>3, <3>1 DEF TrackOK
  <2>2. Counted(track)
    <3>1. \A s \in Side, p \in Prices : OrdersAt(track, s, p) = {}
      BY <1>2, <1>3 DEF OrdersAt
    <3>2. \A s \in Side, p \in Prices : track.counts[s][p] = 0
      BY <1>3
    <3> QED BY <1>2, <3>1, <3>2 DEF Counted
  <2>3. Follows(track, order, fifo)
    BY <1>2, <1>3, <1>4, <2>1, <2>2 DEF Follows, Names, IdsIn
  <2>4. RestingIds = {}
    BY <1>4, RestingIs DEF IdsIn
  <2>5. Believed = track
    BY <1>1 DEF Believed
  <2> QED BY <2>1, <2>2, <2>3, <2>4, <2>5 DEF TrackingInv
<1>9. ShadowInv
  BY <1>1 DEF ShadowInv
<1> QED BY <1>5, <1>6, <1>7, <1>8, <1>9 DEF WInv

LEMMA WorkloadStutterKeeps == ASSUME WInv, UNCHANGED workloadVars PROVE WInv'
<1>1. /\ UNCHANGED vars
      /\ UNCHANGED <<stage, events, rebuild, op, track, base, id_counter_, cluster_queue_>>
      /\ UNCHANGED <<cluster, pregen_queue_, pending_, shadow>>
  BY DEF workloadVars
<1>2. UNCHANGED <<order, links, book, pc, call, quantity, out, fifo, free>>
  BY <1>1 DEF vars
<1>3. EngineInv'
  <2>1. IInv'
    BY <1>1, StepInv DEF WInv, EngineInv
  <2> QED BY <1>1, <1>2, <2>1 DEF WInv, EngineInv, CallsInv, FreshInv, SettingUp, RestingIds, Resting,
                                  MakerInv, best_level, oppo_book, oppo_side
<1>4. BatchInv'
  BY <1>1, BatchSame DEF WInv, phaseVars, batchVars
<1>5. RebuildInv'
  BY <1>1, <1>2 DEF WInv, RebuildInv, Names, IdsIn, Listed, ReaddOp
<1>6. TrackingInv'
  <2>1. Believed' = Believed /\ RestingIds' = RestingIds
    BY <1>1, <1>2 DEF Believed, RestingIds, Resting
  <2> QED BY <1>1, <1>2, <2>1 DEF WInv, TrackingInv, SettingUp
<1>7. ShadowInv'
  BY <1>1, <1>2 DEF WInv, ShadowInv
<1> QED BY <1>3, <1>4, <1>5, <1>6, <1>7 DEF WInv

\* Each order of a level is counted once.
LEMMA CountIsLength ==
    ASSUME NEW t, NEW ord, NEW F, Follows(t, ord, F), NEW s \in Side, NEW i \in Bits,
           F[<<s, i>>] \in Seq(Handles), IsInjective(F[<<s, i>>])
    PROVE  t.counts[s][price_of(i)] = Len(F[<<s, i>>])
<1> DEFINE l == <<s, i>>
           q == F[l]
           p == price_of(i)
           S == OrdersAt(t, s, p)
           n == Len(q)
           b == [k \in 1 .. n |-> ord[q[k]].id]
<1>1. /\ l \in Levels /\ l[1] = s /\ l[2] = i /\ p \in Prices
      /\ n \in Nat /\ \A k \in 1 .. n : q[k] \in Handles
      /\ \A j, k \in 1 .. n : q[j] = q[k] => j = k
      /\ ToSet(q) = {q[k] : k \in 1 .. n}
  BY LevelFacts, ToSetOfSeq, LenProperties, ElementOfSeq
<1>2. ASSUME NEW k \in 1 .. n PROVE b[k] \in S /\ q[k] \in Listed(F)
  <2>1. PICK o \in Handles : o = q[k] /\ o \in ToSet(F[l])
    BY <1>1
  <2>2. /\ ord[o].id \in DOMAIN t.orders
        /\ t.orders[ord[o].id] = [side |-> l[1], price |-> price_of(l[2]), qty |-> ord[o].quantity]
    <3>1. PICK m \in Levels : m = l /\ o \in ToSet(F[m])
      BY <1>1, <2>1
    <3>2. /\ ord[o].id \in DOMAIN t.orders /\ ord[o].id \in DOMAIN t.handles
          /\ t.orders[ord[o].id] = [side |-> m[1], price |-> price_of(m[2]), qty |-> ord[o].quantity]
          /\ t.handles[ord[o].id] = [handle |-> o, qty |-> ord[o].quantity]
      BY <3>1, Known
    <3> QED BY <3>1, <3>2
  <2>3. q[k] \in Listed(F)
    BY <1>1, <2>1 DEF Listed
  <2>4. t.orders[ord[o].id].side = s /\ t.orders[ord[o].id].price = p
    BY <1>1, <2>2
  <2>5. ord[o].id \in S
    BY <2>2, <2>4 DEF OrdersAt
  <2>6. b[k] = ord[o].id
    BY <2>1
  <2> QED BY <2>3, <2>5, <2>6
<1>3. ASSUME NEW j \in 1 .. n, NEW k \in 1 .. n, b[j] = b[k] PROVE j = k
  <2>1. ord[q[j]].id = ord[q[k]].id /\ q[j] \in Listed(F) /\ q[k] \in Listed(F)
    BY <1>2, <1>3
  <2>2. Names(t, ord, F)
    BY DEF Follows
  <2>3. q[j] = q[k]
    BY <2>1, <2>2, OneHandlePerId
  <2> QED BY <1>1, <2>3
<1>4. ASSUME NEW id \in S PROVE \E k \in 1 .. n : b[k] = id
  <2>1. PICK m \in Levels : \E h \in ToSet(F[m]) : ord[h].id = id
    BY DEF OrdersAt, Follows, Names, IdsIn, Listed
  <2>2. PICK h \in ToSet(F[m]) : ord[h].id = id
    BY <2>1
  <2>3. t.orders[id] = [side |-> m[1], price |-> price_of(m[2]), qty |-> ord[h].quantity]
    BY <2>2 DEF Follows, Names
  <2>4. m[1] = s /\ price_of(m[2]) = p
    BY <2>3 DEF OrdersAt
  <2>5. m = l
    BY <1>1, <2>4, LevelFacts
  <2> QED BY <1>1, <2>2, <2>5
<1>5. b \in Bijection(1 .. n, S)
  <2>1. b \in [1 .. n -> S]
    BY <1>2
  <2>2. IsInjective(b)
    BY <1>3 DEF IsInjective
  <2> QED BY <1>4, <2>1, <2>2 DEF Bijection, Injection, Surjection
<1>6. ExistsBijection(1 .. n, S)
  BY <1>5 DEF ExistsBijection
<1> HIDE DEF n, S, b
<1>7. Cardinality(S) = n
  BY <1>1, <1>6, FS_CountingElements
<1> QED BY <1>1, <1>7 DEF Follows, Counted, S, n

-----------------------------------------------------------------------------
(***************************************************************************)
(* The engine as a function.  What it does next depends on nothing but     *)
(* what it keeps and the call in progress; a call that was made twice from *)
(* the same book ends alike.  In a rebuild the calls are part of it: left  *)
(* are the base orders still to be added, and results are nobody's.        *)
(***************************************************************************)
Store == [order |-> order, links |-> links, book |-> book, fifo |-> fifo, free |-> free]
NoOut == Result("Success", 0)

At(z, p, c, q, res, left) ==
    [store |-> z, pc |-> p, call |-> c, quantity |-> q, out |-> res, left |-> left]
Machine == At(Store, pc, call, quantity, IF pc = "idle" THEN NoOut ELSE out, rebuild)

\* Between calls, with result res.
Done(z, res) == At(z, "idle", NoCall, 0, res, {})

\* oppo_side, oppo_book, best_level, maker and CanMatch of OrderBook.
OppoOf(m)      == Opposite(m.call.side)
OppoBookOf(m)  == m.store.book[OppoOf(m)]
BestLevelOf(m) == <<OppoOf(m), OppoBookOf(m).best_price_idx_>>
MakerOf(m)     == front(m.store.links, BestLevelOf(m))
GoesOn(m) ==
    /\ m.quantity > 0
    /\ OppoBookOf(m).has_best_
    /\ m.call.op # "market" =>
         LET p == price_of(OppoBookOf(m).best_price_idx_) IN
         IF m.call.side = "Sell" THEN m.call.price <= p ELSE m.call.price >= p

OrdersAfter(m, qty) == [m.store.order EXCEPT ![MakerOf(m)].quantity = @ - qty]
OutAfter(m, qty) ==
    [m.out EXCEPT !.filled_quantity = @ + qty,
                  !.trades = Append(@, [taker |-> m.call.id,
                                        maker |-> m.store.order[MakerOf(m)].id,
                                        price |-> m.store.order[MakerOf(m)].price,
                                        quantity |-> qty])]

AfterPart(m) ==
    At([order |-> OrdersAfter(m, m.quantity), links |-> m.store.links, book |-> m.store.book,
        fifo |-> m.store.fifo, free |-> m.store.free],
       m.pc, m.call, m.quantity - m.quantity, OutAfter(m, m.quantity), m.left)

AfterAll(m) ==
    LET h   == MakerOf(m)
        l   == BestLevelOf(m)
        qty == m.store.order[h].quantity
        n   == Release(Erase(m.store.links, l, h), h) IN
    At([order |-> OrdersAfter(m, qty), links |-> n, book |-> m.store.book,
        fifo |-> [m.store.fifo EXCEPT ![l] = Tail(@)], free |-> <<h>> \o m.store.free],
       IF empty(n, l) THEN "erase" ELSE "match",
       m.call, m.quantity - qty, OutAfter(m, qty), m.left)

AfterDrop(m) ==
    LET s == OppoOf(m)
        b == [m.store.book EXCEPT ![s] = DropBest(IsAskSide(s), @)] IN
    At([order |-> m.store.order, links |-> m.store.links, book |-> b, fifo |-> m.store.fifo,
        free |-> m.store.free],
       IF b[s].has_best_ /\ empty(m.store.links, <<s, b[s].best_price_idx_>>)
       THEN "erase" ELSE "match",
       m.call, m.quantity, m.out, m.left)

Returning(m, z, res) ==
    At(z, "idle", NoCall, 0, [res EXCEPT !.remaining_quantity = m.quantity], m.left)

AfterLoop(m) ==
    Returning(m, m.store, [m.out EXCEPT !.code = IF m.quantity = 0 THEN "Success"
                                                 ELSE "MarketRemainderCancelled"])

AfterRest(m) ==
    LET h   == m.store.links.free_head_
        idx == idx_of(m.call.price)
        l   == <<m.call.side, idx>> IN
    Returning(m,
        [order |-> [m.store.order EXCEPT ![h] =
                      [id |-> m.call.id, price |-> m.call.price, quantity |-> m.quantity]],
         links |-> [PushBack(Acquire(m.store.links), l, h) EXCEPT !.parent_level[h] = l],
         book  |-> [m.store.book EXCEPT ![m.call.side] = GetOrCreate(IsAskSide(m.call.side), @, idx)],
         fifo  |-> [m.store.fifo EXCEPT ![l] = Append(@, h)],
         free  |-> Tail(m.store.free)],
        [m.out EXCEPT !.handle = h])

AfterStop(m) == At(m.store, "aborted", m.call, m.quantity, m.out, m.left)

\* One of the Steps.
StepOf(m) ==
    IF m.pc = "erase" THEN AfterDrop(m)
    ELSE IF GoesOn(m)
         THEN IF empty(m.store.links, BestLevelOf(m)) THEN AfterDrop(m)
              ELSE IF m.quantity < m.store.order[MakerOf(m)].quantity THEN AfterPart(m)
                                                                      ELSE AfterAll(m)
         ELSE IF m.quantity = 0 \/ m.call.op = "market" THEN AfterLoop(m)
         ELSE IF m.store.links.free_head_ # NULL THEN AfterRest(m)
                                                 ELSE AfterStop(m)

\* What the engine keeps once order h has left its level.
Withdrawn(z, h) ==
    LET l == z.links.parent_level[h] IN
    [order |-> z.order, links |-> Release(Erase(z.links, l, h), h), book |-> z.book,
     fifo |-> [z.fifo EXCEPT ![l] = Without(@, h)], free |-> <<h>> \o z.free]

\* The call of o is made.
CallOf(z, o, left) ==
    At(IF o.type = "modify" THEN Withdrawn(z, o.handle) ELSE z, "match",
       [op |-> o.type, id |-> o.id, side |-> o.side, price |-> o.price], o.qty,
       Result("Success", o.qty), left)

ReaddOf(B, id) == [type |-> "limit", id |-> id, side |-> B[id].side, price |-> B[id].price,
                   qty |-> B[id].qty]

\* A step, or the next call of a rebuild, or its return.
NextOf(B, m) ==
    IF m.pc = "idle" THEN CallOf(m.store, ReaddOf(B, Min(m.left)), m.left)
    ELSE LET n == StepOf(m) IN
         IF n.pc = "idle" /\ m.left # {} THEN At(n.store, "idle", NoCall, 0, NoOut, m.left \ {m.call.id})
                                         ELSE n

Halted(m) == m.pc = "idle" /\ m.left = {}

\* b is reached from a.
Leads(B, a, b) ==
    \A S : a \in S /\ (\A m \in S : ~Halted(m) => NextOf(B, m) \in S) => b \in S

LEMMA LeadsSelf == ASSUME NEW B, NEW a PROVE Leads(B, a, a)
BY DEF Leads

LEMMA LeadsOn ==
    ASSUME NEW B, NEW a, NEW b, Leads(B, a, b), ~Halted(b), NEW c, c = NextOf(B, b)
    PROVE  Leads(B, a, c)
BY DEF Leads

LEMMA LeadsFrom ==
    ASSUME NEW B, NEW a, NEW b, Leads(B, a, b), ~Halted(a), Halted(b), NEW c, c = NextOf(B, a)
    PROVE  Leads(B, c, b)
<1>1. ASSUME NEW S, c \in S, \A m \in S : ~Halted(m) => NextOf(B, m) \in S
      PROVE  b \in S
  <2> DEFINE T == S \cup {a}
  <2>1. a \in T /\ \A m \in T : ~Halted(m) => NextOf(B, m) \in T
    BY <1>1
  <2>2. b \in T
    BY <2>1 DEF Leads
  <2> QED BY <2>2
<1> QED BY <1>1 DEF Leads

LEMMA LeadsEnd == ASSUME NEW B, NEW a, NEW b, Leads(B, a, b), Halted(a) PROVE b = a
<1>1. a \in {a} /\ \A m \in {a} : ~Halted(m) => NextOf(B, m) \in {a}
  OBVIOUS
<1>2. b \in {a}
  BY <1>1 DEF Leads
<1> QED BY <1>2

-----------------------------------------------------------------------------
(***************************************************************************)
(* The steps of the engine are those of the function.                      *)
(***************************************************************************)
Now(L)  == At(Store, pc, call, quantity, out, L)
Then(L) == At(Store', pc', call', quantity', out', L)

LEMMA AtFacts ==
    ASSUME NEW z, NEW p, NEW c, NEW q, NEW res, NEW left, NEW m, m = At(z, p, c, q, res, left)
    PROVE  /\ m.store = z /\ m.pc = p /\ m.call = c /\ m.quantity = q /\ m.out = res
           /\ m.left = left
BY DEF At

\* m is the engine, with the orders of L to come.
Reads(m, L) ==
    /\ m.store.order = order /\ m.store.links = links /\ m.store.book = book
    /\ m.store.fifo = fifo /\ m.store.free = free
    /\ m.pc = pc /\ m.call = call /\ m.quantity = quantity /\ m.out = out
    /\ m.left = L /\ m.store = Store
    /\ OppoOf(m) = oppo_side /\ OppoBookOf(m) = oppo_book /\ BestLevelOf(m) = best_level
    /\ MakerOf(m) = maker /\ (GoesOn(m) <=> CanMatch)

LEMMA NowFacts ==
    ASSUME NEW L, NEW m, m = Now(L)
    PROVE  Reads(m, L)
<1>1. /\ m.store.order = order /\ m.store.links = links /\ m.store.book = book
      /\ m.store.fifo = fifo /\ m.store.free = free
      /\ m.pc = pc /\ m.call = call /\ m.quantity = quantity /\ m.out = out
      /\ m.left = L /\ m.store = Store
  BY DEF Now, At, Store
<1>2. OppoOf(m) = oppo_side
  BY <1>1 DEF OppoOf, oppo_side
<1>3. OppoBookOf(m) = oppo_book
  BY <1>1, <1>2 DEF OppoBookOf, oppo_book
<1>4. BestLevelOf(m) = best_level
  BY <1>2, <1>3 DEF BestLevelOf, best_level
<1>5. MakerOf(m) = maker
  BY <1>1, <1>4 DEF MakerOf, maker
<1>6. GoesOn(m) <=> CanMatch
  BY <1>1, <1>3 DEF GoesOn, CanMatch, can_cross, best_price
<1> QED BY <1>1, <1>2, <1>3, <1>4, <1>5, <1>6 DEF Reads

LEMMA NowIs ==
    ASSUME NEW z, z = [order |-> order', links |-> links', book |-> book', fifo |-> fifo',
                       free |-> free'],
           NEW p, p = pc', NEW c, c = call', NEW q, q = quantity', NEW res, res = out', NEW L
    PROVE  Then(L) = At(z, p, c, q, res, L)
BY DEF Then, Store

LEMMA PartIs ==
    ASSUME FillPart, NEW L, NEW m, m = Now(L) PROVE Then(L) = AfterPart(m)
<1>0. Reads(m, L)
  BY NowFacts
<1>1. /\ pc = "match"
      /\ order' = [order EXCEPT ![maker].quantity = @ - quantity]
      /\ quantity' = quantity - quantity
      /\ out' = [out EXCEPT !.filled_quantity = @ + quantity,
                            !.trades = Append(@, Trade(quantity))]
      /\ UNCHANGED <<book, call, links, pc, fifo, free>>
  BY DEF FillPart, AtMaker, Fill
<1>2. order' = OrdersAfter(m, quantity)
  BY <1>1, <1>0 DEF Reads, OrdersAfter
<1>3. out' = OutAfter(m, quantity)
  BY <1>1, <1>0 DEF Reads, OutAfter, Trade
<1> DEFINE z == [order |-> order', links |-> links', book |-> book', fifo |-> fifo', free |-> free']
<1>4. Then(L) = At(z, pc', call', quantity', out', L)
  BY NowIs
<1>5. AfterPart(m) = At(z, pc', call', quantity', out', L)
  <2>1. z = [order |-> OrdersAfter(m, m.quantity), links |-> m.store.links, book |-> m.store.book,
             fifo |-> m.store.fifo, free |-> m.store.free]
    BY <1>1, <1>2, <1>0 DEF Reads
  <2>2. /\ pc' = m.pc /\ call' = m.call /\ quantity' = m.quantity - m.quantity
        /\ out' = OutAfter(m, m.quantity) /\ L = m.left
    BY <1>1, <1>3, <1>0 DEF Reads
  <2> HIDE DEF z
  <2> QED BY <2>1, <2>2 DEF AfterPart
<1> QED BY <1>4, <1>5

LEMMA AllIs ==
    ASSUME FillAll, NEW L, NEW m, m = Now(L) PROVE Then(L) = AfterAll(m)
<1>0. Reads(m, L)
  BY NowFacts
<1> DEFINE qty == order[maker].quantity
           n   == Release(Erase(links, best_level, maker), maker)
<1>1. /\ order' = [order EXCEPT ![maker].quantity = @ - qty]
      /\ quantity' = quantity - qty
      /\ out' = [out EXCEPT !.filled_quantity = @ + qty,
                            !.trades = Append(@, Trade(qty))]
      /\ UNCHANGED <<book, call>>
      /\ links' = n
      /\ fifo' = [fifo EXCEPT ![best_level] = Tail(@)]
      /\ free' = <<maker>> \o free
      /\ pc' = IF empty(n, best_level) THEN "erase" ELSE "match"
  BY DEF FillAll, Fill
<1> HIDE DEF qty, n
<1>2. order' = OrdersAfter(m, qty)
  BY <1>1, <1>0 DEF Reads, OrdersAfter
<1>3. out' = OutAfter(m, qty)
  BY <1>1, <1>0 DEF Reads, OutAfter, Trade
<1> DEFINE z == [order |-> order', links |-> links', book |-> book', fifo |-> fifo', free |-> free']
<1>4. Then(L) = At(z, pc', call', quantity', out', L)
  BY NowIs
<1>5. AfterAll(m) = At(z, pc', call', quantity', out', L)
  <2>1. /\ m.store.order[MakerOf(m)].quantity = qty
        /\ Release(Erase(m.store.links, BestLevelOf(m), MakerOf(m)), MakerOf(m)) = n
    BY <1>0 DEF Reads, qty, n
  <2>2. z = [order |-> OrdersAfter(m, qty), links |-> n, book |-> m.store.book,
             fifo |-> [m.store.fifo EXCEPT ![BestLevelOf(m)] = Tail(@)],
             free |-> <<MakerOf(m)>> \o m.store.free]
    BY <1>1, <1>2, <1>0 DEF Reads
  <2>3. /\ pc' = IF empty(n, BestLevelOf(m)) THEN "erase" ELSE "match"
        /\ call' = m.call /\ quantity' = m.quantity - qty
        /\ out' = OutAfter(m, qty) /\ L = m.left
    BY <1>1, <1>3, <1>0 DEF Reads
  <2> HIDE DEF z
  <2> QED BY <2>1, <2>2, <2>3 DEF AfterAll
<1> QED BY <1>4, <1>5

LEMMA DropIsAfter ==
    ASSUME DropEmptyBest, NEW L, NEW m, m = Now(L) PROVE Then(L) = AfterDrop(m)
<1>0. Reads(m, L)
  BY NowFacts
<1> DEFINE b == [book EXCEPT ![oppo_side] = DropBest(IsAskSide(oppo_side), @)]
<1>1. /\ book' = b
      /\ pc' = IF b[oppo_side].has_best_ /\ empty(links, <<oppo_side, b[oppo_side].best_price_idx_>>)
               THEN "erase" ELSE "match"
      /\ UNCHANGED <<order, links, call, quantity, out, fifo, free>>
  BY DEF DropEmptyBest
<1> DEFINE z == [order |-> order', links |-> links', book |-> book', fifo |-> fifo', free |-> free']
<1>2. Then(L) = At(z, pc', call', quantity', out', L)
  BY NowIs
<1>3. [m.store.book EXCEPT ![OppoOf(m)] = DropBest(IsAskSide(OppoOf(m)), @)] = b
  BY <1>0 DEF Reads
<1> HIDE DEF b
<1>4. z = [order |-> m.store.order, links |-> m.store.links, book |-> b, fifo |-> m.store.fifo,
           free |-> m.store.free]
  BY <1>1, <1>0 DEF Reads
<1>5. /\ pc' = IF b[OppoOf(m)].has_best_ /\ empty(m.store.links, <<OppoOf(m), b[OppoOf(m)].best_price_idx_>>)
               THEN "erase" ELSE "match"
      /\ call' = m.call /\ quantity' = m.quantity /\ out' = m.out /\ L = m.left
  BY <1>1, <1>0 DEF Reads
<1> HIDE DEF z
<1> QED BY <1>2, <1>3, <1>4, <1>5 DEF AfterDrop

LEMMA LoopIs ==
    ASSUME ReturnUnrested, NEW L, NEW m, m = Now(L) PROVE Then(L) = AfterLoop(m)
<1>0. Reads(m, L)
  BY NowFacts
<1> DEFINE res == [out EXCEPT !.code = IF quantity = 0 THEN "Success" ELSE "MarketRemainderCancelled"]
<1>1. /\ UNCHANGED <<order, links, book, fifo, free>>
      /\ out' = [res EXCEPT !.remaining_quantity = quantity]
      /\ pc' = "idle" /\ call' = NoCall /\ quantity' = 0
  BY DEF ReturnUnrested, Return
<1>2. Then(L) = At(Store, pc', call', quantity', out', L)
  BY <1>1 DEF Then, Store
<1>3. res = [m.out EXCEPT !.code = IF m.quantity = 0 THEN "Success" ELSE "MarketRemainderCancelled"]
  BY <1>0 DEF Reads
<1> HIDE DEF res
<1> QED BY <1>1, <1>2, <1>3, <1>0 DEF Reads, AfterLoop, Returning

LEMMA RestIs ==
    ASSUME RestRemainder, NEW L, NEW m, m = Now(L) PROVE Then(L) = AfterRest(m)
<1>0. Reads(m, L)
  BY NowFacts
<1> DEFINE h   == links.free_head_
           idx == idx_of(call.price)
           l   == <<call.side, idx>>
           res == [out EXCEPT !.handle = h]
<1>1. /\ order' = [order EXCEPT ![h] = [id |-> call.id, price |-> call.price, quantity |-> quantity]]
      /\ book' = [book EXCEPT ![call.side] = GetOrCreate(IsAskSide(call.side), @, idx)]
      /\ links' = [PushBack(Acquire(links), l, h) EXCEPT !.parent_level[h] = l]
      /\ fifo' = [fifo EXCEPT ![l] = Append(@, h)]
      /\ free' = Tail(free)
      /\ out' = [res EXCEPT !.remaining_quantity = quantity]
      /\ pc' = "idle" /\ call' = NoCall /\ quantity' = 0
  BY DEF RestRemainder, Return
<1> DEFINE z == [order |-> order', links |-> links', book |-> book', fifo |-> fifo', free |-> free']
<1>2. Then(L) = At(z, pc', call', quantity', out', L)
  BY NowIs
<1>3. /\ m.store.links.free_head_ = h /\ idx_of(m.call.price) = idx /\ <<m.call.side, idx>> = l
      /\ [m.out EXCEPT !.handle = h] = res
  BY <1>0 DEF Reads
<1> HIDE DEF h, idx, l, res
<1>4. z = [order |-> [m.store.order EXCEPT ![h] =
                        [id |-> m.call.id, price |-> m.call.price, quantity |-> m.quantity]],
           links |-> [PushBack(Acquire(m.store.links), l, h) EXCEPT !.parent_level[h] = l],
           book  |-> [m.store.book EXCEPT ![m.call.side] = GetOrCreate(IsAskSide(m.call.side), @, idx)],
           fifo  |-> [m.store.fifo EXCEPT ![l] = Append(@, h)],
           free  |-> Tail(m.store.free)]
  BY <1>1, <1>0 DEF Reads
<1>5. out' = [res EXCEPT !.remaining_quantity = m.quantity] /\ L = m.left
  BY <1>1, <1>0 DEF Reads
<1> HIDE DEF z
<1>6. AfterRest(m) = Returning(m, z, res)
  BY <1>3, <1>4 DEF AfterRest
<1>7. Returning(m, z, res) = At(z, "idle", NoCall, 0, out', L)
  BY <1>5 DEF Returning
<1> QED BY <1>1, <1>2, <1>6, <1>7

LEMMA StepIs ==
    ASSUME IInv, Steps, NEW L, NEW m, m = Now(L) PROVE Then(L) = StepOf(m)
<1>0. Reads(m, L)
  BY NowFacts
<1>1. CASE FillPart
  <2>1. m.pc # "erase" /\ GoesOn(m) /\ ~empty(m.store.links, BestLevelOf(m))
        /\ m.quantity < m.store.order[MakerOf(m)].quantity
    BY <1>1, <1>0 DEF Reads, FillPart, AtMaker
  <2>2. Then(L) = AfterPart(m)
    BY <1>1, PartIs
  <2> QED BY <2>1, <2>2 DEF StepOf
<1>2. CASE FillAll
  <2>1. m.pc # "erase" /\ GoesOn(m) /\ ~empty(m.store.links, BestLevelOf(m))
    BY <1>2, <1>0 DEF Reads, FillAll, AtMaker
  <2>2. ~(m.quantity < m.store.order[MakerOf(m)].quantity)
    <3>1. quantity \in Nat /\ order[maker].quantity \in Nat
      BY <1>2, MakerFacts DEF IInv, CallInv, CallTypeOK, FillAll, OrderData
    <3>2. quantity >= order[maker].quantity
      BY <1>2 DEF FillAll
    <3>3. ~(quantity < order[maker].quantity)
      BY <3>1, <3>2
    <3> QED BY <3>3, <1>0 DEF Reads
  <2>3. Then(L) = AfterAll(m)
    BY <1>2, AllIs
  <2> QED BY <2>1, <2>2, <2>3 DEF StepOf
<1>3. CASE erase_best
  <2>1. m.pc = "erase" /\ Then(L) = AfterDrop(m)
    BY <1>3, <1>0, DropIsAfter DEF Reads, erase_best
  <2> QED BY <2>1 DEF StepOf
<1>4. CASE SkipGhost
  <2>1. m.pc # "erase" /\ GoesOn(m) /\ empty(m.store.links, BestLevelOf(m))
    BY <1>4, <1>0 DEF Reads, SkipGhost
  <2>2. Then(L) = AfterDrop(m)
    BY <1>4, DropIsAfter DEF SkipGhost
  <2> QED BY <2>1, <2>2 DEF StepOf
<1>5. CASE ReturnUnrested
  <2>1. m.pc # "erase" /\ ~GoesOn(m) /\ (m.quantity = 0 \/ m.call.op = "market")
    BY <1>5, <1>0 DEF Reads, ReturnUnrested, LoopDone
  <2>2. Then(L) = AfterLoop(m)
    BY <1>5, LoopIs
  <2> QED BY <2>1, <2>2 DEF StepOf
<1>6. ASSUME MustRest
      PROVE  m.pc # "erase" /\ ~GoesOn(m) /\ ~(m.quantity = 0 \/ m.call.op = "market")
  <2>1. quantity > 0 /\ quantity \in Nat /\ call.op # "market" /\ pc = "match" /\ ~CanMatch
    BY <1>6 DEF MustRest, LoopDone, IInv, CallInv, CallTypeOK
  <2>2. quantity # 0
    BY <2>1
  <2> QED BY <2>1, <2>2, <1>0 DEF Reads
<1>7. CASE RestRemainder
  <2>1. MustRest /\ m.store.links.free_head_ # NULL
    BY <1>7, <1>0 DEF Reads, RestRemainder
  <2>2. Then(L) = AfterRest(m)
    BY <1>7, RestIs
  <2> QED BY <1>6, <2>1, <2>2 DEF StepOf
<1>8. CASE PoolExhausted
  <2>1. MustRest /\ m.store.links.free_head_ = NULL
    BY <1>8, <1>0 DEF Reads, PoolExhausted
  <2>2. Then(L) = AfterStop(m)
    <3>1. pc' = "aborted" /\ UNCHANGED <<order, links, book, call, quantity, out, fifo, free>>
      BY <1>8 DEF PoolExhausted
    <3>2. Then(L) = At(Store, "aborted", call, quantity, out, L)
      BY <3>1 DEF Then, Store
    <3> QED BY <3>2, <1>0 DEF Reads, AfterStop
  <2> QED BY <1>6, <2>1, <2>2 DEF StepOf
<1> QED BY <1>1, <1>2, <1>3, <1>4, <1>5, <1>7, <1>8 DEF Steps

\* A step of a call that goes on.
LEMMA EngineMoves ==
    ASSUME EngineInv, Steps, pc' # "idle", rebuild' = rebuild, NEW B
    PROVE  ~Halted(Machine) /\ Machine' = NextOf(B, Machine)
<1>1. PICK L : L = rebuild
  OBVIOUS
<1>2. PICK m : m = Now(L)
  OBVIOUS
<1>3. pc # "idle" /\ IInv
  BY WorkingKeeps DEF EngineInv
<1>4. Machine = m /\ m.pc = pc
  BY <1>1, <1>2, <1>3, NowFacts DEF Machine, Now, Reads
<1>5. Then(L) = StepOf(m)
  BY <1>2, <1>3, StepIs
<1>6. Machine' = Then(L) /\ Then(L).pc # "idle"
  BY <1>1, AtFacts DEF Machine, Then
<1> QED BY <1>3, <1>4, <1>5, <1>6 DEF NextOf, Halted

\* The step that returns.
LEMMA EngineLast ==
    ASSUME EngineInv, Returned, NEW L, L = rebuild
    PROVE  /\ Machine.pc # "idle" /\ Machine.call = call /\ Machine.left = L
           /\ StepOf(Machine) = At(Store', "idle", NoCall, 0, out', L)
<1>1. pc = "match" /\ IInv /\ Steps
  BY ReturnedFacts DEF ReturnFacts, EngineInv, Returned
<1>2. pc' = "idle" /\ call' = NoCall /\ quantity' = 0
  <2>1. ReturnUnrested \/ RestRemainder
    BY ReturnedFacts DEF ReturnFacts
  <2> QED BY <2>1 DEF ReturnUnrested, RestRemainder, Return
<1>3. PICK m : m = Now(L)
  OBVIOUS
<1>4. Machine = m /\ m.pc = pc /\ m.call = call /\ m.left = L
  BY <1>1, <1>3, NowFacts DEF Machine, Now, Reads
<1>5. Then(L) = StepOf(m)
  BY <1>1, <1>3, StepIs
<1> QED BY <1>1, <1>2, <1>4, <1>5 DEF Then

LEMMA EngineReturns ==
    ASSUME EngineInv, Returned, rebuild = {}, NEW B
    PROVE  ~Halted(Machine) /\ NextOf(B, Machine) = Done(Store', out')
<1>1. /\ Machine.pc # "idle" /\ Machine.left = {}
      /\ StepOf(Machine) = At(Store', "idle", NoCall, 0, out', {})
  BY EngineLast
<1> QED BY <1>1 DEF NextOf, Halted, Done

LEMMA ReaddReturns ==
    ASSUME EngineInv, Returned, rebuild # {}, rebuild' = rebuild \ {call.id}, NEW B
    PROVE  ~Halted(Machine) /\ Machine' = NextOf(B, Machine)
<1>1. PICK L : L = rebuild
  OBVIOUS
<1>2. /\ Machine.pc # "idle" /\ Machine.call = call /\ Machine.left = L
      /\ StepOf(Machine) = At(Store', "idle", NoCall, 0, out', L)
  BY <1>1, EngineLast
<1>3. /\ StepOf(Machine).pc = "idle" /\ StepOf(Machine).store = Store'
  BY <1>2, AtFacts
<1>4. NextOf(B, Machine) = At(Store', "idle", NoCall, 0, NoOut, L \ {call.id})
  BY <1>1, <1>2, <1>3 DEF NextOf
<1>5. pc' = "idle" /\ call' = NoCall /\ quantity' = 0
  <2>1. ReturnUnrested \/ RestRemainder
    BY ReturnedFacts DEF ReturnFacts
  <2> QED BY <2>1 DEF ReturnUnrested, RestRemainder, Return
<1>6. Machine' = At(Store', "idle", NoCall, 0, NoOut, L \ {call.id})
  BY <1>1, <1>5 DEF Machine
<1> QED BY <1>2, <1>4, <1>6 DEF Halted

\* The step that makes a call.
LEMMA UnlinkMoves ==
    ASSUME NEW h, Unlink(h), UNCHANGED <<order, book>>
    PROVE  Store' = Withdrawn(Store, h)
<1> DEFINE l == links.parent_level[h]
<1>1. /\ links' = Release(Erase(links, l, h), h)
      /\ fifo' = [fifo EXCEPT ![l] = Without(@, h)]
      /\ free' = <<h>> \o free
  BY DEF Unlink
<1> HIDE DEF l
<1>2. Store.links.parent_level[h] = l
  BY DEF Store, l
<1> QED BY <1>1, <1>2 DEF Store, Withdrawn

LEMMA CallMoves ==
    ASSUME NEW o, Issue(o), o.type \in CallOp, o.qty \in Nat \ {0},
           o.type = "modify" => order[o.handle].id = o.id, o.type = "market" => o.price = NULL,
           rebuild' = rebuild
    PROVE  Machine' = CallOf(Store, o, rebuild)
<1>1. ASSUME NEW id, NEW type, Begin(type, id, o.side, o.price, o.qty), id = o.id, type = o.type
      PROVE  /\ pc' = "match" /\ quantity' = o.qty /\ out' = Result("Success", o.qty)
             /\ call' = [op |-> o.type, id |-> o.id, side |-> o.side, price |-> o.price]
  BY <1>1 DEF Begin
<1>2. /\ pc' = "match" /\ quantity' = o.qty /\ out' = Result("Success", o.qty)
      /\ call' = [op |-> o.type, id |-> o.id, side |-> o.side, price |-> o.price]
      /\ Store' = IF o.type = "modify" THEN Withdrawn(Store, o.handle) ELSE Store
  <2>1. CASE o.type = "limit"
    <3>1. /\ Begin("limit", o.id, o.side, o.price, o.qty) /\ UNCHANGED <<order, links, book, fifo, free>>
      BY <2>1 DEF Issue, add_limit_order
    <3> QED BY <1>1, <2>1, <3>1 DEF Store
  <2>2. CASE o.type = "market"
    <3>1. /\ Begin("market", o.id, o.side, o.price, o.qty) /\ UNCHANGED <<order, links, book, fifo, free>>
      BY <2>2 DEF Issue, add_market_order
    <3> QED BY <1>1, <2>2, <3>1 DEF Store
  <2>3. CASE o.type = "modify"
    <3>1. /\ Begin("modify", order[o.handle].id, o.side, o.price, o.qty) /\ Unlink(o.handle)
          /\ UNCHANGED <<order, book>>
      BY <2>3 DEF Issue, modify_order
    <3>2. Store' = Withdrawn(Store, o.handle)
      BY <3>1, UnlinkMoves
    <3> QED BY <1>1, <2>3, <3>1, <3>2
  <2> QED BY <2>1, <2>2, <2>3 DEF CallOp
<1> QED BY <1>2 DEF Machine, CallOf

LEMMA CancelMoves == ASSUME NEW h, cancel_order(h) PROVE Store' = Withdrawn(Store, h)
BY UnlinkMoves DEF cancel_order

-----------------------------------------------------------------------------
(***************************************************************************)
(* The trace of a batch: the books it passed through when it was executed, *)
(* in the order in which its operations will be replayed.                  *)
(***************************************************************************)
NewStore == [order |-> [h \in Handles |-> [id |-> NULL, price |-> base_price_, quantity |-> 0]],
             links |-> InitLinks, book |-> [s \in Side |-> EmptyBook],
             fifo |-> [l \in Levels |-> <<>>], free |-> [k \in 1 .. capacity |-> capacity - k]]

\* A rebuild from the orders of B begins.
Fresh(B) == At(NewStore, "idle", NoCall, 0, NoOut, DOMAIN B)

\* The call of o is within the contract of a book z.
CallFits(z, o) ==
    /\ o.type \in CallOp /\ o.id \in OrderId /\ o.side \in Side /\ o.qty \in Nat \ {0}
    /\ IF o.type = "market" THEN o.price = NULL ELSE o.price \in Prices
    /\ o.type = "modify" => o.handle \in Listed(z.fifo) /\ z.order[o.handle].id = o.id

RestsIn(y, o, scenario, res) ==
    LET q == y.fifo[<<o.side, idx_of(o.price)>>] IN
    /\ o.type = "limit"
    /\ res.trades = <<>> /\ res.remaining_quantity > 0
    /\ scenario = IF Len(q) = 1 THEN "AddRestNewLevel" ELSE "AddRestExistingLevel"

\* What TagsTrue says of a call that left the book y.
Tagged(e, y) ==
    \/ RestsIn(y, e, e.scenario, e.result)
    \/ /\ e.scenario = "Unmeasured"
       /\ ~RestsIn(y, e, "AddRestNewLevel", e.result)
       /\ ~RestsIn(y, e, "AddRestExistingLevel", e.result)

\* The cancel e takes the book z to y.
Cancels(e, z, y) ==
    /\ e.handle \in Listed(z.fifo) /\ e.result = z.order[e.handle]
    /\ z.order[e.handle] = [id |-> e.id, price |-> e.meta.price, quantity |-> e.meta.qty]
    /\ z.links.parent_level[e.handle] = <<e.meta.side, idx_of(e.meta.price)>>
    /\ y = Withdrawn(z, e.handle)

Does(B, e, z, y) ==
    IF e.type = "cancel" THEN Cancels(e, z, y)
    ELSE CallFits(z, e) /\ Leads(B, CallOf(z, e, {}), Done(y, e.result)) /\ Tagged(e, y)

\* The n operations of run take the rebuilt book st[0] through the books of st.
Trace(B, st, run, n) ==
    /\ Leads(B, Fresh(B), Done(st[0], NoOut))
    /\ \A k \in 1 .. n : Does(B, run[k], st[k - 1], st[k])

\* The operations executed so far: those pending, and those of a cluster.
RunLen == Len(pending_) + Len(cluster.ops) + Len(pregen_queue_)
Run ==
    [k \in 1 .. RunLen |->
        IF k <= Len(pending_) THEN pending_[k]
        ELSE IF pregen_queue_ = <<>> THEN cluster.ops[k - Len(pending_)]
        ELSE pregen_queue_[RunLen + 1 - k]]

\* Nothing is recorded yet of the operation drawn.
Plain(o) == DOMAIN o = {"type", "id", "side", "price", "qty"}
                        \cup (IF o.type = "modify" THEN {"handle"} ELSE {})

\* Where the generation stands after the books of st.
Generating(st, n) ==
    IF op = NoOp THEN Store = st[n]
    ELSE CallFits(st[n], op) /\ Plain(op) /\ Leads(base, CallOf(st[n], op, {}), Machine)

\* Where a replay stands on its way through them.
Follow(st) ==
    IF rebuild # {} THEN Leads(base, Machine, Done(st[0], NoOut))
    ELSE IF op = NoOp THEN Store = st[events]
    ELSE /\ op = pending_[events + 1]
         /\ Leads(base, Machine, Done(st[events + 1], op.result))

BuildInv == stage = "generate" /\ rebuild # {} => Leads(base, Fresh(base), Machine)

GenerateInv ==
    stage = "generate" /\ rebuild = {} =>
        \E st : Trace(base, st, Run, RunLen) /\ Generating(st, RunLen)

ReplayInv ==
    stage \in {"dry_run", "replay"} =>
        \E st : Trace(base, st, pending_, batch_size) /\ Follow(st)

TraceInv == BuildInv /\ GenerateInv /\ ReplayInv

\* One operation more.
LEMMA TraceGrows ==
    ASSUME NEW B, NEW st, NEW run, NEW n \in Nat, Trace(B, st, run, n),
           NEW run2, NEW e, \A k \in 1 .. n : run2[k] = run[k], run2[n + 1] = e,
           NEW y, Does(B, e, st[n], y)
    PROVE  \E st2 : Trace(B, st2, run2, n + 1) /\ st2[n + 1] = y
<1> DEFINE st2 == [k \in 0 .. n + 1 |-> IF k <= n THEN st[k] ELSE y]
<1>1. st2[n + 1] = y /\ \A k \in 0 .. n : st2[k] = st[k]
  OBVIOUS
<1> HIDE DEF st2
<1>2. ASSUME NEW k \in 1 .. n + 1 PROVE Does(B, run2[k], st2[k - 1], st2[k])
  <2>1. CASE k \in 1 .. n
    <3>1. k - 1 \in 0 .. n /\ k \in 0 .. n
      BY <2>1
    <3> QED BY <1>1, <2>1, <3>1 DEF Trace
  <2>2. CASE k = n + 1
    <3>1. k - 1 = n /\ n \in 0 .. n
      BY <2>2
    <3> QED BY <1>1, <2>2, <3>1
  <2> QED BY <2>1, <2>2
<1>3. Leads(B, Fresh(B), Done(st2[0], NoOut))
  BY <1>1 DEF Trace
<1> QED BY <1>1, <1>2, <1>3 DEF Trace

LEMMA TraceFrame ==
    ASSUME NEW B, NEW st, NEW run, NEW n \in Nat, Trace(B, st, run, n),
           NEW run2, NEW m \in Nat, m <= n, \A k \in 1 .. m : run2[k] = run[k]
    PROVE  Trace(B, st, run2, m)
BY DEF Trace

\* A cluster is on its way to the queue, or in it.
LEMMA RunTypes ==
    ASSUME BatchInv
    PROVE  /\ Len(pending_) \in Nat /\ Len(cluster.ops) \in Nat /\ Len(pregen_queue_) \in Nat
           /\ RunLen \in Nat /\ \A k \in 1 .. Len(pending_) : Run[k] = pending_[k]
           /\ Len(pending_) <= RunLen
           /\ cluster # NoCluster => pregen_queue_ = <<>>
           /\ cluster = NoCluster => cluster.ops = <<>>
           /\ pregen_queue_ = <<>> <=> Len(pregen_queue_) = 0
<1>1. /\ Len(pending_) \in Nat /\ Len(cluster.ops) \in Nat /\ Len(pregen_queue_) \in Nat
      /\ pregen_queue_ = <<>> <=> Len(pregen_queue_) = 0
  BY LenProperties, EmptySeq DEF BatchInv, QueuesInv, IsSeq
<1>2. RunLen \in Nat /\ Len(pending_) <= RunLen
  BY <1>1 DEF RunLen
<1>3. \A k \in 1 .. Len(pending_) : Run[k] = pending_[k]
  BY <1>1, <1>2 DEF Run
<1>4. /\ cluster # NoCluster => pregen_queue_ = <<>>
      /\ cluster = NoCluster => cluster.ops = <<>>
  BY DEF BatchInv, PhaseInv, NoCluster
<1> QED BY <1>1, <1>2, <1>3, <1>4

RunGrows(e) ==
    /\ RunLen' = RunLen + 1
    /\ \A k \in 1 .. RunLen : Run'[k] = Run[k]
    /\ Run'[RunLen + 1] = e

RunStays == RunLen' = RunLen /\ \A k \in 1 .. RunLen : Run'[k] = Run[k]

LEMMA AppendAt ==
    ASSUME NEW q, IsSeq(q), NEW e
    PROVE  /\ \A k \in 1 .. Len(q) : Append(q, e)[k] = q[k]
           /\ Append(q, e)[Len(q) + 1] = e /\ Len(Append(q, e)) = Len(q) + 1
<1>1. PICK S : q \in Seq(S)
  BY DEF IsSeq
<1>2. q \in Seq(S \cup {e}) /\ e \in S \cup {e}
  BY <1>1, SeqMonotonic
<1> QED BY <1>2, AppendProperties

LEMMA PendingGrows ==
    ASSUME BatchInv, BatchInv', NEW e, pending_' = Append(pending_, e),
           cluster.ops = <<>>, cluster'.ops = <<>>, pregen_queue_ = <<>>, pregen_queue_' = <<>>
    PROVE  RunGrows(e)
<1> DEFINE n == Len(pending_)
<1>1. n \in Nat /\ Len(pending_') = n + 1 /\ Len(<<>>) = 0
      /\ pending_'[n + 1] = e /\ \A k \in 1 .. n : pending_'[k] = pending_[k]
  BY RunTypes, AppendAt DEF BatchInv, QueuesInv
<1>2. RunLen = n /\ RunLen' = n + 1
  BY <1>1 DEF RunLen
<1>3. /\ \A k \in 1 .. n : Run[k] = pending_[k]
      /\ \A k \in 1 .. n + 1 : Run'[k] = pending_'[k]
  BY <1>1, <1>2 DEF Run
<1> HIDE DEF n
<1>4. n + 1 \in 1 .. n + 1 /\ \A k \in 1 .. n : k \in 1 .. n + 1
  BY <1>1
<1> QED BY <1>1, <1>2, <1>3, <1>4 DEF RunGrows

LEMMA ClusterGrows ==
    ASSUME BatchInv, BatchInv', NEW e, pending_' = pending_, cluster'.ops = Append(cluster.ops, e),
           pregen_queue_ = <<>>, pregen_queue_' = <<>>
    PROVE  RunGrows(e)
<1> DEFINE p == Len(pending_)
           n == Len(cluster.ops)
<1>1. p \in Nat /\ n \in Nat /\ Len(cluster'.ops) = n + 1 /\ Len(<<>>) = 0
      /\ cluster'.ops[n + 1] = e /\ \A k \in 1 .. n : cluster'.ops[k] = cluster.ops[k]
  BY RunTypes, AppendAt DEF BatchInv, QueuesInv
<1>2. RunLen = p + n /\ RunLen' = p + n + 1
  BY <1>1 DEF RunLen
<1>3. /\ \A k \in 1 .. p + n : Run[k] = IF k <= p THEN pending_[k] ELSE cluster.ops[k - p]
      /\ \A k \in 1 .. p + n + 1 : Run'[k] = IF k <= p THEN pending_[k] ELSE cluster'.ops[k - p]
  BY <1>2 DEF Run
<1> HIDE DEF p, n
<1>4. \A k \in 1 .. p + n : k \in 1 .. p + n + 1 /\ (~(k <= p) => k - p \in 1 .. n)
  BY <1>1
<1>5. p + n + 1 \in 1 .. p + n + 1 /\ ~(p + n + 1 <= p) /\ p + n + 1 - p = n + 1
  BY <1>1
<1>6. ASSUME NEW k \in 1 .. p + n PROVE Run'[k] = Run[k]
  <2>1. CASE k <= p
    BY <1>3, <1>4, <2>1
  <2>2. CASE ~(k <= p)
    <3>1. cluster'.ops[k - p] = cluster.ops[k - p]
      BY <1>1, <1>4, <2>2
    <3> QED BY <1>3, <1>4, <2>2, <3>1
  <2> QED BY <2>1, <2>2
<1>7. Run'[p + n + 1] = e
  <2>1. PICK k : k = p + n + 1
    OBVIOUS
  <2>2. k \in 1 .. p + n + 1 /\ ~(k <= p) /\ k - p = n + 1
    BY <1>1, <2>1
  <2>3. Run'[k] = cluster'.ops[k - p]
    BY <1>3, <2>2
  <2> QED BY <1>1, <2>1, <2>2, <2>3
<1> QED BY <1>2, <1>6, <1>7 DEF RunGrows

LEMMA ReverseAt ==
    ASSUME NEW q, IsSeq(q)
    PROVE  /\ IsSeq(Reverse(q)) /\ Len(Reverse(q)) = Len(q) /\ Len(q) \in Nat
           /\ \A k \in 1 .. Len(q) : Reverse(q)[k] = q[Len(q) + 1 - k]
           /\ <<>> \o Reverse(q) = Reverse(q)
<1>1. PICK S : q \in Seq(S)
  BY DEF IsSeq
<1>2. Reverse(q) \in Seq(S) /\ Len(q) \in Nat
  BY <1>1, ReverseInSeq, LenProperties
<1>3. Reverse(q) = [k \in 1 .. Len(q) |-> q[Len(q) - k + 1]]
  BY DEF Reverse
<1>4. Len(Reverse(q)) = Len(q)
  <2>1. DOMAIN Reverse(q) = 1 .. Len(q)
    BY <1>3
  <2> QED BY <1>2, <2>1, LenProperties
<1>5. \A k \in 1 .. Len(q) : Reverse(q)[k] = q[Len(q) + 1 - k]
  <2>1. \A n \in Nat : \A k \in 1 .. n : n - k + 1 = n + 1 - k
    OBVIOUS
  <2> QED BY <1>2, <1>3, <2>1
<1>6. <<>> \o Reverse(q) = Reverse(q)
  BY <1>2, ConcatEmptySeq
<1> QED BY <1>2, <1>4, <1>5, <1>6 DEF IsSeq

\* A cluster that is queued is run in the same order.
LEMMA ClusterQueued == ASSUME BatchInv, BatchInv', ClusterEnd PROVE RunStays
<1> DEFINE p == Len(pending_)
           n == Len(cluster.ops)
           q == pregen_queue_'
<1>1. /\ cluster # NoCluster /\ pregen_queue_ = <<>> /\ pending_' = pending_
      /\ q = <<>> \o Reverse(cluster.ops) /\ cluster'.ops = <<>>
  BY RunTypes DEF ClusterEnd, NoCluster
<1>2. /\ p \in Nat /\ n \in Nat /\ Len(q) = n /\ Len(<<>>) = 0
      /\ \A k \in 1 .. n : q[k] = cluster.ops[n + 1 - k]
      /\ q = <<>> <=> Len(q) = 0
  <2>1. /\ IsSeq(Reverse(cluster.ops)) /\ Len(Reverse(cluster.ops)) = n
        /\ \A k \in 1 .. n : Reverse(cluster.ops)[k] = cluster.ops[n + 1 - k]
        /\ q = Reverse(cluster.ops)
    BY <1>1, ReverseAt DEF BatchInv, QueuesInv
  <2>2. q = <<>> <=> Len(q) = 0
    BY <2>1, EmptySeq DEF IsSeq
  <2> QED BY <2>1, <2>2, RunTypes
<1>3. RunLen = p + n /\ RunLen' = p + n
  <2>1. RunLen = p + n + 0 /\ RunLen' = p + 0 + n
    BY <1>1, <1>2 DEF RunLen
  <2> QED BY <1>2, <2>1
<1>4. \A k \in 1 .. p + n : Run[k] = IF k <= p THEN pending_[k] ELSE cluster.ops[k - p]
  BY <1>1, <1>3 DEF Run
<1>5. \A k \in 1 .. p + n : Run'[k] = IF k <= p THEN pending_[k] ELSE IF q = <<>> THEN cluster'.ops[k - p] ELSE q[p + n + 1 - k]
  BY <1>1, <1>3 DEF Run
<1> HIDE DEF p, n, q
<1>6. ASSUME NEW k \in 1 .. p + n, ~(k <= p) PROVE q # <<>> /\ q[p + n + 1 - k] = cluster.ops[k - p]
  <2>1. /\ n # 0 /\ p + n + 1 - k \in 1 .. n /\ n + 1 - (p + n + 1 - k) = k - p
    BY <1>2, <1>6
  <2>2. q[p + n + 1 - k] = cluster.ops[n + 1 - (p + n + 1 - k)]
    BY <1>2, <2>1
  <2> QED BY <1>2, <2>1, <2>2
<1>7. \A k \in 1 .. p + n : Run'[k] = Run[k]
  BY <1>4, <1>5, <1>6
<1> QED BY <1>3, <1>7 DEF RunStays

\* So is one that is taken from the queue.
LEMMA QueueTaken == ASSUME BatchInv, BatchInv', TakeQueued PROVE RunStays
<1> DEFINE p == Len(pending_)
           n == Len(pregen_queue_)
           q == pregen_queue_
           r == pregen_queue_'
<1>1. /\ cluster = NoCluster /\ cluster' = NoCluster /\ q # <<>> /\ r = Front(q)
      /\ pending_' = Append(pending_, Last(q))
  BY DEF TakeQueued, Between
<1>2. /\ p \in Nat /\ n \in Nat /\ n # 0 /\ Len(pending_') = p + 1 /\ Len(NoCluster.ops) = 0
      /\ pending_'[p + 1] = q[n] /\ \A k \in 1 .. p : pending_'[k] = pending_[k]
  BY <1>1, RunTypes, AppendAt DEF BatchInv, QueuesInv, Last, NoCluster
<1>3. Len(r) = n - 1 /\ \A k \in 1 .. n - 1 : r[k] = q[k]
  <2>1. PICK S : q \in Seq(S)
    BY DEF BatchInv, QueuesInv, IsSeq
  <2>2. \A k \in 1 .. n : q[k] \in S
    BY <2>1, ElementOfSeq
  <2>3. n - 1 \in Nat /\ (\A k \in 1 .. n - 1 : q[k] \in S) /\ \A k \in 1 .. n - 1 : 1 + k - 1 = k
    BY <1>2, <2>2
  <2>4. r = [k \in 1 .. n - 1 |-> q[k]]
    <3>1. r = SubSeq(q, 1, n - 1)
      BY <1>1 DEF Front
    <3>2. SubSeq(q, 1, n - 1) = [k \in 1 .. (1 + (n - 1) - 1) |-> q[1 + k - 1]]
      BY <1>2, <2>1, SubSeqProperties
    <3> QED BY <1>2, <2>3, <3>1, <3>2
  <2>5. r \in Seq(S) /\ DOMAIN r = 1 .. n - 1
    <3>1. r \in [1 .. n - 1 -> S]
      BY <2>3, <2>4
    <3> QED BY <2>3, <3>1, SeqDef
  <2> QED BY <2>3, <2>4, <2>5, LenProperties
<1>4. r = <<>> <=> n - 1 = 0
  BY <1>3, RunTypes DEF BatchInv
<1>5. RunLen = p + n /\ RunLen' = p + n
  BY <1>1, <1>2, <1>3 DEF RunLen
<1>6. \A k \in 1 .. p + n : Run[k] = IF k <= p THEN pending_[k] ELSE q[p + n + 1 - k]
  BY <1>1, <1>5 DEF Run
<1>7. \A k \in 1 .. p + n : Run'[k] = IF k <= p + 1 THEN pending_'[k] ELSE IF r = <<>> THEN cluster'.ops[k - (p + 1)] ELSE r[p + n + 1 - k]
  BY <1>1, <1>2, <1>5 DEF Run
<1> HIDE DEF p, n, q, r
<1>8. ASSUME NEW k \in 1 .. p + n PROVE Run'[k] = Run[k]
  <2>1. CASE k <= p
    <3>1. k \in 1 .. p /\ k <= p + 1
      BY <1>2, <2>1
    <3> QED BY <1>2, <1>6, <1>7, <2>1, <3>1
  <2>2. CASE k = p + 1
    <3>1. ~(k <= p) /\ k <= p + 1 /\ p + n + 1 - k = n
      BY <1>2, <2>2
    <3> QED BY <1>2, <1>6, <1>7, <2>2, <3>1
  <2>3. CASE k > p + 1
    <3>1. ~(k <= p) /\ ~(k <= p + 1) /\ p + n + 1 - k \in 1 .. n - 1 /\ n - 1 # 0
      BY <1>2, <2>3
    <3> QED BY <1>3, <1>4, <1>6, <1>7, <3>1
  <2> QED BY <1>2, <2>1, <2>2, <2>3
<1> QED BY <1>5, <1>8 DEF RunStays

-----------------------------------------------------------------------------
\* What is recorded of an operation drawn.
LEMMA TaggedIs ==
    ASSUME NEW o, Plain(o), NEW a, NEW b, NEW e, e = Recorded(o, a, b)
    PROVE  /\ e.type = o.type /\ e.id = o.id /\ e.side = o.side /\ e.price = o.price
           /\ e.qty = o.qty /\ (o.type = "modify" => e.handle = o.handle)
           /\ e.scenario = a /\ e.result = b
<1> DEFINE D == {"type", "id", "side", "price", "qty"} \cup (IF o.type = "modify" THEN {"handle"} ELSE {})
<1>1. DOMAIN o = D /\ "scenario" \notin D /\ "result" \notin D
  BY DEF Plain
<1>2. e = [x \in DOMAIN o \cup {"scenario", "result"} |->
              CASE x = "scenario" -> a [] x = "result" -> b [] OTHER -> o[x]]
  BY DEF Recorded
<1>3. e["scenario"] = a /\ e["result"] = b
  BY <1>2
<1>4. \A x \in D : e[x] = o[x]
  BY <1>1, <1>2
<1>5. o.type = "modify" => "handle" \in D
  OBVIOUS
<1> QED BY <1>3, <1>4, <1>5

-----------------------------------------------------------------------------
(***************************************************************************)
(* Each action follows the trace.                                          *)
(***************************************************************************)
LEMMA InWarmup == ASSUME stage' = "warmup" PROVE TraceInv'
BY DEF TraceInv, BuildInv, GenerateInv, ReplayInv

LEMMA InGeneration ==
    ASSUME stage' = "generate", rebuild' = {},
           \E st : Trace(base', st, Run', RunLen') /\ Generating(st, RunLen)'
    PROVE  TraceInv'
BY DEF TraceInv, BuildInv, GenerateInv, ReplayInv

LEMMA InReplay ==
    ASSUME stage' \in {"dry_run", "replay"},
           \E st : Trace(base', st, pending_', batch_size) /\ Follow(st)'
    PROVE  TraceInv'
BY DEF TraceInv, BuildInv, GenerateInv, ReplayInv

\* The batch as it stands between operations.
LEMMA Generated ==
    ASSUME TraceInv, stage = "generate", rebuild = {}, op = NoOp
    PROVE  \E st : Trace(base, st, Run, RunLen) /\ Store = st[RunLen]
BY DEF TraceInv, GenerateInv, Generating

LEMMA DrawFollows ==
    ASSUME WInv, TraceInv, Draws, NEW o, IssueDrawn(o), CallFits(Store, o), Plain(o)
    PROVE  TraceInv'
<1>1. CASE stage = "warmup"
  BY <1>1, InWarmup DEF IssueDrawn, phaseVars
<1>2. CASE stage = "generate"
  <2>1. /\ op = NoOp /\ rebuild = {} /\ Issue(o) /\ op' = o
        /\ stage' = stage /\ rebuild' = rebuild /\ base' = base /\ UNCHANGED batchVars
    BY DEF Draws, Between, IssueDrawn, Issue, phaseVars
  <2>2. PICK st : Trace(base, st, Run, RunLen) /\ Store = st[RunLen]
    BY <1>2, <2>1, Generated
  <2>3. o # NoOp /\ o.type \in CallOp /\ o.qty \in Nat \ {0}
        /\ (o.type = "modify" => order[o.handle].id = o.id) /\ (o.type = "market" => o.price = NULL)
    BY DEF CallFits, CallOp, NoOp, Store
  <2>4. Machine' = CallOf(Store, o, {})
    BY <2>1, <2>3, CallMoves
  <2>5. RunLen' = RunLen /\ Run' = Run
    BY <2>1 DEF Run, RunLen, batchVars
  <2>6. Leads(base, CallOf(Store, o, {}), Machine')
    BY <2>4, LeadsSelf
  <2>7. Generating(st, RunLen)'
    BY <2>1, <2>2, <2>3, <2>5, <2>6 DEF Generating
  <2> QED BY <1>2, <2>1, <2>2, <2>5, <2>7, InGeneration
<1> QED BY <1>1, <1>2 DEF Draws

LEMMA EngineFollows == ASSUME WInv, TraceInv, EngineSteps PROVE TraceInv'
<1>1. /\ Steps /\ pc' # "idle" /\ op # NoOp /\ EngineInv
      /\ UNCHANGED <<stage, rebuild, base, events, op, batchVars>>
  BY DEF EngineSteps, WInv, phaseVars
<1>2. ~Halted(Machine) /\ Machine' = NextOf(base, Machine)
  BY <1>1, EngineMoves
<1>3. RunLen' = RunLen /\ Run' = Run /\ pending_' = pending_
  BY <1>1 DEF Run, RunLen, batchVars
<1>4. BuildInv'
  <2>1. ASSUME stage = "generate", rebuild # {} PROVE Leads(base, Fresh(base), Machine')
    BY <1>2, <2>1, LeadsOn DEF TraceInv, BuildInv
  <2> QED BY <1>1, <2>1 DEF BuildInv
<1>5. GenerateInv'
  <2>1. ASSUME stage = "generate", rebuild = {}
        PROVE  \E st : Trace(base, st, Run, RunLen) /\ Generating(st, RunLen)'
    <3>1. PICK st : Trace(base, st, Run, RunLen) /\ Generating(st, RunLen)
      BY <2>1 DEF TraceInv, GenerateInv
    <3>2. PICK m : m = CallOf(st[RunLen], op, {})
      OBVIOUS
    <3>3. Leads(base, m, Machine)
      BY <1>1, <3>1, <3>2 DEF Generating
    <3>4. Leads(base, m, Machine')
      BY <1>2, <3>3, LeadsOn
    <3> QED BY <1>1, <1>3, <3>1, <3>2, <3>4 DEF Generating
  <2> QED BY <1>1, <1>3, <2>1 DEF GenerateInv
<1>6. ReplayInv'
  <2>1. ASSUME stage \in {"dry_run", "replay"}
        PROVE  \E st : Trace(base, st, pending_, batch_size) /\ Follow(st)'
    <3>1. PICK st : Trace(base, st, pending_, batch_size) /\ Follow(st)
      BY <2>1 DEF TraceInv, ReplayInv
    <3>2. ASSUME NEW m, Halted(m), Leads(base, Machine, m) PROVE Leads(base, Machine', m)
      BY <1>2, <3>2, LeadsFrom
    <3>3. \A z, res : Halted(Done(z, res))
      BY AtFacts DEF Halted, Done
    <3>4. CASE rebuild # {}
      <4>1. Leads(base, Machine, Done(st[0], NoOut))
        BY <3>1, <3>4 DEF Follow
      <4>2. Leads(base, Machine', Done(st[0], NoOut))
        BY <3>2, <3>3, <4>1
      <4> QED BY <1>1, <3>1, <3>4, <4>2 DEF Follow
    <3>5. CASE rebuild = {}
      <4>1. op = pending_[events + 1] /\ Leads(base, Machine, Done(st[events + 1], op.result))
        BY <1>1, <3>1, <3>5 DEF Follow
      <4>2. Leads(base, Machine', Done(st[events + 1], op.result))
        BY <3>2, <3>3, <4>1
      <4> QED BY <1>1, <1>3, <3>1, <3>5, <4>1, <4>2 DEF Follow
    <3> QED BY <3>4, <3>5
  <2> QED BY <1>1, <1>3, <2>1 DEF ReplayInv
<1> QED BY <1>4, <1>5, <1>6 DEF TraceInv

\* What is drawn is within the contract of the engine.
LEMMA DrawnFits ==
    ASSUME WInv, limit_add \/ modify \/ market
    PROVE  Draws /\ \E o : IssueDrawn(o) /\ CallFits(Store, o) /\ Plain(o)
<1>1. Draws
  BY DEF limit_add, modify, market, Rolled
<1>2. SettingUp /\ op = NoOp /\ rebuild = {}
  BY <1>1 DEF Draws, Between, SettingUp
<1>3. id_counter_ \in OrderId
  BY <1>1, NextIdIsFree
<1>4. CASE limit_add
  <2>1. PICK side \in Side, qty \in AddQuantity : \E price \in Prices :
          IssueDrawn([type |-> "limit", id |-> id_counter_, side |-> side, price |-> price,
                      qty |-> qty])
    BY <1>4 DEF limit_add
  <2>2. PICK price \in Prices :
          IssueDrawn([type |-> "limit", id |-> id_counter_, side |-> side, price |-> price,
                      qty |-> qty])
    BY <2>1
  <2>3. PICK o : o = [type |-> "limit", id |-> id_counter_, side |-> side, price |-> price, qty |-> qty]
    OBVIOUS
  <2>4. CallFits(Store, o)
    BY <1>3, <2>3, WorkloadAssumption DEF CallFits, CallOp
  <2>5. Plain(o)
    BY <2>3 DEF Plain
  <2> QED BY <1>1, <2>2, <2>3, <2>4, <2>5
<1>5. CASE market
  <2> DEFINE total == Cardinality(DOMAIN track.orders)
  <2>1. PICK side \in Side, qty \in {Max({1, (total * c) \div 20}) : c \in {5, 10, 16}} :
          IssueDrawn([type |-> "market", id |-> id_counter_, side |-> side, price |-> NULL,
                      qty |-> qty])
    BY <1>5 DEF market
  <2>2. total \in Nat
    BY FS_CardinalityType DEF WInv, TrackingInv, TrackOK
  <2> HIDE DEF total
  <2>3. qty \in Nat \ {0}
    BY <2>2, MarketQuantity
  <2>4. PICK o : o = [type |-> "market", id |-> id_counter_, side |-> side, price |-> NULL, qty |-> qty]
    OBVIOUS
  <2>5. CallFits(Store, o)
    BY <1>3, <2>3, <2>4 DEF CallFits, CallOp
  <2>6. Plain(o)
    BY <2>4 DEF Plain
  <2> QED BY <1>1, <2>1, <2>4, <2>5, <2>6
<1>6. CASE modify
  <2>1. PICK target \in DOMAIN track.handles, side \in Side, qty \in ModifyQuantity :
          \E price \in Prices :
            IssueDrawn([type |-> "modify", id |-> target, side |-> side, price |-> price,
                        qty |-> qty, handle |-> track.handles[target].handle])
    BY <1>6 DEF modify
  <2>2. PICK price \in Prices :
          IssueDrawn([type |-> "modify", id |-> target, side |-> side, price |-> price,
                      qty |-> qty, handle |-> track.handles[target].handle])
    BY <2>1
  <2>3. PICK h : h = track.handles[target].handle
    OBVIOUS
  <2>4. h \in Listed(fifo) /\ order[h].id = target
    BY <1>2, <2>3, HandleOf, RestingIs
  <2>5. target \in OrderId
    BY <1>2, BetweenFollows DEF Follows, TrackOK
  <2>6. PICK o : o = [type |-> "modify", id |-> target, side |-> side, price |-> price, qty |-> qty,
                      handle |-> h]
    OBVIOUS
  <2>7. CallFits(Store, o)
    BY <2>4, <2>5, <2>6, WorkloadAssumption DEF CallFits, CallOp, Store
  <2>8. Plain(o)
    BY <2>6 DEF Plain
  <2> QED BY <1>1, <2>2, <2>3, <2>6, <2>7, <2>8
<1> QED BY <1>4, <1>5, <1>6

\* Where a tracked order is in the book.
LEMMA CancelOpFits ==
    ASSUME WInv, SettingUp, op = NoOp, rebuild = {}, NEW id \in DOMAIN track.handles,
           CancelTracked(id), NEW e, e = CancelOp(id)
    PROVE  Cancels(e, Store, Store') /\ e.type = "cancel"
<1>1. PICK h : h = track.handles[id].handle
  OBVIOUS
<1>2. h \in Resting /\ order[h].id = id /\ h \in Listed(fifo)
  BY <1>1, HandleOf, RestingIs
<1>3. PICK l \in Levels : h \in ToSet(fifo[l])
  BY <1>2 DEF Resting
<1>4. /\ l = <<l[1], l[2]>> /\ l[1] \in Side /\ l[2] \in Bits
  BY LevelsAssumption
<1>5. h \in Handles
  BY <1>3, BetweenFollows
<1>6. /\ links.parent_level[h] = l
      /\ order[h].price = price_of(l[2]) /\ idx_of(price_of(l[2])) = l[2]
      /\ order[h] = [id |-> order[h].id, price |-> order[h].price, quantity |-> order[h].quantity]
  <2>1. StoreInv /\ fifo[l] \in Seq(Handles)
    BY StoredIs DEF WInv, EngineInv, IInv, Stored
  <2>2. PICK k \in 1 .. Len(fifo[l]) : fifo[l][k] = h
    BY <1>3, <2>1, ToSetOfSeq
  <2>3. links.parent_level[h] = l
    BY <2>1, <2>2 DEF StoreInv, LinksExact, Spells
  <2>4. order[h].price = price_of(l[2]) /\ order[h] \in OrderData
    BY <1>3, <1>5, <2>1 DEF StoreInv, StoreTypeOK, OrdersAtTheirLevel
  <2>5. order[h] = [id |-> order[h].id, price |-> order[h].price, quantity |-> order[h].quantity]
    BY <2>4 DEF OrderData
  <2> QED BY <1>4, <2>3, <2>4, <2>5, LevelFacts
<1>7. track.orders[id] = [side |-> l[1], price |-> price_of(l[2]), qty |-> order[h].quantity]
  <2>1. Follows(track, order, fifo)
    BY BetweenFollows
  <2>2. Names(track, order, fifo)
    BY <2>1 DEF Follows
  <2>3. track.orders[order[h].id] = [side |-> l[1], price |-> price_of(l[2]), qty |-> order[h].quantity]
    BY <1>3, <2>2 DEF Names
  <2> QED BY <1>2, <2>3
<1>8. Store' = Withdrawn(Store, h)
  BY <1>1, CancelMoves DEF CancelTracked
<1>9. /\ e.type = "cancel" /\ e.id = id /\ e.handle = h /\ e.result = order[h]
      /\ e.meta = track.orders[id]
  BY <1>1 DEF CancelOp
<1> QED BY <1>2, <1>4, <1>6, <1>7, <1>8, <1>9 DEF Cancels, Store

LEMMA CancelFollows ==
    ASSUME WInv, TraceInv, stage = "generate", rebuild = {}, op = NoOp,
           NEW id \in DOMAIN track.handles, CancelTracked(id), NEW e, e = CancelOp(id),
           RunGrows(e), UNCHANGED <<phaseVars, op>>
    PROVE  TraceInv'
<1>1. PICK st : Trace(base, st, Run, RunLen) /\ Store = st[RunLen]
  BY Generated
<1>2. PICK n \in Nat : n = RunLen
  BY RunTypes DEF WInv
<1>3. Cancels(e, Store, Store') /\ e.type = "cancel"
  BY CancelOpFits DEF SettingUp
<1>4. PICK y : y = Store'
  OBVIOUS
<1>5. Does(base, e, st[n], y)
  BY <1>1, <1>2, <1>3, <1>4 DEF Does
<1>6. PICK r : r = Run
  OBVIOUS
<1>7. PICK r2 : r2 = Run'
  OBVIOUS
<1>8. RunLen' = n + 1 /\ r2[n + 1] = e /\ \A k \in 1 .. n : r2[k] = r[k]
  BY <1>2, <1>6, <1>7 DEF RunGrows
<1>9. Trace(base, st, r, n)
  BY <1>1, <1>2, <1>6
<1>10. PICK st2 : Trace(base, st2, r2, n + 1) /\ st2[n + 1] = y
  BY <1>5, <1>8, <1>9, TraceGrows
<1>11. stage' = "generate" /\ rebuild' = {} /\ base' = base /\ op' = NoOp
  BY DEF phaseVars
<1>12. Generating(st2, RunLen)'
  BY <1>4, <1>8, <1>10, <1>11 DEF Generating
<1> QED BY <1>7, <1>8, <1>10, <1>11, <1>12, InGeneration

LEMMA cancelFollows == ASSUME WInv, TraceInv, cancel, BatchInv' PROVE TraceInv'
<1>1. Draws
  BY DEF cancel, Rolled
<1>2. CASE stage = "warmup"
  <2>1. stage' = stage
    BY <1>2 DEF cancel, WarmupCancel, PendingCancel, phaseVars
  <2> QED BY <1>2, <2>1, InWarmup
<1>3. CASE stage = "generate"
  <2>1. PICK id \in DOMAIN track.handles : PendingCancel(id)
    BY <1>3 DEF cancel
  <2>2. /\ CancelTracked(id) /\ pending_' = Append(pending_, CancelOp(id))
        /\ pregen_queue_' = pregen_queue_ /\ UNCHANGED <<phaseVars, op>>
        /\ cluster' \in {NoCluster} \cup {[left |-> n, ops |-> <<>>, best |-> best_ask(track')] : n \in ClusterSizes}
    BY <2>1 DEF PendingCancel
  <2>3. /\ op = NoOp /\ rebuild = {} /\ cluster = NoCluster /\ pregen_queue_ = <<>>
    BY <1>1, <1>3 DEF Draws, Between
  <2>4. cluster.ops = <<>> /\ cluster'.ops = <<>>
    BY <2>2, <2>3 DEF NoCluster
  <2>5. RunGrows(CancelOp(id))
    BY <2>2, <2>3, <2>4, PendingGrows DEF WInv
  <2> QED BY <1>3, <2>2, <2>3, <2>5, CancelFollows
<1> QED BY <1>1, <1>2, <1>3 DEF Draws

LEMMA ClusterCancelFollows == ASSUME WInv, TraceInv, ClusterCancel, BatchInv' PROVE TraceInv'
<1>1. cluster # NoCluster /\ stage = "generate" /\ rebuild = {} /\ op = NoOp /\ pregen_queue_ = <<>>
  <2>1. cluster # NoCluster
    BY DEF ClusterCancel, NoCluster
  <2> QED BY <2>1 DEF WInv, BatchInv, PhaseInv
<1>2. PICK id \in NearBest(track, cluster.best) :
        /\ CancelTracked(id)
        /\ cluster' = [cluster EXCEPT !.left = @ - 1, !.ops = Append(@, CancelOp(id))]
  BY DEF ClusterCancel
<1>3. id \in DOMAIN track.handles
  <2>1. id \in DOMAIN track.orders
    BY DEF NearBest
  <2> QED BY <1>1, <2>1, BetweenFollows DEF SettingUp
<1>4. pending_' = pending_ /\ pregen_queue_' = pregen_queue_ /\ UNCHANGED <<phaseVars, op>>
  BY DEF ClusterCancel
<1>5. cluster'.ops = Append(cluster.ops, CancelOp(id))
  BY <1>2 DEF WInv, BatchInv, QueuesInv
<1>6. RunGrows(CancelOp(id))
  BY <1>1, <1>4, <1>5, ClusterGrows DEF WInv
<1> QED BY <1>1, <1>2, <1>3, <1>4, <1>6, CancelFollows

LEMMA QueueFollows ==
    ASSUME WInv, TraceInv, ClusterEnd \/ TakeQueued, BatchInv'
    PROVE  TraceInv'
<1>1. stage = "generate" /\ rebuild = {} /\ op = NoOp /\ UNCHANGED <<vars, stage, rebuild, base, op>>
  <2>1. CASE ClusterEnd
    BY <2>1 DEF ClusterEnd, WInv, BatchInv, PhaseInv, phaseVars
  <2>2. CASE TakeQueued
    BY <2>2 DEF TakeQueued, Between, phaseVars
  <2> QED BY <2>1, <2>2
<1>2. RunStays
  BY ClusterQueued, QueueTaken DEF WInv
<1>3. PICK st : Trace(base, st, Run, RunLen) /\ Store = st[RunLen]
  BY <1>1, Generated
<1>4. PICK n \in Nat : n = RunLen
  BY RunTypes DEF WInv
<1>5. PICK r : r = Run
  OBVIOUS
<1>6. PICK r2 : r2 = Run'
  OBVIOUS
<1>7. RunLen' = n /\ \A k \in 1 .. n : r2[k] = r[k]
  BY <1>2, <1>4, <1>5, <1>6 DEF RunStays
<1>8. Trace(base, st, r, n) /\ n <= n
  BY <1>3, <1>4, <1>5
<1>9. Trace(base, st, r2, n)
  BY <1>7, <1>8, TraceFrame
<1>10. Store' = Store
  BY <1>1 DEF Store, vars
<1>11. Generating(st, RunLen)'
  BY <1>1, <1>3, <1>4, <1>7, <1>10 DEF Generating
<1> QED BY <1>1, <1>6, <1>7, <1>9, <1>11, InGeneration

-----------------------------------------------------------------------------
(***************************************************************************)
(* The replays keep the workload's invariant.                              *)
(***************************************************************************)
Replays == stage \in {"dry_run", "replay"}

LEMMA EnterReplayKeeps ==
    ASSUME WInv, Between, stage # "warmup", Len(pending_) = batch_size,
           NEW next \in {"dry_run", "replay"}, EnterStage(next, base), UNCHANGED <<base, shadow>>
    PROVE  WInv'
<1>1. /\ op = NoOp /\ rebuild = {} /\ cluster = NoCluster /\ NewBook
      /\ stage' = next /\ events' = 0 /\ rebuild' = DOMAIN base
      /\ track' = [track EXCEPT !.orders = base, !.handles = <<>>]
      /\ UNCHANGED <<op, id_counter_, cluster_queue_, cluster, pregen_queue_, pending_>>
      /\ UNCHANGED <<base, shadow>>
  BY DEF Between, EnterStage, batchVars
<1>2. TrackOK(track) /\ BatchInv
  BY DEF WInv, TrackingInv
<1>3. /\ EngineInv' /\ RestingIds' = {} /\ Listed(fifo') = {}
      /\ \A l \in Levels : ToSet(fifo'[l]) = {}
  BY <1>1, NewBookFacts DEF WInv
<1>4. /\ track' = [orders |-> base, handles |-> <<>>, counts |-> track.counts]
      /\ track'.orders = base /\ track'.handles = <<>> /\ track'.counts = track.counts
      /\ DOMAIN track'.handles = {}
  <2>1. DOMAIN <<>> = {}
    OBVIOUS
  <2>2. track' = [orders |-> base, handles |-> <<>>, counts |-> track.counts]
    BY <1>1, <1>2 DEF TrackOK
  <2> QED BY <2>1, <2>2
<1>5. TrackOK(track')
  <2>1. track'.handles \in [DOMAIN track'.handles -> HandleInfo]
    BY <1>4
  <2>2. /\ IsFiniteSet(DOMAIN base) /\ DOMAIN base \subseteq OrderId
        /\ base \in [DOMAIN base -> OrderInfo]
    BY <1>2 DEF BatchInv, BaseInv
  <2>3. track.counts \in [Side -> [Prices -> Nat]]
    BY <1>2 DEF TrackOK
  <2> QED BY <1>4, <2>1, <2>2, <2>3 DEF TrackOK
<1>6. Names(track', order', fifo')
  BY <1>3, <1>4 DEF Names, IdsIn
<1>7. BatchInv'
  <2>1. PhaseInv'
    BY <1>1, <1>2 DEF BatchInv, PhaseInv
  <2>2. QueuesInv'
    BY <1>1, <1>2 DEF BatchInv, QueuesInv, IsSeq
  <2>3. IdsInv'
    BY <1>1, <1>2, <1>4 DEF BatchInv, IdsInv, Ids, SettingUp
  <2>4. EventsInv'
    BY <1>1, <1>2, WorkloadAssumption DEF BatchInv, EventsInv
  <2>5. BaseInv'
    BY <1>1, <1>2 DEF BatchInv, BaseInv
  <2> QED BY <2>1, <2>2, <2>3, <2>4, <2>5 DEF BatchInv
<1>8. RebuildInv'
  BY <1>1, <1>4, <1>6 DEF RebuildInv
<1>9. TrackingInv' /\ ShadowInv'
  <2>1. ~SettingUp' /\ stage' # "generate"
    BY <1>1 DEF SettingUp
  <2> QED BY <1>1, <1>5, <2>1 DEF TrackingInv, ShadowInv, WInv
<1> QED BY <1>3, <1>7, <1>8, <1>9 DEF WInv

\* In a replay nothing moves but the engine and the index.
LEMMA ReplayStep ==
    ASSUME WInv, Replays, rebuild = {}, EngineInv',
           UNCHANGED <<phaseVars, track, id_counter_, cluster_queue_, batchVars, shadow>>,
           events' \in Nat, events' <= batch_size, op' # NoOp => events' < batch_size
    PROVE  WInv'
<1>1. /\ UNCHANGED <<stage, rebuild, base, track, id_counter_, cluster_queue_, shadow>>
      /\ UNCHANGED <<cluster, pregen_queue_, pending_>>
      /\ stage # "warmup" /\ stage # "generate" /\ ~SettingUp
  BY DEF phaseVars, batchVars, Replays, SettingUp
<1>2. BatchInv'
  <2>1. PhaseInv'
    BY <1>1 DEF WInv, BatchInv, PhaseInv
  <2>2. QueuesInv'
    BY <1>1 DEF WInv, BatchInv, QueuesInv, IsSeq
  <2>3. IdsInv'
    BY <1>1 DEF WInv, BatchInv, IdsInv, Ids, SettingUp
  <2>4. EventsInv'
    BY <1>1 DEF WInv, BatchInv, EventsInv, Replays
  <2>5. BaseInv'
    BY <1>1 DEF WInv, BatchInv, BaseInv
  <2> QED BY <2>1, <2>2, <2>3, <2>4, <2>5 DEF BatchInv
<1>3. RebuildInv' /\ TrackingInv' /\ ShadowInv'
  BY <1>1 DEF WInv, RebuildInv, TrackingInv, ShadowInv, SettingUp
<1> QED BY <1>2, <1>3 DEF WInv

\* What the trace says of the operation to replay.
LEMMA PendingDoes ==
    ASSUME WInv, TraceInv, Replaying
    PROVE  /\ Replays /\ rebuild = {} /\ op = NoOp /\ pc = "idle" /\ events \in Nat
           /\ events < batch_size /\ batch_size \in Nat /\ pending_[events + 1] = Pending
           /\ \E st : /\ Trace(base, st, pending_, batch_size) /\ Store = st[events]
                      /\ Does(base, Pending, st[events], st[events + 1])
<1>1. /\ Replays /\ rebuild = {} /\ op = NoOp /\ pc = "idle" /\ events \in Nat
      /\ events < batch_size /\ batch_size \in Nat /\ pending_[events + 1] = Pending
  BY WorkloadAssumption DEF Replaying, Between, Replays, Pending, WInv, BatchInv, EventsInv
<1>2. PICK st : Trace(base, st, pending_, batch_size) /\ Store = st[events]
  BY <1>1 DEF TraceInv, ReplayInv, Follow, Replays
<1>3. PICK k : k = events + 1
  OBVIOUS
<1>4. k \in 1 .. batch_size /\ k - 1 = events
  BY <1>1, <1>3
<1>5. Does(base, pending_[k], st[k - 1], st[k])
  BY <1>2, <1>4 DEF Trace
<1> QED BY <1>1, <1>2, <1>3, <1>4, <1>5

LEMMA ReplayCallKeeps == ASSUME WInv, TraceInv, ReplayCall PROVE WInv'
<1>1. /\ Replays /\ rebuild = {} /\ op = NoOp /\ events \in Nat
      /\ events < batch_size /\ batch_size \in Nat
  BY PendingDoes DEF ReplayCall
<1>2. PICK e : e = Pending
  OBVIOUS
<1>3. e.type # "cancel" /\ Issue(e)
      /\ UNCHANGED <<phaseVars, events, track, id_counter_, cluster_queue_, batchVars, shadow>>
  BY <1>2 DEF ReplayCall
<1>4. CallFits(Store, e)
  <2>1. PICK st : Store = st[events] /\ Does(base, Pending, st[events], st[events + 1])
    BY PendingDoes DEF ReplayCall
  <2> QED BY <1>2, <1>3, <2>1 DEF Does
<1>5. Started(e)
  <2>1. IInv
    BY DEF WInv, EngineInv
  <2>2. CASE e.type = "limit"
    <3>1. /\ e.id \in OrderId /\ e.side \in Side /\ e.price \in Prices /\ e.qty \in Nat \ {0}
      BY <1>4, <2>2 DEF CallFits
    <3> QED BY <1>3, <2>1, <2>2, <3>1, IssueLimit
  <2>3. CASE e.type = "market"
    <3>1. /\ e.id \in OrderId /\ e.side \in Side /\ e.price = NULL /\ e.qty \in Nat \ {0}
      BY <1>4, <2>3 DEF CallFits
    <3> QED BY <1>3, <2>1, <2>3, <3>1, IssueMarket
  <2>4. CASE e.type = "modify"
    <3>1. /\ e.side \in Side /\ e.price \in Prices /\ e.qty \in Nat \ {0}
          /\ e.handle \in Resting /\ order[e.handle].id = e.id
      BY <1>4, <2>4, RestingIs DEF CallFits, Store
    <3> QED BY <1>3, <2>1, <2>4, <3>1, IssueModify
  <2> QED BY <1>4, <2>2, <2>3, <2>4 DEF CallFits, CallOp
<1>6. EngineInv'
  <2>1. CallsInv'
    BY <1>5 DEF Started, CallsInv, CallOp
  <2>2. FreshInv' /\ MakerInv'
    BY <1>1, <1>3, <1>5 DEF Started, FreshInv, MakerInv, Replays, SettingUp, phaseVars
  <2> QED BY <1>5, <2>1, <2>2 DEF Started, EngineInv
<1>7. events' = events
  BY <1>3
<1> QED BY <1>1, <1>3, <1>6, <1>7, ReplayStep

LEMMA ReplayReturnedKeeps == ASSUME WInv, ReplayReturned PROVE WInv'
<1>1. /\ Replays /\ rebuild = {} /\ Returned /\ op # NoOp /\ op' = NoOp /\ events' = events + 1
      /\ UNCHANGED <<phaseVars, track, id_counter_, cluster_queue_, batchVars, shadow>>
  BY DEF ReplayReturned, Replays, Returned
<1>2. EngineInv'
  BY <1>1, ReturnedFacts DEF WInv, ReturnFacts
<1>3. events \in Nat /\ events < batch_size /\ batch_size \in Nat
  BY <1>1, WorkloadAssumption DEF WInv, BatchInv, EventsInv, Replays
<1>4. events' \in Nat /\ events' <= batch_size
  BY <1>1, <1>3
<1> QED BY <1>1, <1>2, <1>4, ReplayStep

LEMMA ReplayCancelKeeps == ASSUME WInv, TraceInv, ReplayCancel PROVE WInv'
<1>1. /\ Replays /\ rebuild = {} /\ op = NoOp /\ pc = "idle" /\ events \in Nat
      /\ events < batch_size /\ batch_size \in Nat
  BY PendingDoes DEF ReplayCancel
<1>2. PICK h : h = Pending.handle
  OBVIOUS
<1>3. /\ cancel_order(h) /\ events' = events + 1 /\ UNCHANGED op
      /\ UNCHANGED <<phaseVars, track, id_counter_, cluster_queue_, batchVars, shadow>>
  BY <1>2 DEF ReplayCancel
<1>4. h \in Resting
  <2>1. PICK st : Store = st[events] /\ Does(base, Pending, st[events], st[events + 1])
    BY PendingDoes DEF ReplayCancel
  <2>2. h \in Listed(Store.fifo)
    BY <1>2, <2>1 DEF Does, ReplayCancel, Cancels
  <2> QED BY <2>2, RestingIs DEF Store
<1>5. IInv' /\ UNCHANGED <<order, book, pc, call, quantity, out>>
  BY <1>3, <1>4, CancelCall DEF WInv, EngineInv
<1>6. EngineInv'
  BY <1>1, <1>3, <1>5 DEF WInv, EngineInv, CallsInv, FreshInv, MakerInv
<1>7. events' \in Nat /\ events' <= batch_size /\ op' = NoOp
  BY <1>1, <1>3
<1> QED BY <1>1, <1>3, <1>6, <1>7, ReplayStep

-----------------------------------------------------------------------------
(***************************************************************************)
(* New books, and the trace.                                               *)
(***************************************************************************)
LEMMA NewBookIs ==
    ASSUME WInv, op = NoOp, NewBook
    PROVE  Store' = NewStore /\ Machine' = At(NewStore, "idle", NoCall, 0, NoOut, rebuild')
<1>1. pc' = "idle" /\ call' = NoCall /\ quantity' = 0
  BY DEF WInv, EngineInv, CallsInv, NewBook
<1>2. Store' = NewStore
  BY DEF NewBook, Store, NewStore
<1> QED BY <1>1, <1>2 DEF Machine

\* A book that is rebuilt from nothing.
LEMMA NothingToAdd == ASSUME NEW B, DOMAIN B = {} PROVE Fresh(B) = Done(NewStore, NoOut)
BY DEF Fresh, Done

LEMMA DoneIs == ASSUME NEW y, NEW a, NEW z, NEW b, Done(y, a) = Done(z, b) PROVE y = z /\ a = b
<1>1. \A v, r, m : m = Done(v, r) => m.store = v /\ m.out = r
  BY AtFacts DEF Done
<1> QED BY <1>1

LEMMA DoneHalts == ASSUME NEW m, NEW y, NEW a, m = Done(y, a) PROVE Halted(m)
BY AtFacts DEF Halted, Done

\* Nothing is executed yet.
LEMMA BatchBegins ==
    ASSUME stage' = "generate", rebuild' = {}, op' = NoOp, RunLen' = 0,
           Leads(base', Fresh(base'), Done(Store', NoOut))
    PROVE  TraceInv'
<1>1. PICK st : st[0] = Store'
  <2>1. [k \in {0} |-> Store'][0] = Store'
    OBVIOUS
  <2> QED BY <2>1
<1>2. Trace(base', st, Run', 0)
  BY <1>1 DEF Trace
<1>3. Generating(st, RunLen)'
  BY <1>1 DEF Generating
<1> QED BY <1>2, <1>3, InGeneration

LEMMA RunIsEmpty ==
    ASSUME pending_ = <<>>, pregen_queue_ = <<>>, cluster = NoCluster
    PROVE  RunLen = 0
<1>1. Len(<<>>) = 0
  OBVIOUS
<1> QED BY <1>1 DEF RunLen, NoCluster

LEMMA EndWarmupFollows == ASSUME WInv, EndWarmup PROVE TraceInv'
<1>1. /\ op = NoOp /\ NewBook /\ cluster = NoCluster /\ pending_ = <<>> /\ pregen_queue_ = <<>>
      /\ stage' = "generate" /\ rebuild' = DOMAIN base'
      /\ UNCHANGED <<op, cluster, pregen_queue_, pending_>>
  BY DEF EndWarmup, Between, EnterStage, batchVars, WInv, BatchInv, PhaseInv
<1>2. Store' = NewStore /\ Machine' = At(NewStore, "idle", NoCall, 0, NoOut, rebuild')
  BY <1>1, NewBookIs
<1>3. Machine' = Fresh(base')
  BY <1>1, <1>2 DEF Fresh
<1>4. Leads(base', Fresh(base'), Machine')
  BY <1>3, LeadsSelf
<1>5. CASE rebuild' # {}
  BY <1>1, <1>4, <1>5 DEF TraceInv, BuildInv, GenerateInv, ReplayInv
<1>6. CASE rebuild' = {}
  <2>1. Fresh(base') = Done(Store', NoOut)
    BY <1>1, <1>2, <1>6, NothingToAdd
  <2>2. RunLen' = 0
    <3>1. RunLen = 0
      BY <1>1, RunIsEmpty
    <3>2. RunLen' = RunLen
      BY <1>1 DEF RunLen
    <3> QED BY <3>1, <3>2
  <2>3. Leads(base', Fresh(base'), Done(Store', NoOut))
    BY <1>3, <1>4, <2>1
  <2> QED BY <1>1, <1>6, <2>2, <2>3, BatchBegins
<1> QED BY <1>5, <1>6

LEMMA EnterReplayFollows ==
    ASSUME WInv, Between, NEW next \in {"dry_run", "replay"}, EnterStage(next, base),
           UNCHANGED <<base, shadow>>, NEW st, Trace(base, st, pending_, batch_size)
    PROVE  TraceInv'
<1>1. /\ op = NoOp /\ NewBook /\ stage' = next /\ rebuild' = DOMAIN base /\ events' = 0
      /\ op' = NoOp /\ pending_' = pending_ /\ base' = base
  BY DEF Between, EnterStage, batchVars
<1>2. Store' = NewStore /\ Machine' = At(NewStore, "idle", NoCall, 0, NoOut, rebuild')
  BY <1>1, NewBookIs
<1>3. Machine' = Fresh(base)
  BY <1>1, <1>2 DEF Fresh
<1>4. Leads(base, Fresh(base), Done(st[0], NoOut))
  BY DEF Trace
<1>5. Follow(st)'
  <2>1. CASE rebuild' # {}
    BY <1>1, <1>3, <1>4, <2>1 DEF Follow
  <2>2. CASE rebuild' = {}
    <3>1. Fresh(base) = Done(Store', NoOut)
      BY <1>1, <1>2, <2>2, NothingToAdd
    <3>2. Done(st[0], NoOut) = Done(Store', NoOut)
      BY <1>4, <3>1, DoneHalts, LeadsEnd
    <3>3. st[0] = Store'
      BY <3>2, DoneIs
    <3> QED BY <1>1, <2>2, <3>3 DEF Follow
  <2> QED BY <2>1, <2>2
<1> QED BY <1>1, <1>5, InReplay

LEMMA EndGenerateFollows == ASSUME WInv, TraceInv, EndGenerate PROVE TraceInv'
<1>1. /\ Between /\ EnterStage("dry_run", base) /\ UNCHANGED <<base, shadow>>
      /\ stage = "generate" /\ rebuild = {} /\ op = NoOp /\ Len(pending_) = batch_size
  BY DEF EndGenerate, Between
<1>2. PICK st : Trace(base, st, Run, RunLen)
  BY <1>1, Generated
<1>3. /\ RunLen \in Nat /\ batch_size \in Nat /\ batch_size <= RunLen
      /\ \A k \in 1 .. batch_size : Run[k] = pending_[k]
  BY <1>1, RunTypes, WorkloadAssumption DEF WInv
<1>4. Trace(base, st, pending_, batch_size)
  <2>1. PICK n : n = RunLen
    OBVIOUS
  <2>2. PICK r : r = Run
    OBVIOUS
  <2>3. PICK q : q = pending_
    OBVIOUS
  <2>4. Trace(base, st, r, n) /\ n \in Nat /\ batch_size <= n /\ \A k \in 1 .. batch_size : q[k] = r[k]
    BY <1>2, <1>3, <2>1, <2>2, <2>3
  <2> QED BY <1>3, <2>3, <2>4, TraceFrame
<1> QED BY <1>1, <1>4, EnterReplayFollows

LEMMA EndDryRunFollows == ASSUME WInv, TraceInv, EndDryRun PROVE TraceInv'
<1>1. Between /\ EnterStage("replay", base) /\ UNCHANGED <<base, shadow>> /\ stage = "dry_run"
  BY DEF EndDryRun
<1>2. PICK st : Trace(base, st, pending_, batch_size)
  BY <1>1 DEF TraceInv, ReplayInv
<1> QED BY <1>1, <1>2, EnterReplayFollows

LEMMA ReaddFollows == ASSUME WInv, TraceInv, Readd PROVE TraceInv'
<1> DEFINE o == ReaddOf(base, Min(rebuild))
<1>1. /\ rebuild # {} /\ op = NoOp /\ track.orders = base /\ pc = "idle"
      /\ call = NoCall /\ quantity = 0
  BY DEF Readd, WInv, RebuildInv, EngineInv, CallsInv
<1>2. Min(rebuild) \in DOMAIN base
  <2>1. rebuild \in SUBSET Nat /\ rebuild \subseteq DOMAIN base
    BY DEF WInv, BatchInv, IdsInv, BaseInv, Ids
  <2> QED BY <1>1, <2>1, MinIsLeast
<1>3. Issue(o) /\ UNCHANGED <<stage, rebuild, base, events>>
  BY <1>1 DEF Readd, ReaddOf, phaseVars
<1>4. o.type = "limit" /\ o.qty \in Nat \ {0}
  <2>1. base[Min(rebuild)] \in OrderInfo
    BY <1>2 DEF WInv, BatchInv, BaseInv
  <2> QED BY <2>1 DEF ReaddOf, OrderInfo
<1>5. PICK L : L = rebuild
  OBVIOUS
<1>6. Machine = At(Store, "idle", NoCall, 0, NoOut, L)
  BY <1>1, <1>5 DEF Machine
<1>7. Machine.pc = "idle" /\ Machine.store = Store /\ Machine.left = L
  BY <1>6, AtFacts
<1>8. ~Halted(Machine) /\ NextOf(base, Machine) = CallOf(Store, o, rebuild)
  BY <1>1, <1>5, <1>7 DEF Halted, NextOf
<1> HIDE DEF o
<1>9. Machine' = NextOf(base, Machine)
  BY <1>3, <1>4, <1>8, CallMoves DEF CallOp
<1>10. BuildInv'
  <2>1. ASSUME stage = "generate" PROVE Leads(base, Fresh(base), Machine')
    BY <1>1, <1>8, <1>9, <2>1, LeadsOn DEF TraceInv, BuildInv
  <2> QED BY <1>3, <2>1 DEF BuildInv
<1>11. GenerateInv'
  BY <1>1, <1>3 DEF GenerateInv
<1>12. ReplayInv'
  <2>1. ASSUME stage \in {"dry_run", "replay"}
        PROVE  \E st : Trace(base', st, pending_', batch_size) /\ Follow(st)'
    <3>1. PICK st : Trace(base, st, pending_, batch_size) /\ Leads(base, Machine, Done(st[0], NoOut))
      BY <1>1, <2>1 DEF TraceInv, ReplayInv, Follow
    <3>2. Leads(base, Machine', Done(st[0], NoOut))
      BY <1>8, <1>9, <3>1, DoneHalts, LeadsFrom
    <3>3. pending_' = pending_
      BY DEF Readd, batchVars
    <3> QED BY <1>1, <1>3, <3>1, <3>2, <3>3 DEF Follow
  <2> QED BY <1>3, <2>1 DEF ReplayInv
<1> QED BY <1>10, <1>11, <1>12 DEF TraceInv

LEMMA ReaddedFollows == ASSUME WInv, TraceInv, Readded PROVE TraceInv'
<1>1. /\ rebuild # {} /\ Returned /\ op # NoOp /\ op' = NoOp /\ rebuild' = rebuild \ {op.id}
      /\ UNCHANGED <<stage, events, base, cluster, pregen_queue_, pending_>> /\ EngineInv
  BY DEF Readded, Returned, batchVars, WInv
<1>2. call.id = op.id
  BY <1>1 DEF EngineInv, CallsInv
<1>3. ~Halted(Machine) /\ Machine' = NextOf(base, Machine)
  BY <1>1, <1>2, ReaddReturns
<1>4. rebuild' = {} => Machine' = Done(Store', NoOut)
  <2>1. pc' = "idle" /\ call' = NoCall /\ quantity' = 0
    <3>1. EngineInv'
      BY <1>1, ReturnedFacts DEF ReturnFacts
    <3> QED BY <1>1, <3>1 DEF Returned, EngineInv, CallsInv
  <2> QED BY <2>1 DEF Machine, Done
<1>5. ASSUME stage = "generate" PROVE TraceInv'
  <2>1. Leads(base, Fresh(base), Machine')
    BY <1>1, <1>3, <1>5, LeadsOn DEF TraceInv, BuildInv
  <2>2. CASE rebuild' # {}
    BY <1>1, <1>5, <2>1, <2>2 DEF TraceInv, BuildInv, GenerateInv, ReplayInv
  <2>3. CASE rebuild' = {}
    <3>1. cluster = NoCluster /\ pregen_queue_ = <<>> /\ pending_ = <<>>
      BY <1>1, <1>5 DEF WInv, BatchInv, PhaseInv
    <3>2. RunLen' = 0
      <4>1. RunLen' = RunLen
        BY <1>1 DEF RunLen
      <4> QED BY <3>1, <4>1, RunIsEmpty
    <3>3. Leads(base', Fresh(base'), Done(Store', NoOut))
      BY <1>1, <1>4, <2>1, <2>3
    <3> QED BY <1>1, <1>5, <2>3, <3>2, <3>3, BatchBegins
  <2> QED BY <2>2, <2>3
<1>6. ASSUME Replays PROVE TraceInv'
  <2>1. PICK st : Trace(base, st, pending_, batch_size) /\ Leads(base, Machine, Done(st[0], NoOut))
    BY <1>1, <1>6 DEF TraceInv, ReplayInv, Follow, Replays
  <2>2. Leads(base, Machine', Done(st[0], NoOut))
    BY <1>3, <2>1, DoneHalts, LeadsFrom
  <2>3. Follow(st)'
    <3>1. CASE rebuild' # {}
      BY <1>1, <2>2, <3>1 DEF Follow
    <3>2. CASE rebuild' = {}
      <4>1. Done(st[0], NoOut) = Machine'
        BY <1>4, <2>2, <3>2, DoneHalts, LeadsEnd
      <4>2. st[0] = Store'
        BY <1>4, <3>2, <4>1, DoneIs
      <4>3. events' = 0
        BY <1>1, <1>6 DEF WInv, BatchInv, EventsInv, Replays
      <4> QED BY <1>1, <3>2, <4>2, <4>3 DEF Follow
    <3> QED BY <3>1, <3>2
  <2> QED BY <1>1, <1>6, <2>1, <2>3, InReplay DEF Replays
<1>7. stage = "generate" \/ Replays
  BY <1>1 DEF WInv, BatchInv, PhaseInv, Replays
<1> QED BY <1>5, <1>6, <1>7

-----------------------------------------------------------------------------
(***************************************************************************)
(* What is recorded of an operation of the generation.                     *)
(***************************************************************************)
LEMMA TagIsRight ==
    ASSUME WInv, SettingUp, rebuild = {}, op # NoOp, Returned,
           NEW tag, tag = Scenario(track, op, out'), NEW y, y = Store'
    PROVE  \/ RestsIn(y, op, tag, out')
           \/ /\ tag = "Unmeasured"
              /\ ~RestsIn(y, op, "AddRestNewLevel", out')
              /\ ~RestsIn(y, op, "AddRestExistingLevel", out')
<1> DEFINE rests == /\ op.type = "limit" /\ out'.code = "Success"
                    /\ out'.trades = <<>> /\ out'.remaining_quantity > 0
<1>1. /\ ReturnFacts /\ EngineInv /\ StoreInv /\ quantity \in Nat /\ out \in ResultRecord
      /\ y.fifo = fifo'
  BY ReturnedFacts DEF WInv, EngineInv, IInv, CallInv, CallTypeOK, Store
<1>2. op.type = call.op /\ op.side = call.side /\ op.price = call.price
  BY <1>1 DEF ReturnFacts, EngineInv, CallsInv
<1>3. CASE ~rests
  <2>1. tag = "Unmeasured"
    BY <1>3 DEF Scenario
  <2>2. ASSUME op.type = "limit", out'.trades = <<>>, out'.remaining_quantity > 0 PROVE FALSE
    <3>1. out'.code # "Success"
      BY <1>3, <2>2
    <3>2. ReturnUnrested
      BY <1>1, <3>1 DEF ReturnFacts, Remains
    <3>3. quantity = 0
      BY <1>2, <2>2, <3>2 DEF ReturnUnrested
    <3>4. out'.remaining_quantity = 0
      BY <1>1, <3>2, <3>3 DEF ReturnUnrested, Return, ResultRecord
    <3> QED BY <2>2, <3>4
  <2> QED BY <2>1, <2>2 DEF RestsIn
<1>4. CASE rests
  <2>1. RestRemainder /\ op.side \in Side /\ op.price \in Prices
    BY <1>1, <1>4 DEF ReturnFacts, Unrested, Remains
  <2> DEFINE i == idx_of(op.price)
             l == <<op.side, i>>
             q == fifo[l]
             n == Len(q)
  <2>2. i \in Bits /\ l \in Levels /\ price_of(i) = op.price
    BY <2>1, LevelFacts
  <2>3. fifo \in [Levels -> Seq(Handles)] /\ q \in Seq(Handles) /\ IsInjective(q) /\ n \in Nat
    <3>1. Stored(links, fifo, free)
      BY <1>1, StoredIs
    <3> QED BY <2>2, <3>1, LenProperties DEF Stored, Partitioned
  <2>4. PICK h : fifo' = [fifo EXCEPT ![l] = Append(@, h)]
    BY <1>2, <2>1 DEF RestRemainder
  <2>5. Len(fifo'[l]) = n + 1
    <3>1. fifo'[l] = Append(q, h)
      BY <2>2, <2>3, <2>4
    <3> QED BY <2>3, <3>1, AppendIsSeq DEF IsSeq
  <2>6. Follows(track, order, fifo)
    <3>1. out.trades = <<>> /\ Gone(track, op) = track
      BY <1>1, <1>4 DEF ReturnFacts, Gone
    <3>2. Filled(track, <<>>) = track
      BY FilledFacts
    <3> QED BY <3>1, <3>2 DEF WInv, TrackingInv, Believed
  <2>7. track.counts[op.side][op.price] = n
    <3>1. track.counts[op.side][price_of(i)] = Len(fifo[<<op.side, i>>])
      BY <2>1, <2>2, <2>3, <2>6, CountIsLength
    <3> QED BY <2>2, <3>1
  <2>8. has_price_level(track, op.side, op.price) <=> n > 0
    BY <2>7 DEF has_price_level
  <2>9. tag = IF n > 0 THEN "AddRestExistingLevel" ELSE "AddRestNewLevel"
    BY <1>4, <2>8 DEF Scenario
  <2>10. tag = IF Len(y.fifo[l]) = 1 THEN "AddRestNewLevel" ELSE "AddRestExistingLevel"
    <3>1. n + 1 = 1 <=> ~(n > 0)
      BY <2>3
    <3> QED BY <1>1, <2>5, <2>9, <3>1
  <2> QED BY <1>4, <2>10 DEF RestsIn
<1> QED BY <1>3, <1>4

\* The parts of the operation are those of its record.
LEMMA RecordFits ==
    ASSUME NEW o, Plain(o), NEW tag, NEW res, NEW e, e = Recorded(o, tag, res), NEW z, CallFits(z, o)
    PROVE  /\ CallFits(z, e) /\ CallOf(z, e, {}) = CallOf(z, o, {}) /\ e.type # "cancel"
           /\ e.result = res /\ e.scenario = tag
           /\ \A y, s, r : RestsIn(y, e, s, r) <=> RestsIn(y, o, s, r)
<1>1. /\ e.type = o.type /\ e.id = o.id /\ e.side = o.side /\ e.price = o.price
      /\ e.qty = o.qty /\ (o.type = "modify" => e.handle = o.handle)
      /\ e.scenario = tag /\ e.result = res
  BY TaggedIs
<1>2. CallFits(z, e) /\ e.type # "cancel"
  BY <1>1 DEF CallFits, CallOp
<1>3. CallOf(z, e, {}) = CallOf(z, o, {})
  BY <1>1 DEF CallOf
<1>4. \A y, s, r : RestsIn(y, e, s, r) <=> RestsIn(y, o, s, r)
  BY <1>1 DEF RestsIn
<1> QED BY <1>1, <1>2, <1>3, <1>4

LEMMA GenerateReturnedFollows ==
    ASSUME WInv, TraceInv, GenerateReturned, BatchInv'
    PROVE  TraceInv'
<1>1. /\ stage = "generate" /\ SettingUp /\ rebuild = {} /\ Returned /\ op # NoOp /\ op' = NoOp
      /\ UNCHANGED <<stage, rebuild, base, cluster, pregen_queue_>> /\ EngineInv
      /\ pending_' = Append(pending_, Recorded(op, Scenario(track, op, out'), out'))
  BY DEF GenerateReturned, Returned, SettingUp, phaseVars, WInv
<1>2. cluster = NoCluster /\ pregen_queue_ = <<>> /\ cluster.ops = <<>>
  BY <1>1 DEF WInv, BatchInv, PhaseInv, NoCluster
<1>3. PICK n \in Nat : n = RunLen
  BY RunTypes DEF WInv
<1>4. PICK st : /\ Trace(base, st, Run, n) /\ CallFits(st[n], op) /\ Plain(op)
                /\ Leads(base, CallOf(st[n], op, {}), Machine)
  BY <1>1, <1>3 DEF TraceInv, GenerateInv, Generating
<1>5. PICK tag : tag = Scenario(track, op, out')
  OBVIOUS
<1>6. PICK res : res = out'
  OBVIOUS
<1>7. PICK e : e = Recorded(op, tag, res)
  OBVIOUS
<1>8. PICK y : y = Store'
  OBVIOUS
<1>9. PICK z : z = st[n]
  OBVIOUS
<1>10. PICK o : o = op
  OBVIOUS
<1>11. /\ CallFits(z, e) /\ CallOf(z, e, {}) = CallOf(z, o, {}) /\ e.type # "cancel"
       /\ e.result = res /\ e.scenario = tag
       /\ \A v, s, r : RestsIn(v, e, s, r) <=> RestsIn(v, o, s, r)
  <2>1. Plain(o) /\ e = Recorded(o, tag, res) /\ CallFits(z, o)
    BY <1>4, <1>7, <1>9, <1>10
  <2> QED BY <2>1, RecordFits
<1>12. Leads(base, CallOf(z, o, {}), Done(y, res))
  <2>1. ~Halted(Machine) /\ NextOf(base, Machine) = Done(y, res)
    BY <1>1, <1>6, <1>8, EngineReturns
  <2>2. Leads(base, CallOf(z, o, {}), Machine)
    BY <1>4, <1>9, <1>10
  <2> QED BY <2>1, <2>2, LeadsOn
<1>13. Tagged(e, y)
  <2>1. \/ RestsIn(y, o, tag, res)
        \/ /\ tag = "Unmeasured"
           /\ ~RestsIn(y, o, "AddRestNewLevel", res)
           /\ ~RestsIn(y, o, "AddRestExistingLevel", res)
    BY <1>1, <1>5, <1>6, <1>8, <1>10, TagIsRight
  <2> QED BY <1>11, <2>1 DEF Tagged
<1>14. Does(base, e, z, y)
  BY <1>11, <1>12, <1>13 DEF Does
<1>15. RunGrows(e)
  <2>1. pending_' = Append(pending_, e) /\ cluster'.ops = <<>> /\ pregen_queue_' = <<>>
    BY <1>1, <1>2, <1>5, <1>6, <1>7
  <2> QED BY <1>2, <2>1, PendingGrows DEF WInv
<1>16. PICK r : r = Run
  OBVIOUS
<1>17. PICK r2 : r2 = Run'
  OBVIOUS
<1>18. RunLen' = n + 1 /\ r2[n + 1] = e /\ \A k \in 1 .. n : r2[k] = r[k]
  BY <1>3, <1>15, <1>16, <1>17 DEF RunGrows
<1>19. Trace(base, st, r, n) /\ Does(base, e, st[n], y)
  BY <1>4, <1>9, <1>14, <1>16
<1>20. PICK st2 : Trace(base, st2, r2, n + 1) /\ st2[n + 1] = y
  BY <1>18, <1>19, TraceGrows
<1>21. Generating(st2, RunLen)'
  BY <1>1, <1>8, <1>18, <1>20 DEF Generating
<1> QED BY <1>1, <1>17, <1>18, <1>20, <1>21, InGeneration

-----------------------------------------------------------------------------
(***************************************************************************)
(* The replay of an operation.                                             *)
(***************************************************************************)
LEMMA ReplayCallFollows == ASSUME WInv, TraceInv, ReplayCall PROVE TraceInv'
<1>1. /\ Replays /\ rebuild = {} /\ op = NoOp /\ pending_[events + 1] = Pending
      /\ \E st : /\ Trace(base, st, pending_, batch_size) /\ Store = st[events]
                 /\ Does(base, Pending, st[events], st[events + 1])
  BY PendingDoes DEF ReplayCall
<1>2. PICK st : /\ Trace(base, st, pending_, batch_size) /\ Store = st[events]
                /\ Does(base, Pending, st[events], st[events + 1])
  BY <1>1
<1>3. PICK e : e = Pending
  OBVIOUS
<1>4. e.type # "cancel" /\ Issue(e) /\ op' = e /\ UNCHANGED <<stage, rebuild, base, events, pending_>>
  BY <1>3 DEF ReplayCall, Issue, phaseVars, batchVars
<1>5. CallFits(Store, e) /\ Leads(base, CallOf(Store, e, {}), Done(st[events + 1], e.result))
  BY <1>2, <1>3, <1>4 DEF Does
<1>6. /\ e # NoOp /\ e.type \in CallOp /\ e.qty \in Nat \ {0}
      /\ (e.type = "modify" => order[e.handle].id = e.id) /\ (e.type = "market" => e.price = NULL)
  BY <1>5 DEF CallFits, CallOp, NoOp, Store
<1>7. Machine' = CallOf(Store, e, {})
  BY <1>1, <1>4, <1>6, CallMoves
<1>8. Follow(st)'
  BY <1>1, <1>3, <1>4, <1>5, <1>6, <1>7 DEF Follow
<1> QED BY <1>1, <1>2, <1>4, <1>8, InReplay DEF Replays

\* A replayed call ends as it did.
LEMMA ReplayedCall ==
    ASSUME WInv, TraceInv, ReplayReturned
    PROVE  /\ Replays /\ rebuild = {} /\ op = Pending /\ events \in Nat /\ events < batch_size
           /\ \E st : /\ Trace(base, st, pending_, batch_size)
                      /\ Store' = st[events + 1] /\ out' = op.result /\ op.type # "cancel"
                      /\ Tagged(op, st[events + 1])
<1>1. Replays /\ rebuild = {} /\ Returned /\ op # NoOp /\ EngineInv
  BY DEF ReplayReturned, Replays, Returned, WInv
<1>2. events \in Nat /\ events < batch_size /\ batch_size \in Nat
  BY <1>1, WorkloadAssumption DEF WInv, BatchInv, EventsInv, Replays
<1>3. PICK st : /\ Trace(base, st, pending_, batch_size) /\ op = pending_[events + 1]
                /\ Leads(base, Machine, Done(st[events + 1], op.result))
  BY <1>1 DEF TraceInv, ReplayInv, Follow, Replays
<1>4. ~Halted(Machine) /\ NextOf(base, Machine) = Done(Store', out')
  BY <1>1, EngineReturns
<1>5. Done(st[events + 1], op.result) = Done(Store', out')
  <2>1. Leads(base, Done(Store', out'), Done(st[events + 1], op.result))
    BY <1>3, <1>4, DoneHalts, LeadsFrom
  <2> QED BY <2>1, DoneHalts, LeadsEnd
<1>6. Store' = st[events + 1] /\ out' = op.result
  BY <1>5, DoneIs
<1>7. op.type # "cancel" /\ Tagged(op, st[events + 1])
  <2>1. op.type # "cancel"
    BY <1>1, ReturnedFacts DEF ReturnFacts, CallOp
  <2>2. PICK k : k = events + 1
    OBVIOUS
  <2>3. k \in 1 .. batch_size
    BY <1>2, <2>2
  <2>4. Does(base, op, st[k - 1], st[k])
    BY <1>3, <2>2, <2>3 DEF Trace
  <2> QED BY <2>1, <2>2, <2>4 DEF Does
<1> QED BY <1>1, <1>2, <1>3, <1>6, <1>7 DEF Pending

LEMMA ReplayReturnedFollows == ASSUME WInv, TraceInv, ReplayReturned PROVE TraceInv'
<1>1. /\ events' = events + 1 /\ op' = NoOp /\ UNCHANGED <<stage, rebuild, base, pending_>>
  BY DEF ReplayReturned, Returned, phaseVars, batchVars
<1>2. Replays /\ rebuild = {}
  BY ReplayedCall
<1>3. PICK st : Trace(base, st, pending_, batch_size) /\ Store' = st[events + 1]
  BY ReplayedCall
<1>4. Follow(st)'
  BY <1>1, <1>2, <1>3 DEF Follow
<1> QED BY <1>1, <1>2, <1>3, <1>4, InReplay DEF Replays

LEMMA ReplayCancelFollows == ASSUME WInv, TraceInv, ReplayCancel PROVE TraceInv'
<1>1. Replays /\ rebuild = {} /\ op = NoOp
  BY PendingDoes DEF ReplayCancel
<1>2. PICK st : /\ Trace(base, st, pending_, batch_size) /\ Store = st[events]
                /\ Does(base, Pending, st[events], st[events + 1])
  BY PendingDoes DEF ReplayCancel
<1>3. PICK h : h = Pending.handle
  OBVIOUS
<1>4. /\ cancel_order(h) /\ events' = events + 1 /\ UNCHANGED <<op, stage, rebuild, base, pending_>>
      /\ Pending.type = "cancel"
  BY <1>3 DEF ReplayCancel, phaseVars, batchVars
<1>5. st[events + 1] = Withdrawn(Store, h)
  BY <1>2, <1>3, <1>4 DEF Does, Cancels
<1>6. Store' = st[events + 1]
  BY <1>4, <1>5, CancelMoves
<1>7. Follow(st)'
  BY <1>1, <1>4, <1>6 DEF Follow
<1> QED BY <1>1, <1>2, <1>4, <1>7, InReplay DEF Replays

LEMMA StutterFollows == ASSUME TraceInv, UNCHANGED workloadVars PROVE TraceInv'
<1>1. /\ UNCHANGED <<order, links, book, pc, call, quantity, out, fifo, free>>
      /\ UNCHANGED <<stage, events, rebuild, op, base, cluster, pregen_queue_, pending_>>
  BY DEF workloadVars, vars
<1>2. Store' = Store /\ Machine' = Machine /\ Run' = Run /\ RunLen' = RunLen
  BY <1>1 DEF Store, Machine, Run, RunLen
<1>3. BuildInv'
  BY <1>1, <1>2 DEF TraceInv, BuildInv
<1>4. GenerateInv'
  BY <1>1, <1>2 DEF TraceInv, GenerateInv, Generating
<1>5. ReplayInv'
  BY <1>1, <1>2 DEF TraceInv, ReplayInv, Follow
<1> QED BY <1>3, <1>4, <1>5 DEF TraceInv

-----------------------------------------------------------------------------
(***************************************************************************)
(* The invariant of the workload.                                          *)
(***************************************************************************)
WorkloadInv == WInv /\ TraceInv

LEMMA WorkloadInitialInv == WorkloadInit => WorkloadInv
<1> SUFFICES ASSUME WorkloadInit PROVE WorkloadInv
  OBVIOUS
<1>1. stage = "warmup"
  BY DEF WorkloadInit
<1>2. TraceInv
  BY <1>1 DEF TraceInv, BuildInv, GenerateInv, ReplayInv
<1> QED BY <1>2, WorkloadInitInv DEF WorkloadInv

LEMMA EndGenerateKeeps == ASSUME WInv, EndGenerate PROVE WInv'
<1>1. /\ Between /\ EnterStage("dry_run", base) /\ UNCHANGED <<base, shadow>>
      /\ stage # "warmup" /\ Len(pending_) = batch_size
  BY DEF EndGenerate
<1> QED BY <1>1, EnterReplayKeeps

LEMMA EndDryRunKeeps == ASSUME WInv, EndDryRun PROVE WInv'
<1>1. /\ Between /\ EnterStage("replay", base) /\ UNCHANGED <<base, shadow>>
      /\ stage # "warmup" /\ Len(pending_) = batch_size
  BY DEF EndDryRun, WInv, BatchInv, PhaseInv
<1> QED BY <1>1, EnterReplayKeeps

LEMMA WorkloadStep == WorkloadInv /\ [WorkloadNext]_workloadVars => WorkloadInv'
<1> SUFFICES ASSUME WInv, TraceInv, [WorkloadNext]_workloadVars PROVE WInv' /\ TraceInv'
  BY DEF WorkloadInv
<1>1. CASE limit_add
  BY <1>1, limit_addKeeps, DrawnFits, DrawFollows
<1>2. CASE modify
  BY <1>2, modifyKeeps, DrawnFits, DrawFollows
<1>3. CASE market
  BY <1>3, marketKeeps, DrawnFits, DrawFollows
<1>4. CASE cancel
  <2>1. WInv'
    BY <1>4, cancelKeeps
  <2>2. BatchInv'
    BY <2>1 DEF WInv
  <2> QED BY <1>4, <2>1, <2>2, cancelFollows
<1>5. CASE QueuedCancel
  <2>1. stage' = "warmup"
    BY <1>5 DEF QueuedCancel, WarmupCancel, phaseVars
  <2> QED BY <1>5, <2>1, QueuedCancelKeeps, InWarmup
<1>6. CASE ClusterCancel
  <2>1. WInv'
    BY <1>6, ClusterCancelKeeps
  <2>2. BatchInv'
    BY <2>1 DEF WInv
  <2> QED BY <1>6, <2>1, <2>2, ClusterCancelFollows
<1>7. CASE ClusterEnd \/ TakeQueued
  <2>1. WInv'
    BY <1>7, ClusterEndKeeps, TakeQueuedKeeps
  <2>2. BatchInv'
    BY <2>1 DEF WInv
  <2> QED BY <1>7, <2>1, <2>2, QueueFollows
<1>8. CASE EngineSteps
  BY <1>8, EngineStepsKeep, EngineFollows
<1>9. CASE WarmupReturned
  <2>1. stage' = "warmup"
    BY <1>9 DEF WarmupReturned, phaseVars
  <2> QED BY <1>9, <2>1, WarmupReturnedKeeps, InWarmup
<1>10. CASE GenerateReturned
  <2>1. WInv'
    BY <1>10, GenerateReturnedKeeps
  <2>2. BatchInv'
    BY <2>1 DEF WInv
  <2> QED BY <1>10, <2>1, <2>2, GenerateReturnedFollows
<1>11. CASE ReplayReturned
  BY <1>11, ReplayReturnedKeeps, ReplayReturnedFollows
<1>12. CASE EndWarmup
  BY <1>12, EndWarmupKeeps, EndWarmupFollows
<1>13. CASE EndGenerate
  BY <1>13, EndGenerateKeeps, EndGenerateFollows
<1>14. CASE EndDryRun
  BY <1>14, EndDryRunKeeps, EndDryRunFollows
<1>15. CASE Readd
  BY <1>15, ReaddKeeps, ReaddFollows
<1>16. CASE Readded
  BY <1>16, ReaddedKeeps, ReaddedFollows
<1>17. CASE ReplayCall
  BY <1>17, ReplayCallKeeps, ReplayCallFollows
<1>18. CASE ReplayCancel
  BY <1>18, ReplayCancelKeeps, ReplayCancelFollows
<1>19. CASE UNCHANGED workloadVars
  BY <1>19, WorkloadStutterKeeps, StutterFollows
<1> QED BY <1>1, <1>2, <1>3, <1>4, <1>5, <1>6, <1>7, <1>8, <1>9, <1>10, <1>11, <1>12, <1>13, <1>14,
           <1>15, <1>16, <1>17, <1>18, <1>19 DEF WorkloadNext

LEMMA WorkloadIsInvariant == WorkloadSpec => []WorkloadInv
BY WorkloadInitialInv, WorkloadStep, PTL DEF WorkloadSpec

-----------------------------------------------------------------------------
(***************************************************************************)
(* What the workload keeps.                                                *)
(***************************************************************************)
\* The counters, queues, records and trees of the workload stay in their types,
\* the event count within its bound and a batch within batch_size, over warmup,
\* generation, rebuilds and replays.
THEOREM WorkloadTypesCorrect == WorkloadSpec => []WorkloadTypeOK
<1>1. WorkloadInv => WorkloadTypeOK
  <2> SUFFICES ASSUME WInv PROVE WorkloadTypeOK
    BY DEF WorkloadInv
  <2>1. TypeOK /\ op.type \in {"none", "limit", "modify", "market"}
    <3>1. TypeOK
      BY DEF WInv, EngineInv, IInv, StoreInv, StoreTypeOK, CallInv, CallTypeOK, TypeOK, OrderData, ResultRecord
    <3>2. op.type \in {"none", "limit", "modify", "market"}
      BY DEF WInv, EngineInv, CallsInv, NoOp
    <3> QED BY <3>1, <3>2
  <2>2. events \in 0 .. Max({SeedEvents + WarmupEvents, batch_size})
    <3> DEFINE w == SeedEvents + WarmupEvents
               S == {w, batch_size}
    <3>1. w \in Nat /\ batch_size \in Nat
      BY WorkloadAssumption
    <3>2. /\ events \in Nat /\ (events <= w \/ events <= batch_size)
          /\ S \in SUBSET (0 .. w + batch_size) /\ S # {} /\ w + batch_size \in Nat
      BY <3>1 DEF WInv, BatchInv, EventsInv, PhaseInv
    <3> HIDE DEF w
    <3>3. Max(S) \in S /\ \A x \in S : x <= Max(S)
      BY <3>2, MaxIsGreatest
    <3>4. PICK m : m = Max(S)
      OBVIOUS
    <3>5. m \in Nat /\ w <= m /\ batch_size <= m
      BY <3>1, <3>2, <3>3, <3>4
    <3>6. events \in 0 .. m
      BY <3>1, <3>2, <3>5
    <3> QED BY <3>4, <3>6 DEF w
  <2>3. /\ stage \in {"warmup", "generate", "dry_run", "replay"} /\ rebuild \subseteq DOMAIN base
        /\ id_counter_ \in Nat /\ cluster_queue_ \in Seq(OrderId) /\ cluster.left \in Nat
        /\ Len(pending_) <= batch_size
    BY DEF WInv, BatchInv, PhaseInv, BaseInv, IdsInv, QueuesInv, EventsInv
  <2>4. /\ DOMAIN track.orders \subseteq OrderId
        /\ \A id \in DOMAIN track.orders :
             track.orders[id] \in [side : Side, price : Prices, qty : Nat \ {0}]
        /\ \A id \in DOMAIN track.handles :
             track.handles[id] \in [handle : Handles, qty : Nat \ {0}]
        /\ track.counts \in [Side -> [Prices -> Nat]]
    BY DEF WInv, TrackingInv, TrackOK, OrderInfo, HandleInfo
  <2>5. shadow \in [Side -> SUBSET Bits]
    BY DEF WInv, ShadowInv
  <2> QED BY <2>1, <2>2, <2>3, <2>4, <2>5 DEF WorkloadTypeOK
<1> QED BY <1>1, WorkloadIsInvariant, PTL

\* Between operations of the warmup and of the generation, the tracking names
\* exactly the orders in the book, with their side, price, quantity and slot,
\* and its level counts count them: resting_orders_, book_handles_ and
\* apply_trade_fills() account for every fill, sweep, modify and cluster.
THEOREM TrackingAlwaysExact == WorkloadSpec => []TrackingExact
<1>1. WorkloadInv => TrackingExact
  <2> SUFFICES ASSUME WInv, SettingUp, op = NoOp, rebuild = {}
               PROVE  /\ DOMAIN track.orders = RestingIds
                      /\ DOMAIN track.handles = RestingIds
                      /\ \A s \in Side, i \in Bits :
                          /\ track.counts[s][price_of(i)] = Len(fifo[<<s, i>>])
                          /\ \A h \in ToSet(fifo[<<s, i>>]) :
                              /\ track.orders[order[h].id] =
                                   [side |-> s, price |-> price_of(i), qty |-> order[h].quantity]
                              /\ track.handles[order[h].id] =
                                   [handle |-> h, qty |-> order[h].quantity]
    BY DEF WorkloadInv, TrackingExact, SettingUp
  <2>1. Follows(track, order, fifo) /\ RestingIds = DOMAIN track.orders
        /\ RestingIds = DOMAIN track.handles
    BY BetweenFollows
  <2>2. Stored(links, fifo, free)
    BY StoredIs DEF WInv, EngineInv, IInv
  <2>3. ASSUME NEW s \in Side, NEW i \in Bits
        PROVE  /\ track.counts[s][price_of(i)] = Len(fifo[<<s, i>>])
               /\ \A h \in ToSet(fifo[<<s, i>>]) :
                    /\ track.orders[order[h].id] =
                         [side |-> s, price |-> price_of(i), qty |-> order[h].quantity]
                    /\ track.handles[order[h].id] = [handle |-> h, qty |-> order[h].quantity]
    <3>1. /\ <<s, i>> \in Levels /\ <<s, i>>[1] = s /\ <<s, i>>[2] = i
          /\ fifo[<<s, i>>] \in Seq(Handles) /\ IsInjective(fifo[<<s, i>>])
      BY <2>2, LevelFacts DEF Stored, Partitioned
    <3>2. track.counts[s][price_of(i)] = Len(fifo[<<s, i>>])
      BY <2>1, <3>1, CountIsLength
    <3> QED BY <2>1, <3>1, <3>2 DEF Follows, Names
  <2> QED BY <2>1, <2>3
<1> QED BY <1>1, WorkloadIsInvariant, PTL

\* Between operations of the generation, the shadow trees have every bit of the
\* engine's, and the bits they have besides are of levels without orders.
THEOREM ShadowAlwaysCovers == WorkloadSpec => []ShadowCovers
<1>1. WorkloadInv => ShadowCovers
  <2> SUFFICES ASSUME WInv, SettingUp, op = NoOp, rebuild = {}, stage = "generate", NEW s \in Side
               PROVE  /\ Active(book[s].active_tree) \subseteq shadow[s]
                      /\ shadow[s] \ Active(book[s].active_tree) \subseteq Bits \ Live(track, s)
    BY DEF WorkloadInv, ShadowCovers, SettingUp
  <2>1. Active(book[s].active_tree) \subseteq shadow[s] /\ shadow[s] \subseteq Bits
    BY DEF WInv, ShadowInv
  <2>2. ASSUME NEW i \in Bits, i \in Live(track, s) PROVE i \in Active(book[s].active_tree)
    <3>1. Follows(track, order, fifo) /\ \A l \in Levels : ToSet(fifo[l]) \subseteq Handles
      BY BetweenFollows
    <3>2. ToSet(fifo[<<s, i>>]) # {}
      BY <2>2, <3>1, LiveLevels
    <3>3. fifo[<<s, i>>] # <<>>
      BY <3>2 DEF ToSet
    <3>4. i \in Occupied(s)
      BY <3>3, StoredIs, OccupiedExact DEF WInv, EngineInv, IInv, Occupied
    <3> QED BY <3>4 DEF WInv, EngineInv, IInv, StoreInv, NothingHidden
  <2> QED BY <2>1, <2>2
<1> QED BY <1>1, WorkloadIsInvariant, PTL

\* Only the replay of an operation moves a replay on.
LEMMA Advances ==
    ASSUME WInv, [WorkloadNext]_workloadVars, ReplayAdvances
    PROVE  ReplayReturned \/ ReplayCancel
<1>1. Replays /\ events' = events + 1 /\ events \in Nat /\ events' # events /\ events' # 0
  BY DEF ReplayAdvances, Replays, WInv, BatchInv, EventsInv
<1>2. CASE limit_add \/ modify \/ market
  BY <1>1, <1>2 DEF limit_add, modify, market, IssueDrawn
<1>3. CASE cancel \/ QueuedCancel
  BY <1>1, <1>3 DEF cancel, QueuedCancel, Replays
<1>4. CASE ClusterCancel \/ ClusterEnd \/ TakeQueued \/ EngineSteps \/ GenerateReturned
  BY <1>1, <1>4 DEF ClusterCancel, ClusterEnd, TakeQueued, EngineSteps, GenerateReturned
<1>5. CASE WarmupReturned
  BY <1>1, <1>5 DEF WarmupReturned, Replays
<1>6. CASE EndWarmup \/ EndGenerate \/ EndDryRun
  BY <1>1, <1>6 DEF EndWarmup, EndGenerate, EndDryRun, EnterStage
<1>7. CASE Readd \/ Readded \/ ReplayCall
  BY <1>1, <1>7 DEF Readd, Readded, ReplayCall
<1>8. CASE UNCHANGED workloadVars
  BY <1>1, <1>8 DEF workloadVars
<1> QED BY <1>2, <1>3, <1>4, <1>5, <1>6, <1>7, <1>8 DEF WorkloadNext

\* execute_pending() replays a batch on the book that rebuild_from_base_state()
\* built as it ran when it was generated: a cancel finds the order it found
\* then, untouched and at the same handle, and every other call returns the
\* same result, trades, remainder and handle included.
THEOREM ReplaysRepeat == WorkloadSpec => ReplayRepeats
<1>1. ASSUME WInv, TraceInv, [WorkloadNext]_workloadVars, ReplayAdvances
      PROVE  \/ /\ Pending.type = "cancel"
                /\ Pending.handle \in Resting
                /\ order[Pending.handle] = Pending.result
             \/ /\ Pending.type # "cancel"
                /\ out' = Pending.result
  <2>1. CASE ReplayReturned
    BY <1>1, <2>1, ReplayedCall
  <2>2. CASE ReplayCancel
    <3>1. Cancels(Pending, Store, Withdrawn(Store, Pending.handle)) /\ Pending.type = "cancel"
      BY <1>1, <2>2, PendingDoes DEF ReplayCancel, Does, Cancels
    <3> QED BY <3>1, RestingIs DEF Cancels, Store
  <2> QED BY <1>1, <2>1, <2>2, Advances
<1> QED BY <1>1, WorkloadIsInvariant, PTL DEF WorkloadSpec, ReplayRepeats, WorkloadInv

\* The scenario under which a replayed operation is reported is what it does: an
\* add is tagged as resting on a new or on an existing level exactly when it
\* does so, and the metadata of a cancel are those of the order it withdraws.
THEOREM ReplayTagsTrue == WorkloadSpec => TagsTrue
<1>1. ASSUME WInv, TraceInv, [WorkloadNext]_workloadVars, ReplayAdvances
      PROVE  IF Pending.type = "cancel"
             THEN /\ order[Pending.handle] = [id |-> Pending.id, price |-> Pending.meta.price,
                                             quantity |-> Pending.meta.qty]
                  /\ links.parent_level[Pending.handle] =
                       <<Pending.meta.side, idx_of(Pending.meta.price)>>
             ELSE \/ RestsAs(Pending, Pending.scenario)
                  \/ /\ Pending.scenario = "Unmeasured"
                     /\ ~RestsAs(Pending, "AddRestNewLevel")
                     /\ ~RestsAs(Pending, "AddRestExistingLevel")
  <2>1. CASE ReplayReturned
    <3>1. PICK y : y = Store'
      OBVIOUS
    <3>2. Pending.type # "cancel" /\ out' = Pending.result /\ Tagged(Pending, y)
      BY <1>1, <2>1, <3>1, ReplayedCall
    <3>3. ASSUME NEW scenario
          PROVE  RestsIn(y, Pending, scenario, Pending.result) <=> RestsAs(Pending, scenario)
      <4>1. y.fifo = fifo'
        BY <3>1 DEF Store
      <4> QED BY <3>2, <4>1 DEF RestsIn, RestsAs
    <3> QED BY <3>2, <3>3 DEF Tagged
  <2>2. CASE ReplayCancel
    <3>1. Cancels(Pending, Store, Withdrawn(Store, Pending.handle)) /\ Pending.type = "cancel"
      BY <1>1, <2>2, PendingDoes DEF ReplayCancel, Does, Cancels
    <3> QED BY <3>1 DEF Cancels, Store
  <2> QED BY <1>1, <2>1, <2>2, Advances
<1> QED BY <1>1, WorkloadIsInvariant, PTL DEF WorkloadSpec, TagsTrue, WorkloadInv
=============================================================================

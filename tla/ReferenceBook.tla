--------------------------- MODULE ReferenceBook ---------------------------
(***************************************************************************)
(* What the matching engine promises, as the oracle of the tests states it *)
(* (ReferenceOrderBook in tests/order_book_add_result_gtest.cpp): each     *)
(* side is a map from prices to FIFO queues of orders.  There is no pool,  *)
(* no links, no occupancy tree, no cached best and no ghost.               *)
(*                                                                         *)
(* A call that matches takes one step per trade.                           *)
(***************************************************************************)
EXTENDS Integers, FiniteSetsExt, SequencesExt

CONSTANTS
    OrderId,    \* business order ids
    Prices,     \* the prices a client may use
    Quantity,   \* the quantities a client may ask for
    NULL        \* no id, no price

Side == {"Buy", "Sell"}
Opposite(s) == IF s = "Buy" THEN "Sell" ELSE "Buy"

VARIABLES
    queue,      \* bids_ and asks_: [Side -> [Prices -> Seq([id, quantity])]]
    matching,   \* a call is in progress
    taker,      \* its arguments: op, id, side, price
    remaining,  \* what is left to match
    out         \* the AddResult, a handle being there or not

vars == <<queue, matching, taker, remaining, out>>

NoTaker == [op |-> "none", id |-> NULL, side |-> "Buy", price |-> NULL]

Result(code, initial) ==
    [code |-> code, initial_quantity |-> initial, filled_quantity |-> 0,
     remaining_quantity |-> 0, has_handle |-> FALSE, trades |-> <<>>]

Init ==
    /\ queue = [s \in Side |-> [p \in Prices |-> <<>>]]
    /\ ~matching
    /\ taker = NoTaker
    /\ remaining = 0
    /\ out = Result("Success", 0)

\* Order k of the queue at a side and price has the id.
Holds(id, s, p, k) == queue[s][p][k].id = id

Rests(id) == \E s \in Side, p \in Prices : \E k \in 1 .. Len(queue[s][p]) : Holds(id, s, p, k)

Begin(op, id, side, price, qty) ==
    \/ /\ qty = 0
       /\ out' = Result("InvalidQuantity", 0)
       /\ UNCHANGED <<matching, taker, remaining>>
    \/ /\ qty > 0
       /\ out' = Result("Success", qty)
       /\ matching' = TRUE
       /\ taker' = [op |-> op, id |-> id, side |-> side, price |-> price]
       /\ remaining' = qty

cancel_from_book(id) ==
    \E s \in Side, p \in Prices : \E k \in 1 .. Len(queue[s][p]) :
        /\ Holds(id, s, p, k)
        /\ queue' = [queue EXCEPT ![s][p] = RemoveAt(@, k)]

Submit(op, id, side, price, qty) ==
    /\ ~matching
    /\ Begin(op, id, side, price, qty)
    /\ ~Rests(id)
    /\ UNCHANGED queue

cancel_order(id) ==
    /\ ~matching
    /\ UNCHANGED <<matching, taker, remaining, out>>
    /\ cancel_from_book(id)

modify_order(id, side, price, qty) ==
    /\ ~matching
    /\ Begin("modify", id, side, price, qty)
    /\ cancel_from_book(id)

-----------------------------------------------------------------------------
oppo == queue[Opposite(taker.side)]

\* Prices of the other side at which somebody waits, and the best of them.
Waiting == {p \in Prices : oppo[p] # <<>>}
best_price == IF taker.side = "Buy" THEN Min(Waiting) ELSE Max(Waiting)

CanMatch ==
    /\ matching /\ remaining > 0 /\ Waiting # {}
    /\ taker.op # "market" => IF taker.side = "Buy" THEN taker.price >= best_price
                                                    ELSE taker.price <= best_price

\* One trade with the first order in the best queue.
Trade ==
    /\ CanMatch
    /\ LET first == Head(oppo[best_price])
           fill  == Min({remaining, first.quantity})
           left  == first.quantity - fill IN
       /\ queue' = [queue EXCEPT ![Opposite(taker.side)][best_price] =
              IF left = 0 THEN Tail(@) ELSE <<[first EXCEPT !.quantity = left]>> \o Tail(@)]
       /\ remaining' = remaining - fill
       /\ out' = [out EXCEPT
              !.filled_quantity = @ + fill,
              !.trades = Append(@, [taker |-> taker.id, maker |-> first.id,
                                    price |-> best_price, quantity |-> fill])]
    /\ UNCHANGED <<matching, taker>>

Finish(result) ==
    /\ matching /\ ~CanMatch
    /\ out' = [result EXCEPT !.remaining_quantity = remaining]
    /\ matching' = FALSE
    /\ taker' = NoTaker
    /\ remaining' = 0

ReturnUnrested ==
    /\ remaining = 0 \/ taker.op = "market"
    /\ Finish([out EXCEPT !.code = IF remaining = 0 THEN "Success"
                                   ELSE "MarketRemainderCancelled"])
    /\ UNCHANGED queue

rest_order ==
    /\ remaining > 0 /\ taker.op # "market"
    /\ Finish([out EXCEPT !.has_handle = TRUE])
    /\ queue' = [queue EXCEPT ![taker.side][taker.price] =
           Append(@, [id |-> taker.id, quantity |-> remaining])]

Next ==
    \/ \E id \in OrderId, side \in Side, qty \in Quantity :
        \/ Submit("market", id, side, NULL, qty)
        \/ \E price \in Prices :
            \/ Submit("limit", id, side, price, qty)
            \/ modify_order(id, side, price, qty)
    \/ \E id \in OrderId : cancel_order(id)
    \/ Trade
    \/ ReturnUnrested
    \/ rest_order

Spec == Init /\ [][Next]_vars
=============================================================================

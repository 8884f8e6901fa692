----------------------------- MODULE OrderBook -----------------------------
(***************************************************************************)
(* The matching engine (order_book.hpp, order_book.cpp): two side books,   *)
(* the price levels' FIFO lists and the order pool, under the four calls   *)
(* add_limit_order, add_market_order, cancel_order and modify_order.       *)
(*                                                                         *)
(* The engine is sequential: one call runs to its return.  A call that     *)
(* matches is a sequence of steps, one per fill and one per level erased,  *)
(* so that what holds in the middle of the loops can be stated; no other   *)
(* call starts before it returns.  The nested loops of matching_engine_*   *)
(* are one loop here: the inner loop changes neither the best level nor    *)
(* the crossing test, so testing them again changes nothing.               *)
(***************************************************************************)
EXTENDS ArraySideBook, PriceLevel

CONSTANTS
    OrderId,    \* business order ids
    Quantity    \* quantities a client may ask for, 0 included

ASSUME OrderBookAssumption ==
    /\ Quantity \subseteq Nat
    /\ NULL \notin OrderId

Side == {"Buy", "Sell"}

\* The PriceLevel objects are the elements of the two levels_ arrays.
ASSUME LevelsAssumption == Levels = Side \X Bits

VARIABLES
    order,      \* business data of the pool's slots: id, price, quantity
    links,      \* the link memory (OrderPool, PriceLevel)
    book,       \* the side book of each side: bids_ and asks_
    pc,         \* where the current call stands
    call,       \* its arguments: op, id, side, price
    quantity,   \* its local variable: what is left to match
    out,        \* the AddResult being built, then the last one returned
    fifo,       \* history: the orders of each level in order of arrival
    free        \* history: the free slots, last released first

vars == <<order, links, book, pc, call, quantity, out, fifo, free>>

Opposite(s)  == IF s = "Buy" THEN "Sell" ELSE "Buy"
IsAskSide(s) == s = "Sell"

ErrorCode == {"Success", "InvalidQuantity", "MarketRemainderCancelled"}

NoCall == [op |-> "none", id |-> NULL, side |-> "Buy", price |-> NULL]

Result(code, initial) ==
    [code |-> code, initial_quantity |-> initial, filled_quantity |-> 0,
     remaining_quantity |-> 0, handle |-> NULL, trades |-> <<>>]

\* Handles of resting orders, and their ids.
Resting == {h \in Handles : \E l \in Levels : h \in ToSet(fifo[l])}
RestingIds == {order[h].id : h \in Resting}

Init ==
    /\ order = [h \in Handles |-> [id |-> NULL, price |-> base_price_, quantity |-> 0]]
    /\ links = InitLinks
    /\ book = [s \in Side |-> EmptyBook]
    /\ pc = "idle"
    /\ call = NoCall
    /\ quantity = 0
    /\ out = Result("Success", 0)
    /\ fifo = [l \in Levels |-> <<>>]
    /\ free = [k \in 1 .. capacity |-> capacity - k]

-----------------------------------------------------------------------------
(***************************************************************************)
(* Calls.                                                                  *)
(***************************************************************************)

\* The entry of add_limit_order and add_market_order: a zero quantity is
\* rejected, any other goes to the matching loop.
Begin(op, id, side, price, qty) ==
    \/ /\ qty = 0
       /\ out' = Result("InvalidQuantity", 0)
       /\ UNCHANGED <<pc, call, quantity>>
    \/ /\ qty > 0
       /\ out' = Result("Success", qty)
       /\ pc' = "match"
       /\ call' = [op |-> op, id |-> id, side |-> side, price |-> price]
       /\ quantity' = qty

\* Seeded fault: the slot is not released.
UnlinkKeepsSlot(h) ==
    LET l == links.parent_level[h] IN
    /\ links' = Erase(links, l, h)
    /\ fifo' = [fifo EXCEPT ![l] = Without(@, h)]
    /\ UNCHANGED free

\* parent_level->erase(*o); pool_.release(o)
Unlink(h) ==
    LET l == links.parent_level[h] IN
    /\ links' = Release(Erase(links, l, h), h)
    /\ fifo' = [fifo EXCEPT ![l] = Without(@, h)]
    /\ free' = <<h>> \o free

add_limit_order(id, side, price, qty) ==
    /\ pc = "idle"
    /\ Begin("limit", id, side, price, qty)
    /\ UNCHANGED <<order, links, book, fifo, free>>

add_market_order(id, side, qty) ==
    /\ pc = "idle"
    /\ Begin("market", id, side, NULL, qty)
    /\ UNCHANGED <<order, links, book, fifo, free>>

\* cancel_order() touches neither side book: an emptied level stays active.
cancel_order(h) ==
    /\ pc = "idle"
    /\ Unlink(h)
    /\ UNCHANGED <<order, book, pc, call, quantity, out>>

\* modify_order() removes the order first, whatever the new quantity is, and
\* submits a limit order with the old id.
modify_order(h, side, price, qty) ==
    /\ pc = "idle"
    /\ Unlink(h)
    /\ Begin("modify", order[h].id, side, price, qty)
    /\ UNCHANGED <<order, book>>

-----------------------------------------------------------------------------
(***************************************************************************)
(* The matching loop.                                                      *)
(***************************************************************************)
oppo_side  == Opposite(call.side)
oppo_book  == book[oppo_side]
best_price == price_of(oppo_book.best_price_idx_)
best_level == <<oppo_side, oppo_book.best_price_idx_>>
maker      == front(links, best_level)

\* Seeded fault: orders at the same price do not cross.
can_cross_strictly == IF call.side = "Sell" THEN call.price < best_price
                                            ELSE call.price > best_price

can_cross == IF call.side = "Sell" THEN call.price <= best_price
                                   ELSE call.price >= best_price

\* Seeded fault: an empty best level ends the loop.
CanMatchStopsAtGhost ==
    /\ quantity > 0
    /\ oppo_book.has_best_
    /\ ~empty(links, best_level)
    /\ call.op # "market" => can_cross

\* The condition under which the loop goes on: a market order has no limit.
CanMatch ==
    /\ quantity > 0
    /\ oppo_book.has_best_
    /\ call.op # "market" => can_cross

Trade(qty) == [taker |-> call.id, maker |-> order[maker].id,
               price |-> order[maker].price, quantity |-> qty]

\* Seeded fault: filled_quantity is assigned, not accumulated.
FillOverwrites(qty) ==
    /\ order' = [order EXCEPT ![maker].quantity = @ - qty]
    /\ quantity' = quantity - qty
    /\ out' = [out EXCEPT !.filled_quantity = qty,
                          !.trades = Append(@, Trade(qty))]
    /\ UNCHANGED <<book, call>>

\* Quantity qty changes hands with the order at the front of the best level.
Fill(qty) ==
    /\ order' = [order EXCEPT ![maker].quantity = @ - qty]
    /\ quantity' = quantity - qty
    /\ out' = [out EXCEPT !.filled_quantity = @ + qty,
                          !.trades = Append(@, Trade(qty))]
    /\ UNCHANGED <<book, call>>

AtMaker == pc = "match" /\ CanMatch /\ ~empty(links, best_level)

\* Seeded fault: the fill is not the minimum of the two quantities.
FillPartUnchecked ==
    /\ AtMaker
    /\ Fill(quantity)
    /\ UNCHANGED <<links, pc, fifo, free>>

\* Seeded fault: an exact fill leaves the maker in its level.
FillPartOrExact ==
    /\ AtMaker
    /\ quantity <= order[maker].quantity
    /\ Fill(quantity)
    /\ UNCHANGED <<links, pc, fifo, free>>

\* The maker has more than the taker still wants.
FillPart ==
    /\ AtMaker
    /\ quantity < order[maker].quantity
    /\ Fill(quantity)
    /\ UNCHANGED <<links, pc, fifo, free>>

\* The maker is filled: it leaves the level and its slot is released.  A
\* level left empty is erased next, even if the taker is filled too.
FillAll ==
    /\ AtMaker
    /\ quantity >= order[maker].quantity
    /\ Fill(order[maker].quantity)
    /\ links' = Release(Erase(links, best_level, maker), maker)
    /\ fifo' = [fifo EXCEPT ![best_level] = Tail(@)]
    /\ free' = <<maker>> \o free
    /\ pc' = IF empty(links', best_level) THEN "erase" ELSE "match"

\* Seeded fault: erase_best() does not look at the level it moves to.
DropEmptyBestOnce ==
    /\ book' = [book EXCEPT ![oppo_side] = DropBest(IsAskSide(oppo_side), @)]
    /\ pc' = "match"
    /\ UNCHANGED <<order, links, call, quantity, out, fifo, free>>

\* One turn of erase_best() and its clear_ghost_best_level() loop.
DropEmptyBest ==
    /\ book' = [book EXCEPT ![oppo_side] = DropBest(IsAskSide(oppo_side), @)]
    /\ pc' = IF /\ book'[oppo_side].has_best_
                /\ empty(links, <<oppo_side, book'[oppo_side].best_price_idx_>>)
             THEN "erase" ELSE "match"
    /\ UNCHANGED <<order, links, call, quantity, out, fifo, free>>

erase_best == pc = "erase" /\ DropEmptyBest

\* The loop meets a crossing best level that a cancel left empty.
SkipGhost ==
    /\ pc = "match" /\ CanMatch /\ empty(links, best_level)
    /\ DropEmptyBest

-----------------------------------------------------------------------------
(***************************************************************************)
(* After the loop.                                                         *)
(***************************************************************************)
LoopDone == pc = "match" /\ ~CanMatch

\* The call is over; its locals are gone.
Return(result) ==
    /\ out' = [result EXCEPT !.remaining_quantity = quantity]
    /\ pc' = "idle"
    /\ call' = NoCall
    /\ quantity' = 0

\* Fully filled, or a market order: nothing rests.
ReturnUnrested ==
    /\ LoopDone
    /\ quantity = 0 \/ call.op = "market"
    /\ Return([out EXCEPT !.code = IF quantity = 0 THEN "Success"
                                   ELSE "MarketRemainderCancelled"])
    /\ UNCHANGED <<order, links, book, fifo, free>>

MustRest == LoopDone /\ quantity > 0 /\ call.op # "market"

\* The remainder of a limit order gets a slot and joins its level.
RestRemainder ==
    /\ MustRest
    /\ links.free_head_ # NULL
    /\ LET h   == links.free_head_
           idx == idx_of(call.price)
           l   == <<call.side, idx>> IN
       /\ order' = [order EXCEPT ![h] =
              [id |-> call.id, price |-> call.price, quantity |-> quantity]]
       /\ book' = [book EXCEPT ![call.side] = GetOrCreate(IsAskSide(call.side), @, idx)]
       /\ links' = [PushBack(Acquire(links), l, h) EXCEPT !.parent_level[h] = l]
       /\ fifo' = [fifo EXCEPT ![l] = Append(@, h)]
       /\ free' = Tail(free)
       /\ Return([out EXCEPT !.handle = h])

\* acquire() returns kInvalidHandle after the trades were made: the
\* assertion stops the program (without assertions, undefined behaviour).
PoolExhausted ==
    /\ MustRest
    /\ links.free_head_ = NULL
    /\ pc' = "aborted"
    /\ UNCHANGED <<order, links, book, call, quantity, out, fifo, free>>

-----------------------------------------------------------------------------
(***************************************************************************)
(* The gateway's contract (order_book.hpp:65): ids are fresh and handles   *)
(* name resting orders.                                                    *)
(***************************************************************************)
Calls ==
    \/ \E id \in OrderId \ RestingIds, side \in Side, qty \in Quantity :
        \/ \E price \in Prices : add_limit_order(id, side, price, qty)
        \/ add_market_order(id, side, qty)
    \/ \E h \in Resting :
        \/ cancel_order(h)
        \/ \E side \in Side, price \in Prices, qty \in Quantity :
            modify_order(h, side, price, qty)

Steps ==
    \/ FillPart
    \/ FillAll
    \/ erase_best
    \/ SkipGhost
    \/ ReturnUnrested
    \/ RestRemainder
    \/ PoolExhausted

Next == Calls \/ Steps

Spec == Init /\ [][Next]_vars

\* A call, once made, runs: the engine is sequential and never waits.
FairSpec == Spec /\ WF_vars(Steps)

-----------------------------------------------------------------------------
(***************************************************************************)
(* Types.                                                                  *)
(***************************************************************************)
TradeRecord == [taker : OrderId, maker : OrderId, price : Prices, quantity : Nat]

TypeOK ==
    /\ order \in [Handles -> [id : OrNull(OrderId), price : Prices, quantity : Nat]]
    /\ links \in Links
    /\ book \in [Side -> SideBook]
    /\ pc \in {"idle", "match", "erase", "aborted"}
    /\ call \in [op : {"none", "limit", "market", "modify"}, id : OrNull(OrderId),
                 side : Side, price : OrNull(Prices)]
    /\ quantity \in Nat
    /\ out \in [code : ErrorCode, initial_quantity : Nat, filled_quantity : Nat,
               remaining_quantity : Nat, handle : OrNull(Handles),
               trades : Seq(TradeRecord)]
    /\ fifo \in [Levels -> Seq(Handles)]
    /\ free \in Seq(Handles)

-----------------------------------------------------------------------------
(***************************************************************************)
(* Every level's links spell its orders in order of arrival, forwards and  *)
(* backwards, and the free list spells the released slots, although cancel *)
(* unlinks in the middle and one next field serves both kinds of list.     *)
(***************************************************************************)
LinksExact ==
    /\ \A l \in Levels : Spells(links, l, fifo[l])
    /\ FreeListSpells(links, free)

(***************************************************************************)
(* No slot leaks, is released twice or is in two lists: each is free or    *)
(* rests in one level, at one place.                                       *)
(***************************************************************************)
PoolPartitioned ==
    /\ \A l \in Levels : IsInjective(fifo[l])
    /\ IsInjective(free)
    /\ \A l1, l2 \in Levels : l1 # l2 => ToSet(fifo[l1]) \cap ToSet(fifo[l2]) = {}
    /\ ToSet(free) = Handles \ Resting

(***************************************************************************)
(* A resting order has something left and carries the price of its level:  *)
(* trades report the maker's price, crossing looks at the level's.         *)
(***************************************************************************)
OrdersAtTheirLevel ==
    \A l \in Levels : \A h \in ToSet(fifo[l]) :
        /\ order[h].id \in OrderId
        /\ order[h].price = price_of(l[2])
        /\ order[h].quantity > 0

\* The indices of side s whose level is not empty.
Occupied(s) == {i \in Bits : ~empty(links, <<s, i>>)}

(***************************************************************************)
(* On both sides every level with an order is active and not better than   *)
(* the cached best, at every step of every call: the matching loop never   *)
(* misses an order behind a ghost, a stale best or a cleared bit.          *)
(***************************************************************************)
NothingHidden ==
    \A s \in Side : \A i \in Occupied(s) :
        /\ i \in Active(book[s].active_tree)
        /\ book[s].has_best_
        /\ ~better_idx(IsAskSide(s), i, book[s].best_price_idx_)

(***************************************************************************)
(* The book is never crossed: no resting bid is at or above a resting ask, *)
(* even in the middle of a call and whatever ghosts lie at the best prices.*)
(***************************************************************************)
NotCrossed ==
    \A b, a \in Resting :
        (\E i, j \in Bits : b \in ToSet(fifo[<<"Buy", i>>]) /\ a \in ToSet(fifo[<<"Sell", j>>]))
        => order[b].price < order[a].price

\* The call in progress could trade at price p.
WouldTradeAt(p) ==
    \/ call.op = "market"
    \/ IF call.side = "Buy" THEN call.price >= p ELSE call.price <= p

(***************************************************************************)
(* When the loop stops with something left to match, no resting order of   *)
(* the other side could have traded: a remainder rests, or is reported     *)
(* cancelled, only for want of liquidity.                                  *)
(***************************************************************************)
NoMissedTrade ==
    LoopDone /\ quantity > 0 =>
        \A i \in Bits : \A h \in ToSet(fifo[<<oppo_side, i>>]) :
            ~WouldTradeAt(order[h].price)

\* The quantity that changed hands in a sequence of trades.
Traded(T) == FoldLeft(LAMBDA n, t : n + t.quantity, 0, T)

(***************************************************************************)
(* The AddResult under construction accounts for the taker: fills and what *)
(* is left add up to what was asked, each fill is within the limit, and    *)
(* prices only get worse for the taker (price priority).                   *)
(***************************************************************************)
TradesAccountedFor ==
    pc # "idle" =>
        LET T == out.trades IN
        /\ out.filled_quantity + quantity = out.initial_quantity
        /\ out.filled_quantity = Traded(T)
        /\ \A k \in 1 .. Len(T) : WouldTradeAt(T[k].price) /\ T[k].quantity > 0
        /\ \A k \in 1 .. Len(T) - 1 :
            IF call.side = "Buy" THEN T[k].price <= T[k + 1].price
                                 ELSE T[k].price >= T[k + 1].price

(***************************************************************************)
(* A modify can always rest its remainder: it released a slot before it    *)
(* asked for one.  Only a new limit order can meet an exhausted pool.      *)
(***************************************************************************)
ModifyNeverExhausts == pc = "aborted" => call.op = "limit"

(***************************************************************************)
(* order_book.hpp:104: modify_order "atomically" replaces a resting order. *)
(* A call that answers InvalidQuantity leaves the orders as they were.     *)
(***************************************************************************)
RejectedCallChangesNothing ==
    [][pc = "idle" /\ pc' = "idle" /\ out' # out /\ out'.code = "InvalidQuantity"
       => UNCHANGED <<order, fifo>>]_vars

(***************************************************************************)
(* Every call returns (or stops at the pool's assertion): neither the      *)
(* matching loop nor the ghost loop runs for ever.                         *)
(***************************************************************************)
CallReturns == pc # "idle" ~> pc \in {"idle", "aborted"}
=============================================================================

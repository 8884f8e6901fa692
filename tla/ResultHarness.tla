--------------------------- MODULE ResultHarness ---------------------------
(***************************************************************************)
(* A client of the engine that keeps its contract with nothing but the     *)
(* results it gets: the bookkeeping of ResultHarness (tests/               *)
(* order_book_add_result_gtest.cpp), which is also what the readme asks of *)
(* a gateway.  live_ maps the id of every order the client believes to be  *)
(* resting to its handle; trades and returned handles are all it sees.     *)
(* Slots are reused last in, first out, so a handle kept a call too long   *)
(* names somebody else's order.                                            *)
(***************************************************************************)
EXTENDS OrderBook

VARIABLE live_

harnessVars == <<vars, live_>>

Known == DOMAIN live_

Forget(lv, id) == Restrict(lv, DOMAIN lv \ {id})

\* Seeded fault: a filled order stays in the map.
ApplyTradeKeepsFilled(lv, t) ==
    [lv EXCEPT ![t.maker].quantity = lv[t.maker].quantity - t.quantity]

\* One turn of apply_trades().
ApplyTrade(lv, t) ==
    LET left == lv[t.maker].quantity - t.quantity IN
    IF left = 0 THEN Forget(lv, t.maker)
                ELSE [lv EXCEPT ![t.maker].quantity = left]

\* apply_result(): the trades first, then the remainder that rested.
ApplyResult(lv, id, side, price, result) ==
    LET traded == FoldLeft(ApplyTrade, lv, result.trades) IN
    IF result.code = "Success" /\ result.remaining_quantity > 0
    THEN [i \in DOMAIN traded \cup {id} |->
            IF i = id THEN [handle |-> result.handle, side |-> side,
                            price |-> price, quantity |-> result.remaining_quantity]
                      ELSE traded[i]]
    ELSE traded

HarnessInit == Init /\ live_ = <<>>

add_limit ==
    \E id \in OrderId \ Known, side \in Side, price \in Prices, qty \in Quantity :
        add_limit_order(id, side, price, qty) /\ UNCHANGED live_

add_market ==
    \E id \in OrderId \ Known, side \in Side, qty \in Quantity :
        add_market_order(id, side, qty) /\ UNCHANGED live_

\* The entry is erased before the call; the result may bring it back.
modify ==
    \E id \in Known, side \in Side, price \in Prices, qty \in Quantity :
        modify_order(live_[id].handle, side, price, qty) /\ live_' = Forget(live_, id)

cancel ==
    \E id \in Known : cancel_order(live_[id].handle) /\ live_' = Forget(live_, id)

\* The engine runs; when the call returns its result is applied.
EngineRuns ==
    /\ Steps
    /\ live_' = IF pc' = "idle"
                THEN ApplyResult(live_, call.id, call.side, call.price, out')
                ELSE live_

HarnessNext == add_limit \/ add_market \/ modify \/ cancel \/ EngineRuns

HarnessSpec == HarnessInit /\ [][HarnessNext]_harnessVars

-----------------------------------------------------------------------------
(***************************************************************************)
(* Between calls the client's map names exactly the resting orders, each   *)
(* with its current slot, side, price and quantity: no stale handle after  *)
(* a fill by somebody else's call, none lost after a partial fill.         *)
(***************************************************************************)
LiveMapExact ==
    pc = "idle" =>
        /\ Known = RestingIds
        /\ \A s \in Side, i \in Bits : \A h \in ToSet(fifo[<<s, i>>]) :
            live_[order[h].id] = [handle |-> h, side |-> s, price |-> price_of(i),
                                  quantity |-> order[h].quantity]
=============================================================================

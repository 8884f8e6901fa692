-------------------------- MODULE HftMacroWorkload --------------------------
(***************************************************************************)
(* The macro benchmark's workload (benchmark/src/hft/hft_macro_workload    *)
(* .hpp, attribution enabled), a client of the engine in two lives.        *)
(*                                                                         *)
(* Setup() warms a book up with random events, then generates the batch to *)
(* be measured: it runs every operation on a dry-run book, takes from the  *)
(* results the handles that later operations need, and records the         *)
(* operations in pending_.  The book is then rebuilt from the tracked      *)
(* orders and the batch is replayed blindly, handles included, first       *)
(* untimed (annotate_order_slot_reuse) and then by Execute().              *)
(*                                                                         *)
(* Random draws are choices from the sets they can come from; an id is a   *)
(* number.  Of what the report is made of, the scenario of an operation    *)
(* and the shadow occupancy trees are modelled.                            *)
(***************************************************************************)
EXTENDS OrderBook

CONSTANTS
    SeedEvents,     \* adds before the warmup: 5000 in the code
    WarmupEvents,   \* 500000
    batch_size,
    Rolls,          \* kinds of event the roll of the dice can give
    Offsets,        \* 1 .. 100
    AddQuantity,    \* kQtyTable
    Deltas,         \* ticks a modify moves an order by: 1 .. 3
    ModifyQuantity, \* 1 .. 20
    ClusterSizes,   \* kSizes
    ClusterReach,   \* 3 ticks from the best ask
    DefaultAsk      \* best_ask_ without asks: 1000

ASSUME WorkloadAssumption ==
    /\ SeedEvents \in Nat /\ WarmupEvents \in Nat /\ batch_size \in Nat \ {0}
    /\ Rolls \subseteq {"limit", "cancel", "modify", "market"} /\ Rolls # {}
    /\ Offsets \subseteq Nat \ {0} /\ AddQuantity \subseteq Nat \ {0}
    /\ Deltas \subseteq Nat \ {0} /\ ModifyQuantity \subseteq Nat \ {0}
    /\ ClusterSizes \subseteq Nat \ {0, 1} /\ ClusterReach \in Nat
    /\ DefaultAsk \in Prices

\* Ids are 64 bits wide: there is one for every event.
ASSUME IdAssumption == 1 .. SeedEvents + WarmupEvents + batch_size \subseteq OrderId

VARIABLES
    stage,          \* what the operations in progress are for
    events,         \* events of the warmup, or index of the replay, so far
    rebuild,        \* ids that build_book_from_tracking() has still to add
    op,             \* the operation the engine is executing
    track,          \* resting_orders_, book_handles_ and the level counts
    base,           \* base_resting_orders
    id_counter_,
    cluster_queue_, \* ids to cancel next in the warmup, last first
    cluster,        \* enqueue_cluster_pending(): turns left, cluster_ops, best
    pregen_queue_,  \* operations executed but not yet pending, last first
    pending_,
    shadow          \* the bits of the shadow tree of each side

phaseVars == <<stage, rebuild, base>>
batchVars == <<cluster, pregen_queue_, pending_>>
workloadVars == <<vars, stage, events, rebuild, op, track, base, id_counter_,
                  cluster_queue_, cluster, pregen_queue_, pending_, shadow>>

NoOp      == [type |-> "none"]
NoCluster == [left |-> 0, ops |-> <<>>, best |-> DefaultAsk]
NoTrack   == [orders |-> <<>>, handles |-> <<>>,
              counts |-> [s \in Side |-> [p \in Prices |-> 0]]]

WorkloadInit ==
    /\ Init
    /\ stage = "warmup"
    /\ events = 0
    /\ rebuild = {}
    /\ op = NoOp
    /\ track = NoTrack
    /\ base = <<>>
    /\ id_counter_ = 1
    /\ cluster_queue_ = <<>>
    /\ cluster = NoCluster
    /\ pregen_queue_ = <<>>
    /\ pending_ = <<>>
    /\ shadow = [s \in Side |-> {}]

-----------------------------------------------------------------------------
(***************************************************************************)
(* Tracking.                                                               *)
(***************************************************************************)
Forget(f, id)   == Restrict(f, DOMAIN f \ {id})
Remember(f, id, x) == [i \in DOMAIN f \cup {id} |-> IF i = id THEN x ELSE f[i]]

\* Prices with tracked orders, and the best ask among them.
Tracked(t, s)   == {p \in Prices : t.counts[s][p] > 0}
best_ask(t)     == IF Tracked(t, "Sell") = {} THEN DefaultAsk ELSE Min(Tracked(t, "Sell"))

track_remove(t, id) ==
    IF id \notin DOMAIN t.orders THEN t
    ELSE LET o == t.orders[id] IN
         [t EXCEPT !.orders = Forget(@, id),
                   !.counts[o.side][o.price] = IF @ > 0 THEN @ - 1 ELSE 0]

track_add(t, id, side, price, qty) ==
    LET u == track_remove(t, id) IN
    [u EXCEPT !.orders = Remember(@, id, [side |-> side, price |-> price, qty |-> qty]),
              !.counts[side][price] = @ + 1]

drop_handle(t, id) == [t EXCEPT !.handles = Forget(@, id)]

\* Seeded fault: a maker filled to the last unit stays tracked.
ApplyFillKeepsFilled(t, trade) ==
    LET id == trade.maker IN
    CASE id \notin DOMAIN t.orders -> t
      [] id \in DOMAIN t.orders /\ trade.quantity > t.orders[id].qty ->
            track_remove(drop_handle(t, id), id)
      [] OTHER -> [t EXCEPT !.orders[id].qty = @ - trade.quantity,
                            !.handles[id].qty = @ - trade.quantity]

\* One turn of apply_trade_fills().
ApplyFill(t, trade) ==
    LET id == trade.maker IN
    CASE id \notin DOMAIN t.orders -> t
      [] id \in DOMAIN t.orders /\ trade.quantity >= t.orders[id].qty ->
            track_remove(drop_handle(t, id), id)
      [] OTHER -> [t EXCEPT !.orders[id].qty = @ - trade.quantity,
                            !.handles[id].qty = @ - Min({@, trade.quantity})]

\* Seeded fault: the old order of a modify stays tracked.
TrackResultOfNew(t, o, result) ==
    LET u == FoldLeft(ApplyFill, t, result.trades) IN
    IF o.type # "market" /\ result.remaining_quantity > 0
    THEN [track_add(u, o.id, o.side, o.price, result.remaining_quantity)
             EXCEPT !.handles = Remember(@, o.id, [handle |-> result.handle,
                                                   qty |-> result.remaining_quantity])]
    ELSE u

\* What an add, a modify or a market order changes: the old order goes, the
\* makers are filled, what rests is tracked under its id and handle.
TrackResult(t, o, result) ==
    LET gone   == IF o.type = "modify" THEN track_remove(drop_handle(t, o.id), o.id) ELSE t
        traded == FoldLeft(ApplyFill, gone, result.trades) IN
    IF o.type # "market" /\ result.code = "Success" /\ result.remaining_quantity > 0
    THEN [track_add(traded, o.id, o.side, o.price, result.remaining_quantity)
             EXCEPT !.handles = Remember(@, o.id, [handle |-> result.handle,
                                                   qty |-> result.remaining_quantity])]
    ELSE traded

has_price_level(t, side, price) == t.counts[side][price] > 0

\* Seeded fault: the level is looked up after the order was tracked.
ScenarioLate(t, o, result) ==
    IF o.type = "limit" /\ result.trades = <<>> /\ result.remaining_quantity > 0
    THEN IF has_price_level(TrackResult(t, o, result), o.side, o.price)
         THEN "AddRestExistingLevel" ELSE "AddRestNewLevel"
    ELSE "Unmeasured"

\* The scenario under which an operation's time will be reported: an add that
\* rests without a trade, by whether its level had orders before the call.
Scenario(t, o, result) ==
    LET rests == /\ o.type = "limit" /\ result.code = "Success"
                 /\ result.trades = <<>> /\ result.remaining_quantity > 0 IN
    CASE ~rests -> "Unmeasured"
      [] rests /\ has_price_level(t, o.side, o.price)  -> "AddRestExistingLevel"
      [] rests /\ ~has_price_level(t, o.side, o.price) -> "AddRestNewLevel"

\* The operation as it will be pending.
Recorded(o, scenario, result) ==
    [f \in DOMAIN o \cup {"scenario", "result"} |->
        CASE f = "scenario" -> scenario
          [] f = "result"   -> result
          [] OTHER          -> o[f]]

-----------------------------------------------------------------------------
(***************************************************************************)
(* The shadow occupancy trees, as sets of bits, in terms of the tracking t *)
(* after the operation.                                                    *)
(***************************************************************************)
Live(t, s) == {idx_of(p) : p \in Tracked(t, s)}

\* Seeded fault: a level is cleared whether or not it has orders left.
MatchedShadowUnchecked(sh, t, o) ==
    LET s == Opposite(o.side)
        crossed == {i \in sh[s] : o.type # "market" =>
                       IF o.side = "Buy" THEN o.price >= price_of(i)
                                         ELSE o.price <= price_of(i)} IN
    [sh EXCEPT ![s] = @ \ crossed]

\* apply_matching_attribution(): from the best bit on, levels without orders
\* are cleared, up to one with orders or one the limit does not cross.
MatchedShadow(sh, t, o) ==
    LET s == Opposite(o.side)
        crossed == {i \in sh[s] : o.type # "market" =>
                       IF o.side = "Buy" THEN o.price >= price_of(i)
                                         ELSE o.price <= price_of(i)}
        behind(i) == {j \in sh[s] \cap Live(t, s) : ~better_idx(IsAskSide(s), i, j)} IN
    [sh EXCEPT ![s] = @ \ {i \in crossed : behind(i) = {}}]

\* What rests sets its bit.
ShadowResult(sh, t, o, result) ==
    LET m == MatchedShadow(sh, t, o) IN
    IF o.type # "market" /\ result.code = "Success" /\ result.remaining_quantity > 0
    THEN [m EXCEPT ![o.side] = @ \cup {idx_of(o.price)}]
    ELSE m

-----------------------------------------------------------------------------
(***************************************************************************)
(* Events.  The draws of generate_and_execute_one() and of                 *)
(* generate_pending_one() are the same; what is done with the result       *)
(* depends on the stage.                                                   *)
(*                                                                         *)
(* Prices bounds the drift of the random walk.  The code also handles a    *)
(* tracked order without a handle and a cancel or modify that is refused:  *)
(* TrackingExact excludes the first, and the engine refuses only a zero    *)
(* quantity, which is never drawn.                                         *)
(***************************************************************************)
Between == pc = "idle" /\ op = NoOp /\ rebuild = {} /\ cluster = NoCluster

\* An event is drawn: the seed and the warmup have events left and no
\* cluster goes first, or the batch is not full and the queue is empty.
Cancellable(queue) == queue # <<>> /\ Last(queue) \in DOMAIN track.handles

Draws ==
    /\ Between
    /\ \/ /\ stage = "warmup" /\ events < SeedEvents + WarmupEvents
          /\ ~Cancellable(cluster_queue_)
       \/ /\ stage = "generate" /\ Len(pending_) < batch_size
          /\ pregen_queue_ = <<>>

\* The entry popped from the warmup's queue is gone, cancelled or not.
Popped(queue) == IF queue = <<>> THEN <<>> ELSE Front(queue)

\* The engine call of o is made.
Issue(o) ==
    /\ op' = o
    /\ CASE o.type = "limit"  -> add_limit_order(o.id, o.side, o.price, o.qty)
         [] o.type = "modify" -> modify_order(o.handle, o.side, o.price, o.qty)
         [] o.type = "market" -> add_market_order(o.id, o.side, o.qty)

IssueDrawn(o) ==
    /\ Issue(o)
    /\ id_counter_' = id_counter_ + 1
    /\ cluster_queue_' = Popped(cluster_queue_)
    /\ UNCHANGED <<phaseVars, events, track, batchVars, shadow>>

\* An add is drawn, or stands in for a cancel, a modify or a market order
\* that has nothing to act on.
limit_add ==
    /\ Draws
    /\ \/ events < SeedEvents /\ stage = "warmup"
       \/ "limit" \in Rolls
       \/ DOMAIN track.orders = {}
    /\ \E side \in Side, offset \in Offsets, qty \in AddQuantity :
        LET ref   == best_ask(track)
            price == IF side = "Buy" THEN Max({1, ref - offset - 1}) ELSE ref + offset IN
        /\ price \in Prices
        /\ IssueDrawn([type |-> "limit", id |-> id_counter_, side |-> side,
                       price |-> price, qty |-> qty])

Rolled(kind) ==
    /\ Draws
    /\ stage = "warmup" => events >= SeedEvents
    /\ kind \in Rolls
    /\ DOMAIN track.orders # {}

\* The order keeps its id; the counter moves on all the same.
modify ==
    /\ Rolled("modify")
    /\ \E target \in DOMAIN track.handles, delta \in Deltas, side \in Side,
          qty \in ModifyQuantity :
       \E price \in {track.orders[target].price + d : d \in {delta, -delta}} \cap Prices :
        IssueDrawn([type |-> "modify", id |-> target, side |-> side, price |-> price,
                       qty |-> qty, handle |-> track.handles[target].handle])

market ==
    /\ Rolled("market")
    /\ LET total == Cardinality(DOMAIN track.orders) IN
       \E side \in Side, qty \in {Max({1, (total * c) \div 20}) : c \in {5, 10, 16}} :
        IssueDrawn([type |-> "market", id |-> id_counter_, side |-> side,
                    price |-> NULL, qty |-> qty])

\* The engine cancels the order tracked as id, and the tracking follows.
CancelTracked(id) ==
    /\ cancel_order(track.handles[id].handle)
    /\ track' = track_remove(drop_handle(track, id), id)

\* The operation to replay, with what the tracking knows of its order.
CancelOp(id) ==
    LET h == track.handles[id].handle IN
    [type |-> "cancel", id |-> id, handle |-> h, meta |-> track.orders[id],
     scenario |-> "CancelOrder", result |-> order[h]]

\* Tracked orders near what was the best ask when the cluster was begun.
NearBest(t, best) ==
    {id \in DOMAIN t.orders : LET d == t.orders[id].price - best IN
                              d <= ClusterReach /\ -d <= ClusterReach}

\* do_cancel(): one cancel in seven queues ids for the next events; an id
\* may be queued twice, or be filled before its turn.
WarmupCancel(id) ==
    /\ CancelTracked(id)
    /\ events' = events + 1
    /\ \E n \in ClusterSizes : \E ids \in BoundedSeq(NearBest(track', best_ask(track')), n) :
        cluster_queue_' = Popped(cluster_queue_) \o ids
    /\ UNCHANGED <<phaseVars, op, id_counter_, batchVars, shadow>>

\* pending_cancel(): the cancel is pending at once; a cluster may follow.
PendingCancel(id) ==
    /\ CancelTracked(id)
    /\ pending_' = Append(pending_, CancelOp(id))
    /\ cluster' \in {NoCluster} \cup
            {[left |-> n, ops |-> <<>>, best |-> best_ask(track')] : n \in ClusterSizes}
    /\ UNCHANGED <<phaseVars, events, op, id_counter_, cluster_queue_,
                   pregen_queue_, shadow>>

cancel ==
    /\ Rolled("cancel")
    /\ \E target \in DOMAIN track.handles :
        \/ stage = "warmup" /\ WarmupCancel(target)
        \/ stage = "generate" /\ PendingCancel(target)

\* The warmup's queue goes first.
QueuedCancel ==
    /\ Between
    /\ stage = "warmup" /\ events < SeedEvents + WarmupEvents
    /\ Cancellable(cluster_queue_)
    /\ WarmupCancel(Last(cluster_queue_))

\* enqueue_cluster_pending(): one turn cancels an order near the best, which
\* is not looked up again when the cluster has cancelled the last ask at it.
ClusterCancel ==
    /\ cluster.left > 0
    /\ \E id \in NearBest(track, cluster.best) :
        /\ CancelTracked(id)
        /\ cluster' = [cluster EXCEPT !.left = @ - 1, !.ops = Append(@, CancelOp(id))]
    /\ UNCHANGED <<phaseVars, events, op, id_counter_, cluster_queue_,
                   pregen_queue_, pending_, shadow>>

\* Seeded fault: the cancels are queued in the order in which they were made.
ClusterEndInOrder ==
    /\ cluster # NoCluster
    /\ pregen_queue_' = pregen_queue_ \o cluster.ops
    /\ cluster' = NoCluster
    /\ UNCHANGED <<vars, phaseVars, events, op, track, id_counter_, cluster_queue_,
                   pending_, shadow>>

\* The other turns find no order; the cancels are queued last first.
ClusterEnd ==
    /\ cluster # NoCluster
    /\ pregen_queue_' = pregen_queue_ \o Reverse(cluster.ops)
    /\ cluster' = NoCluster
    /\ UNCHANGED <<vars, phaseVars, events, op, track, id_counter_, cluster_queue_,
                   pending_, shadow>>

\* An operation of a cluster becomes pending.
TakeQueued ==
    /\ Between
    /\ stage = "generate" /\ Len(pending_) < batch_size
    /\ pregen_queue_ # <<>>
    /\ pending_' = Append(pending_, Last(pregen_queue_))
    /\ pregen_queue_' = Front(pregen_queue_)
    /\ UNCHANGED <<vars, phaseVars, events, op, track, id_counter_, cluster_queue_,
                   cluster, shadow>>

-----------------------------------------------------------------------------
(***************************************************************************)
(* The engine at work, and what is done with its result.                   *)
(***************************************************************************)
EngineSteps ==
    /\ op # NoOp
    /\ Steps
    /\ pc' # "idle"
    /\ UNCHANGED <<phaseVars, events, op, track, id_counter_, cluster_queue_,
                   batchVars, shadow>>

Returned ==
    /\ op # NoOp
    /\ Steps
    /\ pc' = "idle"
    /\ op' = NoOp

WarmupReturned ==
    /\ stage = "warmup"
    /\ Returned
    /\ track' = TrackResult(track, op, out')
    /\ events' = events + 1
    /\ UNCHANGED <<phaseVars, id_counter_, cluster_queue_, batchVars, shadow>>

GenerateReturned ==
    /\ stage = "generate" /\ rebuild = {}
    /\ Returned
    /\ track' = TrackResult(track, op, out')
    /\ shadow' = ShadowResult(shadow, track', op, out')
    /\ pending_' = Append(pending_, Recorded(op, Scenario(track, op, out'), out'))
    /\ UNCHANGED <<phaseVars, events, id_counter_, cluster_queue_, cluster,
                   pregen_queue_>>

\* The replays look at no result but to count it or to note the slot.
ReplayReturned ==
    /\ stage \in {"dry_run", "replay"} /\ rebuild = {}
    /\ Returned
    /\ events' = events + 1
    /\ UNCHANGED <<phaseVars, track, id_counter_, cluster_queue_, batchVars,
                   shadow>>

-----------------------------------------------------------------------------
(***************************************************************************)
(* build_book_from_tracking(): a new book, and the base orders added in    *)
(* the order of their ids.                                                 *)
(***************************************************************************)
\* Seeded fault: the slots of the old book's orders are not given back.
NewBookSlotsHeld ==
    /\ order' = [h \in Handles |-> [id |-> NULL, price |-> base_price_, quantity |-> 0]]
    /\ links' = [InitLinks EXCEPT !.next = links.next, !.free_head_ = links.free_head_]
    /\ book' = [s \in Side |-> EmptyBook]
    /\ fifo' = [l \in Levels |-> <<>>]
    /\ UNCHANGED <<pc, call, quantity, out, free>>

NewBook ==
    /\ order' = [h \in Handles |-> [id |-> NULL, price |-> base_price_, quantity |-> 0]]
    /\ links' = InitLinks
    /\ book' = [s \in Side |-> EmptyBook]
    /\ fifo' = [l \in Levels |-> <<>>]
    /\ free' = [k \in 1 .. capacity |-> capacity - k]
    /\ UNCHANGED <<pc, call, quantity, out>>

\* The next stage starts, on a new book for orders.
EnterStage(next, orders) ==
    /\ NewBook
    /\ stage' = next
    /\ events' = 0
    /\ rebuild' = DOMAIN orders
    /\ track' = [track EXCEPT !.orders = orders, !.handles = <<>>]
    /\ UNCHANGED <<op, id_counter_, cluster_queue_, batchVars>>

EndWarmup ==
    /\ Between
    /\ stage = "warmup" /\ events = SeedEvents + WarmupEvents
    /\ base' = track.orders
    /\ shadow' = [s \in Side |-> Live(track, s)]
    /\ EnterStage("generate", track.orders)

\* Seeded fault: the tracking is not set back to the base orders.
EndGenerateKeepsTracking ==
    /\ Between
    /\ stage = "generate" /\ Len(pending_) = batch_size
    /\ EnterStage("dry_run", track.orders)
    /\ UNCHANGED <<base, shadow>>

\* The batch is full; what is left in the queue is dropped.
EndGenerate ==
    /\ Between
    /\ stage = "generate" /\ Len(pending_) = batch_size
    /\ EnterStage("dry_run", base)
    /\ UNCHANGED <<base, shadow>>

EndDryRun ==
    /\ Between
    /\ stage = "dry_run" /\ events = batch_size
    /\ EnterStage("replay", base)
    /\ UNCHANGED <<base, shadow>>

Readd ==
    /\ rebuild # {} /\ op = NoOp
    /\ LET id == Min(rebuild)
           o  == track.orders[id] IN
       Issue([type |-> "limit", id |-> id, side |-> o.side, price |-> o.price, qty |-> o.qty])
    /\ UNCHANGED <<phaseVars, events, track, id_counter_, cluster_queue_,
                   batchVars, shadow>>

Readded ==
    /\ rebuild # {}
    /\ Returned
    /\ rebuild' = rebuild \ {op.id}
    /\ track' = IF out'.code = "Success" /\ out'.remaining_quantity > 0
                THEN [track EXCEPT !.handles = Remember(@, op.id,
                        [handle |-> out'.handle, qty |-> out'.remaining_quantity])]
                ELSE track
    /\ UNCHANGED <<stage, events, base, id_counter_, cluster_queue_, batchVars,
                   shadow>>

-----------------------------------------------------------------------------
(***************************************************************************)
(* The replays: execute_pending() and the loop of                          *)
(* annotate_order_slot_reuse() make the same calls.                        *)
(***************************************************************************)
Replaying == Between /\ stage \in {"dry_run", "replay"} /\ events < batch_size
Pending   == pending_[events + 1]

ReplayCall ==
    /\ Replaying
    /\ Pending.type # "cancel"
    /\ Issue(Pending)
    /\ UNCHANGED <<phaseVars, events, track, id_counter_, cluster_queue_,
                   batchVars, shadow>>

ReplayCancel ==
    /\ Replaying
    /\ Pending.type = "cancel"
    /\ cancel_order(Pending.handle)
    /\ events' = events + 1
    /\ UNCHANGED <<phaseVars, op, track, id_counter_, cluster_queue_, batchVars,
                   shadow>>

WorkloadNext ==
    \/ limit_add \/ modify \/ market \/ cancel \/ QueuedCancel
    \/ ClusterCancel \/ ClusterEnd \/ TakeQueued
    \/ EngineSteps \/ WarmupReturned \/ GenerateReturned \/ ReplayReturned
    \/ EndWarmup \/ EndGenerate \/ EndDryRun \/ Readd \/ Readded
    \/ ReplayCall \/ ReplayCancel

WorkloadSpec == WorkloadInit /\ [][WorkloadNext]_workloadVars

\* One thread, which blocks on nothing.
FairWorkloadSpec == WorkloadSpec /\ WF_workloadVars(WorkloadNext)

-----------------------------------------------------------------------------
WorkloadTypeOK ==
    /\ TypeOK
    /\ stage \in {"warmup", "generate", "dry_run", "replay"}
    /\ events \in 0 .. Max({SeedEvents + WarmupEvents, batch_size})
    /\ rebuild \subseteq DOMAIN base
    /\ op.type \in {"none", "limit", "modify", "market"}
    /\ DOMAIN track.orders \subseteq OrderId
    /\ \A id \in DOMAIN track.orders :
        track.orders[id] \in [side : Side, price : Prices, qty : Nat \ {0}]
    /\ \A id \in DOMAIN track.handles :
        track.handles[id] \in [handle : Handles, qty : Nat \ {0}]
    /\ track.counts \in [Side -> [Prices -> Nat]]
    /\ id_counter_ \in Nat
    /\ cluster_queue_ \in Seq(OrderId)
    /\ cluster.left \in Nat
    /\ Len(pending_) <= batch_size
    /\ shadow \in [Side -> SUBSET Bits]

(***************************************************************************)
(* Between operations of the warmup and of the generation, resting_orders_ *)
(* and book_handles_ name exactly the orders in the book, with their side, *)
(* price, quantity and current slot, and the level counts count them: the  *)
(* results of partial fills, sweeps, modifies to another side and clusters *)
(* of cancels are all accounted for, so that no later cancel or modify     *)
(* uses a slot that has changed hands.                                     *)
(***************************************************************************)
TrackingExact ==
    pc = "idle" /\ op = NoOp /\ rebuild = {} /\ stage \in {"warmup", "generate"} =>
        /\ DOMAIN track.orders = RestingIds
        /\ DOMAIN track.handles = RestingIds
        /\ \A s \in Side, i \in Bits :
            LET q == fifo[<<s, i>>]
                p == price_of(i) IN
            /\ track.counts[s][p] = Len(q)
            /\ \A h \in ToSet(q) :
                /\ track.orders[order[h].id] =
                       [side |-> s, price |-> p, qty |-> order[h].quantity]
                /\ track.handles[order[h].id] = [handle |-> h, qty |-> order[h].quantity]

ReplayAdvances == stage \in {"dry_run", "replay"} /\ events' = events + 1

(***************************************************************************)
(* Each operation of a replay does what it did when it was generated: a    *)
(* cancel hits the same live order, any other call returns the same result *)
(* trades and slot included, although clusters were executed ahead of      *)
(* being queued and slots are reused last in, first out ("the slot each    *)
(* add lands on during the timed replay is bit-identical").                *)
(***************************************************************************)
ReplayRepeats ==
    [][ReplayAdvances =>
          \/ /\ Pending.type = "cancel"
             /\ Pending.handle \in Resting
             /\ order[Pending.handle] = Pending.result
          \/ /\ Pending.type # "cancel"
             /\ out' = Pending.result]_workloadVars

\* What a replayed call finds and does, as its recorded scenario says: a new
\* order is first on its level, or joins orders already there.
RestsAs(o, scenario) ==
    LET q == fifo'[<<o.side, idx_of(o.price)>>] IN
    /\ o.type = "limit"
    /\ out'.trades = <<>> /\ out'.remaining_quantity > 0
    /\ scenario = IF Len(q) = 1 THEN "AddRestNewLevel" ELSE "AddRestExistingLevel"

(***************************************************************************)
(* The time of each replayed operation is reported under the scenario it   *)
(* really has ("AddRestNewLevel ... price level did not exist before the   *)
(* add", report/phase9_per_scenario_benchmark.md:199): an add is measured  *)
(* exactly if it rests without a trade, as a new level if and only if no   *)
(* other order is there, and a cancel's order has the side, price and      *)
(* quantity the attribution recorded.  The tags were computed from the     *)
(* tracking, on another book, with clusters executed before their turn.    *)
(***************************************************************************)
TagsTrue ==
    [][ReplayAdvances =>
          IF Pending.type = "cancel"
          THEN LET h == Pending.handle
                   m == Pending.meta IN
               /\ order[h] = [id |-> Pending.id, price |-> m.price, quantity |-> m.qty]
               /\ links.parent_level[h] = <<m.side, idx_of(m.price)>>
          ELSE \/ RestsAs(Pending, Pending.scenario)
               \/ /\ Pending.scenario = "Unmeasured"
                  /\ ~RestsAs(Pending, "AddRestNewLevel")
                  /\ ~RestsAs(Pending, "AddRestExistingLevel")]_workloadVars

(***************************************************************************)
(* Setup() and the timed batch come to their end: no draw is left without  *)
(* an operation, no queued cancel comes back, and a pool with one slot per *)
(* event is never exhausted by the rebuilt books, the engine's assertion   *)
(* being the only way to stop before.                                      *)
(***************************************************************************)
WorkloadEnds == <>(stage = "replay" /\ Between /\ events = batch_size)

(***************************************************************************)
(* The shadow tree has every active bit of the engine's tree, and its      *)
(* other bits are those of levels without orders.                          *)
(***************************************************************************)
ShadowCovers ==
    pc = "idle" /\ op = NoOp /\ rebuild = {} /\ stage = "generate" =>
        \A s \in Side : /\ Active(book[s].active_tree) \subseteq shadow[s]
                        /\ shadow[s] \ Active(book[s].active_tree)
                               \subseteq Bits \ Live(track, s)

(***************************************************************************)
(* hft_macro_workload.hpp:473: "A matching loop touches and removes        *)
(* leading ghost/emptied levels until it reaches a live level, a           *)
(* non-crossing limit, or an empty book."  The shadow tree, updated as     *)
(* this comment says, would then be the engine's tree.                     *)
(***************************************************************************)
ShadowExact ==
    pc = "idle" /\ op = NoOp /\ rebuild = {} /\ stage = "generate" =>
        \A s \in Side : shadow[s] = Active(book[s].active_tree)
=============================================================================

# A TLA+ model of llmes

llmes is a single-threaded limit order matching engine in C++
(`core/matching_engine`) with the benchmark programs that measured its
development (`benchmark`) and the reports of each phase (`report`). This
directory holds TLA+ models of the engine, the TLC configurations that check
them on small instances, and TLAPS proofs of what matters most for every
instance.

## The system

| Component | State | Operations | Modules |
|---|---|---|---|
| `OccupancyTree` (`occupancy_tree.hpp/.cpp`) | 64 L1 words (a bit per price), one L2 word (a bit per L1 word) | `set`, `clear`, `find_next_set`, `find_prev_set`, `next_best`, `empty` | `OccupancyTree` (words as sets), `OccupancyTreeWords` (words as machine integers) |
| `ArraySideBook<IsAsk>` (`array_side_book.hpp`) | a flat array of levels, the tree, a cached best index | `get_or_create`, `erase_best` with `clear_ghost_best_level`, `best_price`, `best_level`, `empty` | `ArraySideBook` (operators), `ArraySideBookSpec` (a state machine for one side) |
| `OrderPool` (`order_pool.hpp`) | preallocated slots, a free list through `Order::next` | `acquire`, `release`, `resolve` | `OrderPool` |
| `PriceLevel` (`price_level.hpp`) | head and tail of an intrusive FIFO list | `push_back`, `erase`, `front`, `empty` | `PriceLevel` |
| `OrderBook` (`order_book.hpp/.cpp`) | two side books and the pool | `add_limit_order`, `add_market_order`, `cancel_order`, `modify_order` | `OrderBook` |
| `ReferenceOrderBook` (the tests' oracle) | a map from price to queue per side | the same four calls | `ReferenceBook` |
| `ResultHarness` (the tests' client) | `live_`: id to handle, side, price, quantity | one method per call, `apply_result`, `apply_trades` | `ResultHarness` |
| `SideBook<IsAsk>` (`order_book.hpp`, Phase 4; no longer instantiated) | an ordered map from price to level | `get_or_create`, `erase_best`, `best_price`, `best_level`, `empty` | `MapSideBook`, `SideBooksInStep` |
| `CachedSideBook`, `RingBuffer`, `PriceLevelPool` (Phase 7; compiled, no longer instantiated) | hot ring around the best, cold map, level pool | as a side book, plus re-anchoring, eviction and promotion | `RingBuffer`, `CachedSideBook` |
| `HftMacroWorkload` and the drivers that run it | the engine, once under generation and twice under replay; client tracking; a scenario tag per operation; a shadow tree for attribution | warm up, generate, rebuild, replay | `HftMacroWorkload` |
| `RunScenario`, `PerfGroup`, `PerfRecordControl` (the benchmark runner) | iterations, hardware counters, a control/ack pair of FIFOs to `perf record` | warm up, measure, enable, disable, read | `BenchmarkRunner` |
| `bench_linux_isolation.sh` and two drivers | the settings of the host, snapshot files in an output directory | begin, end, trap | `HostIsolation` |
| scripts, analysis, plots | files | orchestration and I/O | not modelled |

How they interact: `OrderBook` owns everything and calls its parts directly.
A `PriceLevel` lives inside a side book's array, an `Order` inside the pool; a
level's list and the free list run through the same `next` field of the slots.
`cancel_order` reaches a level through the order's `parent_level` and never
through the side book. That shortcut is the source of what is hard here.

What is hard: in the engine nothing runs concurrently and nothing is persisted;
the difficulty is in long sequences of legal calls that leave lazily maintained
state behind. The tools around the benchmarks add two processes in step and
settings that outlive a session.

* **Ghosts.** A cancel that takes a level's last order leaves its bit set and,
  if it was the best, the cached best pointing at it. The best price the
  matching loop compares with may be a ghost's.
* **Summaries.** The L2 word and the cached best are updated incrementally and
  never recomputed.
* **Shared links.** Lists are unlinked in the middle and slots are reused last
  in, first out, so a mistake shows up several calls later, in another level.
* **Handles.** A handle has no generation; a client must forget it as soon as
  a trade, perhaps caused by another client's call, fills the order.
* **Late failure.** The pool is found empty after the trades were made, and a
  modify is refused after its order was removed.
* **Moving frames.** The Phase 7 ring addresses prices relative to the best; an
  improvement of the best or its removal reclassifies prices stored before.
* **Blind replay.** The benchmark records handles and scenario tags in one book
  and uses them in two others. It works only if slot reuse is repeated exactly.
* **Three storages.** A side was kept in a map, then in a ring over a map, then
  in a flat array; each skips ghosts at other moments, and none may change a
  trade.
* **Two processes.** `perf record` obeys the runner in its own time and may die;
  only an answer read back keeps sampling inside the measured batch. The runner
  opens the FIFOs after the warmup, when perf may be gone already.
* **Sessions that die.** The isolation script changes the host and keeps what it
  found in files that the next session may find.

`PROJECT.json` lists each of these at its line, with the properties aimed at it.

What makes each component correct: the tree's searches return the nearest set
bit; a side book never hides a level with orders and exposes an occupied level
after `erase_best`; every slot is either free or in exactly one level; the
engine produces the trades of a book of plain queues (price priority, then time
priority), never rests an order that could have traded, and every call returns.

## Modules

```
OccupancyTree <- OccupancyTreeWords           (words as integers)
   ^
ArraySideBook <- ArraySideBookSpec            (INSTANCE SidePromise)
   ^                   ^-- SideBooksInStep    (INSTANCE MapSideBook)
OrderBook  (EXTENDS ArraySideBook and PriceLevel, which extends OrderPool)
   ^-- OrderBookRefinement  (INSTANCE ReferenceBook, ArraySideBookSpec)
   ^-- ResultHarness
   ^-- HftMacroWorkload
RingBuffer <- CachedSideBook                  (INSTANCE SidePromise)
SidePromise  (implemented by ArraySideBookSpec, MapSideBook, CachedSideBook)
BenchmarkRunner, HostIsolation

theorems:
ArraySideBookLemmas   of OccupancyTree and ArraySideBook
   ^-- SideBooksProofs            of SideBooksInStep and ArraySideBookSpec
   OrderBookProofs                of OrderBook, PriceLevel and OrderPool
      ^-- OrderBookRefinementProofs   of OrderBookRefinement and ResultHarness
      ^-- HftMacroWorkloadProofs      of HftMacroWorkload
CachedSideBookProofs              of CachedSideBook and RingBuffer
BenchmarkRunnerProofs, HostIsolationProofs
```

* **OccupancyTree.** A word is the set of positions of its 1 bits. `SetBit`,
  `ClearBit`, `FindNextSet`, `FindPrevSet`, `NextBest` are the code's
  operations, with word size and count as constants (64 and 64 in the code).
* **OccupancyTreeWords.** The same operations line by line on integers modulo
  `2^kWordBits`. A shift by the word size, undefined in C++, takes its count
  modulo the width, as x86-64 does; `WordsImplementTree` and `SearchesExact`
  show that no reachable result depends on it.
* **ArraySideBook.** `GetOrCreate` and `DropBest` as functions of a record
  `[active_tree, best_price_idx_, has_best_]`. `DropBest` is the step that
  `erase_best` and every turn of `clear_ghost_best_level` have in common.
* **ArraySideBookSpec.** One side under its client: `Rest`, `Cancel`,
  `ConsumeBest`, `EraseBest`. Emptiness of levels is the set `occupied`;
  `erasing` says that `erase_best` has not returned. This is the specification
  the proofs are about and that `OrderBook` is shown to implement twice.
* **SidePromise.** What the matching loop needs from a side, whatever stores
  the levels: a best price and a set of occupied prices; only a rest or
  `erase_best` moves the best, and never past an occupied price. All three side
  books are shown to implement it.
* **MapSideBook.** The Phase 4 storage: the set of keys of the map. A level
  emptied by cancels stays until the matching loop meets it as the best, one
  `erase_best` at a time.
* **SideBooksInStep.** The product of `ArraySideBookSpec` and `MapSideBook`
  under one client: a rest, a cancel or a taker acts on both; each matching loop
  clears its own ghosts in its own steps.
* **OrderPool, PriceLevel.** `prev`, `next`, `parent_level`, `head_`, `tail_`
  and `free_head_` form one record, the link memory, because the lists share
  fields. `Release` writes `next` only, as in the code: stale `prev`,
  `parent_level` and business data stay in free slots.
* **OrderBook.** One action per call entry and per step of the matching loop:
  `FillPart`, `FillAll` (one turn of the inner loop), `erase_best` (one turn of
  the ghost loop), `SkipGhost` (a crossing best level that was already empty),
  `ReturnUnrested`, `RestRemainder`, `PoolExhausted`. `pc` is `"idle"` between
  calls. `fifo` and `free` are history variables: the lists the links are
  supposed to spell. No property reads the links through them without
  `LinksExact` saying that they agree.
* **ReferenceBook.** The oracle of `order_book_add_result_gtest.cpp` as an
  abstract machine, one step per trade.
* **ResultHarness.** A client that passes only handles it was given.
* **RingBuffer, CachedSideBook.** The Phase 7 side book: a ring as a record
  `[slots_, live_mask_, anchor_, best_price_]`, the cold map as a function, the
  level pool as a free list, and `content`, the prices of the orders in each
  level (more than one if a level were shared). `erase_best` takes one step per
  turn of its loops: `erase_best` (the emptied best), `ScanHot`, `ScanCold` or
  `ScanNothing`, `promote_cold`, `EraseReturn`.
* **HftMacroWorkload.** The benchmark as a client of `OrderBook`: warm-up,
  generation of a batch on a dry-run book, rebuilds from the tracked orders and
  two replays (`annotate_order_slot_reuse` and `Execute`). Random draws are
  choices from small sets. A pending operation carries its scenario tag
  (`Scenario`), what the attribution recorded of a cancelled order (`meta`), and,
  for the properties, the result it had when it was generated. A cluster keeps the
  best ask it was begun with. The set of prices bounds the drift of the random walk.
  The branches for a tracked order without a handle and for a refused cancel or
  modify are left out: `TrackingExact` shows the first cannot be taken, and a
  zero quantity, the only reason for a refusal, is never drawn.
* **BenchmarkRunner.** `RunScenario` as a program counter named for the calls it
  makes, with the counter group in the same process and `perf record` as a second
  process behind two FIFOs (external: it opens ctl, then ack, obeys one command
  at a time, answers after the command took effect, and may die at any step, during
  the warmup and between its opens too). A blocking open is one step of both ends,
  and never returns once perf is dead. A write without a reader kills the runner, as nothing handles SIGPIPE. The scenario is
  abstract: each call makes one countable unit of work, and an operation may
  fail. A `--batch-size` of 0, which measures nothing, is excluded.
* **HostIsolation.** The functions of the script, one step each, under the driver
  that builds before its trap and the one that traps at once; sessions follow
  each other on one host and in one directory, and any of them may die at any
  step. Each function's effect is atomic: what interleaves is irqbalance, a
  process of its own until it is stopped, and stopping it may fail. Nested switches that have no effect of
  their own on the order of things are one (`STOP_IRQBALANCE` stands for the
  three around it, `AGGRESSIVE_ISOLATION` for those inside it). The killed
  process holds the latency lock only where bash runs the last command of a
  subshell in its place: the constant `ExecsLast`, TRUE in the run, either in the
  theorem, which promises the lock back only if it is TRUE.
* The **MC** modules give the constants values and define the symmetry and the
  view. The views leave out what nothing reads before writing: data in free
  slots, the best index of an empty side, the result of a returned call.

Names follow the code. Seeded faults (operators marked "Seeded fault") are
plausible slips kept beside the definition they vary; each property is known to
fail under at least one of them.

## Runs

| Run | Instance | What it shows |
|---|---|---|
| `words` | 4 words of 4 bits, 10 touched bits | masks, shifts and count-zeros compute the set operations; searches from all 16 positions, and the empty test, are exact |
| `asks` | 3 words of 2 bits | a side book under every history of rests, cancels and consumptions: summary and best exact, nothing hidden, `erase_best` exposes an order, the side keeps `SidePromise`, and the map it replaced serves the same orders |
| `cached` | bids, 8 prices, a ring of 4, 8 levels | the tiers stay ordered and in frame, no level leaks or is shared, no order is lost between the tiers, `erase_best` returns, and the side keeps `SidePromise` |
| `book` | 3 words of 1 bit, 3 slots, 4 ids, quantities 1..2 | never crossed, no missed trade, three orders in one list (unlinking in the middle), slot reuse, sweeps over several levels |
| `live` | 3 words of 1 bit, 2 slots, quantity 1 | every call returns |
| `refinement` | 2 words of 2 bits, 2 slots, 3 ids, quantities 0..2, under `ResultHarness` | a results-only client keeps an exact map of its live orders; the engine implements `ReferenceBook`, and each side `ArraySideBookSpec` |
| `workload_mix` | 4 prices, 6 slots, 2 seed and 2 warm-up events, a batch of 2 | with all four kinds of event, the tracking is exact, the shadow tree covers every live level, the replay repeats the generation, and each operation is replayed under its true scenario |
| `workload_cluster` | 4 prices, 7 slots, 3 seed events, a batch of 4, adds and cancels only | a whole cluster goes through the queue, the replay still repeats the generation, and the workload ends |
| `runner` | 1 warm-up and 3 measured iterations, batches of 2, with and without FIFOs, both metrics | sampling covers exactly the measured batches, each measured operation is counted once, the runner ends unless perf died before it had opened both FIFOs (`Stranded`) |
| `isolation` | 3 CPUs, 2 of them siblings, a movable and a fixed interrupt, at most 2 locks left behind, both restore switches alike | the bench CPU is quiet while the benchmark runs without irqbalance; a cleanup restores what its session found, whatever died before |
| `modify_rejected` | as `refinement` | expected violation, see Findings |
| `shadow_exact` | 6 prices, 5 slots, 2 seed events, 1 warm-up event, a batch of 2 | expected violation, see Findings |

Why the bounds are enough. The searches distinguish: the bit's own word, the
next word, a word after an empty one, and both ends of a word; three words of
two bits have all of them, and `words` adds a full-width L2. Ghosts need a best
level, one behind it and one occupied level beyond: three prices. The list
operations distinguish only, middle, first and last element: three slots at a
level. A call distinguishes less than, equal to and more than the maker's
quantity: quantities 1 and 2; 0 is the refused one. One id more than slots
leaves a fresh one when the book is full, which is what exhausts the pool. A
ring of four with eight prices has moves shorter than, equal to and longer than
the window, a wrap of the index, and cold prices a ring away from the best.
A cluster of two cancels is the shortest that has an order to get wrong, and a
batch of four holds what led to it and an add that reuses its slots. Three
measured iterations let an instrument carry something over twice. Three CPUs have
a bench CPU with and without a sibling; sessions repeat without bound, and
`MaxLocks` bounds only how many dead sessions leave a lock, which no step reads.
All runs are exhaustive; nothing is bounded by a state constraint.

`NothingHidden` of the array side book is checked in `asks`; `refinement` carries
it over to the engine, whose sides behave as `ArraySideBookSpec`. Both are proved
for every size, the engine's as well (`NothingEverHidden`).

Only one side of each side book is run alone. The other one of the array book
is covered by the theorems, which hold for both values of `IsAsk`, and by
`SidesFollowSpec`, which is about both; the ring's asks by the theorems of
`CachedSideBookProofs`.

Deadlock is not checked in the engine's runs because the program really stops
there: the assertion on an exhausted pool aborts it (`PoolExhausted`); nor in
`runner`, where both processes end. It is checked in `isolation`.

Fairness. The engine is sequential code that never waits, so a call that was
entered keeps running: weak fairness of its own steps (`Steps`), and of the
ring's `EraseSteps` once entered. No fairness is put on the client's calls. The
workload is one thread that blocks on nothing: weak fairness of its next step,
in `workload_cluster`. There an exhausted pool would end a behaviour before
`WorkloadEnds` holds, and so would a draw for which no event is possible. In `BenchmarkRunner` the
runner and a living perf keep going (weak fairness of `Runner`, `PerfObeys` and `PerfAnswers`); perf need not die.

## Findings

* **A refused modify removes the order** (`modify_rejected`).
  `order_book.hpp:104` calls the operation an atomic replacement and line 111
  names `InvalidQuantity` as an answer; the code erases and releases the order
  before `add_limit_order` tests the new quantity, so the caller is told that
  the request was invalid and the resting order is gone. The tests' oracle does
  the same, so they agree with the code and not with the comment.

* **The shadow tree keeps ghosts the engine cleared** (`shadow_exact`). The
  comment at `hft_macro_workload.hpp:473` says that the matching loop removes
  ghost levels until it reaches a live level or a non-crossing limit, and the
  attribution stops there. The engine's `erase_best` does not look at the limit
  and clears every ghost behind an emptied level. A later add at such a price
  sets a bit that the attribution takes to be set already. `ShadowCovers` is
  what remains true: the shadow never lacks the bit of a level with orders.

That an exhausted pool stops the program after the trades were made is
documented in `readme.md`, and is modelled as the end of a behaviour.

## Proofs

Every constant is arbitrary but for the named assumptions of the modules: word
width, word count and base price (`TreeSizeAssumption`, `BasePriceAssumption`),
the side (`IsAskAssumption`), the number of slots and a null handle that is none
(`PoolAssumption`), ids and quantities (`OrderBookAssumption`), iterations and
batch size (`RunnerAssumption`), the width of the ring and a null price and level
that are none (`RingAssumption`), a pool with a level for every tick in use
(`CachedAssumption`), the machine (`IsolationAssumption`,
`NullAssumption`). `LevelsAssumption` says that the levels are the elements of the
two arrays. TLC evaluates all of them on the instances of the runs.

### One side

* `ArraySideBookLemmas`: what each tree operation returns. The searches are
  shown to return the nearest active bit (`FindNextSetNearest`,
  `FindPrevSetNearest`) when the summary is exact; the arithmetic core is that
  the word and position of a bit are its quotient and remainder (`PlaceOfBit`,
  `BitOfPlace`, `PlaceOrder`), and that a non-empty set of naturals has a least
  element and a bounded one a greatest (`MinIsLeast`, `MaxIsGreatest`).
  `Sound(isAsk, b)` (well typed, summary exact, best extremal) is preserved by
  `GetOrCreate` and by `DropBest`.
* `SideBooksProofs`, first part: the specification of one side. The inductive
  invariant `IInv` is the conjunction of `TypeOK`, `SummaryExact`,
  `BestIsExtreme` and `NothingHidden`. `NothingHidden` alone is not inductive:
  dropping the best keeps it only if no other active level beats the best, which
  is `BestIsExtreme`, whose preservation needs the searches to be right, which
  needs `SummaryExact`. `SideEraseAssertionsHold`, `SideEraseExposesBest` and
  `SideKeepsPromise` (every step of the side book is a step of `SidePromise` or
  a stutter) follow from the same invariant.
* Second part: the two storages in step. `ArrayAgreesWithMap` adds to `IInv` that
  both sides hold the same orders and that every order is in the map
  (`StepInv`). The inductive step that matters is the taker's: the array's best
  and the map's first entry may both be ghosts and differ, but where both have an
  order they are extreme among the same levels, hence equal (`SameBest`).
  `MapKeepsPromise` needs that the map's first entry is its extreme
  (`MapBestIsFirst`), from the least element of a set of naturals.

### The link memory

The first part of `OrderBookProofs` is about the shared links alone: `Stored(m, F, f)` says that
the links `m` spell the queues `F` and the free list `f`, and that every slot is
in one of them once. `InitExact`, `RestExact` (acquire, then push_back) and
`UnlinkExact` (erase anywhere in a list, then release) preserve it. The case
analysis is over the neighbours: a step writes the `prev` and `next` of the
removed slot's neighbours, and `Partitioned` makes sure that these belong to no
other list.

### The engine

* `OrderBookProofs`: the inductive invariant `IInv` has two halves.
  `StoreInv` is about resting orders: types, `LinksExact`, `PoolPartitioned`,
  `OrdersAtTheirLevel`, each side `Sound`, `NothingHidden`, and `SidesApart`: every
  level with bids is below every level with asks. `CallInv` is about the call in
  progress: its arguments are there (`CallArgs`); `erase_best` is entered and goes
  on only at an empty best level (`ErasesEmptyBest`), without which it could drop
  a level with orders; the slot a modify released is still there when its
  remainder rests (`ModifyHasSlot`). `SidesApart` is preserved when a remainder
  rests because the loop ended, and a loop that ended with something left has
  nobody to trade with: the orders lie behind the best by `NothingHidden`, and the
  best does not cross (`NobodyWouldTrade`). The same lemma is `NoMissedTrade`.
* `TradesAccountedFor` needs one conjunct more (`LevelsNoBetter`): no level left on
  the other side is better for the taker than a price it has paid. The
  sum of the trades is a fold; that it exists and that one more trade adds its
  quantity (`AddsAlwaysDefined`, `TradedFacts`) is shown by the least length
  at which it would fail.
* `OrderBookRefinementProofs`: `EngineDrivesSides` sorts the steps of the engine
  into rest, cancel, consume and erase steps of one side and stutters of the
  other (`SideStep`). `EngineImplementsReference` maps a level's list to the queue
  of its price (`QueueRemove`, `QueueAppend`); its core is that the cached best of
  a side with a level in front that has orders is the best price of the reference
  book (`BestIs`), and that both loops end together (`LoopDoneIs`). Turns of
  `erase_best`, skipped ghosts and the stop on an exhausted pool are stutters.
* Its last part: a client that knows nothing but its results keeps the
  engine's contract (`ClientKeepsContract`: every behaviour of `HarnessSpec` is one
  of `Spec`), and its map is the book between calls (`LiveMapAlwaysExact`).
  During a call the map lags behind; the inductive invariant `LiveInv` is about
  the map with the trades made so far applied to it, and says that the call's own
  id rests nowhere. `ClientSeesReference` combines this with the refinements:
  it is what the run `refinement` checks.

### The Phase 7 ring

`CachedSideBookProofs`, for either side and every size of ring and pool. The
inductive invariant `IInv` has two halves.

* `WellPlaced` holds at every step, also between two evictions of a slide: the
  tiers are typed; live slots are those with a price and a level, and each is
  where its price belongs (`Frame`); every level is in exactly one place
  (`Placed`); no price is in both tiers (`PricesApart`); the orders of a level
  have the price under which it is found (`Filed`). The five ways a level can
  move between slot, cold map and pool have a lemma each (`SlotToFree`,
  `SlotToCold`, `ColdToSlot`, `FreeToSlot`, `FreeToCold`).
* `WindowInv` says how the window lies between the tiers, by where `erase_best`
  stands: between calls all of the ring is in the window and all of the cold map
  beyond it (`Settled`, `Divided`); while it runs the window may reach cold
  prices, which are only known to be behind the hot ones (`Ordered`).

`TiersOrdered` alone is not inductive: a slide evicts the slots that its distance
names, and that these hold the worst hot prices is `Frame`, the position of each
price in the current frame. The index arithmetic is `Turn`, the remainder without
a division (`ModTurn`), which no two ranks of a window share (`TurnInjective`).
A slide is a fold over the far slots; the fold is shown to be a chain of
evictions (`FoldIsChain`, `ChainInduction`) by the least index at which it would
fail, and `SlideKeeps` and `FlushKeeps` carry along the chain that the slots
behind it are vacant and what was evicted is behind what stays.

The pool never runs out (`PoolHasLevel`): were the free list empty, each level
would have a price in use of its own, other than the one that asks; but there
are at least as many levels as prices in use (`CachedAssumption`). So the
assertion of `acquire()` never fails.

`RingKeepsPromise` adds that during a scan the best price has no orders
(`Reachable`), and that a scan step moves to the nearest live slot (`NextLive`),
so that it passes ghosts only (`ScanAdvances`).

### Around the engine

* `BenchmarkRunnerProofs`: `InStep` says how far a command under way has come
  (written, taken, answered) and that `perf` samples exactly between the two
  answers; `CountersFollow` that the counters hold the operations of the batch in
  progress and are off outside it. `SampledExactly` and `CountsExact` follow.
* `HostIsolationProofs`: one conjunct per setting follows it from what the session
  found to what it restores. The affinities need most: as long as irqbalance was
  not running, an interrupt that is not in the log has not been moved
  (`LogComplete`). `BenchCpuQuiet` is about a host where irqbalance
  does not run; the proof needs that, once stopped, it stays so between the
  snapshot and the move.

### The workload

`HftMacroWorkloadProofs` proves `TrackingExact`, `ShadowCovers`, `WorkloadTypeOK`,
`ReplayRepeats` and `TagsTrue` for any number of events, any draws and any batch
size. The assumptions are that counts, offsets and quantities are numbers, a draw
has something to roll and a cluster two orders or more (`WorkloadAssumption`), and
that there is an id for every event (`IdAssumption`; ids have 64 bits). The
inductive invariant `WorkloadInv` has two halves. `WInv` says what is true at every
step of every call, in the warm-up, the generation, the rebuilds and the replays:

* `EngineInv` adds to the engine's `IInv` that the call in progress is the
  operation drawn (`CallsInv`), that its id rests nowhere (`FreshInv`), and that a
  taker filled to the last unit does not stand before an emptied best level
  (`MakerInv`), which is what the shadow tree's end of the matching loop relies on.
* `TrackingInv` is `TrackingExact` in the middle of a call: the tracking with the
  old order of a modify gone and the trades reported so far applied to it
  (`Filled`) names exactly the orders in the book (`Follows`). The client applies
  the trades only when the call returns; `FillPartFollows` and `FillAllFollows`
  carry the fold along with the engine's fills. Which order a name stands for
  needs that no id rests twice, hence `FreshInv` and that ids are numbered.
* The level counts are cardinalities of sets of ids (`Counted`), not lengths, so
  that dropping, filling and adding an order are one lemma each; that they are
  also the lengths of the engine's lists is a bijection (`CountIsLength`).
* `ShadowInv` says the shadow tree has every active bit of the engine's. When a
  call returns, a bit the attribution clears is of a level the call's limit
  crosses and with no order at or behind it; the engine's loop stopped before its
  best, so the bit is not active any more (`MatchedShadowCovers`).
* `RebuildInv` says that re-adding the base orders trades nothing, since orders
  that rested in one book do not cross (`TrackedApart`, `RebuildNeverTrades`).
* `BatchInv` is what the rest needs of ids, queues, event counts and stages.

`WInv` says nothing of what a replay does. That is `TraceInv`, and it is about the
past: a batch was executed once, on one book, in an order that is not the order of
its recording (a cluster runs ahead, is queued backwards and is taken from the
queue one by one).

* A call of the engine takes as many steps as it meets orders, and a rebuild as
  many calls as there are base orders, so what they end in is not a formula over
  the state. It is made one without recursion: the engine's step is written as a
  function of what the engine keeps (`StepOf`, with `NextOf` for the calls of a
  rebuild), and `Leads(B, a, b)` says that `b` is in every set that holds `a` and is
  closed under that function. `StepIs` shows that the engine's actions are the
  function: from the same book with the same call, nothing else decides what comes
  next. `LeadsOn` follows a run, and `LeadsFrom` and `LeadsEnd` say that a run has
  one end (`EngineReturns`, `EngineMoves`, `ReaddReturns`, `CallMoves`).
* `GenerateInv`: there are books `st[0]`, `st[1]`, ... such that the rebuild of the
  base orders ends in `st[0]`, each operation executed so far takes one to the next,
  with the result recorded for it and a tag that is true of it (`Does`), and the
  generation stands at the last. The operations executed are those recorded and,
  behind them, those of a cluster or of the queue turned round (`Run`). An
  operation on the way is one more (`RunGrows`); that queueing a cluster and taking
  from the queue change nothing is `ClusterQueued` and `QueueTaken`.
* `ReplayInv`: the same books, and the replay stands on its way through them
  (`Follow`): a rebuild will end in `st[0]`, a call in `st[events + 1]` with the
  result recorded. The book of each replay is rebuilt from the same base orders in
  the same order (`sort` on the ids), hence ends in the same book, slots included.
* That a tag is right when it is given (`TagIsRight`) needs the tracking: the
  attribution sees an empty level where the level count is 0, and the count is the
  length of the engine's list (`CountIsLength`). That a replayed call is within
  the engine's contract needs the trace (`PendingDoes`), since the tracking of the
  client stands still in a replay.

`WorkloadStep` goes through the actions once for both halves; the generation's
actions are `...Keeps` for `WInv` and `...Follows` for `TraceInv`.

Only model-checked: the integer arithmetic of `OccupancyTreeWords` (`SearchesExact`
and `WordsImplementTree`; it uses `Bitwise`, which is recursive), and the liveness properties (`CallReturns`,
`EraseReturns`, `WorkloadEnds`, `RunnerEnds`), which are out of the prover's
reach. `RejectedCallChangesNothing` and `ShadowExact` are false (Findings).

## Not modelled

Timestamps (stored, never read), `prefetch_level`, `PriceLevel`'s moves and
`reset` (used by containers that `OrderBook` no longer instantiates), prices
outside the array (an assertion; the contract excludes them), an `NDEBUG` build
on an exhausted pool (undefined behaviour), the workload's reuse distances
and the class of a set bit (report data computed from what is modelled), the
drivers' timing and samples, the runner's statistics and output, the probe by which the isolation script ranks CPUs, and
the other scripts.

The slot reuse distance counts only slots acquired by limit adds; the comment at
`hft_macro_workload.hpp:404` calls a resting add the only case, although a modify
that rests acquires a slot as well (`RestRemainder` with `call.op = "modify"`).

A modify moves an order by a few ticks and may be applied to the same order again
(`hft_macro_workload.hpp:651`); nothing in the code keeps the walk inside the
4096 prices of the array, and the model cuts it at `Prices`.

Two hazards of the isolation script have no property, because nothing in the
repository says what should happen: with the tuning off and the restore on, the
files of an older session are restored (`bench_linux_isolation.sh:56`), and the
profiling driver sets its trap only after the build
(`hft_macro_perf_record.sh:159`), so a failing build leaves the host changed. The
model takes both steps; `RestoresFound` is about what a session changed itself.
irqbalance, timers, sysctls and work queues are never put back by the script.

The runner waits for ever in an open of a FIFO when perf died during the warmup or
between its own two opens (`benchmark_runner.cpp:61`). The comment there promises
only that the opens of two living processes meet, so this is no finding; `RunnerEnds`
says that it is the only way the runner does not end.

## Plan

The order so far was: the tree, one side, the engine, its oracle and its
clients, the Phase 7 side book, the benchmark around it, the theorems of one
side, the Phase 4 side book and its agreement with the array, the scenario tags
and the end of the workload, then the theorems of the link memory, of the whole
engine and its refinements, of the results-only client, of the measurement loop,
of the isolation script, of the Phase 7 ring, of the workload and of its replays.
Every property of a passing run that is neither a liveness property nor about
`Bitwise` is now a theorem.

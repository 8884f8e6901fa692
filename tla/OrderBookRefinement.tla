------------------------ MODULE OrderBookRefinement ------------------------
(***************************************************************************)
(* OrderBook implements ReferenceBook, and each of its sides implements    *)
(* ArraySideBookSpec.                                                      *)
(***************************************************************************)
EXTENDS OrderBook

\* The queue a level stands for: its orders in order of arrival.
QueueAt(s, price) ==
    LET q == fifo[<<s, idx_of(price)>>] IN
    [k \in 1 .. Len(q) |-> [id |-> order[q[k]].id, quantity |-> order[q[k]].quantity]]

\* Dropping empty levels and stopping at the pool's assertion are no steps
\* of the reference book.
Reference == INSTANCE ReferenceBook WITH
    queue     <- [s \in Side |-> [p \in Prices |-> QueueAt(s, p)]],
    matching  <- pc # "idle",
    taker     <- call,
    remaining <- quantity,
    out       <- [code               |-> out.code,
                  initial_quantity   |-> out.initial_quantity,
                  filled_quantity    |-> out.filled_quantity,
                  remaining_quantity |-> out.remaining_quantity,
                  has_handle         |-> out.handle # NULL,
                  trades             |-> out.trades]

\* erase_best() is entered for the side opposite to the call's.
ErasingSide(s) == pc = "erase" /\ s = oppo_side

BidSide == INSTANCE ArraySideBookSpec WITH
    IsAsk <- FALSE, book <- book["Buy"], occupied <- Occupied("Buy"),
    erasing <- ErasingSide("Buy")

AskSide == INSTANCE ArraySideBookSpec WITH
    IsAsk <- TRUE, book <- book["Sell"], occupied <- Occupied("Sell"),
    erasing <- ErasingSide("Sell")

(***************************************************************************)
(* Every call of the engine produces the trades, the result and the book   *)
(* that the tests' reference book produces: price-time priority, with the  *)
(* remainder of a limit order at the back of its queue.                    *)
(***************************************************************************)
ImplementsReference == Reference!Spec

(***************************************************************************)
(* The engine uses each side book as ArraySideBookSpec says: erase_best()  *)
(* only on an empty best level, a new order's level always created first.  *)
(***************************************************************************)
SidesFollowSpec == BidSide!Spec /\ AskSide!Spec
=============================================================================

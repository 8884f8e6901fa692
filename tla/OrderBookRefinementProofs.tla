--------------------- MODULE OrderBookRefinementProofs ---------------------
(***************************************************************************)
(* OrderBook implements its abstract specifications, and a client that     *)
(* knows the engine only by its results keeps an exact map of it, for all  *)
(* values of the constants.                                                *)
(***************************************************************************)
EXTENDS OrderBookRefinement, ResultHarness, OrderBookProofs

-----------------------------------------------------------------------------
(***************************************************************************)
(* The side books.  A step of the engine is, for each side, a step of      *)
(* ArraySideBookSpec or no step.                                           *)
(***************************************************************************)
SideRest(s, i) ==
    /\ ~ErasingSide(s) /\ ErasingSide(s)' = ErasingSide(s)
    /\ book'[s] = GetOrCreate(IsAskSide(s), book[s], i)
    /\ Occupied(s)' = Occupied(s) \cup {i}

SideCancel(s, i) ==
    /\ ~ErasingSide(s) /\ ErasingSide(s)' = ErasingSide(s)
    /\ book'[s] = book[s]
    /\ Occupied(s)' = Occupied(s) \ {i}

SideConsume(s) ==
    /\ ~ErasingSide(s) /\ ErasingSide(s)'
    /\ book[s].has_best_ /\ book[s].best_price_idx_ \in Occupied(s)
    /\ book'[s] = book[s]
    /\ Occupied(s)' = Occupied(s) \ {book[s].best_price_idx_}

SideErase(s) ==
    /\ book[s].has_best_ /\ book[s].best_price_idx_ \notin Occupied(s)
    /\ book'[s] = DropBest(IsAskSide(s), book[s])
    /\ Occupied(s)' = Occupied(s)
    /\ ErasingSide(s)' = (book'[s].has_best_ /\ book'[s].best_price_idx_ \notin Occupied(s))

SideSame(s) ==
    book'[s] = book[s] /\ Occupied(s)' = Occupied(s) /\ ErasingSide(s)' = ErasingSide(s)

SideStep(s) ==
    \/ \E i \in Bits : SideRest(s, i)
    \/ \E i \in Occupied(s) : SideCancel(s, i)
    \/ SideConsume(s)
    \/ SideErase(s)
    \/ SideSame(s)

LEMMA OccupiedIs ==
    ASSUME StoreInv, NEW s \in Side
    PROVE  Occupied(s) = {i \in Bits : fifo[<<s, i>>] # <<>>}
BY StoredIs, OccupiedExact DEF Occupied

LEMMA OccupiedIsNext ==
    ASSUME StoreInv', NEW s \in Side
    PROVE  Occupied(s)' = {i \in Bits : fifo'[<<s, i>>] # <<>>}
BY StoredIsNext, OccupiedExact DEF Occupied

\* An order that leaves a level may leave it empty.
LEMMA RemoveSide ==
    ASSUME StoreInv, StoreInv', NEW l \in Levels, NEW k \in 1 .. Len(fifo[l]),
           fifo' = [fifo EXCEPT ![l] = RemoveAt(@, k)], NEW s \in Side
    PROVE  /\ Occupied(s)' = Occupied(s) \/ (l[1] = s /\ Occupied(s)' = Occupied(s) \ {l[2]})
           /\ l[1] = s => l[2] \in Occupied(s)
           /\ l[1] # s => Occupied(s)' = Occupied(s)
           /\ empty(links', l) <=> l[2] \notin Occupied(l[1])'
<1>1. fifo \in [Levels -> Seq(Handles)] /\ Stored(links', fifo', free')
  BY StoredIsNext DEF StoreInv, StoreTypeOK
<1>2. \A x \in Levels : x # l => fifo'[x] = fifo[x]
  BY <1>1
<1>3. fifo[l] # <<>>
  BY <1>1, EmptySeq, LenProperties
<1>4. l[1] \in Side /\ l[2] \in Bits /\ l = <<l[1], l[2]>>
  BY LevelFacts
<1>5. \A i \in Bits : <<s, i>> \in Levels /\ (<<s, i>> = l <=> l[1] = s /\ l[2] = i)
  BY <1>4, LevelFacts
<1>6. /\ Occupied(s) = {i \in Bits : fifo[<<s, i>>] # <<>>}
      /\ Occupied(s)' = {i \in Bits : fifo'[<<s, i>>] # <<>>}
  BY OccupiedIs, OccupiedIsNext
<1>7. empty(links', l) <=> l[2] \notin Occupied(l[1])'
  BY <1>4 DEF Occupied
<1>8. \A i \in Bits : l[1] # s \/ l[2] # i => fifo'[<<s, i>>] = fifo[<<s, i>>]
  BY <1>2, <1>5
<1>9. l[1] = s => l[2] \in Occupied(s)
  BY <1>3, <1>4, <1>5, <1>6
<1>10. l[1] # s => Occupied(s)' = Occupied(s)
  BY <1>6, <1>8
<1>11. l[1] = s => Occupied(s)' = Occupied(s) \/ Occupied(s)' = Occupied(s) \ {l[2]}
  <2>1. \A i \in Bits \ {l[2]} : i \in Occupied(s)' <=> i \in Occupied(s)
    BY <1>6, <1>8
  <2> QED BY <1>6, <1>9, <2>1
<1> QED BY <1>7, <1>9, <1>10, <1>11

LEMMA UnlinkSide ==
    ASSUME StoreInv, StoreInv', NEW h \in Resting, Unlink(h), book' = book,
           pc = "idle", pc' # "erase", NEW s \in Side
    PROVE  SideStep(s)
<1>1. PICK l \in Levels : \E k \in 1 .. Len(fifo[l]) : fifo' = [fifo EXCEPT ![l] = RemoveAt(@, k)]
  BY UnlinkPlace
<1>2. PICK k \in 1 .. Len(fifo[l]) : fifo' = [fifo EXCEPT ![l] = RemoveAt(@, k)]
  BY <1>1
<1>3. /\ Occupied(s)' = Occupied(s) \/ (l[1] = s /\ Occupied(s)' = Occupied(s) \ {l[2]})
      /\ l[1] = s => l[2] \in Occupied(s)
  BY <1>2, RemoveSide
<1>4. ~ErasingSide(s) /\ ~ErasingSide(s)' /\ ErasingSide(s)' = ErasingSide(s)
  BY DEF ErasingSide
<1>5. CASE Occupied(s)' = Occupied(s)
  BY <1>4, <1>5 DEF SideStep, SideRest, SideCancel, SideConsume, SideErase, SideSame
<1>6. CASE l[1] = s /\ Occupied(s)' = Occupied(s) \ {l[2]}
  BY <1>3, <1>4, <1>6 DEF SideStep, SideRest, SideCancel, SideConsume, SideErase, SideSame
<1> QED BY <1>3, <1>5, <1>6

\* Neither the books nor the orders' places change.
LEMMA SameSide ==
    ASSUME UNCHANGED <<book, links>>, NEW s \in Side, ErasingSide(s)' = ErasingSide(s)
    PROVE  SideStep(s)
BY DEF SideStep, SideRest, SideCancel, SideConsume, SideErase, SideSame, Occupied

LEMMA DropSide ==
    ASSUME IInv, pc \in {"match", "erase"}, oppo_book.has_best_, empty(links, best_level),
           DropEmptyBest, NEW s \in Side
    PROVE  SideStep(s)
<1>1. /\ UNCHANGED <<links, call>>
      /\ book' = [book EXCEPT ![oppo_side] = DropBest(IsAskSide(oppo_side), @)]
      /\ pc' = IF /\ book'[oppo_side].has_best_
                  /\ empty(links, <<oppo_side, book'[oppo_side].best_price_idx_>>)
               THEN "erase" ELSE "match"
  BY DEF DropEmptyBest
<1>2. oppo_side \in Side /\ oppo_side' = oppo_side /\ book \in [Side -> SideBook]
  BY <1>1, SideFacts DEF IInv, CallInv, CallTypeOK, StoreInv, StoreTypeOK, oppo_side
<1>3. Occupied(s)' = Occupied(s)
  BY <1>1 DEF Occupied
<1>4. CASE s = oppo_side
  <2>1. book[s].has_best_ /\ book[s].best_price_idx_ \notin Occupied(s)
    BY <1>4 DEF oppo_book, best_level, Occupied
  <2>2. book'[s] = DropBest(IsAskSide(s), book[s])
    BY <1>1, <1>2, <1>4
  <2>3. book'[s] \in SideBook
    <3>1. IsAskSide(s) \in BOOLEAN /\ book[s] \in SideBook /\ Sound(IsAskSide(s), book[s])
      BY <1>2, SideFacts DEF IInv, StoreInv, SidesSound
    <3> QED BY <2>1, <2>2, <3>1, DropBestSound
  <2>4. ErasingSide(s)' = (book'[s].has_best_ /\ book'[s].best_price_idx_ \notin Occupied(s))
    <3>1. ErasingSide(s)' <=> pc' = "erase"
      BY <1>2, <1>4 DEF ErasingSide
    <3>2. book'[s].best_price_idx_ \in Bits /\ book'[s].has_best_ \in BOOLEAN
      BY <2>3 DEF SideBook
    <3>3. pc' = "erase" <=> book'[s].has_best_ /\ empty(links, <<s, book'[s].best_price_idx_>>)
      BY <1>1, <1>4
    <3>4. ErasingSide(s)' \in BOOLEAN
      BY DEF ErasingSide
    <3> QED BY <3>1, <3>2, <3>3, <3>4 DEF Occupied
  <2> QED BY <1>3, <2>1, <2>2, <2>4 DEF SideStep, SideRest, SideCancel, SideConsume, SideErase, SideSame
<1>5. CASE s # oppo_side
  <2>1. book'[s] = book[s]
    BY <1>1, <1>2, <1>5
  <2>2. ErasingSide(s)' = ErasingSide(s)
    BY <1>2, <1>5 DEF ErasingSide
  <2> QED BY <1>3, <2>1, <2>2 DEF SideStep, SideRest, SideCancel, SideConsume, SideErase, SideSame
<1> QED BY <1>4, <1>5

LEMMA FillAllSide == ASSUME IInv, IInv', FillAll, NEW s \in Side PROVE SideStep(s)
<1>1. StoreInv /\ StoreInv' /\ CallInv /\ AtMaker
  BY DEF IInv, FillAll
<1>2. /\ best_level \in Levels /\ oppo_side \in Side /\ fifo[best_level] # <<>>
      /\ 1 \in 1 .. Len(fifo[best_level])
  BY <1>1, MakerFacts
<1>3. fifo' = [fifo EXCEPT ![best_level] = RemoveAt(@, 1)]
  <2>1. fifo[best_level] \in Seq(Handles)
    BY <1>1, <1>2, StoredIs DEF Stored
  <2>2. Tail(fifo[best_level]) = RemoveAt(fifo[best_level], 1)
    BY <1>2, <2>1, TailIsRemoveAt
  <2> QED BY <2>2 DEF FillAll
<1>4. PICK l \in Levels : l = best_level
  BY <1>2
<1>5. l[1] = oppo_side /\ l[2] = oppo_book.best_price_idx_
  BY <1>4 DEF best_level
<1>6. /\ Occupied(s)' = Occupied(s) \/ (l[1] = s /\ Occupied(s)' = Occupied(s) \ {l[2]})
      /\ l[1] = s => l[2] \in Occupied(s)
      /\ empty(links', l) <=> l[2] \notin Occupied(l[1])'
  <2>1. 1 \in 1 .. Len(fifo[l]) /\ fifo' = [fifo EXCEPT ![l] = RemoveAt(@, 1)]
    BY <1>2, <1>3, <1>4
  <2> QED BY <1>1, <2>1, RemoveSide
<1>7. /\ book' = book /\ call' = call /\ pc = "match" /\ oppo_book.has_best_
      /\ pc' = IF empty(links', l) THEN "erase" ELSE "match"
  BY <1>1, <1>4 DEF FillAll, Fill, AtMaker, CanMatch
<1>8. /\ ~ErasingSide(s) /\ (ErasingSide(s)' <=> pc' = "erase" /\ s = l[1])
      /\ ErasingSide(s) \in BOOLEAN /\ ErasingSide(s)' \in BOOLEAN
  BY <1>5, <1>7 DEF ErasingSide, oppo_side
<1>9. CASE ErasingSide(s)'
  <2>1. pc' = "erase" /\ s = l[1]
    BY <1>8, <1>9
  <2>2. empty(links', l)
    BY <1>7, <2>1
  <2>3. l[2] \notin Occupied(s)'
    BY <1>6, <2>1, <2>2
  <2>4. l[2] \in Occupied(s) /\ Occupied(s)' = Occupied(s) \ {l[2]}
    BY <1>6, <2>1, <2>3
  <2>5. book[s].has_best_ /\ book[s].best_price_idx_ = l[2]
    BY <1>5, <1>7, <2>1 DEF oppo_book
  <2> QED BY <1>7, <1>8, <1>9, <2>4, <2>5 DEF SideStep, SideRest, SideCancel, SideConsume, SideErase, SideSame
<1>10. CASE ~ErasingSide(s)'
  <2>1. Occupied(s)' = Occupied(s)
    <3>1. CASE l[1] = s
      <4>1. pc' # "erase"
        BY <1>8, <1>10, <3>1
      <4>2. ~empty(links', l)
        BY <1>7, <4>1
      <4> QED BY <1>6, <3>1, <4>2
    <3>2. CASE l[1] # s
      BY <1>6, <3>2
    <3> QED BY <3>1, <3>2
  <2>2. ErasingSide(s)' = ErasingSide(s)
    BY <1>8, <1>10
  <2> QED BY <1>7, <2>1, <2>2 DEF SideStep, SideRest, SideCancel, SideConsume, SideErase, SideSame
<1> QED BY <1>9, <1>10

LEMMA RestSide == ASSUME IInv, IInv', RestRemainder, NEW s \in Side PROVE SideStep(s)
<1> DEFINE h   == links.free_head_
           idx == idx_of(call.price)
           l   == <<call.side, idx>>
<1>1. StoreInv /\ StoreInv' /\ CallInv /\ LoopDone /\ call.op # "market" /\ h # NULL
  BY DEF IInv, RestRemainder, MustRest
<1>2. /\ book' = [book EXCEPT ![call.side] = GetOrCreate(IsAskSide(call.side), @, idx)]
      /\ fifo' = [fifo EXCEPT ![l] = Append(@, h)]
      /\ pc' = "idle" /\ pc = "match"
  BY <1>1 DEF RestRemainder, Return, LoopDone
<1>3. call.side \in Side /\ call.price \in Prices /\ book \in [Side -> SideBook]
  BY <1>1 DEF CallInv, CallTypeOK, CallArgs, LoopDone, StoreInv, StoreTypeOK
<1>4. idx \in Bits /\ l \in Levels
  BY <1>3, LevelFacts
<1>5. Stored(links, fifo, free) /\ fifo \in [Levels -> Seq(Handles)]
  BY <1>1, StoredIs DEF Stored
<1>6. fifo'[l] # <<>> /\ \A x \in Levels : x # l => fifo'[x] = fifo[x]
  <2>1. fifo[l] \in Seq(Handles) /\ fifo'[l] = Append(fifo[l], h)
    BY <1>2, <1>4, <1>5
  <2>2. h \in Handles
    BY <1>1 DEF StoreInv, StoreTypeOK, Links, OrNull
  <2>3. Len(fifo'[l]) = Len(fifo[l]) + 1 /\ Len(fifo[l]) \in Nat
    BY <2>1, <2>2, AppendProperties, LenProperties
  <2>4. fifo'[l] # <<>>
    BY <2>3, EmptySeq
  <2>5. \A x \in Levels : x # l => fifo'[x] = fifo[x]
    BY <1>2, <1>5
  <2> QED BY <2>4, <2>5
<1> HIDE DEF idx
<1>7. /\ Occupied(s) = {i \in Bits : fifo[<<s, i>>] # <<>>}
      /\ Occupied(s)' = {i \in Bits : fifo'[<<s, i>>] # <<>>}
  BY <1>1, OccupiedIs, OccupiedIsNext
<1>8. \A i \in Bits : <<s, i>> \in Levels
  BY LevelFacts
<1>9. ~ErasingSide(s) /\ ErasingSide(s)' = ErasingSide(s)
  BY <1>2 DEF ErasingSide
<1>10. CASE s = call.side
  <2>1. Occupied(s)' = Occupied(s) \cup {idx}
    BY <1>4, <1>6, <1>7, <1>8, <1>10
  <2>2. book'[s] = GetOrCreate(IsAskSide(s), book[s], idx)
    BY <1>2, <1>3, <1>10
  <2> QED BY <1>4, <1>9, <2>1, <2>2 DEF SideStep, SideRest, SideCancel, SideConsume, SideErase, SideSame
<1>11. CASE s # call.side
  <2>1. Occupied(s)' = Occupied(s)
    BY <1>6, <1>7, <1>8, <1>11
  <2>2. book'[s] = book[s]
    BY <1>2, <1>3, <1>11
  <2> QED BY <1>9, <2>1, <2>2 DEF SideStep, SideRest, SideCancel, SideConsume, SideErase, SideSame
<1> QED BY <1>10, <1>11

LEMMA EveryStepSide ==
    ASSUME IInv, IInv', [Next]_vars, NEW s \in Side
    PROVE  SideStep(s)
<1>1. StoreInv /\ StoreInv' /\ CallInv
  BY DEF IInv
<1>2. CASE \E id \in OrderId, side \in Side, qty \in Quantity :
             \/ \E price \in Prices : add_limit_order(id, side, price, qty)
             \/ add_market_order(id, side, qty)
  <2>1. pc = "idle" /\ pc' # "erase" /\ UNCHANGED <<book, links>>
    BY <1>2 DEF add_limit_order, add_market_order, Begin
  <2> QED BY <2>1, SameSide DEF ErasingSide
<1>3. CASE \E h \in Resting :
             \/ cancel_order(h)
             \/ \E side \in Side, price \in Prices, qty \in Quantity :
                    modify_order(h, side, price, qty)
  <2>1. PICK h \in Resting :
             \/ cancel_order(h)
             \/ \E side \in Side, price \in Prices, qty \in Quantity :
                    modify_order(h, side, price, qty)
    BY <1>3
  <2>2. pc = "idle" /\ pc' # "erase" /\ Unlink(h) /\ book' = book
    BY <2>1 DEF cancel_order, modify_order, Begin
  <2> QED BY <1>1, <2>2, UnlinkSide
<1>4. CASE FillPart
  BY <1>4, SameSide DEF FillPart, Fill, ErasingSide, oppo_side
<1>5. CASE FillAll
  BY <1>5, FillAllSide
<1>6. CASE erase_best
  BY <1>6, DropSide DEF erase_best, IInv, CallInv, ErasesEmptyBest
<1>7. CASE SkipGhost
  BY <1>7, DropSide DEF SkipGhost, CanMatch
<1>8. CASE ReturnUnrested
  BY <1>8, SameSide DEF ReturnUnrested, LoopDone, Return, ErasingSide
<1>9. CASE RestRemainder
  BY <1>9, RestSide
<1>10. CASE PoolExhausted
  BY <1>10, SameSide DEF PoolExhausted, MustRest, LoopDone, ErasingSide
<1>11. CASE UNCHANGED vars
  BY <1>11, SameSide DEF vars, ErasingSide, oppo_side
<1> QED BY <1>2, <1>3, <1>4, <1>5, <1>6, <1>7, <1>8, <1>9, <1>10, <1>11
        DEF Next, Calls, Steps

\* Both instances take the operators of the trees and side books from here.
LEMMA BidSideOperators ==
    /\ BidSide!Bits = Bits /\ BidSide!EmptyBook = EmptyBook
    /\ \A b, i : BidSide!GetOrCreate(FALSE, b, i) = GetOrCreate(FALSE, b, i)
    /\ \A b : BidSide!DropBest(FALSE, b) = DropBest(FALSE, b)
<1>1. BidSide!Bits = Bits /\ BidSide!EmptyBook = EmptyBook
  BY DEF BidSide!Bits, Bits, BidSide!kBitCount, kBitCount, BidSide!EmptyBook, EmptyBook,
         BidSide!EmptyTree, EmptyTree, BidSide!Words, Words
<1>2. \A b, i : BidSide!GetOrCreate(FALSE, b, i) = GetOrCreate(FALSE, b, i)
  BY DEF BidSide!GetOrCreate, GetOrCreate, BidSide!better_idx, better_idx, BidSide!SetBit, SetBit,
         BidSide!WordOf, WordOf, BidSide!PositionOf, PositionOf
<1>3. \A t, i : BidSide!ClearBit(t, i) = ClearBit(t, i) /\ BidSide!TreeEmpty(t) = TreeEmpty(t)
  BY DEF BidSide!ClearBit, ClearBit, BidSide!TreeEmpty, TreeEmpty,
         BidSide!WordOf, WordOf, BidSide!PositionOf, PositionOf
<1>4. \A t, i : BidSide!NextBest(FALSE, t, i) = NextBest(FALSE, t, i)
  BY DEF BidSide!NextBest, NextBest, BidSide!FindNextSet, FindNextSet, BidSide!FindPrevSet, FindPrevSet,
         BidSide!MaskHigh, MaskHigh, BidSide!MaskLow, MaskLow, BidSide!BitAt, BitAt, BidSide!Min, Min, BidSide!Max, Max,
         BidSide!WordOf, WordOf, BidSide!PositionOf, PositionOf
<1>5. \A b : BidSide!DropBest(FALSE, b) = DropBest(FALSE, b)
  BY <1>3, <1>4 DEF BidSide!DropBest, DropBest
<1> QED BY <1>1, <1>2, <1>5

LEMMA AskSideOperators ==
    /\ AskSide!Bits = Bits /\ AskSide!EmptyBook = EmptyBook
    /\ \A b, i : AskSide!GetOrCreate(TRUE, b, i) = GetOrCreate(TRUE, b, i)
    /\ \A b : AskSide!DropBest(TRUE, b) = DropBest(TRUE, b)
<1>1. AskSide!Bits = Bits /\ AskSide!EmptyBook = EmptyBook
  BY DEF AskSide!Bits, Bits, AskSide!kBitCount, kBitCount, AskSide!EmptyBook, EmptyBook,
         AskSide!EmptyTree, EmptyTree, AskSide!Words, Words
<1>2. \A b, i : AskSide!GetOrCreate(TRUE, b, i) = GetOrCreate(TRUE, b, i)
  BY DEF AskSide!GetOrCreate, GetOrCreate, AskSide!better_idx, better_idx, AskSide!SetBit, SetBit,
         AskSide!WordOf, WordOf, AskSide!PositionOf, PositionOf
<1>3. \A t, i : AskSide!ClearBit(t, i) = ClearBit(t, i) /\ AskSide!TreeEmpty(t) = TreeEmpty(t)
  BY DEF AskSide!ClearBit, ClearBit, AskSide!TreeEmpty, TreeEmpty,
         AskSide!WordOf, WordOf, AskSide!PositionOf, PositionOf
<1>4. \A t, i : AskSide!NextBest(TRUE, t, i) = NextBest(TRUE, t, i)
  BY DEF AskSide!NextBest, NextBest, AskSide!FindNextSet, FindNextSet, AskSide!FindPrevSet, FindPrevSet,
         AskSide!MaskHigh, MaskHigh, AskSide!MaskLow, MaskLow, AskSide!BitAt, BitAt, AskSide!Min, Min, AskSide!Max, Max,
         AskSide!WordOf, WordOf, AskSide!PositionOf, PositionOf
<1>5. \A b : AskSide!DropBest(TRUE, b) = DropBest(TRUE, b)
  BY <1>3, <1>4 DEF AskSide!DropBest, DropBest
<1> QED BY <1>1, <1>2, <1>5

\* The engine drives each side book as ArraySideBookSpec says its client does:
\* erase_best() at an empty best level only, get_or_create() before push_back(),
\* cancels outside erase_best().
THEOREM EngineDrivesSides == Spec => SidesFollowSpec
<1>1. Init => BidSide!Init /\ AskSide!Init
  <2> SUFFICES ASSUME Init PROVE BidSide!Init /\ AskSide!Init
    OBVIOUS
  <2>1. \A s \in Side : Occupied(s) = {} /\ book[s] = EmptyBook /\ ErasingSide(s) = FALSE
    <3>1. StoreInv
      BY InitInv DEF IInv
    <3>2. \A s \in Side, i \in Bits : fifo[<<s, i>>] = <<>>
      BY LevelFacts DEF Init
    <3> QED BY <3>1, <3>2, OccupiedIs DEF Init, ErasingSide
  <2> QED BY <2>1, BidSideOperators, AskSideOperators DEF BidSide!Init, AskSide!Init, Side
<1>2. IInv /\ IInv' /\ [Next]_vars => [BidSide!Next]_(BidSide!vars) /\ [AskSide!Next]_(AskSide!vars)
  <2> SUFFICES ASSUME IInv, IInv', [Next]_vars
               PROVE  [BidSide!Next]_(BidSide!vars) /\ [AskSide!Next]_(AskSide!vars)
    OBVIOUS
  <2>1. SideStep("Buy") /\ IsAskSide("Buy") = FALSE
    BY EveryStepSide, SideFacts DEF Side
  <2>2. SideStep("Sell") /\ IsAskSide("Sell") = TRUE
    BY EveryStepSide, SideFacts DEF Side
  <2>3. [BidSide!Next]_(BidSide!vars)
    <3>1. ASSUME NEW i \in Bits, SideRest("Buy", i) PROVE BidSide!Rest(i)
      BY <2>1, <3>1, BidSideOperators DEF SideRest, BidSide!Rest
    <3>2. ASSUME NEW i \in Occupied("Buy"), SideCancel("Buy", i) PROVE BidSide!Cancel(i) /\ i \in Bits
      BY <3>2 DEF SideCancel, BidSide!Cancel, Occupied
    <3>3. CASE SideConsume("Buy")
      BY <3>3 DEF SideConsume, BidSide!ConsumeBest, BidSide!BestOccupied, BidSide!Next
    <3>4. CASE SideErase("Buy")
      <4>1. BidSide!EraseBest
        BY <2>1, <3>4, BidSideOperators DEF SideErase, BidSide!EraseBest, BidSide!BestOccupied
      <4> QED BY <4>1 DEF BidSide!Next
    <3>5. CASE SideSame("Buy")
      BY <3>5 DEF SideSame, BidSide!vars
    <3> QED BY <2>1, <3>1, <3>2, <3>3, <3>4, <3>5, BidSideOperators DEF SideStep, BidSide!Next
  <2>4. [AskSide!Next]_(AskSide!vars)
    <3>1. ASSUME NEW i \in Bits, SideRest("Sell", i) PROVE AskSide!Rest(i)
      BY <2>2, <3>1, AskSideOperators DEF SideRest, AskSide!Rest
    <3>2. ASSUME NEW i \in Occupied("Sell"), SideCancel("Sell", i) PROVE AskSide!Cancel(i) /\ i \in Bits
      BY <3>2 DEF SideCancel, AskSide!Cancel, Occupied
    <3>3. CASE SideConsume("Sell")
      BY <3>3 DEF SideConsume, AskSide!ConsumeBest, AskSide!BestOccupied, AskSide!Next
    <3>4. CASE SideErase("Sell")
      <4>1. AskSide!EraseBest
        BY <2>2, <3>4, AskSideOperators DEF SideErase, AskSide!EraseBest, AskSide!BestOccupied
      <4> QED BY <4>1 DEF AskSide!Next
    <3>5. CASE SideSame("Sell")
      BY <3>5 DEF SideSame, AskSide!vars
    <3> QED BY <2>2, <3>1, <3>2, <3>3, <3>4, <3>5, AskSideOperators DEF SideStep, AskSide!Next
  <2> QED BY <2>3, <2>4
<1> QED BY <1>1, <1>2, Invariance, PTL DEF Spec, SidesFollowSpec, BidSide!Spec, AskSide!Spec

-----------------------------------------------------------------------------
(***************************************************************************)
(* The reference book.  The queue of a level as a function of the order    *)
(* data and the level's sequence of slots.                                 *)
(***************************************************************************)
RefOrder == [id : OrNull(OrderId), quantity : Nat]

Entry(o) == [id |-> o.id, quantity |-> o.quantity]

Queue(ord, q) == [k \in 1 .. Len(q) |-> Entry(ord[q[k]])]

LEMMA QueueFacts ==
    ASSUME NEW ord \in [Handles -> OrderData], NEW q \in Seq(Handles)
    PROVE  /\ Queue(ord, q) \in Seq(RefOrder)
           /\ Len(Queue(ord, q)) = Len(q) /\ Len(q) \in Nat
           /\ Queue(ord, q) = <<>> <=> q = <<>>
           /\ \A k \in 1 .. Len(q) : Queue(ord, q)[k] = Entry(ord[q[k]])
           /\ \A k \in 1 .. Len(q) : Entry(ord[q[k]]) \in RefOrder
<1> DEFINE u == Queue(ord, q)
<1>1. Len(q) \in Nat /\ \A k \in 1 .. Len(q) : q[k] \in Handles
  BY LenProperties, ElementOfSeq
<1>2. \A k \in 1 .. Len(q) : Entry(ord[q[k]]) \in RefOrder
  BY <1>1 DEF Entry, RefOrder, OrderData
<1>3. u \in [1 .. Len(q) -> RefOrder] /\ \A k \in 1 .. Len(q) : u[k] = Entry(ord[q[k]])
  BY <1>2 DEF Queue
<1>4. u \in Seq(RefOrder) /\ Len(u) = Len(q)
  <2>1. u \in Seq(RefOrder)
    BY <1>1, <1>3, SeqDef
  <2> HIDE DEF u
  <2>2. DOMAIN u = 1 .. Len(u) /\ Len(u) \in Nat /\ DOMAIN u = 1 .. Len(q)
    BY <1>3, <2>1, LenProperties
  <2> QED BY <1>1, <2>1, <2>2
<1>5. u = <<>> <=> q = <<>>
  BY <1>4, EmptySeq
<1> QED BY <1>1, <1>2, <1>3, <1>4, <1>5

LEMMA QueueRemove ==
    ASSUME NEW ord \in [Handles -> OrderData], NEW q \in Seq(Handles), NEW k \in 1 .. Len(q)
    PROVE  Queue(ord, RemoveAt(q, k)) = RemoveAt(Queue(ord, q), k)
<1> DEFINE u == Queue(ord, q)
           r == RemoveAt(q, k)
<1>1. /\ u \in Seq(RefOrder) /\ Len(u) = Len(q) /\ Len(q) \in Nat
      /\ \A i \in 1 .. Len(q) : u[i] = Entry(ord[q[i]])
  BY QueueFacts
<1>2. /\ r \in Seq(Handles) /\ Len(r) = Len(q) - 1
      /\ \A i \in 1 .. Len(q) - 1 : r[i] = IF i < k THEN q[i] ELSE q[i + 1]
  BY RemoveAtFacts
<1>3. /\ Queue(ord, r) \in Seq(RefOrder) /\ Len(Queue(ord, r)) = Len(r)
      /\ \A i \in 1 .. Len(r) : Queue(ord, r)[i] = Entry(ord[r[i]])
  <2> HIDE DEF r
  <2> QED BY <1>2, QueueFacts
<1> HIDE DEF u, r
<1>4. k \in 1 .. Len(u)
  BY <1>1
<1>5. /\ RemoveAt(u, k) \in Seq(RefOrder) /\ Len(RemoveAt(u, k)) = Len(u) - 1
      /\ \A i \in 1 .. Len(u) - 1 : RemoveAt(u, k)[i] = IF i < k THEN u[i] ELSE u[i + 1]
  BY <1>1, <1>4, RemoveAtFacts
<1>6. ASSUME NEW i \in 1 .. Len(Queue(ord, r)) PROVE Queue(ord, r)[i] = RemoveAt(u, k)[i]
  <2>1. i \in 1 .. Len(q) - 1 /\ i \in 1 .. Len(q) /\ i + 1 \in 1 .. Len(q)
    BY <1>1, <1>2, <1>3
  <2> QED BY <1>1, <1>2, <1>3, <1>5, <2>1
<1>7. Len(Queue(ord, r)) = Len(RemoveAt(u, k))
  BY <1>1, <1>2, <1>3, <1>5
<1>8. Queue(ord, r) = RemoveAt(u, k)
  BY <1>3, <1>5, <1>6, <1>7, SeqEqual
<1> QED BY <1>8 DEF u, r

LEMMA QueueAppend ==
    ASSUME NEW ord \in [Handles -> OrderData], NEW q \in Seq(Handles), NEW h \in Handles
    PROVE  Queue(ord, Append(q, h)) = Append(Queue(ord, q), Entry(ord[h]))
<1> DEFINE u == Queue(ord, q)
           r == Append(q, h)
           v == Append(u, Entry(ord[h]))
<1>1. /\ u \in Seq(RefOrder) /\ Len(u) = Len(q) /\ Len(q) \in Nat
      /\ \A i \in 1 .. Len(q) : u[i] = Entry(ord[q[i]])
  BY QueueFacts
<1>2. r \in Seq(Handles) /\ Len(r) = Len(q) + 1 /\ r[Len(q) + 1] = h
      /\ \A i \in 1 .. Len(q) : r[i] = q[i]
  BY AppendProperties
<1>3. /\ Queue(ord, r) \in Seq(RefOrder) /\ Len(Queue(ord, r)) = Len(r)
      /\ \A i \in 1 .. Len(r) : Queue(ord, r)[i] = Entry(ord[r[i]])
  <2> HIDE DEF r
  <2> QED BY <1>2, QueueFacts
<1>4. Entry(ord[h]) \in RefOrder
  BY DEF Entry, RefOrder, OrderData
<1> HIDE DEF u, r
<1>5. v \in Seq(RefOrder) /\ Len(v) = Len(u) + 1 /\ v[Len(u) + 1] = Entry(ord[h])
      /\ \A i \in 1 .. Len(u) : v[i] = u[i]
  BY <1>1, <1>4, AppendProperties
<1> HIDE DEF v
<1>6. ASSUME NEW i \in 1 .. Len(Queue(ord, r)) PROVE Queue(ord, r)[i] = v[i]
  <2>1. i \in 1 .. Len(r) /\ (i \in 1 .. Len(q) \/ i = Len(q) + 1)
    BY <1>1, <1>2, <1>3
  <2> QED BY <1>1, <1>2, <1>3, <1>5, <2>1
<1>7. Queue(ord, r) = v
  BY <1>1, <1>2, <1>3, <1>5, <1>6, SeqEqual
<1> QED BY <1>7 DEF r, u, v

LEMMA QueueFrame ==
    ASSUME NEW ord, NEW new, NEW q \in Seq(Handles),
           \A h \in ToSet(q) : Entry(new[h]) = Entry(ord[h])
    PROVE  Queue(new, q) = Queue(ord, q)
<1>1. \A k \in 1 .. Len(q) : q[k] \in ToSet(q)
  BY ToSetOfSeq
<1> QED BY <1>1 DEF Queue

\* The first order of a queue is filled in part.
LEMMA QueueFirst ==
    ASSUME NEW ord \in [Handles -> OrderData], NEW new \in [Handles -> OrderData],
           NEW q \in Seq(Handles), q # <<>>, IsInjective(q),
           \A h \in Handles : h # q[1] => new[h] = ord[h]
    PROVE  Queue(new, q) = <<Entry(new[q[1]])>> \o Tail(Queue(ord, q))
<1> DEFINE u == Queue(ord, q)
           e == Entry(new[q[1]])
           v == <<e>> \o Tail(u)
<1>1. 1 \in 1 .. Len(q)
  BY TailIsRemoveAt
<1>2. /\ u \in Seq(RefOrder) /\ Len(u) = Len(q) /\ Len(q) \in Nat /\ u # <<>>
      /\ \A i \in 1 .. Len(q) : u[i] = Entry(ord[q[i]])
  BY QueueFacts
<1>3. /\ Queue(new, q) \in Seq(RefOrder) /\ Len(Queue(new, q)) = Len(q)
      /\ \A i \in 1 .. Len(q) : Queue(new, q)[i] = Entry(new[q[i]])
      /\ e \in RefOrder
  BY <1>1, QueueFacts
<1> HIDE DEF u, e
<1>4. /\ Tail(u) \in Seq(RefOrder) /\ Len(Tail(u)) = Len(u) - 1
      /\ \A i \in 1 .. Len(Tail(u)) : Tail(u)[i] = u[i + 1]
  BY <1>2, HeadTailProperties
<1>5. /\ v \in Seq(RefOrder) /\ Len(v) = Len(Tail(u)) + 1 /\ v[1] = e
      /\ \A i \in 1 .. Len(Tail(u)) : v[i + 1] = Tail(u)[i]
  BY <1>3, <1>4, PushFacts
<1> HIDE DEF v
<1>6. ASSUME NEW i \in 1 .. Len(Queue(new, q)) PROVE Queue(new, q)[i] = v[i]
  <2>1. i \in 1 .. Len(q)
    BY <1>3
  <2>2. CASE i = 1
    BY <1>3, <1>5, <2>1, <2>2 DEF e
  <2>3. CASE i # 1
    <3> DEFINE j == i - 1
    <3>1. j \in 1 .. Len(Tail(u)) /\ i = j + 1
      BY <1>2, <1>4, <2>1, <2>3
    <3> HIDE DEF j
    <3>2. v[i] = u[i]
      BY <1>4, <1>5, <3>1
    <3>3. q[i] # q[1] /\ q[i] \in Handles
      BY <1>1, <2>1, <2>3, ToSetOfSeq, ElementOfSeq
    <3> QED BY <1>2, <1>3, <2>1, <3>2, <3>3
  <2> QED BY <2>2, <2>3
<1>7. Queue(new, q) = v
  BY <1>2, <1>3, <1>4, <1>5, <1>6, SeqEqual
<1> QED BY <1>7 DEF u, e, v

\* What ReferenceBook's variables stand for.
RefQueue == [s \in Side |-> [p \in Prices |-> QueueAt(s, p)]]

RefOut == [code               |-> out.code,
           initial_quantity   |-> out.initial_quantity,
           filled_quantity    |-> out.filled_quantity,
           remaining_quantity |-> out.remaining_quantity,
           has_handle         |-> out.handle # NULL,
           trades             |-> out.trades]

LEMMA RefQueueIs ==
    /\ \A s \in Side, p \in Prices :
         RefQueue[s][p] = Queue(order, fifo[<<s, idx_of(p)>>])
    /\ RefQueue = [s \in Side |-> [p \in Prices |-> Queue(order, fifo[<<s, idx_of(p)>>])]]
    /\ RefQueue' = [s \in Side |-> [p \in Prices |-> Queue(order', fifo'[<<s, idx_of(p)>>])]]
BY DEF RefQueue, QueueAt, Queue, Entry

\* A step that changes the queue of one level.
LEMMA RefQueueChange ==
    ASSUME NEW s0 \in Side, NEW p0 \in Prices, NEW new,
           Queue(order', fifo'[<<s0, idx_of(p0)>>]) = new,
           \A x \in Levels : x # <<s0, idx_of(p0)>> =>
               Queue(order', fifo'[x]) = Queue(order, fifo[x])
    PROVE  RefQueue' = [RefQueue EXCEPT ![s0][p0] = new]
<1>1. \A s \in Side, p \in Prices :
        /\ <<s, idx_of(p)>> \in Levels
        /\ <<s, idx_of(p)>> = <<s0, idx_of(p0)>> <=> s = s0 /\ p = p0
  <2>1. \A p \in Prices : idx_of(p) = idx_of(p0) <=> p = p0
    BY LevelFacts
  <2> QED BY <2>1, LevelFacts
<1> DEFINE C(s, p) == Queue(order, fifo[<<s, idx_of(p)>>])
           D(s, p) == Queue(order', fifo'[<<s, idx_of(p)>>])
<1>2. \A s \in Side, p \in Prices : D(s, p) = IF s = s0 /\ p = p0 THEN new ELSE C(s, p)
  BY <1>1
<1>3. /\ RefQueue = [s \in Side |-> [p \in Prices |-> C(s, p)]]
      /\ RefQueue' = [s \in Side |-> [p \in Prices |-> D(s, p)]]
  BY RefQueueIs
<1> HIDE DEF C, D
<1> DEFINE N == [RefQueue EXCEPT ![s0][p0] = new]
<1>4. N = [s \in Side |-> [p \in Prices |-> IF s = s0 /\ p = p0 THEN new ELSE C(s, p)]]
  <2>1. N = [RefQueue EXCEPT ![s0] = [RefQueue[s0] EXCEPT ![p0] = new]]
    OBVIOUS
  <2>2. RefQueue[s0] = [p \in Prices |-> C(s0, p)]
    BY <1>3
  <2>3. [RefQueue[s0] EXCEPT ![p0] = new] = [p \in Prices |-> IF p = p0 THEN new ELSE C(s0, p)]
    BY <2>2
  <2>4. N = [s \in Side |-> IF s = s0 THEN [p \in Prices |-> IF p = p0 THEN new ELSE C(s0, p)]
                                      ELSE [p \in Prices |-> C(s, p)]]
    BY <1>3, <2>1, <2>3
  <2> QED BY <2>4
<1>5. RefQueue' = [s \in Side |-> [p \in Prices |-> IF s = s0 /\ p = p0 THEN new ELSE C(s, p)]]
  BY <1>2, <1>3
<1> QED BY <1>4, <1>5

LEMMA RefQueueSame ==
    ASSUME UNCHANGED <<order, fifo>>
    PROVE  RefQueue' = RefQueue
BY RefQueueIs

\* Both instances of the pure operators agree.
LEMMA ReferenceOperators ==
    /\ Reference!Side = Side /\ \A s : Reference!Opposite(s) = Opposite(s)
    /\ Reference!NoTaker = NoCall
    /\ \A q, k : Reference!RemoveAt(q, k) = RemoveAt(q, k)
    /\ \A S : Reference!Min(S) = Min(S) /\ Reference!Max(S) = Max(S)
BY DEF Reference!Side, Side, Reference!Opposite, Opposite, Reference!NoTaker, NoCall,
       Reference!RemoveAt, RemoveAt, Reference!Min, Min, Reference!Max, Max

\* Prices are an interval, so a non-empty set of them has a least and a
\* greatest member.
LEMMA ExtremePrices ==
    ASSUME NEW S \in SUBSET Prices, S # {}
    PROVE  Min(S) \in S /\ Max(S) \in S
<1>1. kBitCount \in Nat /\ base_price_ \in Int /\ Prices = base_price_ .. base_price_ + kBitCount - 1
  <2>1. kL1Count * kWordBits \in Nat
    BY TreeSizeAssumption
  <2> QED BY <2>1, BasePriceAssumption DEF kBitCount, Prices
<1>2. \E x \in S : \A y \in S : x <= y
  <2> DEFINE T == {p - base_price_ : p \in S}
  <2>1. T \in SUBSET Nat /\ T # {}
    BY <1>1
  <2>2. PICK m \in T : \A y \in T : m <= y
    BY <2>1, LeastNatural
  <2>3. PICK x \in S : m = x - base_price_
    OBVIOUS
  <2>4. \A y \in S : y - base_price_ \in T
    OBVIOUS
  <2> HIDE DEF T
  <2>5. \A y \in S : x - base_price_ <= y - base_price_
    BY <2>2, <2>3, <2>4
  <2>6. \A y \in S : y \in Int
    BY <1>1
  <2> QED BY <1>1, <2>5, <2>6
<1>3. \E x \in S : \A y \in S : x >= y
  <2> DEFINE top == base_price_ + kBitCount - 1
             T == {top - p : p \in S}
  <2>1. top \in Int /\ \A p \in S : p \in Int /\ p <= top
    BY <1>1
  <2> HIDE DEF top
  <2>2. T \in SUBSET Nat /\ T # {}
    BY <2>1
  <2>3. PICK m \in T : \A y \in T : m <= y
    BY <2>2, LeastNatural
  <2>4. PICK x \in S : m = top - x
    OBVIOUS
  <2>5. \A y \in S : top - y \in T
    OBVIOUS
  <2> HIDE DEF T
  <2>6. \A y \in S : top - x <= top - y
    BY <2>3, <2>4, <2>5
  <2> QED BY <2>1, <2>6
<1> QED BY <1>2, <1>3 DEF Min, Max

LEMMA WaitingIs ==
    ASSUME IInv
    PROVE  /\ oppo_side \in Side
           /\ Reference!oppo = RefQueue[oppo_side]
           /\ Reference!Waiting = {p \in Prices : fifo[<<oppo_side, idx_of(p)>>] # <<>>}
           /\ \A p \in Prices, s \in Side : /\ fifo[<<s, idx_of(p)>>] \in Seq(Handles)
                                            /\ RefQueue[s][p] = <<>> <=> fifo[<<s, idx_of(p)>>] = <<>>
<1>1. oppo_side \in Side /\ Reference!Opposite(call.side) = oppo_side
  BY SideFacts, ReferenceOperators DEF IInv, CallInv, CallTypeOK, oppo_side
<1>2. Reference!oppo = RefQueue[oppo_side]
  BY <1>1 DEF Reference!oppo, RefQueue
<1>3. \A p \in Prices, s \in Side : /\ fifo[<<s, idx_of(p)>>] \in Seq(Handles)
                                    /\ RefQueue[s][p] = <<>> <=> fifo[<<s, idx_of(p)>>] = <<>>
  <2>1. order \in [Handles -> OrderData] /\ fifo \in [Levels -> Seq(Handles)]
    BY DEF IInv, StoreInv, StoreTypeOK
  <2>2. \A p \in Prices, s \in Side : fifo[<<s, idx_of(p)>>] \in Seq(Handles)
    BY <2>1, LevelFacts
  <2>3. \A p \in Prices, s \in Side : RefQueue[s][p] = Queue(order, fifo[<<s, idx_of(p)>>])
    BY RefQueueIs
  <2> QED BY <2>1, <2>2, <2>3, QueueFacts
<1>4. Reference!Waiting = {p \in Prices : RefQueue[oppo_side][p] # <<>>}
  BY <1>2 DEF Reference!Waiting
<1> QED BY <1>1, <1>2, <1>3, <1>4

\* The engine's cached best is the reference's best price when the level there
\* is not empty.
LEMMA BestIs ==
    ASSUME IInv, AtMaker
    PROVE  /\ best_price \in Reference!Waiting
           /\ Reference!best_price = best_price
           /\ Reference!CanMatch
<1>1. StoreInv /\ CallInv /\ pc = "match" /\ quantity > 0
  BY DEF IInv, AtMaker, CanMatch
<1>2. /\ best_level \in Levels /\ oppo_side \in Side /\ oppo_book \in SideBook
      /\ fifo[best_level] # <<>> /\ best_price \in Prices /\ WouldTradeAt(best_price)
  BY <1>1, MakerFacts
<1>3. idx_of(best_price) = oppo_book.best_price_idx_
  BY <1>2, LevelFacts DEF best_price, SideBook
<1>4. best_price \in Reference!Waiting
  BY <1>2, <1>3, WaitingIs DEF best_level
<1>5. call.side \in Side
  BY <1>1 DEF CallInv, CallTypeOK
<1>6. ASSUME NEW p \in Reference!Waiting
      PROVE  /\ p \in Int /\ best_price \in Int
             /\ call.side = "Buy" => best_price <= p
             /\ call.side # "Buy" => best_price >= p
  <2>1. p \in Prices /\ fifo[<<oppo_side, idx_of(p)>>] # <<>>
    BY <1>6, WaitingIs
  <2> DEFINE i == idx_of(p)
  <2>2. i \in Bits /\ price_of(i) = p /\ i \in Int /\ p \in Int /\ best_price \in Int
        /\ oppo_book.best_price_idx_ \in Int
    BY <1>2, <2>1, LevelFacts DEF SideBook
  <2>3. i \in Occupied(oppo_side)
    BY <1>1, <1>2, <2>1, <2>2, OccupiedIs
  <2>4. ~better_idx(IsAskSide(oppo_side), i, oppo_book.best_price_idx_)
    BY <1>1, <1>2, <2>3 DEF StoreInv, NothingHidden, oppo_book
  <2> HIDE DEF i
  <2>5. CASE call.side = "Buy"
    <3>1. IsAskSide(oppo_side)
      BY <2>5 DEF oppo_side, Opposite, IsAskSide
    <3>2. i >= oppo_book.best_price_idx_
      BY <2>2, <2>4, <3>1 DEF better_idx
    <3> QED BY <2>2, <2>5, <3>2, BasePriceAssumption DEF best_price, price_of
  <2>6. CASE call.side # "Buy"
    <3>1. ~IsAskSide(oppo_side)
      BY <2>6 DEF oppo_side, Opposite, IsAskSide
    <3>2. i <= oppo_book.best_price_idx_
      BY <2>2, <2>4, <3>1 DEF better_idx
    <3> QED BY <2>2, <2>6, <3>2, BasePriceAssumption DEF best_price, price_of
  <2> QED BY <2>5, <2>6
<1>7. Reference!best_price = best_price
  <2>1. CASE call.side = "Buy"
    <3>1. Min(Reference!Waiting) = best_price
      BY <1>4, <1>6, <2>1 DEF Min
    <3> QED BY <2>1, <3>1, ReferenceOperators DEF Reference!best_price
  <2>2. CASE call.side # "Buy"
    <3>1. Max(Reference!Waiting) = best_price
      BY <1>4, <1>6, <2>2 DEF Max
    <3> QED BY <2>2, <3>1, ReferenceOperators DEF Reference!best_price
  <2> QED BY <2>1, <2>2
<1>8. Reference!CanMatch
  BY <1>1, <1>2, <1>4, <1>7 DEF Reference!CanMatch, WouldTradeAt
<1> QED BY <1>4, <1>7, <1>8

\* When the engine's loop is done the reference's is.
LEMMA LoopDoneIs ==
    ASSUME IInv, LoopDone
    PROVE  ~Reference!CanMatch
<1>1. StoreInv /\ CallInv /\ quantity \in Nat /\ call.side \in Side
  BY DEF IInv, CallInv, CallTypeOK
<1>2. CASE ~(quantity > 0)
  BY <1>2 DEF Reference!CanMatch
<1>3. CASE quantity > 0
  <2>1. ASSUME NEW p \in Reference!Waiting PROVE ~WouldTradeAt(p)
    <3>1. p \in Prices /\ fifo[<<oppo_side, idx_of(p)>>] # <<>>
      BY <2>1, WaitingIs
    <3>2. idx_of(p) \in Bits /\ price_of(idx_of(p)) = p
      BY <3>1, LevelFacts
    <3> QED BY <1>1, <1>3, <3>1, <3>2, NobodyWouldTrade
  <2>2. SUFFICES ASSUME Reference!CanMatch PROVE FALSE
    OBVIOUS
  <2>3. PICK p \in Reference!Waiting : TRUE
    BY <2>2 DEF Reference!CanMatch
  <2>4. call.op # "market"
    BY <2>1, <2>3 DEF WouldTradeAt
  <2>5. Reference!Waiting \in SUBSET Prices
    BY WaitingIs
  <2>6. Reference!best_price \in Reference!Waiting
    <3>1. /\ Min(Reference!Waiting) \in Reference!Waiting
          /\ Max(Reference!Waiting) \in Reference!Waiting
      BY <2>3, <2>5, ExtremePrices
    <3> QED BY <3>1, ReferenceOperators DEF Reference!best_price
  <2> QED BY <2>1, <2>2, <2>4, <2>6 DEF Reference!CanMatch, WouldTradeAt
<1> QED BY <1>2, <1>3

LEMMA MinOfTwo ==
    ASSUME NEW a \in Nat, NEW b \in Nat
    PROVE  Min({a, b}) = IF a <= b THEN a ELSE b
<1> DEFINE m == IF a <= b THEN a ELSE b
<1>1. m \in {a, b} /\ \A y \in {a, b} : m <= y
  OBVIOUS
<1>2. \A x \in {a, b} : (\A y \in {a, b} : x <= y) => x = m
  OBVIOUS
<1> QED BY <1>1, <1>2 DEF Min

\* The queue after a trade of fill: its first order is gone, or has less.
AfterTrade(q, left) ==
    IF left = 0 THEN Tail(q) ELSE <<[Head(q) EXCEPT !.quantity = left]>> \o Tail(q)

\* Reference!Trade with order first, quantity fill, side s and price p.
TradeIs(first, fill, s, p) ==
    /\ Reference!CanMatch
    /\ RefQueue' = [RefQueue EXCEPT ![s][p] =
           IF first.quantity - fill = 0 THEN Tail(@)
           ELSE <<[first EXCEPT !.quantity = first.quantity - fill]>> \o Tail(@)]
    /\ quantity' = quantity - fill
    /\ RefOut' = [RefOut EXCEPT
           !.filled_quantity = @ + fill,
           !.trades = Append(@, [taker |-> call.id, maker |-> first.id,
                                 price |-> p, quantity |-> fill])]
    /\ (pc # "idle")' = (pc # "idle")
    /\ call' = call

LEMMA ReferenceTrade ==
    ASSUME TradeIs(Head(Reference!oppo[Reference!best_price]),
                   Reference!Min({quantity, Head(Reference!oppo[Reference!best_price]).quantity}),
                   Reference!Opposite(call.side), Reference!best_price)
    PROVE  Reference!Trade
BY DEF TradeIs, Reference!Trade, RefQueue, RefOut

\* The reference's result, field by field, and what a trade makes of it.
RefResult(c, i, f, r, h, ts) ==
    [code |-> c, initial_quantity |-> i, filled_quantity |-> f,
     remaining_quantity |-> r, has_handle |-> h, trades |-> ts]

AfterFill(R, fill, t) == [R EXCEPT !.filled_quantity = @ + fill, !.trades = Append(@, t)]

LEMMA ResultAfterTrade ==
    ASSUME NEW c, NEW i, NEW f, NEW r, NEW h, NEW ts, NEW fill, NEW t
    PROVE  AfterFill(RefResult(c, i, f, r, h, ts), fill, t)
           = RefResult(c, i, f + fill, r, h, Append(ts, t))
<1> DEFINE R == RefResult(c, i, f, r, h, ts)
           n == R.filled_quantity + fill
           T == Append(R.trades, t)
           S == [R EXCEPT !.filled_quantity = n]
<1>1. n = f + fill /\ T = Append(ts, t)
  BY DEF RefResult
<1>2. AfterFill(R, fill, t) = [S EXCEPT !.trades = T]
  BY DEF AfterFill
<1> HIDE DEF n, T
<1>3. S = RefResult(c, i, n, r, h, ts)
  BY DEF RefResult
<1> HIDE DEF S
<1>4. [S EXCEPT !.trades = T] = RefResult(c, i, n, r, h, T)
  BY <1>3 DEF RefResult
<1> QED BY <1>1, <1>2, <1>4

LEMMA TradeMaps ==
    ASSUME IInv, AtMaker, NEW fill \in Nat,
           fill = IF quantity <= order[maker].quantity THEN quantity ELSE order[maker].quantity,
           Fill(fill), pc' # "idle",
           RefQueue' = [RefQueue EXCEPT ![oppo_side][best_price] =
                            AfterTrade(@, order[maker].quantity - fill)]
    PROVE  Reference!Trade
<1>1. StoreInv /\ CallInv /\ pc = "match" /\ quantity \in Nat /\ out \in ResultRecord
  BY DEF IInv, AtMaker, CanMatch, CallInv, CallTypeOK
<1>2. /\ best_level \in Levels /\ oppo_side \in Side /\ oppo_book \in SideBook
      /\ fifo[best_level] # <<>> /\ 1 \in 1 .. Len(fifo[best_level])
      /\ maker = fifo[best_level][1]
      /\ order[maker] \in OrderData /\ order[maker].price = best_price /\ best_price \in Prices
  BY <1>1, MakerFacts
<1>3. Reference!best_price = best_price /\ Reference!CanMatch
  BY BestIs
<1>4. Reference!oppo = RefQueue[oppo_side] /\ Reference!Opposite(call.side) = oppo_side
  BY WaitingIs, ReferenceOperators DEF oppo_side
<1> DEFINE q == RefQueue[oppo_side][best_price]
           first == Entry(order[maker])
<1>5. Head(q) = first
  <2>1. best_level = <<oppo_side, idx_of(best_price)>>
    BY <1>2, LevelFacts DEF best_level, best_price, SideBook
  <2>2. q = Queue(order, fifo[best_level])
    BY <1>2, <2>1, RefQueueIs
  <2>3. order \in [Handles -> OrderData] /\ fifo[best_level] \in Seq(Handles)
    BY <1>1, <1>2 DEF StoreInv, StoreTypeOK
  <2>4. q \in Seq(RefOrder) /\ q # <<>> /\ q[1] = first
    BY <1>2, <2>2, <2>3, QueueFacts
  <2> HIDE DEF q
  <2> QED BY <2>4, HeadTailProperties
<1>6. first.quantity = order[maker].quantity /\ first.id = order[maker].id
      /\ order[maker].quantity \in Nat
  BY <1>2 DEF Entry, OrderData
<1>7. Reference!Min({quantity, first.quantity}) = fill
  BY <1>1, <1>6, MinOfTwo, ReferenceOperators
<1>8. /\ quantity' = quantity - fill /\ call' = call
      /\ out' = [out EXCEPT !.filled_quantity = out.filled_quantity + fill,
                            !.trades = Append(out.trades, Trade(fill))]
  BY DEF Fill
<1> DEFINE trade == [taker |-> call.id, maker |-> first.id,
                     price |-> best_price, quantity |-> fill]
<1>9. RefOut' = AfterFill(RefOut, fill, trade)
  <2>1. Trade(fill) = trade
    BY <1>2, <1>6 DEF Trade
  <2> HIDE DEF trade, first
  <2>2. /\ out'.code = out.code /\ out'.initial_quantity = out.initial_quantity
        /\ out'.filled_quantity = out.filled_quantity + fill
        /\ out'.remaining_quantity = out.remaining_quantity /\ out'.handle = out.handle
        /\ out'.trades = Append(out.trades, trade)
    BY <1>1, <1>8, <2>1 DEF ResultRecord
  <2> HIDE DEF trade
  <2>3. RefOut' = RefResult(out.code, out.initial_quantity, out.filled_quantity + fill,
                            out.remaining_quantity, out.handle # NULL, Append(out.trades, trade))
    BY <2>2 DEF RefOut, RefResult
  <2>4. RefOut = RefResult(out.code, out.initial_quantity, out.filled_quantity,
                           out.remaining_quantity, out.handle # NULL, out.trades)
    BY DEF RefOut, RefResult
  <2> QED BY <2>3, <2>4, ResultAfterTrade
<1> HIDE DEF q, first
<1>10. RefQueue' = [RefQueue EXCEPT ![oppo_side][best_price] =
                        IF first.quantity - fill = 0 THEN Tail(@)
                        ELSE <<[first EXCEPT !.quantity = first.quantity - fill]>> \o Tail(@)]
  BY <1>5, <1>6 DEF AfterTrade, q
<1>11. (pc # "idle")' = (pc # "idle")
  BY <1>1
<1>12. Head(Reference!oppo[Reference!best_price]) = first
  BY <1>3, <1>4, <1>5 DEF q
<1>13. TradeIs(first, fill, oppo_side, best_price)
  BY <1>3, <1>8, <1>9, <1>10, <1>11 DEF TradeIs, AfterFill, trade
<1> QED BY <1>3, <1>4, <1>7, <1>12, <1>13, ReferenceTrade

LEMMA FillPartMaps == ASSUME IInv, FillPart PROVE Reference!Trade
<1>1. StoreInv /\ CallInv /\ AtMaker
  BY DEF IInv, FillPart
<1>2. /\ quantity \in Nat /\ quantity < order[maker].quantity /\ Fill(quantity)
      /\ UNCHANGED <<links, pc, fifo, free>> /\ pc = "match"
  BY DEF IInv, CallInv, CallTypeOK, FillPart, AtMaker
<1>3. /\ best_level \in Levels /\ oppo_side \in Side /\ oppo_book \in SideBook
      /\ fifo[best_level] # <<>> /\ maker = fifo[best_level][1] /\ maker \in Handles
      /\ maker \in ToSet(fifo[best_level])
      /\ order[maker] \in OrderData /\ best_price \in Prices
  BY <1>1, MakerFacts
<1>4. order[maker].quantity \in Nat /\ quantity <= quantity /\ quantity <= order[maker].quantity
  BY <1>2, <1>3 DEF OrderData
<1>5. /\ order' \in [Handles -> OrderData]
      /\ \A h \in Handles : h # maker => order'[h] = order[h]
      /\ order'[maker].id = order[maker].id
      /\ order'[maker].quantity = order[maker].quantity - quantity
  BY <1>1, <1>2, <1>4, FillFacts
<1>6. best_level = <<oppo_side, idx_of(best_price)>>
  BY <1>3, LevelFacts DEF best_level, best_price, SideBook
<1>7. /\ order \in [Handles -> OrderData] /\ fifo \in [Levels -> Seq(Handles)]
      /\ \A x \in Levels : IsInjective(fifo[x])
      /\ \A x, y \in Levels : x # y => ToSet(fifo[x]) \cap ToSet(fifo[y]) = {}
  BY <1>1 DEF StoreInv, StoreTypeOK, PoolPartitioned
<1> DEFINE q == fifo[best_level]
           left == order[maker].quantity - quantity
<1>8. Queue(order', q) = AfterTrade(Queue(order, q), left)
  <2>1. Queue(order', q) = <<Entry(order'[maker])>> \o Tail(Queue(order, q))
    <3>1. q \in Seq(Handles) /\ q # <<>> /\ IsInjective(q) /\ maker = q[1]
      BY <1>3, <1>7
    <3> HIDE DEF q
    <3>2. \A h \in Handles : h # q[1] => order'[h] = order[h]
      BY <1>5, <3>1
    <3> QED BY <1>5, <1>7, <3>1, <3>2, QueueFirst
  <2>2. Head(Queue(order, q)) = Entry(order[maker])
    <3>1. 1 \in 1 .. Len(q) /\ q \in Seq(Handles)
      BY <1>3, <1>7, TailIsRemoveAt
    <3>2. Queue(order, q) \in Seq(RefOrder) /\ Queue(order, q) # <<>>
          /\ Queue(order, q)[1] = Entry(order[maker])
      BY <1>3, <1>7, <3>1, QueueFacts
    <3> QED BY <3>2, HeadTailProperties
  <2>3. Entry(order'[maker]) = [Entry(order[maker]) EXCEPT !.quantity = left]
    BY <1>5 DEF Entry
  <2>4. left # 0
    BY <1>2, <1>4
  <2> QED BY <2>1, <2>2, <2>3, <2>4 DEF AfterTrade
<1>9. \A x \in Levels : x # best_level => Queue(order', fifo[x]) = Queue(order, fifo[x])
  <2>1. ASSUME NEW x \in Levels, x # best_level
        PROVE  Queue(order', fifo[x]) = Queue(order, fifo[x])
    <3>1. fifo[x] \in Seq(Handles) /\ maker \notin ToSet(fifo[x])
      BY <1>3, <1>7, <2>1
    <3>2. \A h \in ToSet(fifo[x]) : h \in Handles /\ order'[h] = order[h]
      BY <1>5, <3>1, ToSetOfSeq
    <3> QED BY <3>1, <3>2, QueueFrame
  <2> QED BY <2>1
<1> HIDE DEF q, left
<1>10. RefQueue' = [RefQueue EXCEPT ![oppo_side][best_price] = AfterTrade(Queue(order, q), left)]
  <2>1. fifo' = fifo
    BY <1>2
  <2> QED BY <1>3, <1>6, <1>8, <1>9, <2>1, RefQueueChange DEF q
<1>11. RefQueue[oppo_side][best_price] = Queue(order, q)
  BY <1>3, <1>6, RefQueueIs DEF q
<1>12. RefQueue' = [RefQueue EXCEPT ![oppo_side][best_price] = AfterTrade(@, left)]
  BY <1>10, <1>11
<1> QED BY <1>1, <1>2, <1>4, <1>12, TradeMaps DEF left

\* The order at place k leaves its level; other orders' data do not change.
LEMMA RemoveMaps ==
    ASSUME StoreInv, NEW l \in Levels, NEW k \in 1 .. Len(fifo[l]),
           fifo' = [fifo EXCEPT ![l] = RemoveAt(@, k)],
           order' \in [Handles -> OrderData],
           \A h \in Handles : h # fifo[l][k] => order'[h] = order[h]
    PROVE  \E s \in Side, p \in Prices :
             /\ l = <<s, idx_of(p)>>
             /\ k \in 1 .. Len(RefQueue[s][p])
             /\ RefQueue[s][p] \in Seq(RefOrder)
             /\ RefQueue[s][p][k] = Entry(order[fifo[l][k]])
             /\ RefQueue' = [RefQueue EXCEPT ![s][p] = RemoveAt(@, k)]
<1>1. PICK s \in Side, p \in Prices : l = <<s, idx_of(p)>>
  <2>1. l[1] \in Side /\ l[2] \in Bits /\ l = <<l[1], l[2]>>
    BY LevelFacts
  <2>2. price_of(l[2]) \in Prices /\ idx_of(price_of(l[2])) = l[2]
    BY <2>1, LevelFacts
  <2> QED BY <2>1, <2>2
<1>2. /\ order \in [Handles -> OrderData] /\ fifo \in [Levels -> Seq(Handles)]
      /\ \A x \in Levels : IsInjective(fifo[x])
      /\ \A x, y \in Levels : x # y => ToSet(fifo[x]) \cap ToSet(fifo[y]) = {}
  BY DEF StoreInv, StoreTypeOK, PoolPartitioned
<1> DEFINE q == fifo[l]
           r == RemoveAt(q, k)
<1>3. q \in Seq(Handles) /\ IsInjective(q) /\ k \in 1 .. Len(q)
  BY <1>2
<1>4. /\ fifo'[l] = r /\ \A x \in Levels : x # l => fifo'[x] = fifo[x]
      /\ q[k] \in ToSet(q)
  BY <1>2, <1>3, ToSetOfSeq
<1>5. \A h \in Handles : h # q[k] => order'[h] = order[h]
  OBVIOUS
<1>6. RefQueue[s][p] = Queue(order, q)
  BY <1>1, RefQueueIs
<1>7. \A x \in Levels : x # l => q[k] \notin ToSet(fifo[x])
  BY <1>2, <1>4
<1> HIDE DEF q
<1>8. r \in Seq(Handles) /\ ToSet(r) = ToSet(q) \ {q[k]}
  BY <1>3, RemoveAtFacts, RemoveAtSet
<1>9. Queue(order', r) = RemoveAt(Queue(order, q), k)
  <2>1. \A h \in ToSet(r) : h \in Handles
    BY <1>8, ToSetOfSeq
  <2>2. \A h \in ToSet(r) : Entry(order'[h]) = Entry(order[h])
    BY <1>5, <1>8, <2>1
  <2>3. Queue(order, r) = RemoveAt(Queue(order, q), k)
    BY <1>2, <1>3, QueueRemove
  <2> HIDE DEF r
  <2>4. Queue(order', r) = Queue(order, r)
    BY <1>8, <2>2, QueueFrame
  <2> QED BY <2>3, <2>4
<1> HIDE DEF r
<1>10. \A x \in Levels : x # l => Queue(order', fifo'[x]) = Queue(order, fifo[x])
  <2>1. ASSUME NEW x \in Levels, x # l
        PROVE  Queue(order', fifo'[x]) = Queue(order, fifo[x])
    <3>1. fifo'[x] = fifo[x] /\ fifo[x] \in Seq(Handles) /\ q[k] \notin ToSet(fifo[x])
      BY <1>2, <1>4, <1>7, <2>1
    <3>2. \A h \in ToSet(fifo[x]) : Entry(order'[h]) = Entry(order[h])
      BY <1>5, <3>1, ToSetOfSeq
    <3> QED BY <3>1, <3>2, QueueFrame
  <2> QED BY <2>1
<1>11. RefQueue' = [RefQueue EXCEPT ![s][p] = RemoveAt(Queue(order, q), k)]
  <2> DEFINE new == RemoveAt(Queue(order, q), k)
  <2>1. Queue(order', fifo'[<<s, idx_of(p)>>]) = new
    BY <1>1, <1>4, <1>9
  <2>2. \A x \in Levels : x # <<s, idx_of(p)>> => Queue(order', fifo'[x]) = Queue(order, fifo[x])
    BY <1>1, <1>10
  <2> QED BY <2>1, <2>2, RefQueueChange
<1>12. /\ k \in 1 .. Len(Queue(order, q)) /\ Queue(order, q) \in Seq(RefOrder)
       /\ Queue(order, q)[k] = Entry(order[q[k]])
  BY <1>2, <1>3, QueueFacts
<1> QED BY <1>1, <1>6, <1>11, <1>12 DEF q

LEMMA FillAllMaps == ASSUME IInv, FillAll PROVE Reference!Trade
<1>1. StoreInv /\ CallInv /\ AtMaker
  BY DEF IInv, FillAll
<1>2. /\ best_level \in Levels /\ oppo_side \in Side /\ oppo_book \in SideBook
      /\ fifo[best_level] # <<>> /\ maker = fifo[best_level][1] /\ maker \in Handles
      /\ 1 \in 1 .. Len(fifo[best_level])
      /\ order[maker] \in OrderData /\ best_price \in Prices
  BY <1>1, MakerFacts
<1>3. order[maker].quantity \in Nat /\ quantity \in Nat /\ quantity >= order[maker].quantity
  BY <1>1, <1>2 DEF OrderData, CallInv, CallTypeOK, FillAll
<1>4. PICK fill \in Nat : fill = order[maker].quantity
  BY <1>3
<1>5. /\ Fill(fill) /\ fill <= quantity /\ fill <= order[maker].quantity
      /\ fill = IF quantity <= order[maker].quantity THEN quantity ELSE order[maker].quantity
  BY <1>3, <1>4 DEF FillAll
<1>6. order' \in [Handles -> OrderData] /\ \A h \in Handles : h # maker => order'[h] = order[h]
  BY <1>1, <1>5, FillFacts
<1>7. best_level = <<oppo_side, idx_of(best_price)>>
  BY <1>2, LevelFacts DEF best_level, best_price, SideBook
<1>8. PICK l \in Levels : l = best_level
  BY <1>2
<1>9. fifo[l] \in Seq(Handles) /\ fifo[l] # <<>>
  BY <1>1, <1>2, <1>8 DEF StoreInv, StoreTypeOK
<1>10. fifo' = [fifo EXCEPT ![l] = RemoveAt(@, 1)]
  BY <1>8, <1>9, TailIsRemoveAt DEF FillAll
<1>11. PICK s \in Side, p \in Prices :
         /\ l = <<s, idx_of(p)>>
         /\ 1 \in 1 .. Len(RefQueue[s][p])
         /\ RefQueue[s][p] \in Seq(RefOrder)
         /\ RefQueue[s][p][1] = Entry(order[fifo[l][1]])
         /\ RefQueue' = [RefQueue EXCEPT ![s][p] = RemoveAt(@, 1)]
  <2>1. 1 \in 1 .. Len(fifo[l]) /\ \A h \in Handles : h # fifo[l][1] => order'[h] = order[h]
    BY <1>2, <1>6, <1>8
  <2> QED BY <1>1, <1>6, <1>10, <2>1, RemoveMaps
<1>12. s = oppo_side /\ p = best_price
  <2>1. s = oppo_side /\ idx_of(p) = idx_of(best_price)
    BY <1>7, <1>8, <1>11
  <2>2. price_of(idx_of(p)) = p /\ price_of(idx_of(best_price)) = best_price
    BY <1>2, LevelFacts
  <2> QED BY <2>1, <2>2
<1> DEFINE q == RefQueue[s][p]
<1>13. RemoveAt(q, 1) = AfterTrade(q, order[maker].quantity - fill)
  <2>1. q \in Seq(RefOrder) /\ q # <<>>
    BY <1>11, EmptySeq
  <2> HIDE DEF q
  <2>2. Tail(q) = RemoveAt(q, 1)
    BY <2>1, TailIsRemoveAt
  <2> QED BY <1>3, <1>4, <2>2 DEF AfterTrade
<1>14. RefQueue' = [RefQueue EXCEPT ![oppo_side][best_price] =
                        AfterTrade(@, order[maker].quantity - fill)]
  BY <1>11, <1>12, <1>13
<1>15. pc' # "idle"
  BY DEF FillAll
<1> QED BY <1>1, <1>5, <1>14, <1>15, TradeMaps

\* Ghosts and the pool's assertion are invisible to the reference.
LEMMA ReferenceVars ==
    /\ Reference!vars = <<RefQueue, pc # "idle", call, quantity, RefOut>>
    /\ Reference!vars' = <<RefQueue', (pc # "idle")', call', quantity', RefOut'>>
BY DEF Reference!vars, RefQueue, RefOut

LEMMA StutterMaps ==
    ASSUME UNCHANGED <<order, fifo, call, quantity, out>>, pc' # "idle" <=> pc # "idle"
    PROVE  UNCHANGED Reference!vars
<1>1. RefQueue' = RefQueue
  BY RefQueueSame
<1>2. RefOut' = RefOut
  BY DEF RefOut
<1>3. (pc # "idle")' = (pc # "idle")
  OBVIOUS
<1> QED BY <1>1, <1>2, <1>3, ReferenceVars

LEMMA ResultFields ==
    ASSUME NEW c, NEW i, NEW f, NEW r, NEW h, NEW ts, NEW R, NEW x,
           R = RefResult(c, i, f, r, h, ts)
    PROVE  /\ [R EXCEPT !.code = x] = RefResult(x, i, f, r, h, ts)
           /\ [R EXCEPT !.remaining_quantity = x] = RefResult(c, i, f, x, h, ts)
           /\ [R EXCEPT !.has_handle = x] = RefResult(c, i, f, r, x, ts)
BY DEF RefResult

LEMMA RefOutIs ==
    /\ RefOut = RefResult(out.code, out.initial_quantity, out.filled_quantity,
                          out.remaining_quantity, out.handle # NULL, out.trades)
    /\ RefOut' = RefResult(out'.code, out'.initial_quantity, out'.filled_quantity,
                           out'.remaining_quantity, out'.handle # NULL, out'.trades)
BY DEF RefOut, RefResult

\* What a call returns, seen from the reference.
LEMMA ReturnOut ==
    ASSUME NEW r \in ResultRecord, Return(r)
    PROVE  /\ RefOut' = RefResult(r.code, r.initial_quantity, r.filled_quantity, quantity,
                                  r.handle # NULL, r.trades)
           /\ call' = NoCall /\ quantity' = 0 /\ pc' = "idle"
<1>1. /\ out'.code = r.code /\ out'.initial_quantity = r.initial_quantity
      /\ out'.filled_quantity = r.filled_quantity /\ out'.remaining_quantity = quantity
      /\ out'.handle = r.handle /\ out'.trades = r.trades
  BY DEF Return, ResultRecord
<1> QED BY <1>1, RefOutIs DEF Return

LEMMA ReferenceFinish ==
    ASSUME NEW R, ~Reference!CanMatch, pc # "idle", pc' = "idle", call' = NoCall, quantity' = 0,
           RefOut' = [R EXCEPT !.remaining_quantity = quantity]
    PROVE  Reference!Finish(R)
<1>1. (pc # "idle")' = FALSE
  OBVIOUS
<1> QED BY <1>1, ReferenceOperators DEF Reference!Finish, RefOut

LEMMA ReferenceReturn ==
    ASSUME quantity = 0 \/ call.op = "market", RefQueue' = RefQueue,
           Reference!Finish([RefOut EXCEPT !.code = IF quantity = 0 THEN "Success"
                                                    ELSE "MarketRemainderCancelled"])
    PROVE  Reference!ReturnUnrested
BY DEF Reference!ReturnUnrested, RefOut, RefQueue

LEMMA ReferenceRest ==
    ASSUME quantity > 0, call.op # "market", Reference!Finish([RefOut EXCEPT !.has_handle = TRUE]),
           RefQueue' = [RefQueue EXCEPT ![call.side][call.price] =
                            Append(@, [id |-> call.id, quantity |-> quantity])]
    PROVE  Reference!rest_order
BY DEF Reference!rest_order, RefOut, RefQueue

LEMMA ReturnMaps == ASSUME IInv, ReturnUnrested PROVE Reference!ReturnUnrested
<1>1. PICK c \in ErrorCode : c = IF quantity = 0 THEN "Success" ELSE "MarketRemainderCancelled"
  BY DEF ErrorCode
<1>2. out \in ResultRecord /\ LoopDone /\ pc # "idle"
  BY DEF IInv, CallInv, CallTypeOK, ReturnUnrested, LoopDone
<1>3. PICK r \in ResultRecord : r = [out EXCEPT !.code = c]
  BY <1>2 DEF ResultRecord
<1>4. Return(r) /\ UNCHANGED <<order, fifo>> /\ (quantity = 0 \/ call.op = "market")
  BY <1>1, <1>3 DEF ReturnUnrested
<1>5. RefOut' = RefResult(c, out.initial_quantity, out.filled_quantity, quantity,
                          out.handle # NULL, out.trades)
  BY <1>2, <1>3, <1>4, ReturnOut DEF ResultRecord
<1>6. PICK R : R = [RefOut EXCEPT !.code = c]
  OBVIOUS
<1>7. R = RefResult(c, out.initial_quantity, out.filled_quantity, out.remaining_quantity,
                    out.handle # NULL, out.trades)
  BY <1>6, RefOutIs, ResultFields
<1>8. RefOut' = [R EXCEPT !.remaining_quantity = quantity]
  BY <1>5, <1>7, ResultFields
<1>9. Reference!Finish(R)
  BY <1>2, <1>4, <1>8, LoopDoneIs, ReturnOut, ReferenceFinish
<1>10. Reference!Finish([RefOut EXCEPT !.code = IF quantity = 0 THEN "Success"
                                                ELSE "MarketRemainderCancelled"])
  BY <1>1, <1>6, <1>9
<1>11. RefQueue' = RefQueue
  BY <1>4, RefQueueSame
<1> QED BY <1>4, <1>10, <1>11, ReferenceReturn

LEMMA RestMaps == ASSUME IInv, RestRemainder PROVE Reference!rest_order
<1>1. PICK h : h = links.free_head_
  OBVIOUS
<1>2. /\ StoreInv /\ CallInv /\ LoopDone /\ quantity > 0 /\ call.op # "market" /\ h # NULL
      /\ out \in ResultRecord /\ pc # "idle" /\ quantity \in Nat
      /\ call.side \in Side /\ call.id \in OrderId /\ call.price \in Prices
  BY <1>1 DEF IInv, RestRemainder, MustRest, LoopDone, CallInv, CallTypeOK, CallArgs
<1>3. PICK s \in Side, p \in Prices : s = call.side /\ p = call.price
  BY <1>2
<1>4. PICK l \in Levels : l = <<s, idx_of(p)>>
  BY LevelFacts
<1>5. PICK new \in OrderData : new = [id |-> call.id, price |-> call.price, quantity |-> quantity]
  BY <1>2 DEF OrderData, OrNull
<1>6. /\ order' = [order EXCEPT ![h] = new]
      /\ links' = Linked(Acquire(links), l, h)
      /\ fifo' = [fifo EXCEPT ![l] = Append(@, h)]
      /\ free' = Tail(free)
      /\ Return([out EXCEPT !.handle = h])
  BY <1>1, <1>3, <1>4, <1>5 DEF RestRemainder, Linked
<1>7. Stored(links, fifo, free)
  BY <1>2, StoredIs
<1>8. Rested(fifo, l, h, links', fifo', free')
  BY <1>1, <1>2, <1>6, <1>7, RestExact
<1>9. h \in Handles /\ h \notin Listed(fifo) /\ \A x \in Levels : x # l => fifo'[x] = fifo[x]
  BY <1>8 DEF Rested
<1>10. /\ order \in [Handles -> OrderData] /\ fifo \in [Levels -> Seq(Handles)]
       /\ order' \in [Handles -> OrderData] /\ order'[h] = new
       /\ \A x \in Handles : x # h => order'[x] = order[x]
       /\ fifo'[l] = Append(fifo[l], h)
  BY <1>2, <1>6, <1>9 DEF StoreInv, StoreTypeOK
<1>11. \A x \in Levels : Queue(order', fifo[x]) = Queue(order, fifo[x])
  <2>1. ASSUME NEW x \in Levels PROVE Queue(order', fifo[x]) = Queue(order, fifo[x])
    <3>1. fifo[x] \in Seq(Handles) /\ h \notin ToSet(fifo[x])
      BY <1>9, <1>10 DEF Listed
    <3>2. \A y \in ToSet(fifo[x]) : Entry(order'[y]) = Entry(order[y])
      BY <1>10, <3>1, ToSetOfSeq
    <3> QED BY <3>1, <3>2, QueueFrame
  <2> QED BY <2>1
<1>12. RefQueue' = [RefQueue EXCEPT ![s][p] = Append(RefQueue[s][p], Entry(new))]
  <2>1. Queue(order', fifo'[l]) = Append(Queue(order', fifo[l]), Entry(order'[h]))
    <3>1. fifo[l] \in Seq(Handles)
      BY <1>10
    <3>2. Queue(order', Append(fifo[l], h)) = Append(Queue(order', fifo[l]), Entry(order'[h]))
      BY <1>9, <1>10, <3>1, QueueAppend
    <3> QED BY <1>10, <3>2
  <2>2. RefQueue[s][p] = Queue(order, fifo[l])
    BY <1>4, RefQueueIs
  <2> DEFINE r == Append(RefQueue[s][p], Entry(new))
  <2>3. Queue(order', fifo'[<<s, idx_of(p)>>]) = r
    BY <1>4, <1>10, <1>11, <2>1, <2>2
  <2>4. \A x \in Levels : x # <<s, idx_of(p)>> => Queue(order', fifo'[x]) = Queue(order, fifo[x])
    BY <1>4, <1>9, <1>11
  <2> HIDE DEF r
  <2>5. RefQueue' = [RefQueue EXCEPT ![s][p] = r]
    BY <2>3, <2>4, RefQueueChange
  <2> QED BY <2>5 DEF r
<1>13. Entry(new) = [id |-> call.id, quantity |-> quantity]
  BY <1>5 DEF Entry
<1>14. RefQueue' = [RefQueue EXCEPT ![call.side][call.price] =
                        Append(@, [id |-> call.id, quantity |-> quantity])]
  BY <1>3, <1>12, <1>13
<1>15. PICK r \in ResultRecord : r = [out EXCEPT !.handle = h]
  BY <1>2, <1>9 DEF ResultRecord, OrNull
<1>16. Return(r)
  BY <1>6, <1>15
<1>0. PICK t : t = TRUE
  OBVIOUS
<1>17. RefOut' = RefResult(out.code, out.initial_quantity, out.filled_quantity, quantity,
                           t, out.trades)
  <2>1. (r.handle # NULL) = t /\ r.code = out.code /\ r.initial_quantity = out.initial_quantity
        /\ r.filled_quantity = out.filled_quantity /\ r.trades = out.trades
    BY <1>0, <1>2, <1>15 DEF ResultRecord
  <2> QED BY <1>16, <2>1, ReturnOut
<1>18. PICK R : R = [RefOut EXCEPT !.has_handle = t]
  OBVIOUS
<1>19. R = RefResult(out.code, out.initial_quantity, out.filled_quantity, out.remaining_quantity,
                     t, out.trades)
  <2>1. PICK b : b = (out.handle # NULL)
    OBVIOUS
  <2>2. RefOut = RefResult(out.code, out.initial_quantity, out.filled_quantity,
                           out.remaining_quantity, b, out.trades)
    BY <2>1, RefOutIs
  <2>3. PICK Q : Q = RefOut
    OBVIOUS
  <2>4. R = [Q EXCEPT !.has_handle = t]
    BY <1>18, <2>3
  <2>5. Q = RefResult(out.code, out.initial_quantity, out.filled_quantity,
                      out.remaining_quantity, b, out.trades)
    BY <2>2, <2>3
  <2>6. R = RefResult(out.code, out.initial_quantity, out.filled_quantity,
                      out.remaining_quantity, t, out.trades)
    BY <2>4, <2>5 DEF RefResult
  <2> QED BY <2>6
<1>20. RefOut' = [R EXCEPT !.remaining_quantity = quantity]
  BY <1>17, <1>19, ResultFields
<1>21. Reference!Finish(R)
  BY <1>2, <1>16, <1>20, LoopDoneIs, ReturnOut, ReferenceFinish
<1> QED BY <1>0, <1>2, <1>14, <1>18, <1>21, ReferenceRest

-----------------------------------------------------------------------------
LEMMA ReferenceBegin ==
    ASSUME NEW op, NEW id, NEW side, NEW price, NEW qty, pc = "idle",
           \/ /\ qty = 0
              /\ RefOut' = Reference!Result("InvalidQuantity", 0)
              /\ UNCHANGED <<pc, call, quantity>>
           \/ /\ qty > 0
              /\ RefOut' = Reference!Result("Success", qty)
              /\ pc' # "idle"
              /\ call' = [op |-> op, id |-> id, side |-> side, price |-> price]
              /\ quantity' = qty
    PROVE  Reference!Begin(op, id, side, price, qty)
<1>1. CASE /\ qty > 0
           /\ RefOut' = Reference!Result("Success", qty)
           /\ pc' # "idle"
           /\ call' = [op |-> op, id |-> id, side |-> side, price |-> price]
           /\ quantity' = qty
  <2>1. (pc # "idle")' = TRUE
    BY <1>1
  <2> QED BY <1>1, <2>1 DEF Reference!Begin, RefOut
<1>2. CASE /\ qty = 0
           /\ RefOut' = Reference!Result("InvalidQuantity", 0)
           /\ UNCHANGED <<pc, call, quantity>>
  <2>1. (pc # "idle")' = (pc # "idle")
    BY <1>2
  <2> QED BY <1>2, <2>1 DEF Reference!Begin, RefOut
<1> QED BY <1>1, <1>2

LEMMA BeginMaps ==
    ASSUME NEW op, NEW id, NEW side, NEW price, NEW qty, pc = "idle",
           Begin(op, id, side, price, qty)
    PROVE  Reference!Begin(op, id, side, price, qty)
<1>1. \A c, i : Reference!Result(c, i) = RefResult(c, i, 0, 0, FALSE, <<>>)
  BY DEF Reference!Result, RefResult
<1>2. ASSUME NEW c, NEW i, out' = Result(c, i)
      PROVE  RefOut' = RefResult(c, i, 0, 0, FALSE, <<>>)
  <2>1. /\ out'.code = c /\ out'.initial_quantity = i /\ out'.filled_quantity = 0
        /\ out'.remaining_quantity = 0 /\ out'.trades = <<>> /\ (out'.handle # NULL) = FALSE
    BY <1>2 DEF Result
  <2> QED BY <2>1, RefOutIs
<1>3. CASE qty = 0 /\ out' = Result("InvalidQuantity", 0) /\ UNCHANGED <<pc, call, quantity>>
  BY <1>1, <1>2, <1>3, ReferenceBegin
<1>4. CASE /\ qty > 0 /\ out' = Result("Success", qty) /\ pc' = "match"
           /\ call' = [op |-> op, id |-> id, side |-> side, price |-> price] /\ quantity' = qty
  BY <1>1, <1>2, <1>4, ReferenceBegin
<1> QED BY <1>3, <1>4 DEF Begin

\* The reference's ids in the book are the engine's.
LEMMA RestsIs ==
    ASSUME IInv, NEW id, Reference!Rests(id)
    PROVE  id \in RestingIds
<1>1. PICK s \in Side, p \in Prices : \E k \in 1 .. Len(RefQueue[s][p]) : RefQueue[s][p][k].id = id
  BY ReferenceOperators DEF Reference!Rests, Reference!Holds, RefQueue
<1>2. PICK k \in 1 .. Len(RefQueue[s][p]) : RefQueue[s][p][k].id = id
  BY <1>1
<1>3. PICK l \in Levels : l = <<s, idx_of(p)>>
  BY LevelFacts
<1>4. order \in [Handles -> OrderData] /\ fifo[l] \in Seq(Handles)
  BY DEF IInv, StoreInv, StoreTypeOK
<1>5. RefQueue[s][p] = Queue(order, fifo[l])
  BY <1>3, RefQueueIs
<1>6. k \in 1 .. Len(fifo[l]) /\ Entry(order[fifo[l][k]]).id = id
  BY <1>2, <1>4, <1>5, QueueFacts
<1> DEFINE h == fifo[l][k]
<1>7. h \in ToSet(fifo[l]) /\ h \in Handles
  BY <1>4, <1>6, ToSetOfSeq
<1>8. h \in Resting
  BY <1>7 DEF Resting
<1>9. order[h].id = id
  BY <1>6 DEF Entry
<1> QED BY <1>8, <1>9 DEF RestingIds

LEMMA SubmitMaps ==
    ASSUME IInv, NEW op, NEW id, id \notin RestingIds, NEW side, NEW price, NEW qty, pc = "idle",
           Begin(op, id, side, price, qty), UNCHANGED <<order, fifo>>
    PROVE  Reference!Submit(op, id, side, price, qty)
<1>1. Reference!Begin(op, id, side, price, qty)
  BY BeginMaps
<1>2. ~Reference!Rests(id)
  BY RestsIs
<1>3. RefQueue' = RefQueue
  BY RefQueueSame
<1> QED BY <1>1, <1>2, <1>3 DEF Reference!Submit, RefQueue

LEMMA CancelMaps ==
    ASSUME StoreInv, NEW h \in Resting, Unlink(h), UNCHANGED order
    PROVE  order[h].id \in OrderId /\ Reference!cancel_from_book(order[h].id)
<1>1. PICK l \in Levels : \E k \in 1 .. Len(fifo[l]) :
             h = fifo[l][k] /\ fifo' = [fifo EXCEPT ![l] = RemoveAt(@, k)]
  BY UnlinkPlace
<1>2. PICK k \in 1 .. Len(fifo[l]) :
             h = fifo[l][k] /\ fifo' = [fifo EXCEPT ![l] = RemoveAt(@, k)]
  BY <1>1
<1>3. order' \in [Handles -> OrderData] /\ \A x \in Handles : x # fifo[l][k] => order'[x] = order[x]
  BY DEF StoreInv, StoreTypeOK
<1>4. PICK s \in Side, p \in Prices :
             /\ l = <<s, idx_of(p)>>
             /\ k \in 1 .. Len(RefQueue[s][p])
             /\ RefQueue[s][p] \in Seq(RefOrder)
             /\ RefQueue[s][p][k] = Entry(order[fifo[l][k]])
             /\ RefQueue' = [RefQueue EXCEPT ![s][p] = RemoveAt(@, k)]
  BY <1>2, <1>3, RemoveMaps
<1>5. RefQueue[s][p][k].id = order[h].id
  BY <1>2, <1>4 DEF Entry
<1>6. order[h].id \in OrderId
  BY DEF StoreInv, OrdersAtTheirLevel, Resting
<1>7. PICK id \in OrderId : id = order[h].id
  BY <1>6
<1>8. Reference!cancel_from_book(id)
  <2>1. s \in Reference!Side /\ k \in 1 .. Len(RefQueue[s][p]) /\ RefQueue[s][p][k].id = id
        /\ RefQueue' = [RefQueue EXCEPT ![s][p] = Reference!RemoveAt(@, k)]
    BY <1>4, <1>5, <1>7, ReferenceOperators
  <2>2. \E s1 \in Reference!Side, p1 \in Prices : \E k1 \in 1 .. Len(RefQueue[s1][p1]) :
          /\ Reference!Holds(id, s1, p1, k1)
          /\ RefQueue' = [RefQueue EXCEPT ![s1][p1] = Reference!RemoveAt(@, k1)]
    <3>1. Reference!Holds(id, s, p, k)
      BY <2>1 DEF Reference!Holds, RefQueue
    <3> QED BY <2>1, <3>1
  <2> QED BY <2>2 DEF Reference!cancel_from_book, RefQueue
<1> QED BY <1>6, <1>7, <1>8

LEMMA CallsMap == ASSUME IInv, Calls PROVE Reference!Next
<1>1. CASE \E id \in OrderId \ RestingIds, side \in Side, qty \in Quantity, price \in Prices :
             add_limit_order(id, side, price, qty)
  <2>1. PICK id \in OrderId, side \in Side, qty \in Quantity, price \in Prices :
          id \notin RestingIds /\ add_limit_order(id, side, price, qty)
    BY <1>1
  <2>2. Reference!Submit("limit", id, side, price, qty)
    BY <2>1, SubmitMaps DEF add_limit_order
  <2> QED BY <2>2, ReferenceOperators DEF Reference!Next
<1>2. CASE \E id \in OrderId \ RestingIds, side \in Side, qty \in Quantity :
             add_market_order(id, side, qty)
  <2>1. PICK id \in OrderId, side \in Side, qty \in Quantity :
          id \notin RestingIds /\ add_market_order(id, side, qty)
    BY <1>2
  <2>2. Reference!Submit("market", id, side, NULL, qty)
    BY <2>1, SubmitMaps DEF add_market_order
  <2> QED BY <2>2, ReferenceOperators DEF Reference!Next
<1>3. CASE \E h \in Resting : cancel_order(h)
  <2>1. PICK h \in Resting : cancel_order(h)
    BY <1>3
  <2>2. pc = "idle" /\ Unlink(h) /\ UNCHANGED <<order, pc, call, quantity, out>>
    BY <2>1 DEF cancel_order
  <2>3. PICK id \in OrderId : id = order[h].id /\ Reference!cancel_from_book(id)
    BY <2>2, CancelMaps DEF IInv
  <2>4. RefOut' = RefOut /\ (pc # "idle")' = (pc # "idle")
    BY <2>2 DEF RefOut
  <2>5. Reference!cancel_order(id)
    BY <2>2, <2>3, <2>4 DEF Reference!cancel_order, RefOut
  <2> QED BY <2>5 DEF Reference!Next
<1>4. CASE \E h \in Resting, side \in Side, price \in Prices, qty \in Quantity :
             modify_order(h, side, price, qty)
  <2>1. PICK h \in Resting, side \in Side, price \in Prices, qty \in Quantity :
          modify_order(h, side, price, qty)
    BY <1>4
  <2>2. pc = "idle" /\ Unlink(h) /\ order' = order /\ Begin("modify", order[h].id, side, price, qty)
    BY <2>1 DEF modify_order
  <2>3. PICK id \in OrderId : id = order[h].id /\ Reference!cancel_from_book(id)
    BY <2>2, CancelMaps DEF IInv
  <2>4. Reference!Begin("modify", id, side, price, qty)
    BY <2>2, <2>3, BeginMaps
  <2>5. Reference!modify_order(id, side, price, qty)
    BY <2>2, <2>3, <2>4 DEF Reference!modify_order
  <2> QED BY <2>5, ReferenceOperators DEF Reference!Next
<1> QED BY <1>1, <1>2, <1>3, <1>4 DEF Calls

LEMMA InitMaps == ASSUME Init PROVE Reference!Init
<1>1. RefQueue = [s \in Side |-> [p \in Prices |-> <<>>]]
  <2>1. \A s \in Side, p \in Prices : <<s, idx_of(p)>> \in Levels
    BY LevelFacts
  <2>2. \A s \in Side, p \in Prices : fifo[<<s, idx_of(p)>>] = <<>>
    BY <2>1 DEF Init
  <2>3. Queue(order, <<>>) = <<>>
    BY EmptySeq, InitInv, QueueFacts DEF IInv, StoreInv, StoreTypeOK
  <2> QED BY <2>2, <2>3, RefQueueIs
<1>2. RefOut = Reference!Result("Success", 0)
  BY DEF Init, Result, RefOut, Reference!Result
<1> QED BY <1>1, <1>2, ReferenceOperators DEF Init, Reference!Init, RefQueue, RefOut

(***************************************************************************)
(* For every book size, id set and quantity set, the engine's calls do     *)
(* what the tests' reference book does: the same orders trade at the same  *)
(* prices in the same order, the same orders rest in the same queues, and  *)
(* the same result is returned.  Ghost levels, the cached best, the links  *)
(* and the pool are invisible.                                             *)
(***************************************************************************)
THEOREM EngineImplementsReference == Spec => ImplementsReference
<1>1. ASSUME Init PROVE Reference!Init
  BY <1>1, InitMaps
<1>2. ASSUME IInv, IInv', [Next]_vars PROVE [Reference!Next]_(Reference!vars)
  <2>1. CASE Calls
    BY <1>2, <2>1, CallsMap
  <2>2. CASE FillPart
    BY <1>2, <2>2, FillPartMaps DEF Reference!Next
  <2>3. CASE FillAll
    BY <1>2, <2>3, FillAllMaps DEF Reference!Next
  <2>4. CASE erase_best \/ SkipGhost
    BY <2>4, StutterMaps DEF erase_best, SkipGhost, DropEmptyBest
  <2>5. CASE ReturnUnrested
    BY <1>2, <2>5, ReturnMaps DEF Reference!Next
  <2>6. CASE RestRemainder
    BY <1>2, <2>6, RestMaps DEF Reference!Next
  <2>7. CASE PoolExhausted
    BY <2>7, StutterMaps DEF PoolExhausted, MustRest, LoopDone
  <2>8. CASE UNCHANGED vars
    BY <2>8, StutterMaps DEF vars
  <2> QED BY <1>2, <2>1, <2>2, <2>3, <2>4, <2>5, <2>6, <2>7, <2>8 DEF Next, Steps
<1> QED BY <1>1, <1>2, Invariance, PTL DEF Spec, ImplementsReference, Reference!Spec

-----------------------------------------------------------------------------
(***************************************************************************)
(* The client that knows the engine only by its results.  Its map and the  *)
(* engine's book change at different times: trades are made one by one,    *)
(* the map learns of them when the call returns.  What is invariant is the *)
(* map with the trades of the call applied to it.                          *)
(*                                                                         *)
(* First, applying trades one by one: as with the sum of the trades, the   *)
(* fold is a function on the sets of indices.                              *)
(***************************************************************************)

\* g applies the trades T[k] for k in a set s to lv, in order.
Applies(g, lv, T, n) ==
    g = [s \in SUBSET (1 .. n) |-> IF s = {} THEN lv ELSE ApplyTrade(g[s \ {Max(s)}], T[Max(s)])]

AppliesDefined(lv, T, n) == \E g : Applies(g, lv, T, n) /\ \A h : Applies(h, lv, T, n) => h = g

\* One more index: g grows to h.
LEMMA AppliesNext ==
    ASSUME NEW lv, NEW n \in Nat, NEW T, NEW g, Applies(g, lv, T, n),
           NEW h, h = [s \in SUBSET (1 .. n + 1) |->
                          IF n + 1 \in s THEN ApplyTrade(g[s \ {n + 1}], T[n + 1]) ELSE g[s]]
    PROVE  Applies(h, lv, T, n + 1)
<1>1. ASSUME NEW s \in SUBSET (1 .. n + 1)
      PROVE  h[s] = IF s = {} THEN lv ELSE ApplyTrade(h[s \ {Max(s)}], T[Max(s)])
  <2>1. CASE s = {}
    BY <2>1 DEF Applies
  <2>2. CASE n + 1 \in s
    <3>1. Max(s) = n + 1 /\ s \ {n + 1} \in SUBSET (1 .. n)
      BY <2>2, MaxOfIndices
    <3>2. h[s] = ApplyTrade(g[s \ {n + 1}], T[n + 1])
      BY <2>2
    <3>3. h[s \ {n + 1}] = g[s \ {n + 1}]
      OBVIOUS
    <3> QED BY <2>2, <3>1, <3>2, <3>3
  <2>3. CASE s # {} /\ n + 1 \notin s
    <3>1. Max(s) \in s /\ s \in SUBSET (1 .. n)
      BY <2>3, MaxOfIndices
    <3>2. h[s] = g[s] /\ h[s \ {Max(s)}] = g[s \ {Max(s)}]
      BY <2>3
    <3>3. g[s] = ApplyTrade(g[s \ {Max(s)}], T[Max(s)])
      BY <2>3, <3>1 DEF Applies
    <3> QED BY <2>3, <3>2, <3>3
  <2> QED BY <2>1, <2>2, <2>3
<1> QED BY <1>1 DEF Applies

\* h is g with trade n + 1 of U applied.
Extended(g, h, U, n) ==
    \A s \in SUBSET (1 .. n + 1) :
        h[s] = IF n + 1 \in s THEN ApplyTrade(g[s \ {n + 1}], U[n + 1]) ELSE g[s]

\* One index less: h shrinks to the first n trades.
LEMMA AppliesPrevious ==
    ASSUME NEW lv, NEW n \in Nat, NEW T, NEW U, Agree(T, U, n),
           NEW h, Applies(h, lv, U, n + 1),
           NEW g, g = [s \in SUBSET (1 .. n) |-> h[s]]
    PROVE  Applies(g, lv, T, n) /\ Extended(g, h, U, n)
<1>1. SUBSET (1 .. n) \subseteq SUBSET (1 .. n + 1)
  OBVIOUS
<1>2. \A s \in SUBSET (1 .. n + 1) :
        h[s] = IF s = {} THEN lv ELSE ApplyTrade(h[s \ {Max(s)}], U[Max(s)])
  BY DEF Applies
<1>3. ASSUME NEW s \in SUBSET (1 .. n)
      PROVE  g[s] = IF s = {} THEN lv ELSE ApplyTrade(g[s \ {Max(s)}], T[Max(s)])
  <2>1. s # {} => Max(s) \in s
    BY <1>1, MaxOfIndices
  <2> QED BY <1>1, <1>2, <2>1 DEF Agree
<1>4. Applies(g, lv, T, n)
  BY <1>3 DEF Applies
<1>5. ASSUME NEW s \in SUBSET (1 .. n + 1)
      PROVE  h[s] = IF n + 1 \in s THEN ApplyTrade(g[s \ {n + 1}], U[n + 1]) ELSE g[s]
  <2>1. CASE n + 1 \in s
    <3>1. Max(s) = n + 1 /\ s \ {n + 1} \in SUBSET (1 .. n)
      BY <2>1, MaxOfIndices
    <3>2. h[s] = ApplyTrade(h[s \ {n + 1}], U[n + 1])
      BY <1>2, <2>1, <3>1
    <3> QED BY <2>1, <3>1, <3>2
  <2>2. CASE n + 1 \notin s
    <3>1. s \in SUBSET (1 .. n)
      BY <2>2
    <3> QED BY <2>2, <3>1
  <2> QED BY <2>1, <2>2
<1> QED BY <1>4, <1>5 DEF Extended

LEMMA AppliesAlwaysDefined == ASSUME NEW lv, NEW T, NEW n \in Nat PROVE AppliesDefined(lv, T, n)
<1> DEFINE Bad == {k \in Nat : ~AppliesDefined(lv, T, k)}
<1>1. SUFFICES ASSUME Bad # {} PROVE FALSE
  OBVIOUS
<1>2. PICK k \in Bad : \A j \in Bad : k <= j
  BY <1>1, LeastNatural
<1>3. CASE k = 0
  <2>1. 1 .. 0 = {} /\ SUBSET (1 .. 0) = {{}}
    OBVIOUS
  <2> DEFINE g == [s \in SUBSET (1 .. 0) |-> lv]
  <2>2. Applies(g, lv, T, 0) /\ \A h : Applies(h, lv, T, 0) => h = g
    BY <2>1 DEF Applies
  <2> QED BY <1>2, <1>3, <2>2 DEF AppliesDefined
<1>4. CASE k # 0
  <2> DEFINE m == k - 1
  <2>1. m \in Nat /\ k = m + 1 /\ m \notin Bad
    BY <1>2, <1>4
  <2> HIDE DEF m
  <2>2. PICK g : Applies(g, lv, T, m) /\ \A h : Applies(h, lv, T, m) => h = g
    BY <2>1 DEF AppliesDefined
  <2> DEFINE h == [s \in SUBSET (1 .. m + 1) |->
                      IF m + 1 \in s THEN ApplyTrade(g[s \ {m + 1}], T[m + 1]) ELSE g[s]]
  <2>3. Applies(h, lv, T, m + 1)
    BY <2>1, <2>2, AppliesNext
  <2>4. ASSUME NEW x, Applies(x, lv, T, m + 1) PROVE x = h
    <3> DEFINE y == [s \in SUBSET (1 .. m) |-> x[s]]
    <3>0. y = [s \in SUBSET (1 .. m) |-> x[s]] /\ Agree(T, T, m)
      BY DEF Agree
    <3> HIDE DEF y
    <3>1. Applies(y, lv, T, m) /\ Extended(y, x, T, m)
      BY <2>1, <2>4, <3>0, AppliesPrevious
    <3>2. y = g
      BY <2>2, <3>1
    <3>3. x = [s \in SUBSET (1 .. m + 1) |-> x[s]]
      BY <2>4 DEF Applies
    <3> QED BY <3>1, <3>2, <3>3 DEF Extended
  <2> QED BY <1>2, <2>1, <2>3, <2>4 DEF AppliesDefined
<1> QED BY <1>3, <1>4

\* The map after the trades T.
Applied(lv, T) == FoldLeft(ApplyTrade, lv, T)

LEMMA AppliedIs ==
    ASSUME NEW lv, NEW T, NEW n, DOMAIN T = 1 .. n
    PROVE  Applied(lv, T) = (CHOOSE g : Applies(g, lv, T, n))[1 .. n]
BY DEF Applied, FoldLeft, MapThenFoldSet, Applies

LEMMA AppliedFacts ==
    /\ \A lv : Applied(lv, <<>>) = lv
    /\ \A lv : \A T \in Seq(TradeRecord), t \in TradeRecord :
         Applied(lv, Append(T, t)) = ApplyTrade(Applied(lv, T), t)
<1>1. ASSUME NEW lv PROVE Applied(lv, <<>>) = lv
  <2>1. DOMAIN <<>> = 1 .. 0 /\ 1 .. 0 = {}
    BY EmptySeq, LenProperties
  <2>2. PICK g : Applies(g, lv, <<>>, 0) /\ \A h : Applies(h, lv, <<>>, 0) => h = g
    BY AppliesAlwaysDefined DEF AppliesDefined
  <2>3. Applied(lv, <<>>) = g[{}]
    BY <2>1, <2>2, AppliedIs
  <2> QED BY <2>1, <2>2, <2>3 DEF Applies
<1>2. ASSUME NEW lv, NEW T \in Seq(TradeRecord), NEW t \in TradeRecord
      PROVE  Applied(lv, Append(T, t)) = ApplyTrade(Applied(lv, T), t)
  <2> DEFINE n == Len(T)
             U == Append(T, t)
  <2>1. /\ n \in Nat /\ DOMAIN T = 1 .. n /\ DOMAIN U = 1 .. n + 1
        /\ U[n + 1] = t /\ \A k \in 1 .. n : U[k] = T[k]
    BY LenProperties, AppendProperties
  <2> HIDE DEF n, U
  <2>2. PICK g : Applies(g, lv, T, n) /\ \A x : Applies(x, lv, T, n) => x = g
    BY <2>1, AppliesAlwaysDefined DEF AppliesDefined
  <2>3. n + 1 \in Nat
    BY <2>1
  <2>4. PICK h : Applies(h, lv, U, n + 1) /\ \A x : Applies(x, lv, U, n + 1) => x = h
    BY <2>3, AppliesAlwaysDefined DEF AppliesDefined
  <2>5. Applied(lv, T) = g[1 .. n]
    BY <2>1, <2>2, AppliedIs
  <2>6. Applied(lv, U) = h[1 .. n + 1]
    BY <2>1, <2>4, AppliedIs
  <2> DEFINE y == [s \in SUBSET (1 .. n) |-> h[s]]
  <2>7. y = [s \in SUBSET (1 .. n) |-> h[s]] /\ Agree(T, U, n)
    BY <2>1 DEF Agree
  <2> HIDE DEF y
  <2>8. Applies(y, lv, T, n) /\ Extended(y, h, U, n)
    BY <2>1, <2>4, <2>7, AppliesPrevious
  <2>9. y = g
    BY <2>2, <2>8
  <2>10. (1 .. n + 1) \ {n + 1} = 1 .. n /\ n + 1 \in 1 .. n + 1
    BY <2>1
  <2>11. h[1 .. n + 1] = ApplyTrade(g[1 .. n], t)
    BY <2>1, <2>8, <2>9, <2>10 DEF Extended
  <2> QED BY <2>5, <2>6, <2>11 DEF U
<1> QED BY <1>1, <1>2

-----------------------------------------------------------------------------
(***************************************************************************)
(* A map is exact for the orders that the levels F hold, and stays so when *)
(* it and the levels change together.                                      *)
(***************************************************************************)
LiveAt(ord, l, h) ==
    [handle |-> h, side |-> l[1], price |-> price_of(l[2]), quantity |-> ord[h].quantity]

Exact(lv, ord, F) ==
    /\ DOMAIN lv = IdsIn(ord, F)
    /\ \A l \in Levels : \A h \in ToSet(F[l]) : lv[ord[h].id] = LiveAt(ord, l, h)

LEMMA ExactIdsDiffer ==
    ASSUME NEW lv, NEW ord, NEW F, Exact(lv, ord, F),
           NEW g \in Listed(F), NEW h \in Listed(F), ord[g].id = ord[h].id
    PROVE  g = h
<1>1. PICK k \in Levels, l \in Levels : g \in ToSet(F[k]) /\ h \in ToSet(F[l])
  BY DEF Listed
<1>2. LiveAt(ord, k, g) = LiveAt(ord, l, h)
  BY <1>1 DEF Exact
<1> QED BY <1>2 DEF LiveAt

LEMMA ForgetExact ==
    ASSUME NEW lv, NEW ord, NEW F, Exact(lv, ord, F),
           NEW G, NEW ord2, NEW l, NEW o, Leaves(F, G, ord, ord2, l, o)
    PROVE  Exact(Forget(lv, ord[o].id), ord2, G)
<1>1. \A h \in Listed(F) : h # o => h \in Handles /\ ord2[h] = ord[h] /\ ord[h].id # ord[o].id
  BY ExactIdsDiffer DEF Listed, Leaves
<1>2. IdsIn(ord2, G) = IdsIn(ord, F) \ {ord[o].id}
  BY <1>1 DEF IdsIn, Leaves
<1>3. DOMAIN Forget(lv, ord[o].id) = IdsIn(ord2, G)
  BY <1>2 DEF Forget, Restrict, Exact
<1>4. ASSUME NEW k \in Levels, NEW h \in ToSet(G[k])
      PROVE  Forget(lv, ord[o].id)[ord2[h].id] = LiveAt(ord2, k, h)
  <2>1. h \in ToSet(F[k]) /\ h \in Listed(F) /\ h # o /\ h \in Handles
    BY DEF Listed, Leaves
  <2>2. ord2[h] = ord[h] /\ ord[h].id # ord[o].id /\ ord[h].id \in DOMAIN lv
    BY <1>1, <2>1 DEF Exact, IdsIn
  <2>3. lv[ord[h].id] = LiveAt(ord, k, h)
    BY <2>1 DEF Exact
  <2> QED BY <2>2, <2>3 DEF Forget, Restrict, LiveAt
<1> QED BY <1>3, <1>4 DEF Exact

LEMMA ReduceExact ==
    ASSUME NEW lv, NEW ord, NEW F, Exact(lv, ord, F),
           NEW ord2, NEW l, NEW o, NEW left, Shrinks(F, ord, ord2, l, o, left)
    PROVE  Exact([lv EXCEPT ![ord[o].id].quantity = left], ord2, F)
<1> DEFINE nlv == [lv EXCEPT ![ord[o].id].quantity = left]
<1>1. DOMAIN nlv = DOMAIN lv
  OBVIOUS
<1>2. IdsIn(ord2, F) = IdsIn(ord, F)
  BY DEF IdsIn, Listed, Shrinks
<1>3. ASSUME NEW k \in Levels, NEW h \in ToSet(F[k]), h \in Handles
      PROVE  nlv[ord2[h].id] = LiveAt(ord2, k, h)
  <2>1. h \in Listed(F) /\ ord[h].id \in DOMAIN lv /\ lv[ord[h].id] = LiveAt(ord, k, h)
    BY <1>3 DEF Listed, Exact, IdsIn
  <2>2. CASE h = o
    <3>1. nlv[ord[o].id] = [LiveAt(ord, k, o) EXCEPT !.quantity = left]
      BY <2>1, <2>2
    <3> QED BY <2>2, <3>1 DEF LiveAt, Shrinks
  <2>3. CASE h # o
    <3>1. ord[h].id # ord[o].id
      BY <2>1, <2>3, ExactIdsDiffer DEF Shrinks
    <3>2. ord2[h] = ord[h]
      BY <1>3, <2>3 DEF Shrinks
    <3> QED BY <2>1, <3>1, <3>2 DEF LiveAt
  <2> QED BY <2>2, <2>3
<1> QED BY <1>1, <1>2, <1>3 DEF Exact, Shrinks

LEMMA RestedExact ==
    ASSUME NEW lv, NEW ord, NEW F, Exact(lv, ord, F),
           NEW G, NEW ord2, NEW l, NEW o, Joins(F, G, ord, ord2, l, o),
           NEW id, id \notin DOMAIN lv, ord2[o].id = id,
           NEW entry, entry = LiveAt(ord2, l, o)
    PROVE  Exact([i \in DOMAIN lv \cup {id} |-> IF i = id THEN entry ELSE lv[i]], ord2, G)
<1> DEFINE nlv == [i \in DOMAIN lv \cup {id} |-> IF i = id THEN entry ELSE lv[i]]
<1>1. \A h \in Listed(F) : h # o /\ ord2[h] = ord[h] /\ ord[h].id # id
  BY DEF Listed, Exact, IdsIn, Joins
<1>2. IdsIn(ord2, G) = IdsIn(ord, F) \cup {id}
  BY <1>1 DEF IdsIn, Joins
<1>3. DOMAIN nlv = IdsIn(ord2, G)
  BY <1>2 DEF Exact
<1>4. ASSUME NEW x \in Levels, NEW h \in ToSet(G[x])
      PROVE  nlv[ord2[h].id] = LiveAt(ord2, x, h)
  <2>1. CASE h = o
    <3>1. x = l
      BY <2>1 DEF Listed, Joins
    <3> QED BY <2>1, <3>1
  <2>2. CASE h # o
    <3>1. h \in ToSet(F[x]) /\ h \in Listed(F)
      BY <2>2 DEF Listed, Joins
    <3>2. ord2[h] = ord[h] /\ ord[h].id # id /\ ord[h].id \in DOMAIN lv
      BY <1>1, <3>1 DEF Exact, IdsIn
    <3>3. lv[ord[h].id] = LiveAt(ord, x, h)
      BY <3>1 DEF Exact
    <3> QED BY <3>2, <3>3 DEF LiveAt
  <2> QED BY <2>1, <2>2
<1> QED BY <1>3, <1>4 DEF Exact

-----------------------------------------------------------------------------
(***************************************************************************)
(* During a call the client's map lags behind: it is exact once the trades *)
(* made so far are applied to it.                                          *)
(***************************************************************************)
Believed == IF pc = "idle" THEN live_ ELSE Applied(live_, out.trades)

LiveInv ==
    /\ Exact(Believed, order, fifo)
    /\ pc # "idle" => out.code = "Success" /\ call.id \notin RestingIds

LEMMA LiveFrame ==
    ASSUME LiveInv, UNCHANGED <<order, fifo, pc, live_>>, out'.trades = out.trades,
           out'.code = out.code, call' = call
    PROVE  LiveInv'
BY RestingIs, RestingIsNext DEF LiveInv, Believed

LEMMA UnlinkExactly ==
    ASSUME StoreInv, NEW h \in Resting, Unlink(h), UNCHANGED <<order, book>>,
           NEW lv, Exact(lv, order, fifo)
    PROVE  Exact(Forget(lv, order[h].id), order', fifo')
BY UnlinkLeaves, ForgetExact

\* A fill is applied to the map as it happens to the order.
LEMMA FillPartLive == ASSUME IInv, LiveInv, FillPart, UNCHANGED live_ PROVE LiveInv'
<1>1. PICK l \in Levels, o \in Handles :
             /\ Shrinks(fifo, order, order', l, o, order[o].quantity - quantity)
             /\ quantity \in Nat \ {0} /\ order[o].quantity \in Nat /\ quantity < order[o].quantity
             /\ Reported(out, out', o, quantity)
             /\ pc = "match" /\ UNCHANGED <<fifo, pc, call>>
  BY FillPartLedger
<1> DEFINE left == order[o].quantity - quantity
<1>2. PICK t \in TradeRecord : /\ t.maker = order[o].id /\ t.quantity = quantity
                               /\ out'.trades = Append(out.trades, t)
  BY <1>1 DEF Reported
<1>3. Believed' = ApplyTrade(Believed, t)
  BY <1>1, <1>2, AppliedFacts DEF Believed, Reported
<1>4. Believed[order[o].id].quantity = order[o].quantity
  <2>1. Exact(Believed, order, fifo) /\ l \in Levels /\ o \in ToSet(fifo[l])
    BY <1>1 DEF LiveInv, Shrinks
  <2>2. Believed[order[o].id] = LiveAt(order, l, o)
    BY <2>1 DEF Exact
  <2> QED BY <2>2 DEF LiveAt
<1>5. ApplyTrade(Believed, t) = [Believed EXCEPT ![order[o].id].quantity = left]
  <2>1. left # 0
    BY <1>1
  <2> QED BY <1>2, <1>4, <2>1 DEF ApplyTrade
<1>6. Exact(Believed', order', fifo')
  <2>1. Exact(Believed, order, fifo) /\ Shrinks(fifo, order, order', l, o, left)
    BY <1>1 DEF LiveInv
  <2>2. Exact([Believed EXCEPT ![order[o].id].quantity = left], order', fifo)
    BY <2>1, ReduceExact
  <2>3. fifo' = fifo
    BY <1>1
  <2> QED BY <1>3, <1>5, <2>2, <2>3
<1>7. RestingIds' = RestingIds
  BY <1>1, RestingIs, RestingIsNext DEF IdsIn, Listed, Shrinks
<1> QED BY <1>1, <1>6, <1>7 DEF LiveInv, Reported

LEMMA FillAllLive == ASSUME IInv, LiveInv, FillAll, UNCHANGED live_ PROVE LiveInv'
<1>1. PICK l \in Levels, o \in Handles :
             /\ Leaves(fifo, fifo', order, order', l, o)
             /\ order[o].quantity \in Nat \ {0}
             /\ Reported(out, out', o, order[o].quantity)
             /\ pc = "match" /\ call' = call
             /\ pc' = IF empty(links', best_level) THEN "erase" ELSE "match"
  BY FillAllLedger
<1>2. PICK t \in TradeRecord : /\ t.maker = order[o].id /\ t.quantity = order[o].quantity
                               /\ out'.trades = Append(out.trades, t)
  BY <1>1 DEF Reported
<1>3. Believed' = ApplyTrade(Believed, t)
  BY <1>1, <1>2, AppliedFacts DEF Believed, Reported
<1>4. Believed[order[o].id].quantity = order[o].quantity
  <2>1. Exact(Believed, order, fifo) /\ l \in Levels /\ o \in ToSet(fifo[l])
    BY <1>1 DEF LiveInv, Leaves
  <2>2. Believed[order[o].id] = LiveAt(order, l, o)
    BY <2>1 DEF Exact
  <2> QED BY <2>2 DEF LiveAt
<1>5. ApplyTrade(Believed, t) = Forget(Believed, order[o].id)
  <2>1. order[o].quantity - order[o].quantity = 0
    BY <1>1
  <2> QED BY <1>2, <1>4, <2>1 DEF ApplyTrade
<1>6. Exact(Believed', order', fifo')
  BY <1>1, <1>3, <1>5, ForgetExact DEF LiveInv
<1>7. RestingIds' \subseteq RestingIds
  BY <1>1, RestingIs, RestingIsNext DEF IdsIn, Listed, Leaves
<1> QED BY <1>1, <1>6, <1>7 DEF LiveInv, Reported

LEMMA ReturnLive ==
    ASSUME IInv, LiveInv, ReturnUnrested,
           live_' = ApplyResult(live_, call.id, call.side, call.price, out')
    PROVE  LiveInv'
<1> DEFINE r == [out EXCEPT !.code = IF quantity = 0 THEN "Success" ELSE "MarketRemainderCancelled"]
<1>1. /\ pc = "match" /\ pc' = "idle" /\ UNCHANGED <<order, fifo>>
      /\ out' = [r EXCEPT !.remaining_quantity = quantity]
      /\ out \in ResultRecord /\ quantity \in Nat
  BY DEF ReturnUnrested, LoopDone, Return, IInv, CallInv, CallTypeOK
<1>2. /\ out'.trades = out.trades /\ out'.remaining_quantity = quantity
      /\ out'.code = IF quantity = 0 THEN "Success" ELSE "MarketRemainderCancelled"
  BY <1>1 DEF ResultRecord
<1>3. live_' = Applied(live_, out.trades)
  BY <1>1, <1>2 DEF ApplyResult, Applied
<1>4. Believed' = Believed
  BY <1>1, <1>3 DEF Believed
<1> QED BY <1>1, <1>4 DEF LiveInv

LEMMA RestLive ==
    ASSUME IInv, LiveInv, RestRemainder,
           live_' = ApplyResult(live_, call.id, call.side, call.price, out')
    PROVE  LiveInv'
<1>1. PICK l \in Levels, o \in Handles :
             /\ l[1] = call.side /\ price_of(l[2]) = call.price
             /\ Joins(fifo, fifo', order, order', l, o)
             /\ order'[o] = [id |-> call.id, price |-> call.price, quantity |-> quantity]
             /\ out'.trades = out.trades /\ out'.code = out.code
             /\ out'.remaining_quantity = quantity /\ out'.handle = o
             /\ quantity \in Nat \ {0} /\ pc = "match" /\ pc' = "idle"
  BY RestLedger
<1> DEFINE entry == [handle |-> o, side |-> call.side, price |-> call.price,
                     quantity |-> quantity]
<1>2. entry = LiveAt(order', l, o) /\ order'[o].id = call.id
  BY <1>1 DEF LiveAt
<1>3. out'.code = "Success" /\ out'.remaining_quantity > 0
  BY <1>1 DEF LiveInv
<1>4. live_' = [i \in DOMAIN Believed \cup {call.id} |->
                   IF i = call.id THEN entry ELSE Believed[i]]
  BY <1>1, <1>3 DEF ApplyResult, Applied, Believed
<1>5. call.id \notin DOMAIN Believed /\ Exact(Believed, order, fifo)
  BY <1>1, RestingIs DEF LiveInv, Exact
<1> HIDE DEF entry
<1>6. Exact(live_', order', fifo')
  BY <1>1, <1>2, <1>4, <1>5, RestedExact
<1> QED BY <1>1, <1>6 DEF LiveInv, Believed

\* The steps of the engine, with what the client makes of a returning call.
LEMMA EngineLive == ASSUME IInv, LiveInv, EngineRuns PROVE LiveInv'
<1>1. ASSUME UNCHANGED <<order, fifo, out, call>>, pc # "idle", pc' # "idle" PROVE LiveInv'
  <2>1. live_' = live_
    BY <1>1 DEF EngineRuns
  <2> QED BY <1>1, <2>1, RestingIs, RestingIsNext DEF LiveInv, Believed
<1>2. CASE FillPart
  BY <1>2, FillPartLive DEF EngineRuns, FillPart, AtMaker
<1>3. CASE FillAll
  BY <1>3, FillAllLive DEF EngineRuns, FillAll
<1>4. CASE erase_best
  BY <1>1, <1>4 DEF erase_best, DropEmptyBest
<1>5. CASE SkipGhost
  BY <1>1, <1>5 DEF SkipGhost, DropEmptyBest
<1>6. CASE ReturnUnrested
  BY <1>6, ReturnLive DEF EngineRuns, ReturnUnrested, Return
<1>7. CASE RestRemainder
  <2>1. pc' = "idle"
    BY <1>7 DEF RestRemainder, Return
  <2> QED BY <1>7, <2>1, RestLive DEF EngineRuns
<1>8. CASE PoolExhausted
  BY <1>1, <1>8 DEF PoolExhausted, MustRest, LoopDone
<1> QED BY <1>2, <1>3, <1>4, <1>5, <1>6, <1>7, <1>8 DEF EngineRuns, Steps

\* A new call: no trades yet, and an id nobody rests under.
LEMMA BeginLive ==
    ASSUME pc = "idle", Exact(live_', order', fifo'),
           NEW op, NEW id, NEW side, NEW price, NEW qty,
           Begin(op, id, side, price, qty), id \notin RestingIds'
    PROVE  LiveInv'
<1>1. CASE qty = 0 /\ UNCHANGED <<pc, call, quantity>>
  BY <1>1 DEF LiveInv, Believed
<1>2. CASE /\ out' = Result("Success", qty) /\ pc' = "match"
           /\ call' = [op |-> op, id |-> id, side |-> side, price |-> price]
  <2>1. out'.trades = <<>> /\ out'.code = "Success" /\ call'.id = id
    BY <1>2 DEF Result
  <2>2. Believed' = live_'
    BY <1>2, <2>1, AppliedFacts DEF Believed
  <2> QED BY <1>2, <2>1, <2>2 DEF LiveInv
<1> QED BY <1>1, <1>2 DEF Begin

\* Every id in the map leads to its order.
LEMMA HandleOfId ==
    ASSUME IInv, LiveInv, pc = "idle", NEW id \in Known
    PROVE  \E h \in Resting : live_[id].handle = h /\ order[h].id = id
<1>1. PICK h \in Resting : order[h].id = id
  BY DEF LiveInv, Believed, Exact, IdsIn, Known, Resting, Listed
<1>2. PICK l \in Levels : h \in ToSet(fifo[l])
  BY DEF Resting
<1>3. live_[order[h].id] = LiveAt(order, l, h)
  BY <1>2 DEF LiveInv, Believed, Exact
<1> QED BY <1>1, <1>3 DEF LiveAt

\* What the client calls is a call of the engine's contract.
LEMMA AddLimitLive == ASSUME IInv, LiveInv, add_limit PROVE Next /\ LiveInv'
<1>1. PICK id \in OrderId \ Known, side \in Side, price \in Prices, qty \in Quantity :
        add_limit_order(id, side, price, qty) /\ UNCHANGED live_
  BY DEF add_limit
<1>2. /\ pc = "idle" /\ Begin("limit", id, side, price, qty)
      /\ UNCHANGED <<order, fifo, live_>>
  BY <1>1 DEF add_limit_order
<1>3. Known = RestingIds /\ Exact(live_, order, fifo)
  BY <1>2, RestingIs DEF LiveInv, Believed, Exact, Known
<1>4. id \in OrderId \ RestingIds /\ id \notin RestingIds'
  BY <1>2, <1>3, RestingIs, RestingIsNext
<1>5. Next
  BY <1>1, <1>4 DEF Next, Calls
<1> QED BY <1>2, <1>3, <1>4, <1>5, BeginLive

LEMMA AddMarketLive == ASSUME IInv, LiveInv, add_market PROVE Next /\ LiveInv'
<1>1. PICK id \in OrderId \ Known, side \in Side, qty \in Quantity :
        add_market_order(id, side, qty) /\ UNCHANGED live_
  BY DEF add_market
<1>2. /\ pc = "idle" /\ Begin("market", id, side, NULL, qty)
      /\ UNCHANGED <<order, fifo, live_>>
  BY <1>1 DEF add_market_order
<1>3. Known = RestingIds /\ Exact(live_, order, fifo)
  BY <1>2, RestingIs DEF LiveInv, Believed, Exact, Known
<1>4. id \in OrderId \ RestingIds /\ id \notin RestingIds'
  BY <1>2, <1>3, RestingIs, RestingIsNext
<1>5. Next
  BY <1>1, <1>4 DEF Next, Calls
<1> QED BY <1>2, <1>3, <1>4, <1>5, BeginLive

LEMMA ModifyLive == ASSUME IInv, LiveInv, modify PROVE Next /\ LiveInv'
<1>1. PICK id \in Known, side \in Side, price \in Prices, qty \in Quantity :
        modify_order(live_[id].handle, side, price, qty) /\ live_' = Forget(live_, id)
  BY DEF modify
<1>2. pc = "idle"
  BY <1>1 DEF modify_order
<1>3. PICK h \in Resting : live_[id].handle = h /\ order[h].id = id
  BY <1>2, HandleOfId
<1>4. /\ modify_order(h, side, price, qty) /\ Unlink(h) /\ UNCHANGED <<order, book>>
      /\ Begin("modify", id, side, price, qty)
  BY <1>1, <1>3 DEF modify_order
<1>5. Exact(live_, order, fifo) /\ StoreInv
  BY <1>2 DEF LiveInv, Believed, IInv
<1>6. Exact(Forget(live_, order[h].id), order', fifo')
  BY <1>4, <1>5, UnlinkExactly
<1>7. Exact(live_', order', fifo')
  BY <1>1, <1>3, <1>6
<1>8. id \notin RestingIds'
  BY <1>1, <1>7, RestingIsNext DEF Exact, Forget, Restrict
<1>9. Next
  BY <1>1, <1>4 DEF Next, Calls
<1> QED BY <1>2, <1>4, <1>7, <1>8, <1>9, BeginLive

LEMMA CancelLive == ASSUME IInv, LiveInv, cancel PROVE Next /\ LiveInv'
<1>1. PICK id \in Known : cancel_order(live_[id].handle) /\ live_' = Forget(live_, id)
  BY DEF cancel
<1>2. pc = "idle"
  BY <1>1 DEF cancel_order
<1>3. PICK h \in Resting : live_[id].handle = h /\ order[h].id = id
  BY <1>2, HandleOfId
<1>4. /\ cancel_order(h) /\ Unlink(h) /\ UNCHANGED <<order, book>> /\ pc' = "idle"
  BY <1>1, <1>2, <1>3 DEF cancel_order
<1>5. Exact(live_, order, fifo) /\ StoreInv
  BY <1>2 DEF LiveInv, Believed, IInv
<1>6. Exact(Forget(live_, order[h].id), order', fifo')
  BY <1>4, <1>5, UnlinkExactly
<1>7. Exact(live_', order', fifo')
  BY <1>1, <1>3, <1>6
<1>8. Next
  BY <1>4 DEF Next, Calls
<1> QED BY <1>4, <1>7, <1>8 DEF LiveInv, Believed

LEMMA InitLive == ASSUME HarnessInit PROVE LiveInv
<1>1. \A l \in Levels : fifo[l] = <<>> /\ ToSet(fifo[l]) = {}
  BY EmptySeq, ToSetOfSeq DEF HarnessInit, Init
<1>2. Listed(fifo) = {} /\ IdsIn(order, fifo) = {}
  BY <1>1 DEF Listed, IdsIn
<1>3. DOMAIN live_ = {} /\ Believed = live_
  BY EmptySeq, LenProperties DEF HarnessInit, Init, Believed
<1> QED BY <1>1, <1>2, <1>3 DEF LiveInv, Exact, HarnessInit, Init

LEMMA HarnessStep ==
    ASSUME IInv, LiveInv, [HarnessNext]_harnessVars
    PROVE  [Next]_vars /\ IInv' /\ LiveInv'
<1>1. CASE UNCHANGED harnessVars
  <2>1. UNCHANGED vars /\ UNCHANGED <<order, fifo, pc, live_, out, call>>
    BY <1>1 DEF harnessVars, vars
  <2> QED BY <2>1, StepInv, LiveFrame
<1>2. CASE HarnessNext
  <2>1. Next /\ LiveInv'
    BY <1>2, AddLimitLive, AddMarketLive, ModifyLive, CancelLive, EngineLive
    DEF HarnessNext, EngineRuns, Next
  <2> QED BY <2>1, StepInv
<1> QED BY <1>1, <1>2

LEMMA HarnessInvariance == HarnessSpec => [](IInv /\ LiveInv) /\ Spec
<1>1. HarnessInit => IInv /\ LiveInv /\ Init
  BY InitInv, InitLive DEF HarnessInit
<1>2. IInv /\ LiveInv /\ [HarnessNext]_harnessVars => (IInv /\ LiveInv)' /\ [Next]_vars
  BY HarnessStep
<1> QED BY <1>1, <1>2, PTL DEF HarnessSpec, Spec

(***************************************************************************)
(* A client that knows nothing but the results it gets keeps the contract  *)
(* of order_book.hpp:65: every id it gives is fresh, every handle it names *)
(* belongs to the order it means.                                          *)
(***************************************************************************)
THEOREM ClientKeepsContract == HarnessSpec => Spec
BY HarnessInvariance, PTL

(***************************************************************************)
(* Between calls the client's map is the book: results and trades alone    *)
(* tell a client everything, although slots are reused at once.            *)
(***************************************************************************)
THEOREM LiveMapAlwaysExact == HarnessSpec => []LiveMapExact
<1>1. IInv /\ LiveInv => LiveMapExact
  <2> SUFFICES ASSUME IInv, LiveInv, pc = "idle"
               PROVE  /\ Known = RestingIds
                      /\ \A s \in Side, i \in Bits : \A h \in ToSet(fifo[<<s, i>>]) :
                          live_[order[h].id] = [handle |-> h, side |-> s, price |-> price_of(i),
                                                quantity |-> order[h].quantity]
    BY DEF LiveMapExact
  <2>1. Exact(live_, order, fifo)
    BY DEF LiveInv, Believed
  <2> QED BY <2>1, RestingIs, LevelFacts DEF Exact, LiveAt, Known
<1> QED BY <1>1, HarnessInvariance, PTL

(***************************************************************************)
(* To such a client the engine is the reference book of the tests, and     *)
(* each of its sides is the side book specified for it.                    *)
(***************************************************************************)
THEOREM ClientSeesReference == HarnessSpec => ImplementsReference /\ SidesFollowSpec
BY ClientKeepsContract, EngineImplementsReference, EngineDrivesSides
=============================================================================

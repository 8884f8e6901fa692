-------------------------- MODULE OrderBookProofs --------------------------
(***************************************************************************)
(* The safety of the matching engine, for any number of slots, any price   *)
(* range, any ids and any quantities.                                      *)
(*                                                                         *)
(* The first part is about the link memory alone: what push_back(),        *)
(* erase(), acquire() and release() do to it.  The level or free list they *)
(* are about spells the new sequence, and every list that shares no slot   *)
(* with it is untouched, although prev and next are shared by all lists.   *)
(*                                                                         *)
(* The inductive invariant of the engine has two halves: StoreInv is about *)
(* the resting orders and the three structures that hold them (link        *)
(* memory, side books, order data), CallInv about the call in progress.    *)
(***************************************************************************)
EXTENDS OrderBook, ArraySideBookLemmas, SequenceTheorems

-----------------------------------------------------------------------------
(***************************************************************************)
(* Sequences without repetition and their sets of elements.                *)
(***************************************************************************)
LEMMA ToSetOfSeq ==
    ASSUME NEW S, NEW q \in Seq(S)
    PROVE  /\ ToSet(q) = {q[i] : i \in 1 .. Len(q)}
           /\ ToSet(q) \subseteq S
           /\ ToSet(q) = {} <=> q = <<>>
           /\ IsInjective(q) <=> \A i, j \in 1 .. Len(q) : q[i] = q[j] => i = j
<1>1. DOMAIN q = 1 .. Len(q) /\ Len(q) \in Nat /\ \A i \in 1 .. Len(q) : q[i] \in S
  BY LenProperties, ElementOfSeq
<1>2. q # <<>> => Len(q) # 0
  BY EmptySeq
<1>3. q = <<>> => Len(q) = 0
  BY EmptySeq
<1>4. ToSet(q) = {q[i] : i \in 1 .. Len(q)}
  BY <1>1 DEF ToSet
<1>5. ToSet(q) \subseteq S
  BY <1>1, <1>4
<1>6. ToSet(q) = {} <=> q = <<>>
  <2>1. ASSUME q # <<>> PROVE q[1] \in ToSet(q)
    <3>1. 1 \in 1 .. Len(q)
      BY <1>1, <1>2, <2>1
    <3> QED BY <1>4, <3>1
  <2>2. q = <<>> => ToSet(q) = {}
    BY <1>3, <1>4
  <2> QED BY <2>1, <2>2
<1>7. IsInjective(q) <=> \A i, j \in 1 .. Len(q) : q[i] = q[j] => i = j
  BY <1>1 DEF IsInjective
<1> QED BY <1>4, <1>5, <1>6, <1>7

LEMMA RemoveAtFacts ==
    ASSUME NEW S, NEW q \in Seq(S), NEW k \in 1 .. Len(q)
    PROVE  /\ RemoveAt(q, k) \in Seq(S)
           /\ Len(RemoveAt(q, k)) = Len(q) - 1
           /\ \A i \in 1 .. Len(q) - 1 :
                RemoveAt(q, k)[i] = IF i < k THEN q[i] ELSE q[i + 1]
<1> DEFINE a == SubSeq(q, 1, k - 1)
           b == SubSeq(q, k + 1, Len(q))
<1>1. Len(q) \in Nat /\ \A i \in 1 .. Len(q) : q[i] \in S
  BY LenProperties, ElementOfSeq
<1>2. /\ a \in Seq(S) /\ Len(a) = k - 1
      /\ \A i \in 1 .. k - 1 : a[i] = q[i]
  <2>1. 1 \in Int /\ k - 1 \in Int /\ \A i \in 1 .. k - 1 : q[i] \in S
    BY <1>1
  <2>2. /\ a \in Seq(S) /\ Len(a) = IF 1 <= k - 1 THEN k - 1 - 1 + 1 ELSE 0
        /\ \A i \in 1 .. k - 1 - 1 + 1 : a[i] = q[1 + i - 1]
    BY <2>1, SubSeqProperties
  <2> QED BY <1>1, <2>2
<1>3. /\ b \in Seq(S) /\ Len(b) = Len(q) - k
      /\ \A i \in 1 .. Len(q) - k : b[i] = q[k + i]
  <2>1. k + 1 \in Int /\ Len(q) \in Int /\ \A i \in k + 1 .. Len(q) : q[i] \in S
    BY <1>1
  <2>2. /\ b \in Seq(S) /\ Len(b) = IF k + 1 <= Len(q) THEN Len(q) - (k + 1) + 1 ELSE 0
        /\ \A i \in 1 .. Len(q) - (k + 1) + 1 : b[i] = q[k + 1 + i - 1]
    BY <2>1, SubSeqProperties
  <2> QED BY <1>1, <2>2
<1> HIDE DEF a, b
<1>4. /\ a \o b \in Seq(S)
      /\ Len(a \o b) = Len(a) + Len(b)
      /\ \A i \in 1 .. Len(a) + Len(b) :
            (a \o b)[i] = IF i <= Len(a) THEN a[i] ELSE b[i - Len(a)]
  BY <1>2, <1>3, ConcatProperties
<1>5. RemoveAt(q, k) = a \o b
  BY DEF RemoveAt, a, b
<1>6. ASSUME NEW i \in 1 .. Len(q) - 1
      PROVE  (a \o b)[i] = IF i < k THEN q[i] ELSE q[i + 1]
  <2>1. i \in 1 .. Len(a) + Len(b)
    BY <1>1, <1>2, <1>3
  <2>2. CASE i < k
    <3>1. i <= Len(a) /\ i \in 1 .. k - 1
      BY <1>1, <1>2, <2>2
    <3> QED BY <1>2, <1>4, <2>1, <2>2, <3>1
  <2>3. CASE ~(i < k)
    <3> DEFINE j == i - Len(a)
    <3>1. ~(i <= Len(a)) /\ j \in 1 .. Len(q) - k /\ k + j = i + 1
      BY <1>1, <1>2, <2>3
    <3>2. (a \o b)[i] = b[j]
      BY <1>4, <2>1, <3>1
    <3> HIDE DEF j
    <3>3. b[j] = q[i + 1]
      BY <1>3, <3>1
    <3> QED BY <2>3, <3>2, <3>3
  <2> QED BY <2>2, <2>3
<1>7. Len(a) + Len(b) = Len(q) - 1
  BY <1>1, <1>2, <1>3
<1> QED BY <1>4, <1>5, <1>6, <1>7

\* Taking out the element at k removes it from the set, and only it.
LEMMA RemoveAtSet ==
    ASSUME NEW S, NEW q \in Seq(S), IsInjective(q), NEW k \in 1 .. Len(q)
    PROVE  /\ IsInjective(RemoveAt(q, k))
           /\ ToSet(RemoveAt(q, k)) = ToSet(q) \ {q[k]}
<1> DEFINE r == RemoveAt(q, k)
<1>1. /\ r \in Seq(S) /\ Len(r) = Len(q) - 1 /\ Len(q) \in Nat
      /\ \A i \in 1 .. Len(q) - 1 : r[i] = IF i < k THEN q[i] ELSE q[i + 1]
  BY RemoveAtFacts, LenProperties
<1> HIDE DEF r
<1>2. \A i, j \in 1 .. Len(q) : q[i] = q[j] => i = j
  BY ToSetOfSeq
<1>3. IsInjective(r)
  <2>1. \A i, j \in 1 .. Len(r) : r[i] = r[j] => i = j
    BY <1>1, <1>2
  <2> QED BY <1>1, <2>1, ToSetOfSeq
<1>4. ASSUME NEW i \in 1 .. Len(q), i # k
      PROVE  \E j \in 1 .. Len(r) : r[j] = q[i]
  <2>1. CASE i < k
    <3>1. i \in 1 .. Len(r) /\ r[i] = q[i]
      BY <1>1, <2>1
    <3> QED BY <3>1
  <2>2. CASE i > k
    <3>1. i - 1 \in 1 .. Len(r) /\ r[i - 1] = q[i]
      BY <1>1, <2>2
    <3> QED BY <3>1
  <2> QED BY <1>1, <1>4, <2>1, <2>2
<1>5. \A j \in 1 .. Len(r) : \E i \in 1 .. Len(q) : i # k /\ r[j] = q[i]
  BY <1>1
<1>6. ToSet(r) = {r[j] : j \in 1 .. Len(r)} /\ ToSet(q) = {q[i] : i \in 1 .. Len(q)}
  BY <1>1, ToSetOfSeq
<1>8. \A i \in 1 .. Len(q) : i # k => q[i] # q[k]
  BY <1>2
<1>9. ASSUME NEW x \in ToSet(r) PROVE x \in ToSet(q) \ {q[k]}
  <2>1. PICK j \in 1 .. Len(r) : x = r[j]
    BY <1>6
  <2>2. PICK i \in 1 .. Len(q) : i # k /\ r[j] = q[i]
    BY <1>5
  <2> QED BY <1>6, <1>8, <2>1, <2>2
<1>10. ASSUME NEW x \in ToSet(q) \ {q[k]} PROVE x \in ToSet(r)
  <2>1. PICK i \in 1 .. Len(q) : x = q[i] /\ i # k
    BY <1>6
  <2>2. PICK j \in 1 .. Len(r) : r[j] = q[i]
    BY <1>4, <2>1
  <2> QED BY <1>6, <2>1, <2>2
<1>11. ToSet(r) = ToSet(q) \ {q[k]}
  BY <1>9, <1>10
<1> QED BY <1>3, <1>11 DEF r

\* Without(q, o) is q with o taken out where it stands.
LEMMA WithoutFacts ==
    ASSUME NEW S, NEW q \in Seq(S), NEW o \in ToSet(q)
    PROVE  \E k \in 1 .. Len(q) : q[k] = o /\ Without(q, o) = RemoveAt(q, k)
<1>1. \E k \in 1 .. Len(q) : q[k] = o
  BY ToSetOfSeq
<1> DEFINE k == CHOOSE i \in 1 .. Len(q) : q[i] = o
<1>2. k \in 1 .. Len(q) /\ q[k] = o
  BY <1>1
<1>3. Without(q, o) = RemoveAt(q, k)
  BY DEF Without
<1> QED BY <1>2, <1>3

LEMMA TailIsRemoveAt ==
    ASSUME NEW S, NEW q \in Seq(S), q # <<>>
    PROVE  1 \in 1 .. Len(q) /\ Tail(q) = RemoveAt(q, 1)
<1>1. Len(q) \in Nat /\ Len(q) # 0
  BY EmptySeq, LenProperties
<1>2. /\ Tail(q) \in Seq(S) /\ Len(Tail(q)) = Len(q) - 1
      /\ \A i \in 1 .. Len(Tail(q)) : Tail(q)[i] = q[i + 1]
  BY HeadTailProperties
<1>3. 1 \in 1 .. Len(q)
  BY <1>1
<1>4. /\ RemoveAt(q, 1) \in Seq(S) /\ Len(RemoveAt(q, 1)) = Len(q) - 1
      /\ \A i \in 1 .. Len(q) - 1 : RemoveAt(q, 1)[i] = IF i < 1 THEN q[i] ELSE q[i + 1]
  BY <1>3, RemoveAtFacts
<1>5. \A i \in 1 .. Len(Tail(q)) : Tail(q)[i] = RemoveAt(q, 1)[i]
  BY <1>1, <1>2, <1>4
<1>6. Tail(q) = RemoveAt(q, 1)
  BY <1>2, <1>4, <1>5, SeqEqual
<1> QED BY <1>3, <1>6

LEMMA AppendSet ==
    ASSUME NEW S, NEW q \in Seq(S), NEW x \in S
    PROVE  /\ ToSet(Append(q, x)) = ToSet(q) \cup {x}
           /\ IsInjective(q) /\ x \notin ToSet(q) => IsInjective(Append(q, x))
<1> DEFINE r == Append(q, x)
<1>1. /\ r \in Seq(S) /\ Len(r) = Len(q) + 1 /\ Len(q) \in Nat
      /\ \A i \in 1 .. Len(q) : r[i] = q[i]
      /\ r[Len(q) + 1] = x
  BY AppendProperties, LenProperties
<1> HIDE DEF r
<1>2. /\ ToSet(r) = {r[i] : i \in 1 .. Len(r)} /\ ToSet(q) = {q[i] : i \in 1 .. Len(q)}
      /\ IsInjective(r) <=> \A i, j \in 1 .. Len(r) : r[i] = r[j] => i = j
      /\ IsInjective(q) <=> \A i, j \in 1 .. Len(q) : q[i] = q[j] => i = j
  BY <1>1, ToSetOfSeq
<1>3. 1 .. Len(r) = (1 .. Len(q)) \cup {Len(q) + 1}
  BY <1>1
<1>4. ToSet(r) = ToSet(q) \cup {x}
  BY <1>1, <1>2, <1>3, SMTT(20)
<1>5. IsInjective(q) /\ x \notin ToSet(q) => IsInjective(r)
  BY <1>1, <1>2, <1>3
<1> QED BY <1>4, <1>5 DEF r

\* <<x>> \o q: how the free list grows.
LEMMA PushFacts ==
    ASSUME NEW S, NEW q \in Seq(S), NEW x \in S
    PROVE  /\ <<x>> \o q \in Seq(S)
           /\ Len(<<x>> \o q) = Len(q) + 1
           /\ (<<x>> \o q)[1] = x
           /\ \A i \in 1 .. Len(q) : (<<x>> \o q)[i + 1] = q[i]
           /\ <<x>> \o q # <<>>
           /\ ToSet(<<x>> \o q) = ToSet(q) \cup {x}
           /\ IsInjective(q) /\ x \notin ToSet(q) => IsInjective(<<x>> \o q)
<1> DEFINE r == <<x>> \o q
<1>1. <<x>> \in Seq(S) /\ Len(<<x>>) = 1 /\ <<x>>[1] = x /\ Len(q) \in Nat
  BY LenProperties
<1>2. /\ r \in Seq(S) /\ Len(r) = 1 + Len(q)
      /\ \A i \in 1 .. 1 + Len(q) : r[i] = IF i <= 1 THEN <<x>>[i] ELSE q[i - 1]
  BY <1>1, ConcatProperties
<1> HIDE DEF r
<1>3. r[1] = x /\ \A i \in 1 .. Len(q) : r[i + 1] = q[i]
  <2>1. r[1] = x
    BY <1>1, <1>2
  <2>2. ASSUME NEW i \in 1 .. Len(q) PROVE r[i + 1] = q[i]
    <3>1. i + 1 \in 1 .. 1 + Len(q) /\ ~(i + 1 <= 1) /\ i + 1 - 1 = i
      BY <1>1
    <3> QED BY <1>2, <3>1
  <2> QED BY <2>1, <2>2
<1>4. r # <<>>
  BY <1>1, <1>2, EmptySeq
<1>5. /\ ToSet(r) = {r[i] : i \in 1 .. Len(r)} /\ ToSet(q) = {q[i] : i \in 1 .. Len(q)}
      /\ IsInjective(r) <=> \A i, j \in 1 .. Len(r) : r[i] = r[j] => i = j
      /\ IsInjective(q) <=> \A i, j \in 1 .. Len(q) : q[i] = q[j] => i = j
  BY <1>2, ToSetOfSeq
<1>6. \A i \in 1 .. Len(r) : i = 1 \/ (i - 1 \in 1 .. Len(q) /\ r[i] = q[i - 1])
  BY <1>1, <1>2
<1>7. ToSet(r) \subseteq ToSet(q) \cup {x}
  BY <1>3, <1>5, <1>6
<1>8. ToSet(q) \cup {x} \subseteq ToSet(r)
  BY <1>1, <1>2, <1>3, <1>5
<1>9. ASSUME IsInjective(q), x \notin ToSet(q)
      PROVE  IsInjective(r)
  <2>1. ASSUME NEW i \in 1 .. Len(r), NEW j \in 1 .. Len(r), r[i] = r[j]
        PROVE  i = j
    <3>1. \A m \in 1 .. Len(r) : m # 1 => m - 1 \in 1 .. Len(q) /\ r[m] = q[m - 1] /\ r[m] # x
      BY <1>5, <1>6, <1>9
    <3>2. i = 1 <=> j = 1
      BY <1>3, <2>1, <3>1
    <3>3. CASE i # 1
      <4>1. i - 1 = j - 1
        BY <1>5, <1>9, <2>1, <3>1, <3>2, <3>3
      <4> QED BY <4>1
    <3> QED BY <3>2, <3>3
  <2> QED BY <1>5, <2>1
<1> QED BY <1>1, <1>2, <1>3, <1>4, <1>7, <1>8, <1>9 DEF r

-----------------------------------------------------------------------------
(***************************************************************************)
(* The primitives, field by field.                                         *)
(***************************************************************************)
\* r is m after erase() of o from l.
Erased(m, l, o, r) ==
    /\ r \in Links
    /\ \A h \in Handles : r.prev[h] = IF h = o THEN NULL
                                     ELSE IF h = m.next[o] THEN m.prev[o] ELSE m.prev[h]
    /\ \A h \in Handles : r.next[h] = IF h = o THEN NULL
                                     ELSE IF h = m.prev[o] THEN m.next[o] ELSE m.next[h]
    /\ r.head_[l] = IF m.prev[o] = NULL THEN m.next[o] ELSE m.head_[l]
    /\ r.tail_[l] = IF m.next[o] = NULL THEN m.prev[o] ELSE m.tail_[l]
    /\ \A x \in Levels : x # l => r.head_[x] = m.head_[x] /\ r.tail_[x] = m.tail_[x]
    /\ r.parent_level = m.parent_level
    /\ r.free_head_ = m.free_head_

LEMMA EraseFields ==
    ASSUME NEW m \in Links, NEW l \in Levels, NEW o \in Handles,
           NEW r, r = Erase(m, l, o)
    PROVE  Erased(m, l, o, r)
<1>1. m = [prev |-> m.prev, next |-> m.next, parent_level |-> m.parent_level,
           head_ |-> m.head_, tail_ |-> m.tail_, free_head_ |-> m.free_head_]
  BY DEF Links
<1>2. /\ r.prev = [h \in Handles |-> IF h = o THEN NULL
                                    ELSE IF h = m.next[o] THEN m.prev[o] ELSE m.prev[h]]
      /\ r.next = [h \in Handles |-> IF h = o THEN NULL
                                    ELSE IF h = m.prev[o] THEN m.next[o] ELSE m.next[h]]
      /\ r.head_ = [m.head_ EXCEPT ![l] = IF m.prev[o] = NULL THEN m.next[o] ELSE @]
      /\ r.tail_ = [m.tail_ EXCEPT ![l] = IF m.next[o] = NULL THEN m.prev[o] ELSE @]
      /\ r.parent_level = m.parent_level
      /\ r.free_head_ = m.free_head_
  BY <1>1 DEF Erase
<1>3. r = [m EXCEPT !.prev = r.prev, !.next = r.next, !.head_ = r.head_, !.tail_ = r.tail_]
  BY <1>2, Zenon DEF Erase
<1>4. /\ m.prev \in [Handles -> OrNull(Handles)] /\ m.next \in [Handles -> OrNull(Handles)]
      /\ m.parent_level \in [Handles -> OrNull(Levels)]
      /\ m.head_ \in [Levels -> OrNull(Handles)] /\ m.tail_ \in [Levels -> OrNull(Handles)]
      /\ m.free_head_ \in OrNull(Handles)
  BY DEF Links
<1>5. m.prev[o] \in OrNull(Handles) /\ m.next[o] \in OrNull(Handles) /\ NULL \in OrNull(Handles)
  BY <1>4 DEF OrNull
<1>6. r.prev \in [Handles -> OrNull(Handles)]
  BY <1>2, <1>4, <1>5
<1>7. r.next \in [Handles -> OrNull(Handles)]
  BY <1>2, <1>4, <1>5
<1>8. r.head_ \in [Levels -> OrNull(Handles)] /\ r.tail_ \in [Levels -> OrNull(Handles)]
  BY <1>2, <1>4, <1>5
<1>9. r \in Links
  BY <1>2, <1>3, <1>4, <1>6, <1>7, <1>8 DEF Links
<1>10. ASSUME NEW h \in Handles
       PROVE  /\ r.prev[h] = IF h = o THEN NULL
                             ELSE IF h = m.next[o] THEN m.prev[o] ELSE m.prev[h]
              /\ r.next[h] = IF h = o THEN NULL
                             ELSE IF h = m.prev[o] THEN m.next[o] ELSE m.next[h]
  BY <1>2
<1>11. /\ r.head_[l] = IF m.prev[o] = NULL THEN m.next[o] ELSE m.head_[l]
       /\ r.tail_[l] = IF m.next[o] = NULL THEN m.prev[o] ELSE m.tail_[l]
       /\ \A x \in Levels : x # l => r.head_[x] = m.head_[x] /\ r.tail_[x] = m.tail_[x]
  BY <1>2, <1>4
<1> QED BY <1>2, <1>9, <1>10, <1>11 DEF Erased

\* r is m after release() of o.
Released(m, o, r) ==
    /\ r \in Links
    /\ \A h \in Handles : r.next[h] = IF h = o THEN m.free_head_ ELSE m.next[h]
    /\ r.free_head_ = o
    /\ r.prev = m.prev /\ r.parent_level = m.parent_level
    /\ r.head_ = m.head_ /\ r.tail_ = m.tail_

LEMMA ReleaseFields ==
    ASSUME NEW m \in Links, NEW o \in Handles, NEW r, r = Release(m, o)
    PROVE  Released(m, o, r)
BY DEF Released, Release, Links, OrNull

\* r is m after acquire(), which hands out m.free_head_.
Acquired(m, r) ==
    /\ r \in Links
    /\ \A h \in Handles : h # m.free_head_ => r.next[h] = m.next[h] /\ r.prev[h] = m.prev[h]
    /\ r.free_head_ = m.next[m.free_head_]
    /\ r.parent_level = m.parent_level
    /\ r.head_ = m.head_ /\ r.tail_ = m.tail_

LEMMA AcquireFields ==
    ASSUME NEW m \in Links, m.free_head_ \in Handles, NEW r, r = Acquire(m)
    PROVE  Acquired(m, r)
BY DEF Acquired, Acquire, Links, OrNull

\* push_back() with the parent pointer that add_limit_order() sets.
Linked(m, l, o) == [PushBack(m, l, o) EXCEPT !.parent_level[o] = l]

\* r is m with o at the back of l.
Pushed(m, l, o, r) ==
    /\ r \in Links
    /\ \A h \in Handles : r.prev[h] = IF h = o THEN m.tail_[l] ELSE m.prev[h]
    /\ \A h \in Handles : r.next[h] = IF h = m.tail_[l] THEN o
                                     ELSE IF h = o THEN NULL ELSE m.next[h]
    /\ r.head_[l] = IF m.tail_[l] = NULL THEN o ELSE m.head_[l]
    /\ r.tail_[l] = o
    /\ \A x \in Levels : x # l => r.head_[x] = m.head_[x] /\ r.tail_[x] = m.tail_[x]
    /\ \A h \in Handles : r.parent_level[h] = IF h = o THEN l ELSE m.parent_level[h]
    /\ r.free_head_ = m.free_head_

LEMMA LinkedFields ==
    ASSUME NEW m \in Links, NEW l \in Levels, NEW o \in Handles,
           NEW r, r = Linked(m, l, o)
    PROVE  Pushed(m, l, o, r)
<1>1. m = [prev |-> m.prev, next |-> m.next, parent_level |-> m.parent_level,
           head_ |-> m.head_, tail_ |-> m.tail_, free_head_ |-> m.free_head_]
  BY DEF Links
<1>2. /\ r.prev = [m.prev EXCEPT ![o] = m.tail_[l]]
      /\ r.next = [h \in Handles |-> IF h = m.tail_[l] THEN o
                                    ELSE IF h = o THEN NULL ELSE m.next[h]]
      /\ r.head_ = [m.head_ EXCEPT ![l] = IF m.tail_[l] = NULL THEN o ELSE @]
      /\ r.tail_ = [m.tail_ EXCEPT ![l] = o]
      /\ r.parent_level = [m.parent_level EXCEPT ![o] = l]
      /\ r.free_head_ = m.free_head_
  BY <1>1 DEF Linked, PushBack
<1>3. PushBack(m, l, o) = [m EXCEPT !.prev = r.prev, !.next = r.next,
                                    !.head_ = r.head_, !.tail_ = r.tail_]
  BY <1>1, <1>2, Zenon DEF PushBack
<1>9. r = [PushBack(m, l, o) EXCEPT !.parent_level = [@ EXCEPT ![o] = l]]
  BY DEF Linked
<1>4. /\ m.prev \in [Handles -> OrNull(Handles)] /\ m.next \in [Handles -> OrNull(Handles)]
      /\ m.parent_level \in [Handles -> OrNull(Levels)]
      /\ m.head_ \in [Levels -> OrNull(Handles)] /\ m.tail_ \in [Levels -> OrNull(Handles)]
      /\ m.free_head_ \in OrNull(Handles)
  BY DEF Links
<1>5. o \in OrNull(Handles) /\ NULL \in OrNull(Handles) /\ l \in OrNull(Levels)
      /\ m.tail_[l] \in OrNull(Handles)
  BY <1>4 DEF OrNull
<1>6. r.next \in [Handles -> OrNull(Handles)]
  BY <1>2, <1>4, <1>5
<1>7. /\ r.prev \in [Handles -> OrNull(Handles)] /\ r.parent_level \in [Handles -> OrNull(Levels)]
      /\ r.head_ \in [Levels -> OrNull(Handles)] /\ r.tail_ \in [Levels -> OrNull(Handles)]
  BY <1>2, <1>4, <1>5
<1>8. r \in Links
  <2>1. PushBack(m, l, o) \in Links
    BY <1>3, <1>4, <1>6, <1>7 DEF Links
  <2>2. \A a \in [Handles -> OrNull(Levels)], p \in Links : [p EXCEPT !.parent_level = a] \in Links
    BY DEF Links
  <2>3. \A p \in Links : [p.parent_level EXCEPT ![o] = l] \in [Handles -> OrNull(Levels)]
    BY <1>5 DEF Links
  <2> DEFINE p == PushBack(m, l, o)
  <2> HIDE DEF p
  <2> DEFINE a == [p.parent_level EXCEPT ![o] = l]
  <2>4. r = [p EXCEPT !.parent_level = a] /\ p \in Links
    BY <1>9, <2>1 DEF p
  <2>5. a \in [Handles -> OrNull(Levels)]
    BY <2>3, <2>4
  <2> HIDE DEF a
  <2> QED BY <2>2, <2>4, <2>5
<1>10. ASSUME NEW h \in Handles
       PROVE  /\ r.next[h] = IF h = m.tail_[l] THEN o
                             ELSE IF h = o THEN NULL ELSE m.next[h]
              /\ r.prev[h] = IF h = o THEN m.tail_[l] ELSE m.prev[h]
              /\ r.parent_level[h] = IF h = o THEN l ELSE m.parent_level[h]
  BY <1>2, <1>4
<1>11. /\ r.head_[l] = IF m.tail_[l] = NULL THEN o ELSE m.head_[l]
       /\ r.tail_[l] = o
       /\ \A x \in Levels : x # l => r.head_[x] = m.head_[x] /\ r.tail_[x] = m.tail_[x]
  BY <1>2, <1>4
<1> QED BY <1>2, <1>8, <1>10, <1>11 DEF Pushed

-----------------------------------------------------------------------------
(***************************************************************************)
(* Frames: a list depends on the links of its own slots and level only.    *)
(***************************************************************************)
LEMMA SpellsFrame ==
    ASSUME NEW m, NEW n, NEW l, NEW q \in Seq(Handles), Spells(m, l, q),
           n.head_[l] = m.head_[l], n.tail_[l] = m.tail_[l],
           \A h \in ToSet(q) : /\ n.prev[h] = m.prev[h] /\ n.next[h] = m.next[h]
                              /\ n.parent_level[h] = m.parent_level[h]
    PROVE  Spells(n, l, q)
<1>1. \A k \in 1 .. Len(q) : q[k] \in ToSet(q)
  BY ToSetOfSeq
<1> QED BY <1>1 DEF Spells

LEMMA FreeListFrame ==
    ASSUME NEW m, NEW n, NEW f \in Seq(Handles), FreeListSpells(m, f),
           n.free_head_ = m.free_head_, \A h \in ToSet(f) : n.next[h] = m.next[h]
    PROVE  FreeListSpells(n, f)
<1>1. \A k \in 1 .. Len(f) : f[k] \in ToSet(f)
  BY ToSetOfSeq
<1> QED BY <1>1 DEF FreeListSpells

\* A slot of a list has its neighbours in the list, or none.
LEMMA NeighboursInList ==
    ASSUME NEW m, NEW l, NEW q \in Seq(Handles), Spells(m, l, q), NEW k \in 1 .. Len(q)
    PROVE  /\ k = 1 => m.prev[q[k]] = NULL
           /\ k # 1 => k - 1 \in 1 .. Len(q) /\ m.prev[q[k]] = q[k - 1]
           /\ k = Len(q) => m.next[q[k]] = NULL
           /\ k # Len(q) => k + 1 \in 1 .. Len(q) /\ m.next[q[k]] = q[k + 1]
           /\ m.prev[q[k]] \in OrNull(ToSet(q)) /\ m.next[q[k]] \in OrNull(ToSet(q))
<1>1. Len(q) \in Nat
  BY LenProperties
<1>2. /\ m.prev[q[k]] = IF k = 1 THEN NULL ELSE q[k - 1]
      /\ m.next[q[k]] = IF k = Len(q) THEN NULL ELSE q[k + 1]
  BY DEF Spells
<1>3. \A i \in 1 .. Len(q) : q[i] \in ToSet(q)
  BY ToSetOfSeq
<1>4. /\ k # 1 => k - 1 \in 1 .. Len(q)
      /\ k # Len(q) => k + 1 \in 1 .. Len(q)
  BY <1>1
<1> QED BY <1>2, <1>3, <1>4 DEF OrNull

LEMMA HandleNotNull == NULL \notin Handles
BY PoolAssumption DEF Handles

(***************************************************************************)
(* erase() unlinks an order wherever it stands, without looking at the     *)
(* list: what is left spells the sequence without it.                      *)
(***************************************************************************)
LEMMA EraseSpells ==
    ASSUME NEW m \in Links, NEW l \in Levels, NEW q \in Seq(Handles), IsInjective(q),
           Spells(m, l, q), NEW k \in 1 .. Len(q)
    PROVE  Spells(Erase(m, l, q[k]), l, RemoveAt(q, k))
<1> DEFINE o == q[k]
           n == Erase(m, l, o)
           r == RemoveAt(q, k)
           len == Len(q)
<1>1. len \in Nat /\ len >= 1 /\ \A i \in 1 .. len : q[i] \in Handles
  BY LenProperties, ElementOfSeq
<1>2. /\ \A h \in Handles : n.prev[h] = IF h = o THEN NULL
                                        ELSE IF h = m.next[o] THEN m.prev[o] ELSE m.prev[h]
      /\ \A h \in Handles : n.next[h] = IF h = o THEN NULL
                                        ELSE IF h = m.prev[o] THEN m.next[o] ELSE m.next[h]
      /\ n.head_[l] = IF m.prev[o] = NULL THEN m.next[o] ELSE m.head_[l]
      /\ n.tail_[l] = IF m.next[o] = NULL THEN m.prev[o] ELSE m.tail_[l]
      /\ n.parent_level = m.parent_level
  <2>1. o \in Handles /\ n = Erase(m, l, o)
    BY <1>1
  <2> HIDE DEF o, n
  <2> QED BY <2>1, EraseFields DEF Erased
<1>3. /\ r \in Seq(Handles) /\ Len(r) = len - 1
      /\ \A i \in 1 .. len - 1 : r[i] = IF i < k THEN q[i] ELSE q[i + 1]
  BY RemoveAtFacts
<1>4. \A i, j \in 1 .. len : q[i] = q[j] => i = j
  BY ToSetOfSeq
<1>5. /\ k = 1 => m.prev[o] = NULL
      /\ k # 1 => k - 1 \in 1 .. len /\ m.prev[o] = q[k - 1]
      /\ k = len => m.next[o] = NULL
      /\ k # len => k + 1 \in 1 .. len /\ m.next[o] = q[k + 1]
  BY NeighboursInList
<1>6. /\ m.head_[l] = q[1] /\ m.tail_[l] = q[len]
      /\ \A i \in 1 .. len : /\ m.prev[q[i]] = IF i = 1 THEN NULL ELSE q[i - 1]
                             /\ m.next[q[i]] = IF i = len THEN NULL ELSE q[i + 1]
                             /\ m.parent_level[q[i]] = l
  <2>1. q # <<>>
    BY <1>1, EmptySeq
  <2> QED BY <2>1 DEF Spells
<1>7. r = <<>> <=> len = 1
  BY <1>1, <1>3, EmptySeq
<1>8. m.head_ \in [Levels -> OrNull(Handles)] /\ m.tail_ \in [Levels -> OrNull(Handles)]
  BY DEF Links
<1> HIDE DEF n, r, o, len
<1>9. n.head_[l] = IF r = <<>> THEN NULL ELSE r[1]
  <2>1. n.head_[l] = IF m.prev[o] = NULL THEN m.next[o] ELSE m.head_[l]
    BY <1>2, <1>8
  <2>2. CASE k = 1
    <3>1. n.head_[l] = m.next[o]
      BY <1>5, <2>1, <2>2
    <3>2. CASE len = 1
      BY <1>5, <1>7, <2>2, <3>1, <3>2
    <3>3. CASE len # 1
      <4>1. r # <<>> /\ 1 \in 1 .. len - 1 /\ ~(1 < k)
        <5>1. len - 1 >= 1
          BY <1>1, <3>3
        <5> QED BY <1>1, <1>7, <2>2, <3>3, <5>1
      <4>2. r[1] = q[2] /\ m.next[o] = q[2]
        BY <1>3, <1>5, <2>2, <3>3, <4>1
      <4> QED BY <3>1, <4>1, <4>2
    <3> QED BY <3>2, <3>3
  <2>3. CASE k # 1
    <3>1. 1 \in 1 .. len /\ 1 \in 1 .. len - 1 /\ 1 < k /\ len # 1
      BY <1>1, <2>3 DEF len
    <3>2. m.prev[o] # NULL
      BY <1>1, <1>5, <2>3, HandleNotNull
    <3>3. n.head_[l] = q[1] /\ r[1] = q[1]
      BY <1>3, <1>6, <2>1, <3>1, <3>2
    <3> QED BY <1>7, <3>1, <3>3
  <2> QED BY <2>2, <2>3
<1>10. n.tail_[l] = IF r = <<>> THEN NULL ELSE r[Len(r)]
  <2>1. n.tail_[l] = IF m.next[o] = NULL THEN m.prev[o] ELSE m.tail_[l]
    BY <1>2, <1>8
  <2>2. CASE k = len
    <3>1. n.tail_[l] = m.prev[o]
      BY <1>5, <2>1, <2>2
    <3>2. CASE len = 1
      BY <1>5, <1>7, <2>2, <3>1, <3>2
    <3>3. CASE len # 1
      <4>1. r # <<>> /\ len - 1 \in 1 .. len - 1 /\ len - 1 < k
        BY <1>1, <1>7, <2>2, <3>3 DEF len
      <4>2. r[len - 1] = q[len - 1] /\ m.prev[o] = q[len - 1]
        BY <1>3, <1>5, <2>2, <3>3, <4>1
      <4> QED BY <1>3, <3>1, <4>1, <4>2
    <3> QED BY <3>2, <3>3
  <2>3. CASE k # len
    <3>1. len - 1 \in 1 .. len - 1 /\ ~(len - 1 < k) /\ len # 1 /\ len - 1 + 1 = len
      BY <1>1, <2>3 DEF len
    <3>2. m.next[o] # NULL
      BY <1>1, <1>5, <2>3, HandleNotNull
    <3>3. n.tail_[l] = q[len] /\ r[len - 1] = q[len]
      BY <1>3, <1>6, <2>1, <3>1, <3>2
    <3> QED BY <1>3, <1>7, <3>1, <3>3
  <2> QED BY <2>2, <2>3
<1>11. ASSUME NEW i \in 1 .. len, i # k
       PROVE  /\ n.prev[q[i]] = IF i = k + 1 THEN m.prev[o] ELSE m.prev[q[i]]
              /\ n.next[q[i]] = IF i = k - 1 THEN m.next[o] ELSE m.next[q[i]]
              /\ n.parent_level[q[i]] = l
  <2>1. q[i] \in Handles /\ q[i] # o /\ q[i] # NULL
    BY <1>1, <1>4, <1>11, HandleNotNull DEF o, len
  <2>2. q[i] = m.next[o] <=> i = k + 1
    BY <1>1, <1>4, <1>5, <2>1 DEF len
  <2>3. q[i] = m.prev[o] <=> i = k - 1
    BY <1>1, <1>4, <1>5, <2>1 DEF len
  <2> QED BY <1>2, <1>6, <2>1, <2>2, <2>3
<1>12. ASSUME NEW i \in 1 .. Len(r)
       PROVE  /\ n.prev[r[i]] = IF i = 1 THEN NULL ELSE r[i - 1]
              /\ n.next[r[i]] = IF i = Len(r) THEN NULL ELSE r[i + 1]
              /\ n.parent_level[r[i]] = l
  <2>1. CASE i < k
    <3>1. i \in 1 .. len /\ i # k /\ i # k + 1 /\ r[i] = q[i] /\ i \in 1 .. len - 1
      BY <1>1, <1>3, <2>1 DEF len
    <3>2. n.prev[r[i]] = (IF i = 1 THEN NULL ELSE r[i - 1]) /\ n.parent_level[r[i]] = l
      <4>1. i # 1 => i - 1 \in 1 .. len - 1 /\ i - 1 < k
        BY <1>1, <2>1, <3>1
      <4>2. i # 1 => r[i - 1] = q[i - 1]
        BY <1>3, <4>1
      <4> QED BY <1>6, <1>11, <3>1, <4>2
    <3>3. n.next[r[i]] = IF i = Len(r) THEN NULL ELSE r[i + 1]
      <4>1. CASE i = k - 1
        <5>1. n.next[r[i]] = m.next[o]
          BY <1>11, <3>1, <4>1
        <5>2. i = Len(r) <=> k = len
          BY <1>1, <1>3, <4>1 DEF len
        <5>3. i # Len(r) => r[i + 1] = q[k + 1]
          BY <1>1, <1>3, <4>1, <3>1 DEF len
        <5> QED BY <1>5, <5>1, <5>2, <5>3
      <4>2. CASE i # k - 1
        <5>1. i + 1 < k /\ i + 1 \in 1 .. len - 1 /\ i # len /\ i # Len(r)
          BY <1>1, <1>3, <2>1, <4>2 DEF len
        <5>2. r[i + 1] = q[i + 1]
          BY <1>3, <5>1
        <5> QED BY <1>6, <1>11, <3>1, <4>2, <5>1, <5>2
      <4> QED BY <4>1, <4>2
    <3> QED BY <3>2, <3>3
  <2>2. CASE ~(i < k)
    <3>1. /\ i \in 1 .. len - 1 /\ i + 1 \in 1 .. len /\ i + 1 # k /\ i + 1 # k - 1
          /\ r[i] = q[i + 1]
      BY <1>1, <1>3, <2>2 DEF len
    <3>2. n.prev[r[i]] = (IF i = 1 THEN NULL ELSE r[i - 1]) /\ n.parent_level[r[i]] = l
      <4>1. CASE i = k
        <5>1. n.prev[r[i]] = m.prev[o] /\ n.parent_level[r[i]] = l
          BY <1>11, <3>1, <4>1
        <5>2. i # 1 => i - 1 \in 1 .. len - 1 /\ i - 1 < k
          BY <1>1, <3>1, <4>1
        <5>3. i # 1 => r[i - 1] = q[k - 1]
          BY <1>3, <4>1, <5>2
        <5> QED BY <1>5, <4>1, <5>1, <5>3
      <4>2. CASE i # k
        <5>1. i # 1 /\ i - 1 \in 1 .. len - 1 /\ ~(i - 1 < k) /\ i - 1 + 1 = i /\ i + 1 # k + 1
              /\ i + 1 # 1 /\ i + 1 - 1 = i
          BY <1>1, <2>2, <3>1, <4>2 DEF len
        <5>2. r[i - 1] = q[i]
          BY <1>3, <5>1
        <5>3. n.prev[q[i + 1]] = m.prev[q[i + 1]] /\ n.parent_level[q[i + 1]] = l
          BY <1>11, <3>1, <5>1
        <5> QED BY <1>6, <3>1, <5>1, <5>2, <5>3
      <4> QED BY <4>1, <4>2
    <3>3. n.next[r[i]] = IF i = Len(r) THEN NULL ELSE r[i + 1]
      <4>1. n.next[r[i]] = IF i + 1 = len THEN NULL ELSE q[i + 1 + 1]
        BY <1>6, <1>11, <3>1
      <4>2. i = Len(r) <=> i + 1 = len
        BY <1>1, <1>3
      <4>3. i # Len(r) => i + 1 \in 1 .. len - 1 /\ ~(i + 1 < k)
        BY <1>1, <1>3, <2>2, <3>1 DEF len
      <4>4. i # Len(r) => r[i + 1] = q[i + 1 + 1]
        BY <1>3, <4>3
      <4> QED BY <4>1, <4>2, <4>4
    <3> QED BY <3>2, <3>3
  <2> QED BY <2>1, <2>2
<1> QED BY <1>9, <1>10, <1>12 DEF Spells, n, r, o

\* push_back() appends a slot that is in no list.
LEMMA LinkedSpells ==
    ASSUME NEW m \in Links, NEW l \in Levels, NEW q \in Seq(Handles),
           Spells(m, l, q), NEW o \in Handles, o \notin ToSet(q)
    PROVE  Spells(Linked(m, l, o), l, Append(q, o))
<1> DEFINE n == Linked(m, l, o)
           r == Append(q, o)
           len == Len(q)
           t == m.tail_[l]
<1>1. len \in Nat /\ \A i \in 1 .. len : q[i] \in Handles /\ q[i] # o /\ q[i] # NULL
  BY LenProperties, ElementOfSeq, ToSetOfSeq, HandleNotNull
<1>2. /\ \A h \in Handles : n.prev[h] = IF h = o THEN t ELSE m.prev[h]
      /\ \A h \in Handles : n.next[h] = IF h = t THEN o ELSE IF h = o THEN NULL ELSE m.next[h]
      /\ n.head_[l] = IF t = NULL THEN o ELSE m.head_[l]
      /\ n.tail_[l] = o
      /\ \A h \in Handles : n.parent_level[h] = IF h = o THEN l ELSE m.parent_level[h]
  <2>1. n = Linked(m, l, o)
    OBVIOUS
  <2> HIDE DEF n
  <2> QED BY <2>1, LinkedFields DEF Pushed
<1>3. /\ r \in Seq(Handles) /\ r # <<>> /\ Len(r) = len + 1
      /\ \A i \in 1 .. len : r[i] = q[i]
      /\ r[len + 1] = o
  BY AppendProperties
<1>4. /\ m.head_ \in [Levels -> OrNull(Handles)] /\ m.tail_ \in [Levels -> OrNull(Handles)]
      /\ m.prev \in [Handles -> OrNull(Handles)] /\ m.parent_level \in [Handles -> OrNull(Levels)]
  BY DEF Links
<1>5. q = <<>> <=> len = 0
  BY EmptySeq
<1>6. /\ m.head_[l] = IF q = <<>> THEN NULL ELSE q[1]
      /\ t = IF q = <<>> THEN NULL ELSE q[len]
      /\ \A i \in 1 .. len : /\ m.prev[q[i]] = IF i = 1 THEN NULL ELSE q[i - 1]
                             /\ m.next[q[i]] = IF i = len THEN NULL ELSE q[i + 1]
                             /\ m.parent_level[q[i]] = l
  BY DEF Spells
<1>7. /\ q = <<>> => t = NULL
      /\ q # <<>> => t = q[len] /\ len \in 1 .. len /\ 1 \in 1 .. len /\ t \in Handles /\ t # NULL
  BY <1>1, <1>5, <1>6
<1>8. t # o
  BY <1>1, <1>7, HandleNotNull
<1> HIDE DEF n, r, t, len
<1>9. n.head_[l] = r[1] /\ n.tail_[l] = r[Len(r)]
  <2>1. n.head_[l] = (IF t = NULL THEN o ELSE m.head_[l]) /\ n.tail_[l] = o
    BY <1>2, <1>4
  <2>2. q = <<>> => r[1] = o
    BY <1>3, <1>5
  <2>3. q # <<>> => r[1] = q[1]
    BY <1>3, <1>7
  <2> QED BY <1>3, <1>6, <1>7, <2>1, <2>2, <2>3
<1>10. ASSUME NEW i \in 1 .. Len(r)
       PROVE  /\ n.prev[r[i]] = IF i = 1 THEN NULL ELSE r[i - 1]
              /\ n.next[r[i]] = IF i = Len(r) THEN NULL ELSE r[i + 1]
              /\ n.parent_level[r[i]] = l
  <2>1. CASE i = len + 1
    <3>1. n.prev[o] = t /\ n.next[o] = NULL /\ n.parent_level[o] = l
      BY <1>2, <1>4, <1>8
    <3>2. i = 1 <=> q = <<>>
      BY <1>1, <1>5, <2>1
    <3>3. i # 1 => r[i - 1] = q[len]
      BY <1>1, <1>3, <2>1, <1>7, <3>2
    <3> QED BY <1>3, <1>7, <2>1, <3>1, <3>2, <3>3
  <2>2. CASE i # len + 1
    <3>1. i \in 1 .. len /\ i # Len(r) /\ r[i] = q[i] /\ q # <<>>
      BY <1>1, <1>3, <1>5, <2>2
    <3>2. n.prev[q[i]] = m.prev[q[i]] /\ n.parent_level[q[i]] = l
      BY <1>1, <1>2, <1>4, <1>6, <3>1
    <3>3. i # 1 => i - 1 \in 1 .. len /\ r[i - 1] = q[i - 1]
      BY <1>1, <1>3, <3>1
    <3>4. n.next[q[i]] = r[i + 1]
      <4>1. CASE i = len
        BY <1>1, <1>2, <1>3, <1>7, <3>1, <4>1
      <4>2. CASE i # len
        <5>1. i + 1 \in 1 .. len
          BY <1>1, <3>1, <4>2
        <5>2. m.next[q[i]] = q[i + 1] /\ q[i + 1] # NULL
          BY <1>1, <1>6, <3>1, <4>2, <5>1
        <5>3. m.next[q[len]] = NULL
          BY <1>6, <1>7, <3>1
        <5>4. q[i] # t
          BY <1>7, <3>1, <5>2, <5>3
        <5> QED BY <1>1, <1>2, <1>3, <3>1, <5>1, <5>2, <5>4
      <4> QED BY <4>1, <4>2
    <3> QED BY <1>6, <3>1, <3>2, <3>3, <3>4
  <2> QED BY <2>1, <2>2
<1> QED BY <1>3, <1>9, <1>10 DEF Spells, n, r

-----------------------------------------------------------------------------
(***************************************************************************)
(* The whole link memory: a sequence per level in F, the free list in f.   *)
(***************************************************************************)
ListsExact(m, F, f) ==
    /\ \A l \in Levels : Spells(m, l, F[l])
    /\ FreeListSpells(m, f)

Listed(F) == {h \in Handles : \E l \in Levels : h \in ToSet(F[l])}

\* Every slot is in one list, at one place.
Partitioned(F, f) ==
    /\ \A l \in Levels : IsInjective(F[l])
    /\ IsInjective(f)
    /\ \A l1, l2 \in Levels : l1 # l2 => ToSet(F[l1]) \cap ToSet(F[l2]) = {}
    /\ ToSet(f) = Handles \ Listed(F)

\* The link memory holds the sequences F and f, and nothing else.
Stored(m, F, f) ==
    /\ m \in Links /\ F \in [Levels -> Seq(Handles)] /\ f \in Seq(Handles)
    /\ ListsExact(m, F, f) /\ Partitioned(F, f)

\* Slot o moved from level l to the free list.
Unlinked(m, F, l, o, n, G, g) ==
    /\ o \in Handles /\ Stored(n, G, g) /\ g # <<>>
    /\ n.parent_level = m.parent_level
    /\ Listed(G) = Listed(F) \ {o}
    /\ \A x \in Levels : x # l => G[x] = F[x]
    /\ ToSet(G[l]) = ToSet(F[l]) \ {o}

\* Slot o moved from the free list to level l.
Rested(F, l, o, n, G, g) ==
    /\ o \in Handles /\ o \notin Listed(F) /\ Stored(n, G, g)
    /\ n.parent_level[o] = l
    /\ Listed(G) = Listed(F) \cup {o}
    /\ \A x \in Levels : x # l => G[x] = F[x]
    /\ ToSet(G[l]) = ToSet(F[l]) \cup {o}

LEMMA InitExact ==
    LET F == [l \in Levels |-> <<>>]
        f == [k \in 1 .. capacity |-> capacity - k] IN
    Stored(InitLinks, F, f) /\ Listed(F) = {}
<1> DEFINE F == [l \in Levels |-> <<>>]
           f == [k \in 1 .. capacity |-> capacity - k]
<1>1. capacity \in Nat /\ NULL \notin Handles
  BY PoolAssumption, HandleNotNull
<1>2. F \in [Levels -> Seq(Handles)] /\ \A l \in Levels : F[l] = <<>>
  BY EmptySeq
<1>3. f \in Seq(Handles) /\ Len(f) = capacity /\ \A k \in 1 .. capacity : f[k] = capacity - k
  <2>1. \A k \in 1 .. capacity : capacity - k \in Handles
    BY <1>1 DEF Handles
  <2>2. f \in [1 .. capacity -> Handles]
    BY <2>1
  <2>3. f \in Seq(Handles)
    BY <1>1, <2>2, SeqDef
  <2> QED BY <1>1, <2>2, <2>3, LenProperties
<1>4. InitLinks \in Links
  <2>1. \A h \in Handles : h # 0 => h - 1 \in Handles
    BY <1>1 DEF Handles
  <2>2. capacity # 0 => capacity - 1 \in Handles
    BY <1>1 DEF Handles
  <2> QED BY <2>1, <2>2 DEF InitLinks, Links, OrNull
<1>5. \A l \in Levels : Spells(InitLinks, l, <<>>)
  BY DEF InitLinks, Spells
<1> HIDE DEF f, F
<1>6. FreeListSpells(InitLinks, f)
  <2>1. f = <<>> <=> capacity = 0
    BY <1>3, EmptySeq
  <2>2. InitLinks.free_head_ = IF f = <<>> THEN NULL ELSE f[1]
    BY <1>1, <1>3, <2>1 DEF InitLinks
  <2>3. ASSUME NEW k \in 1 .. capacity
        PROVE  InitLinks.next[f[k]] = IF k = capacity THEN NULL ELSE f[k + 1]
    <3>1. f[k] = capacity - k /\ f[k] \in Handles
      BY <1>1, <1>3 DEF Handles
    <3>2. InitLinks.next[f[k]] = IF f[k] = 0 THEN NULL ELSE f[k] - 1
      BY <3>1 DEF InitLinks
    <3>3. k # capacity => f[k + 1] = capacity - k - 1
      BY <1>1, <1>3
    <3> QED BY <1>1, <3>1, <3>2, <3>3
  <2> QED BY <1>3, <2>2, <2>3 DEF FreeListSpells
<1>7. ToSet(<<>>) = {} /\ IsInjective(<<>>)
  BY DEF ToSet, IsInjective
<1>8. Listed(F) = {}
  BY <1>2, <1>7 DEF Listed
<1>9. IsInjective(f)
  <2>1. \A i, j \in 1 .. Len(f) : f[i] = f[j] => i = j
    BY <1>1, <1>3
  <2> QED BY <1>3, <2>1, ToSetOfSeq
<1>10. ToSet(f) = Handles
  <2>1. ToSet(f) = {f[k] : k \in 1 .. capacity}
    BY <1>3, ToSetOfSeq
  <2>2. \A h \in Handles : capacity - h \in 1 .. capacity /\ f[capacity - h] = h
    BY <1>1, <1>3 DEF Handles
  <2> QED BY <1>3, <2>1, <2>2, ToSetOfSeq
<1>11. Partitioned(F, f)
  BY <1>2, <1>7, <1>8, <1>9, <1>10 DEF Partitioned
<1> QED BY <1>2, <1>3, <1>4, <1>5, <1>6, <1>8, <1>11 DEF Stored, ListsExact, f, F

(***************************************************************************)
(* erase() and release(): the slot moves from its level to the front of    *)
(* the free list.                                                          *)
(***************************************************************************)
LEMMA UnlinkExact ==
    ASSUME NEW m, NEW F, NEW f, Stored(m, F, f),
           NEW l \in Levels, NEW k \in 1 .. Len(F[l]), NEW o, o = F[l][k],
           NEW n, n = Release(Erase(m, l, o), o),
           NEW G, G = [F EXCEPT ![l] = RemoveAt(@, k)],
           NEW g, g = <<o>> \o f
    PROVE  Unlinked(m, F, l, o, n, G, g)
<1>0. /\ m \in Links /\ F \in [Levels -> Seq(Handles)] /\ f \in Seq(Handles)
      /\ ListsExact(m, F, f) /\ Partitioned(F, f)
  BY DEF Stored
<1> USE <1>0
<1> DEFINE q == F[l]
           r == RemoveAt(q, k)
           e == Erase(m, l, o)
<1>1. q \in Seq(Handles) /\ IsInjective(q) /\ Spells(m, l, q) /\ FreeListSpells(m, f)
  BY DEF ListsExact, Partitioned
<1>2. o \in Handles /\ o \in ToSet(q) /\ o # NULL
  BY <1>1, ElementOfSeq, ToSetOfSeq, HandleNotNull
<1>3. r \in Seq(Handles) /\ IsInjective(r) /\ ToSet(r) = ToSet(q) \ {o}
  BY <1>1, RemoveAtFacts, RemoveAtSet
<1>4. /\ G \in [Levels -> Seq(Handles)] /\ G[l] = r
      /\ \A x \in Levels : x # l => G[x] = F[x]
  BY <1>3
<1>5. /\ e \in Links
      /\ \A h \in Handles : e.prev[h] = IF h = o THEN NULL
                                       ELSE IF h = m.next[o] THEN m.prev[o] ELSE m.prev[h]
      /\ \A h \in Handles : e.next[h] = IF h = o THEN NULL
                                       ELSE IF h = m.prev[o] THEN m.next[o] ELSE m.next[h]
      /\ \A x \in Levels : x # l => e.head_[x] = m.head_[x] /\ e.tail_[x] = m.tail_[x]
      /\ e.parent_level = m.parent_level
      /\ e.free_head_ = m.free_head_
  <2>1. e = Erase(m, l, o)
    OBVIOUS
  <2> HIDE DEF e
  <2>2. Erased(m, l, o, e)
    BY <1>2, <2>1, EraseFields
  <2> QED BY <2>2 DEF Erased
<1>6. /\ n \in Links
      /\ \A h \in Handles : n.next[h] = IF h = o THEN e.free_head_ ELSE e.next[h]
      /\ n.free_head_ = o
      /\ n.prev = e.prev /\ n.parent_level = e.parent_level
      /\ n.head_ = e.head_ /\ n.tail_ = e.tail_
  <2>1. n = Release(e, o)
    OBVIOUS
  <2> HIDE DEF e
  <2>2. Released(e, o, n)
    BY <1>2, <1>5, <2>1, ReleaseFields
  <2> QED BY <2>2 DEF Released
<1>7. Spells(e, l, r)
  BY <1>1, EraseSpells
<1>8. m.prev[o] \in OrNull(ToSet(q)) /\ m.next[o] \in OrNull(ToSet(q))
  BY <1>1, NeighboursInList
<1> HIDE DEF e, r, q
\* Slots outside the level keep their links.
<1>9. ASSUME NEW h \in Handles, h \notin ToSet(q)
      PROVE  n.prev[h] = m.prev[h] /\ n.next[h] = m.next[h]
  <2>1. h # o /\ h # m.prev[o] /\ h # m.next[o]
    BY <1>2, <1>8, <1>9, HandleNotNull DEF OrNull
  <2> QED BY <1>5, <1>6, <2>1
<1>10. ASSUME NEW x \in Levels PROVE Spells(n, x, G[x])
  <2>1. CASE x = l
    <3>1. \A h \in ToSet(r) : h \in Handles /\ h # o
      BY <1>3, ToSetOfSeq
    <3>2. \A h \in ToSet(r) : /\ n.prev[h] = e.prev[h] /\ n.next[h] = e.next[h]
                              /\ n.parent_level[h] = e.parent_level[h]
      BY <1>6, <3>1
    <3>3. n.head_[l] = e.head_[l] /\ n.tail_[l] = e.tail_[l]
      BY <1>6
    <3>4. Spells(n, l, r)
      BY <1>3, <1>7, <3>2, <3>3, SpellsFrame
    <3> QED BY <1>4, <2>1, <3>4
  <2>2. CASE x # l
    <3>1. F[x] \in Seq(Handles) /\ Spells(m, x, F[x]) /\ G[x] = F[x]
      BY <1>4, <2>2 DEF ListsExact
    <3>2. \A h \in ToSet(F[x]) : h \in Handles /\ h \notin ToSet(q)
      <4>1. ToSet(F[x]) \subseteq Handles
        BY <3>1, ToSetOfSeq
      <4>2. ToSet(F[x]) \cap ToSet(F[l]) = {}
        BY <2>2 DEF Partitioned
      <4> QED BY <4>1, <4>2 DEF q
    <3>3. n.head_[x] = m.head_[x] /\ n.tail_[x] = m.tail_[x] /\ n.parent_level = m.parent_level
      BY <1>5, <1>6, <2>2
    <3>4. \A h \in ToSet(F[x]) : /\ n.prev[h] = m.prev[h] /\ n.next[h] = m.next[h]
                                 /\ n.parent_level[h] = m.parent_level[h]
      BY <1>9, <3>2, <3>3
    <3>5. Spells(n, x, F[x])
      BY <3>1, <3>3, <3>4, SpellsFrame, ZenonT(40)
    <3> QED BY <3>1, <3>5
  <2> QED BY <2>1, <2>2
<1>11. Listed(G) = Listed(F) \ {o}
  <2>1. \A x \in Levels : x # l => o \notin ToSet(F[x])
    BY <1>2 DEF Partitioned, q
  <2> QED BY <1>3, <1>4, <2>1 DEF Listed, q
<1>12. ToSet(f) = Handles \ Listed(F) /\ IsInjective(f)
  BY DEF Partitioned
<1>13. ToSet(q) \subseteq Listed(F)
  BY <1>1, ToSetOfSeq DEF Listed, q
<1>14. /\ g \in Seq(Handles) /\ g # <<>> /\ Len(g) = Len(f) + 1
       /\ g[1] = o /\ \A i \in 1 .. Len(f) : g[i + 1] = f[i]
       /\ ToSet(g) = ToSet(f) \cup {o} /\ IsInjective(g)
  BY <1>2, <1>12, <1>13, PushFacts
<1>15. FreeListSpells(n, g)
  <2>1. Len(f) \in Nat /\ \A i \in 1 .. Len(f) : f[i] \in Handles /\ f[i] \in ToSet(f)
    BY LenProperties, ElementOfSeq, ToSetOfSeq
  <2>2. \A i \in 1 .. Len(f) : n.next[f[i]] = IF i = Len(f) THEN NULL ELSE f[i + 1]
    <3>1. \A i \in 1 .. Len(f) : n.next[f[i]] = m.next[f[i]]
      BY <1>9, <1>12, <1>13, <2>1
    <3> QED BY <1>1, <3>1 DEF FreeListSpells
  <2>3. n.next[o] = IF f = <<>> THEN NULL ELSE f[1]
    BY <1>1, <1>2, <1>5, <1>6 DEF FreeListSpells
  <2>4. f = <<>> <=> Len(f) = 0
    BY EmptySeq
  <2>5. ASSUME NEW i \in 1 .. Len(g)
        PROVE  n.next[g[i]] = IF i = Len(g) THEN NULL ELSE g[i + 1]
    <3>1. CASE i = 1
      <4>1. i = Len(g) <=> f = <<>>
        BY <1>14, <2>1, <2>4, <3>1
      <4>2. f # <<>> => g[2] = f[1]
        BY <1>14, <2>1, <2>4
      <4> QED BY <1>14, <2>3, <3>1, <4>1, <4>2
    <3>2. CASE i # 1
      <4> DEFINE j == i - 1
      <4>1. j \in 1 .. Len(f) /\ i = j + 1 /\ (i = Len(g) <=> j = Len(f))
        BY <1>14, <2>1, <3>2
      <4> HIDE DEF j
      <4>2. j # Len(f) => j + 1 \in 1 .. Len(f)
        BY <2>1, <4>1
      <4>3. g[i] = f[j] /\ (j # Len(f) => g[i + 1] = f[j + 1])
        BY <1>14, <4>1, <4>2
      <4> QED BY <2>2, <4>1, <4>3
    <3> QED BY <3>1, <3>2
  <2> QED BY <1>6, <1>14, <2>5 DEF FreeListSpells
<1>16. ToSet(g) = Handles \ Listed(G)
  BY <1>2, <1>11, <1>12, <1>14
<1>17. Partitioned(G, g)
  <2>1. \A x \in Levels : IsInjective(G[x])
    BY <1>3, <1>4 DEF Partitioned
  <2>2. \A x \in Levels : ToSet(G[x]) \subseteq ToSet(F[x])
    BY <1>3, <1>4 DEF q
  <2>3. \A x, y \in Levels : x # y => ToSet(G[x]) \cap ToSet(G[y]) = {}
    BY <2>2 DEF Partitioned
  <2> QED BY <1>14, <1>16, <2>1, <2>3 DEF Partitioned
<1>18. n.parent_level = m.parent_level
  BY <1>5, <1>6
<1>19. Stored(n, G, g)
  BY <1>4, <1>6, <1>10, <1>14, <1>15, <1>17 DEF Stored, ListsExact
<1> QED BY <1>2, <1>3, <1>4, <1>11, <1>14, <1>18, <1>19 DEF Unlinked, q

(***************************************************************************)
(* acquire() and push_back(): the slot at the front of the free list moves *)
(* to the back of a level.                                                 *)
(***************************************************************************)
LEMMA RestExact ==
    ASSUME NEW m, NEW F, NEW f, Stored(m, F, f), m.free_head_ # NULL,
           NEW l \in Levels, NEW o, o = m.free_head_,
           NEW n, n = Linked(Acquire(m), l, o),
           NEW G, G = [F EXCEPT ![l] = Append(@, o)],
           NEW g, g = Tail(f)
    PROVE  Rested(F, l, o, n, G, g)
<1>0. /\ m \in Links /\ F \in [Levels -> Seq(Handles)] /\ f \in Seq(Handles)
      /\ ListsExact(m, F, f) /\ Partitioned(F, f)
  BY DEF Stored
<1> USE <1>0
<1> DEFINE q == F[l]
           r == Append(q, o)
           a == Acquire(m)
<1>1. q \in Seq(Handles) /\ IsInjective(q) /\ Spells(m, l, q) /\ FreeListSpells(m, f)
  BY DEF ListsExact, Partitioned
<1>2. /\ f # <<>> /\ o = f[1] /\ 1 \in 1 .. Len(f) /\ Len(f) \in Nat
      /\ o \in Handles /\ o \in ToSet(f)
  <2>1. f # <<>> /\ o = f[1]
    BY <1>1 DEF FreeListSpells
  <2>2. 1 \in 1 .. Len(f) /\ Len(f) \in Nat
    BY <2>1, TailIsRemoveAt, LenProperties
  <2> QED BY <2>1, <2>2, ElementOfSeq, ToSetOfSeq
<1>3. ToSet(f) = Handles \ Listed(F) /\ IsInjective(f)
  BY DEF Partitioned
<1>4. o \notin Listed(F) /\ \A x \in Levels : o \notin ToSet(F[x])
  BY <1>2, <1>3 DEF Listed
<1>5. /\ r \in Seq(Handles) /\ IsInjective(r) /\ ToSet(r) = ToSet(q) \cup {o}
  BY <1>1, <1>2, <1>4, AppendProperties, AppendSet
<1>6. /\ G \in [Levels -> Seq(Handles)] /\ G[l] = r
      /\ \A x \in Levels : x # l => G[x] = F[x]
  BY <1>5
<1>7. /\ a \in Links
      /\ \A h \in Handles : h # o => a.next[h] = m.next[h] /\ a.prev[h] = m.prev[h]
      /\ a.free_head_ = m.next[o]
      /\ a.parent_level = m.parent_level
      /\ a.head_ = m.head_ /\ a.tail_ = m.tail_
  <2>1. a = Acquire(m)
    OBVIOUS
  <2> HIDE DEF a
  <2>2. Acquired(m, a)
    BY <1>2, <2>1, AcquireFields
  <2> QED BY <2>2 DEF Acquired
<1>8. n = Linked(a, l, o)
  OBVIOUS
<1> HIDE DEF a, r, q
<1>9. /\ n \in Links
      /\ \A h \in Handles : n.prev[h] = IF h = o THEN a.tail_[l] ELSE a.prev[h]
      /\ \A h \in Handles : n.next[h] = IF h = a.tail_[l] THEN o
                                       ELSE IF h = o THEN NULL ELSE a.next[h]
      /\ \A x \in Levels : x # l => n.head_[x] = a.head_[x] /\ n.tail_[x] = a.tail_[x]
      /\ \A h \in Handles : n.parent_level[h] = IF h = o THEN l ELSE a.parent_level[h]
      /\ n.free_head_ = a.free_head_
  <2>1. Pushed(a, l, o, n)
    BY <1>2, <1>7, <1>8, LinkedFields
  <2> QED BY <2>1 DEF Pushed
\* The cleared links of the acquired slot are in no level.
<1>10. ASSUME NEW x \in Levels PROVE Spells(a, x, F[x])
  <2>1. F[x] \in Seq(Handles) /\ Spells(m, x, F[x])
    BY DEF ListsExact
  <2>2. \A h \in ToSet(F[x]) : h \in Handles /\ h # o
    BY <1>4, <2>1, ToSetOfSeq
  <2>3. \A h \in ToSet(F[x]) : /\ a.prev[h] = m.prev[h] /\ a.next[h] = m.next[h]
                               /\ a.parent_level[h] = m.parent_level[h]
    BY <1>7, <2>2
  <2>4. a.head_[x] = m.head_[x] /\ a.tail_[x] = m.tail_[x]
    BY <1>7
  <2> QED BY <2>1, <2>3, <2>4, SpellsFrame
<1>11. Spells(n, l, r)
  <2>1. Spells(a, l, q) /\ o \notin ToSet(q)
    BY <1>4, <1>10 DEF q
  <2> QED BY <1>1, <1>2, <1>7, <1>8, <2>1, LinkedSpells DEF r
<1>12. a.tail_[l] \in OrNull(ToSet(q))
  <2>1. a.tail_[l] = IF q = <<>> THEN NULL ELSE q[Len(q)]
    BY <1>10 DEF Spells, q
  <2>2. q # <<>> => Len(q) \in 1 .. Len(q)
    BY <1>1, EmptySeq
  <2>3. q # <<>> => q[Len(q)] \in ToSet(q)
    BY <1>1, <2>2, ToSetOfSeq
  <2> QED BY <2>1, <2>3 DEF OrNull
\* Slots outside the level, other than the new one, keep their links.
<1>13. ASSUME NEW h \in Handles, h \notin ToSet(q), h # o
       PROVE  /\ n.prev[h] = m.prev[h] /\ n.next[h] = m.next[h]
              /\ n.parent_level[h] = m.parent_level[h]
  <2>1. h # a.tail_[l]
    BY <1>12, <1>13, HandleNotNull DEF OrNull
  <2> QED BY <1>7, <1>9, <1>13, <2>1
<1>14. ASSUME NEW x \in Levels PROVE Spells(n, x, G[x])
  <2>1. CASE x = l
    BY <1>6, <1>11, <2>1
  <2>2. CASE x # l
    <3>1. F[x] \in Seq(Handles) /\ Spells(m, x, F[x]) /\ G[x] = F[x]
      BY <1>6, <2>2 DEF ListsExact
    <3>2. \A h \in ToSet(F[x]) : h \in Handles /\ h \notin ToSet(q) /\ h # o
      <4>1. ToSet(F[x]) \subseteq Handles
        BY <3>1, ToSetOfSeq
      <4>2. ToSet(F[x]) \cap ToSet(F[l]) = {}
        BY <2>2 DEF Partitioned
      <4> QED BY <1>4, <4>1, <4>2 DEF q
    <3>3. n.head_[x] = m.head_[x] /\ n.tail_[x] = m.tail_[x]
      BY <1>7, <1>9, <2>2
    <3>4. \A h \in ToSet(F[x]) : /\ n.prev[h] = m.prev[h] /\ n.next[h] = m.next[h]
                                 /\ n.parent_level[h] = m.parent_level[h]
      BY <1>13, <3>2
    <3>5. Spells(n, x, F[x])
      BY <3>1, <3>3, <3>4, SpellsFrame, ZenonT(40)
    <3> QED BY <3>1, <3>5
  <2> QED BY <2>1, <2>2
<1>15. Listed(G) = Listed(F) \cup {o}
  BY <1>2, <1>5, <1>6 DEF Listed, q
<1>16. ToSet(q) \subseteq Listed(F)
  BY <1>1, ToSetOfSeq DEF Listed, q
<1>17. /\ g = RemoveAt(f, 1) /\ g \in Seq(Handles) /\ Len(g) = Len(f) - 1
       /\ \A i \in 1 .. Len(f) - 1 : g[i] = f[i + 1]
       /\ IsInjective(g) /\ ToSet(g) = ToSet(f) \ {o}
  <2>1. g = RemoveAt(f, 1)
    BY <1>2, TailIsRemoveAt
  <2>2. /\ RemoveAt(f, 1) \in Seq(Handles) /\ Len(RemoveAt(f, 1)) = Len(f) - 1
        /\ \A i \in 1 .. Len(f) - 1 : RemoveAt(f, 1)[i] = IF i < 1 THEN f[i] ELSE f[i + 1]
    BY <1>2, RemoveAtFacts
  <2>3. /\ IsInjective(RemoveAt(f, 1)) /\ ToSet(RemoveAt(f, 1)) = ToSet(f) \ {f[1]}
    BY <1>2, <1>3, RemoveAtSet
  <2>4. ASSUME NEW i \in 1 .. Len(f) - 1 PROVE RemoveAt(f, 1)[i] = f[i + 1]
    <3>1. ~(i < 1)
      BY <1>2
    <3> QED BY <2>2, <3>1
  <2> DEFINE v == RemoveAt(f, 1)
  <2>5. v = g /\ v \in Seq(Handles) /\ Len(v) = Len(f) - 1 /\ IsInjective(v)
    BY <2>1, <2>2, <2>3
  <2>6. ToSet(v) = ToSet(f) \ {o}
    BY <1>2, <2>3
  <2>7. \A i \in 1 .. Len(f) - 1 : v[i] = f[i + 1]
    BY <2>4
  <2> HIDE DEF v
  <2> QED BY <2>1, <2>5, <2>6, <2>7
<1>18. FreeListSpells(n, g)
  <2> DEFINE len == Len(f)
  <2>1. /\ len \in Nat /\ 1 <= len /\ Len(g) = len - 1
        /\ \A i \in 1 .. len - 1 : g[i] = f[i + 1] /\ g[i] \in ToSet(g)
    <3>1. g \in Seq(Handles) /\ Len(g) = len - 1
      BY <1>17
    <3>2. \A i \in 1 .. Len(g) : g[i] \in ToSet(g)
      <4>1. \A S, q_ : q_ \in Seq(S) => ToSet(q_) = {q_[i] : i \in 1 .. Len(q_)}
        BY ToSetOfSeq
      <4>2. ToSet(g) = {g[i] : i \in 1 .. Len(g)}
        BY <1>17, <4>1, Zenon
      <4> QED BY <4>2
    <3>3. \A i \in 1 .. len - 1 : g[i] = f[i + 1]
      BY <1>17
    <3> QED BY <1>2, <3>1, <3>2, <3>3
  <2>2. \A i \in 1 .. len : m.next[f[i]] = IF i = len THEN NULL ELSE f[i + 1]
    BY <1>1 DEF FreeListSpells
  <2>3. \A h \in ToSet(g) : n.next[h] = m.next[h]
    BY <1>3, <1>13, <1>16, <1>17
  <2> HIDE DEF len
  <2>4. ASSUME NEW i \in 1 .. len - 1
        PROVE  n.next[g[i]] = IF i = len - 1 THEN NULL ELSE g[i + 1]
    <3>1. i + 1 \in 1 .. len /\ (i = len - 1 <=> i + 1 = len)
      BY <2>1
    <3>2. i # len - 1 => i + 1 \in 1 .. len - 1
      BY <2>1
    <3>3. n.next[g[i]] = m.next[f[i + 1]]
      BY <2>1, <2>3
    <3>4. i # len - 1 => g[i + 1] = f[i + 1 + 1]
      BY <2>1, <3>2
    <3> QED BY <2>2, <3>1, <3>3, <3>4
  <2>5. n.free_head_ = IF len = 1 THEN NULL ELSE f[2]
    <3>1. n.free_head_ = m.next[f[1]]
      BY <1>2, <1>7, <1>9
    <3>2. 1 \in 1 .. len
      BY <2>1
    <3> QED BY <2>2, <3>1, <3>2
  <2>6. g = <<>> <=> len = 1
    <3>1. g = <<>> <=> Len(g) = 0
      BY <1>17, EmptySeq
    <3> QED BY <2>1, <3>1
  <2>7. len # 1 => g[1] = f[2]
    <3>1. len # 1 => 1 \in 1 .. len - 1
      BY <2>1
    <3> QED BY <2>1, <3>1
  <2> QED BY <2>1, <2>4, <2>5, <2>6, <2>7 DEF FreeListSpells
<1>19. Partitioned(G, g)
  <2>1. \A x \in Levels : IsInjective(G[x])
    BY <1>5, <1>6 DEF Partitioned
  <2>2. \A x, y \in Levels : x # y => ToSet(G[x]) \cap ToSet(G[y]) = {}
    <3>1. \A x, y \in Levels : x # y => ToSet(F[x]) \cap ToSet(F[y]) = {}
      BY DEF Partitioned
    <3>2. \A x \in Levels : ToSet(G[x]) = IF x = l THEN ToSet(F[x]) \cup {o} ELSE ToSet(F[x])
      BY <1>5, <1>6 DEF q
    <3>3. \A x \in Levels : o \notin ToSet(F[x])
      BY <1>4
    <3>4. ASSUME NEW x \in Levels, NEW y \in Levels, x # y, NEW h \in ToSet(G[x]), h \in ToSet(G[y])
          PROVE  FALSE
      <4>1. CASE h = o
        BY <3>2, <3>3, <3>4, <4>1
      <4>2. CASE h # o
        <5>1. h \in ToSet(F[x]) /\ h \in ToSet(F[y])
          BY <3>2, <3>4, <4>2
        <5> QED BY <3>1, <3>4, <5>1
      <4> QED BY <4>1, <4>2
    <3> QED BY <3>4
  <2>3. ToSet(g) = Handles \ Listed(G)
    BY <1>3, <1>15, <1>17
  <2> QED BY <1>17, <2>1, <2>2, <2>3 DEF Partitioned
<1>20. n.parent_level[o] = l
  BY <1>2, <1>9
<1>21. Stored(n, G, g)
  BY <1>6, <1>9, <1>14, <1>15, <1>17, <1>18, <1>19 DEF Stored, ListsExact
<1> QED BY <1>2, <1>4, <1>5, <1>6, <1>15, <1>17, <1>20, <1>21 DEF Rested, q

-----------------------------------------------------------------------------
(***************************************************************************)
(* The engine's invariant.                                                 *)
(***************************************************************************)
OrderData == [id : OrNull(OrderId), price : Prices, quantity : Nat]

StoreTypeOK ==
    /\ order \in [Handles -> OrderData]
    /\ links \in Links
    /\ book \in [Side -> SideBook]
    /\ fifo \in [Levels -> Seq(Handles)]
    /\ free \in Seq(Handles)

\* Both side books are as ArraySideBook keeps them.
SidesSound == \A s \in Side : Sound(IsAskSide(s), book[s])

\* Every level with bids is below every level with asks.
SidesApart ==
    \A i, j \in Bits : fifo[<<"Buy", i>>] # <<>> /\ fifo[<<"Sell", j>>] # <<>> => i < j

StoreInv ==
    /\ StoreTypeOK
    /\ LinksExact
    /\ PoolPartitioned
    /\ OrdersAtTheirLevel
    /\ SidesSound
    /\ NothingHidden
    /\ SidesApart

ResultRecord ==
    [code : ErrorCode, initial_quantity : Nat, filled_quantity : Nat,
     remaining_quantity : Nat, handle : OrNull(Handles), trades : Seq(TradeRecord)]

CallTypeOK ==
    /\ pc \in {"idle", "match", "erase", "aborted"}
    /\ call \in [op : {"none", "limit", "market", "modify"}, id : OrNull(OrderId),
                 side : Side, price : OrNull(Prices)]
    /\ quantity \in Nat
    /\ out \in ResultRecord

\* A call in progress has its arguments.
CallArgs ==
    pc # "idle" =>
        /\ call.id \in OrderId
        /\ call.op # "none"
        /\ call.op # "market" => call.price \in Prices

\* erase_best() is entered, and goes on, only at an empty best level.
ErasesEmptyBest == pc = "erase" => oppo_book.has_best_ /\ empty(links, best_level)

\* The slot a modify released is still there when it needs one.
ModifyHasSlot == call.op = "modify" /\ pc \in {"match", "erase"} => free # <<>>

CallInv ==
    /\ CallTypeOK
    /\ CallArgs
    /\ ErasesEmptyBest
    /\ ModifyHasSlot
    /\ ModifyNeverExhausts

IInv == StoreInv /\ CallInv

-----------------------------------------------------------------------------
(***************************************************************************)
(* Levels, prices and links.                                               *)
(***************************************************************************)
LEMMA LevelFacts ==
    /\ \A s \in Side, i \in Bits : <<s, i>> \in Levels
    /\ \A l \in Levels : l[1] \in Side /\ l[2] \in Bits /\ l = <<l[1], l[2]>>
    /\ \A i \in Bits : i \in Int /\ price_of(i) \in Prices /\ idx_of(price_of(i)) = i
    /\ \A p \in Prices : p \in Int /\ idx_of(p) \in Bits /\ price_of(idx_of(p)) = p
    /\ base_price_ \in Prices
<1>1. /\ \A s \in Side, i \in Bits : <<s, i>> \in Levels
      /\ \A l \in Levels : l[1] \in Side /\ l[2] \in Bits /\ l = <<l[1], l[2]>>
  BY LevelsAssumption
<1>2. kBitCount \in Nat /\ kBitCount >= 1
  <2>1. kL1Count * kWordBits >= 1 /\ kL1Count * kWordBits \in Nat
    BY TreeSizeAssumption
  <2> QED BY <2>1 DEF kBitCount
<1>3. /\ \A i \in Bits : i \in Int /\ price_of(i) \in Prices /\ idx_of(price_of(i)) = i
      /\ \A p \in Prices : p \in Int /\ idx_of(p) \in Bits /\ price_of(idx_of(p)) = p
      /\ base_price_ \in Prices
  BY <1>2, BasePriceAssumption DEF Bits, Prices, price_of, idx_of
<1> QED BY <1>1, <1>3

LEMMA SideFacts ==
    /\ \A s \in Side : Opposite(s) \in Side /\ Opposite(s) # s /\ IsAskSide(s) \in BOOLEAN
    /\ IsAskSide("Sell") = TRUE /\ IsAskSide("Buy") = FALSE
BY DEF Side, Opposite, IsAskSide

LEMMA EmptyExact ==
    ASSUME NEW m, NEW l, NEW q \in Seq(Handles), Spells(m, l, q)
    PROVE  empty(m, l) <=> q = <<>>
<1>1. q # <<>> => 1 \in 1 .. Len(q)
  BY TailIsRemoveAt
<1>2. q # <<>> => q[1] \in Handles
  BY <1>1, ElementOfSeq
<1> QED BY <1>2, HandleNotNull DEF Spells, empty

\* What the levels' heads say is what the history says.
LEMMA OccupiedExact ==
    ASSUME NEW m, NEW F, NEW f, Stored(m, F, f)
    PROVE  \A s \in Side, i \in Bits : empty(m, <<s, i>>) <=> F[<<s, i>>] = <<>>
BY LevelFacts, EmptyExact DEF Stored, ListsExact

LEMMA StoredIs ==
    /\ StoreInv => Stored(links, fifo, free)
    /\ Stored(links, fifo, free) => LinksExact /\ PoolPartitioned
<1>1. LinksExact <=> ListsExact(links, fifo, free)
  BY DEF LinksExact, ListsExact
<1>2. PoolPartitioned <=> Partitioned(fifo, free)
  BY DEF PoolPartitioned, Partitioned, Resting, Listed
<1> QED BY <1>1, <1>2 DEF StoreInv, StoreTypeOK, Stored

LEMMA StoredIsNext ==
    /\ StoreInv' => Stored(links', fifo', free')
    /\ Stored(links', fifo', free') => LinksExact' /\ PoolPartitioned'
<1>1. LinksExact' <=> ListsExact(links', fifo', free')
  BY DEF LinksExact, ListsExact
<1>2. PoolPartitioned' <=> Partitioned(fifo', free')
  BY DEF PoolPartitioned, Partitioned, Resting, Listed
<1> QED BY <1>1, <1>2 DEF StoreInv, StoreTypeOK, Stored

-----------------------------------------------------------------------------
(***************************************************************************)
(* When the loop is done with something left to match, nobody on the other *)
(* side would have traded: the orders are behind the best, and the best    *)
(* does not cross.                                                         *)
(***************************************************************************)
LEMMA NobodyWouldTrade ==
    ASSUME StoreInv, CallInv, LoopDone, quantity > 0, NEW i \in Bits,
           fifo[<<oppo_side, i>>] # <<>>
    PROVE  ~WouldTradeAt(price_of(i))
<1>1. call.side \in Side /\ oppo_side \in Side
  BY SideFacts DEF CallInv, CallTypeOK, oppo_side
<1>2. Stored(links, fifo, free)
  BY StoredIs
<1>3. i \in Occupied(oppo_side)
  BY <1>1, <1>2, OccupiedExact DEF Occupied
<1>4. oppo_book.has_best_ /\ ~better_idx(IsAskSide(oppo_side), i, oppo_book.best_price_idx_)
  BY <1>1, <1>3 DEF StoreInv, NothingHidden, oppo_book
<1>5. call.op # "market" /\ ~can_cross
  BY <1>4 DEF LoopDone, CanMatch
<1>6. oppo_book.best_price_idx_ \in Int /\ call.price \in Int /\ i \in Int
  <2>1. oppo_book \in SideBook
    BY <1>1 DEF StoreInv, StoreTypeOK, oppo_book
  <2>2. call.price \in Prices
    BY <1>5 DEF CallInv, CallArgs, LoopDone
  <2> QED BY <2>1, <2>2, LevelFacts DEF SideBook
<1>7. CASE call.side = "Buy"
  <2>1. IsAskSide(oppo_side)
    BY <1>7 DEF oppo_side, Opposite, IsAskSide
  <2>2. ~(call.price >= best_price)
    BY <1>5, <1>7 DEF can_cross
  <2>3. i >= oppo_book.best_price_idx_
    BY <1>4, <1>6, <2>1 DEF better_idx
  <2> QED BY <1>5, <1>6, <1>7, <2>2, <2>3, BasePriceAssumption
          DEF WouldTradeAt, best_price, price_of
<1>8. CASE call.side = "Sell"
  <2>1. ~IsAskSide(oppo_side)
    BY <1>8 DEF oppo_side, Opposite, IsAskSide
  <2>2. ~(call.price <= best_price)
    BY <1>5, <1>8 DEF can_cross
  <2>3. i <= oppo_book.best_price_idx_
    BY <1>4, <1>6, <2>1 DEF better_idx
  <2> QED BY <1>5, <1>6, <1>8, <2>2, <2>3, BasePriceAssumption
          DEF WouldTradeAt, best_price, price_of
<1> QED BY <1>1, <1>7, <1>8 DEF Side

-----------------------------------------------------------------------------
(***************************************************************************)
(* The store under the engine's three changes: an order leaves, an order   *)
(* is filled in part, a level is dropped.                                  *)
(***************************************************************************)

\* Levels that lose orders, or keep them, hide nothing and cross nothing.
LEMMA FewerOrders ==
    ASSUME StoreInv, Stored(links', fifo', free'),
           \A l \in Levels : fifo'[l] # <<>> => fifo[l] # <<>>, book' = book
    PROVE  SidesSound' /\ NothingHidden' /\ SidesApart'
<1>1. SidesSound'
  BY DEF StoreInv, SidesSound
<1>2. \A s \in Side : Occupied(s)' \subseteq Occupied(s)
  <2>1. \A s \in Side, i \in Bits : empty(links', <<s, i>>) <=> fifo'[<<s, i>>] = <<>>
    BY OccupiedExact
  <2>2. \A s \in Side, i \in Bits : empty(links, <<s, i>>) <=> fifo[<<s, i>>] = <<>>
    BY OccupiedExact, StoredIs
  <2> QED BY <2>1, <2>2, LevelFacts DEF Occupied
<1>3. NothingHidden'
  BY <1>2 DEF StoreInv, NothingHidden
<1>4. SidesApart'
  <2>1. \A i \in Bits : <<"Buy", i>> \in Levels /\ <<"Sell", i>> \in Levels
    BY LevelFacts DEF Side
  <2> QED BY <2>1 DEF StoreInv, SidesApart
<1> QED BY <1>1, <1>3, <1>4

\* erase() and release(), wherever the order stands in its level.
LEMMA RemoveStore ==
    ASSUME StoreInv, NEW l \in Levels, NEW k \in 1 .. Len(fifo[l]),
           NEW o, o = fifo[l][k],
           links' = Release(Erase(links, l, o), o),
           fifo' = [fifo EXCEPT ![l] = RemoveAt(@, k)],
           free' = <<o>> \o free,
           book' = book,
           order' \in [Handles -> OrderData],
           \A h \in Handles : h # o => order'[h] = order[h]
    PROVE  /\ StoreInv' /\ free' # <<>>
           /\ \A x \in Levels : x # l => fifo'[x] = fifo[x]
           /\ ToSet(fifo'[l]) = ToSet(fifo[l]) \ {o}
<1>1. Stored(links, fifo, free)
  BY StoredIs
<1>2. Unlinked(links, fifo, l, o, links', fifo', free')
  BY <1>1, UnlinkExact
<1>3. Stored(links', fifo', free')
  BY <1>2 DEF Unlinked
<1>4. StoreTypeOK'
  BY <1>3 DEF StoreInv, StoreTypeOK, Stored
<1>5. LinksExact' /\ PoolPartitioned'
  BY <1>3, StoredIsNext
<1>6. \A x \in Levels : ToSet(fifo'[x]) \subseteq ToSet(fifo[x]) \cap (Handles \ {o})
  <2>1. \A x \in Levels : ToSet(fifo[x]) \subseteq Handles
    BY <1>1, ToSetOfSeq DEF Stored
  <2>2. \A x \in Levels : x # l => o \notin ToSet(fifo[x])
    <3>1. o \in ToSet(fifo[l])
      BY <1>1, ToSetOfSeq DEF Stored
    <3> QED BY <1>1, <3>1 DEF Stored, Partitioned
  <2> QED BY <1>2, <2>1, <2>2 DEF Unlinked
<1>7. OrdersAtTheirLevel'
  BY <1>6 DEF StoreInv, OrdersAtTheirLevel
<1>8. \A x \in Levels : fifo'[x] # <<>> => fifo[x] # <<>>
  <2>1. fifo[l] # <<>>
    BY <1>1, EmptySeq, LenProperties DEF Stored
  <2> QED BY <1>2, <2>1 DEF Unlinked
<1>9. SidesSound' /\ NothingHidden' /\ SidesApart'
  BY <1>3, <1>8, FewerOrders
<1> QED BY <1>2, <1>4, <1>5, <1>7, <1>9 DEF StoreInv, Unlinked

\* A resting order leaves the level it is in, at the place it has there.
LEMMA UnlinkPlace ==
    ASSUME StoreInv, NEW h \in Resting, Unlink(h)
    PROVE  \E l \in Levels : \E k \in 1 .. Len(fifo[l]) :
             /\ h = fifo[l][k]
             /\ links' = Release(Erase(links, l, h), h)
             /\ fifo' = [fifo EXCEPT ![l] = RemoveAt(@, k)]
             /\ free' = <<h>> \o free
<1>1. PICK l \in Levels : h \in ToSet(fifo[l])
  BY DEF Resting
<1>2. Stored(links, fifo, free)
  BY StoredIs
<1>3. fifo[l] \in Seq(Handles) /\ Spells(links, l, fifo[l]) /\ fifo \in [Levels -> Seq(Handles)]
  BY <1>2 DEF Stored, ListsExact
<1>4. PICK k \in 1 .. Len(fifo[l]) : fifo[l][k] = h /\ Without(fifo[l], h) = RemoveAt(fifo[l], k)
  BY <1>1, <1>3, WithoutFacts
<1>5. links.parent_level[h] = l
  BY <1>3, <1>4 DEF Spells
<1>6. fifo' = [fifo EXCEPT ![l] = Without(@, h)]
  BY <1>5 DEF Unlink
<1>7. fifo' = [fifo EXCEPT ![l] = RemoveAt(@, k)]
  BY <1>4, <1>6
<1> QED BY <1>4, <1>5, <1>7 DEF Unlink

LEMMA UnlinkStore ==
    ASSUME StoreInv, NEW h \in Resting, Unlink(h), UNCHANGED <<order, book>>
    PROVE  StoreInv' /\ free' # <<>>
<1>1. PICK l \in Levels : \E k \in 1 .. Len(fifo[l]) :
             /\ h = fifo[l][k]
             /\ links' = Release(Erase(links, l, h), h)
             /\ fifo' = [fifo EXCEPT ![l] = RemoveAt(@, k)]
             /\ free' = <<h>> \o free
  BY UnlinkPlace
<1>2. PICK k \in 1 .. Len(fifo[l]) :
             /\ h = fifo[l][k]
             /\ links' = Release(Erase(links, l, h), h)
             /\ fifo' = [fifo EXCEPT ![l] = RemoveAt(@, k)]
             /\ free' = <<h>> \o free
  BY <1>1
<1>3. order' \in [Handles -> OrderData] /\ \A x \in Handles : x # h => order'[x] = order[x]
  BY DEF StoreInv, StoreTypeOK
<1> QED BY <1>2, <1>3, RemoveStore

\* The order at the front of the best level.
LEMMA MakerFacts ==
    ASSUME StoreInv, CallInv, AtMaker
    PROVE  /\ best_level \in Levels /\ oppo_side \in Side /\ oppo_book \in SideBook
           /\ fifo[best_level] # <<>> /\ 1 \in 1 .. Len(fifo[best_level])
           /\ maker = fifo[best_level][1] /\ maker \in Handles
           /\ maker \in ToSet(fifo[best_level])
           /\ order[maker] \in OrderData
           /\ order[maker].id \in OrderId
           /\ order[maker].price = best_price /\ best_price \in Prices
           /\ order[maker].quantity > 0
           /\ WouldTradeAt(best_price)
<1>1. call.side \in Side /\ oppo_side \in Side
  BY SideFacts DEF CallInv, CallTypeOK, oppo_side
<1>2. oppo_book \in SideBook /\ oppo_book.best_price_idx_ \in Bits
  BY <1>1 DEF StoreInv, StoreTypeOK, oppo_book, SideBook
<1>3. best_level \in Levels /\ best_price \in Prices
      /\ best_price = price_of(best_level[2])
  BY <1>1, <1>2, LevelFacts DEF best_level, best_price
<1>4. /\ fifo[best_level] \in Seq(Handles) /\ Spells(links, best_level, fifo[best_level])
      /\ fifo \in [Levels -> Seq(Handles)]
  BY <1>3, StoredIs DEF Stored, ListsExact
<1>5. fifo[best_level] # <<>>
  BY <1>4, EmptyExact DEF AtMaker
<1>6. 1 \in 1 .. Len(fifo[best_level]) /\ maker = fifo[best_level][1]
  BY <1>4, <1>5, TailIsRemoveAt DEF maker, front, Spells
<1>7. maker \in Handles /\ maker \in ToSet(fifo[best_level])
  BY <1>4, <1>6, ElementOfSeq, ToSetOfSeq
<1>8. order[maker] \in OrderData
  BY <1>7 DEF StoreInv, StoreTypeOK
<1>9. /\ order[maker].id \in OrderId
      /\ order[maker].price = best_price
      /\ order[maker].quantity > 0
  BY <1>3, <1>7 DEF StoreInv, OrdersAtTheirLevel
<1>10. WouldTradeAt(best_price)
  BY <1>1 DEF AtMaker, CanMatch, can_cross, WouldTradeAt, Side
<1> QED BY <1>1, <1>2, <1>3, <1>5, <1>6, <1>7, <1>8, <1>9, <1>10

\* What a fill does to the call and to the maker.
LEMMA FillFacts ==
    ASSUME StoreInv, CallInv, AtMaker,
           NEW qty \in Nat, qty <= quantity, qty <= order[maker].quantity, Fill(qty)
    PROVE  /\ order' \in [Handles -> OrderData]
           /\ \A h \in Handles : h # maker => order'[h] = order[h]
           /\ order'[maker].id = order[maker].id /\ order'[maker].price = order[maker].price
           /\ order'[maker].quantity = order[maker].quantity - qty
           /\ quantity' \in Nat
           /\ out' \in ResultRecord
           /\ out'.filled_quantity = out.filled_quantity + qty
           /\ out'.initial_quantity = out.initial_quantity
           /\ out'.trades = Append(out.trades, Trade(qty)) /\ Trade(qty) \in TradeRecord
           /\ book' = book /\ call' = call
<1> USE MakerFacts
<1>1. /\ order \in [Handles -> OrderData] /\ maker \in Handles
      /\ order' = [order EXCEPT ![maker].quantity = @ - qty]
  BY DEF StoreInv, StoreTypeOK, Fill
<1>2. order[maker].quantity \in Nat /\ order[maker].quantity - qty \in Nat
  BY DEF OrderData
<1>3. [order[maker] EXCEPT !.quantity = @ - qty] \in OrderData
  BY <1>2 DEF OrderData
<1>4. order' = [order EXCEPT ![maker] = [order[maker] EXCEPT !.quantity = @ - qty]]
  BY <1>1
<1>5. /\ order' \in [Handles -> OrderData]
      /\ \A h \in Handles : h # maker => order'[h] = order[h]
      /\ order'[maker] = [order[maker] EXCEPT !.quantity = @ - qty]
  BY <1>1, <1>3, <1>4
<1>6. /\ order'[maker].id = order[maker].id /\ order'[maker].price = order[maker].price
      /\ order'[maker].quantity = order[maker].quantity - qty
  BY <1>1, <1>5 DEF OrderData
<1>7. quantity' \in Nat
  BY DEF Fill, CallInv, CallTypeOK
<1>8. Trade(qty) \in TradeRecord
  <2>1. call.id \in OrderId /\ order[maker].id \in OrderId /\ order[maker].price \in Prices
    BY DEF CallInv, CallArgs, AtMaker
  <2> QED BY <2>1 DEF Trade, TradeRecord
<1>9. /\ out \in ResultRecord
      /\ out.filled_quantity \in Nat /\ out.trades \in Seq(TradeRecord)
  BY DEF CallInv, CallTypeOK, ResultRecord
<1>10. out.filled_quantity + qty \in Nat /\ Append(out.trades, Trade(qty)) \in Seq(TradeRecord)
  BY <1>8, <1>9, AppendProperties
<1>11. out' = [out EXCEPT !.filled_quantity = out.filled_quantity + qty,
                          !.trades = Append(out.trades, Trade(qty))]
  BY DEF Fill
<1>12. /\ out' \in ResultRecord
       /\ out'.filled_quantity = out.filled_quantity + qty
       /\ out'.initial_quantity = out.initial_quantity
       /\ out'.trades = Append(out.trades, Trade(qty))
  BY <1>9, <1>10, <1>11 DEF ResultRecord
<1> QED BY <1>5, <1>6, <1>7, <1>8, <1>12 DEF Fill

-----------------------------------------------------------------------------
(***************************************************************************)
(* The steps of a call.                                                    *)
(***************************************************************************)
LEMMA StoreFrame ==
    ASSUME StoreInv, UNCHANGED <<order, links, book, fifo, free>>
    PROVE  StoreInv'
BY DEF StoreInv, StoreTypeOK, LinksExact, PoolPartitioned, Resting, OrdersAtTheirLevel,
       SidesSound, NothingHidden, Occupied, SidesApart

LEMMA FillPartStep == ASSUME IInv, FillPart PROVE IInv'
<1> DEFINE qty == quantity
<1>1. StoreInv /\ CallInv /\ AtMaker
  BY DEF IInv, FillPart
<1>2. /\ quantity \in Nat /\ quantity < order[maker].quantity
      /\ Fill(quantity) /\ UNCHANGED <<links, pc, fifo, free>>
  BY DEF IInv, CallInv, CallTypeOK, FillPart
<1>3. maker \in Handles /\ order[maker].quantity \in Nat
  BY <1>1, MakerFacts DEF OrderData
<1>4. quantity <= quantity /\ quantity <= order[maker].quantity
  BY <1>2, <1>3
<1>5. /\ order' \in [Handles -> OrderData]
      /\ \A h \in Handles : h # maker => order'[h] = order[h]
      /\ order'[maker].id = order[maker].id /\ order'[maker].price = order[maker].price
      /\ order'[maker].quantity = order[maker].quantity - quantity
      /\ quantity' \in Nat /\ out' \in ResultRecord
      /\ book' = book /\ call' = call
  BY <1>1, <1>2, <1>4, FillFacts
<1>6. StoreTypeOK' /\ LinksExact' /\ PoolPartitioned' /\ SidesSound' /\ NothingHidden' /\ SidesApart'
  BY <1>1, <1>2, <1>5 DEF StoreInv, StoreTypeOK, LinksExact, PoolPartitioned, Resting,
                         SidesSound, NothingHidden, Occupied, SidesApart
<1>7. OrdersAtTheirLevel'
  <2>1. \A l \in Levels : ToSet(fifo[l]) \subseteq Handles
    BY <1>1, StoredIs, ToSetOfSeq DEF Stored
  <2>2. order'[maker].quantity > 0
    BY <1>2, <1>3, <1>5
  <2> QED BY <1>1, <1>2, <1>5, <2>1, <2>2 DEF StoreInv, OrdersAtTheirLevel
<1>8. CallInv'
  BY <1>1, <1>2, <1>5 DEF CallInv, CallTypeOK, CallArgs, ErasesEmptyBest, ModifyHasSlot,
                         ModifyNeverExhausts, AtMaker
<1> QED BY <1>6, <1>7, <1>8 DEF IInv, StoreInv

LEMMA FillAllStep == ASSUME IInv, FillAll PROVE IInv'
<1> DEFINE qty == order[maker].quantity
<1>1. StoreInv /\ CallInv /\ AtMaker
  BY DEF IInv, FillAll
<1>2. /\ best_level \in Levels /\ fifo[best_level] # <<>> /\ 1 \in 1 .. Len(fifo[best_level])
      /\ maker = fifo[best_level][1] /\ qty \in Nat /\ qty <= qty
  BY <1>1, MakerFacts DEF OrderData
<1>3. qty <= quantity /\ Fill(qty)
  BY <1>2 DEF FillAll, IInv, CallInv, CallTypeOK
<1>4. /\ order' \in [Handles -> OrderData]
      /\ \A h \in Handles : h # maker => order'[h] = order[h]
      /\ quantity' \in Nat /\ out' \in ResultRecord
      /\ book' = book /\ call' = call
  BY <1>1, <1>2, <1>3, FillFacts
<1>5. fifo' = [fifo EXCEPT ![best_level] = RemoveAt(@, 1)]
  <2>1. fifo[best_level] \in Seq(Handles)
    BY <1>1, <1>2, StoredIs DEF Stored
  <2>2. Tail(fifo[best_level]) = RemoveAt(fifo[best_level], 1)
    BY <1>2, <2>1, TailIsRemoveAt
  <2> QED BY <2>2 DEF FillAll
<1>6. links' = Release(Erase(links, best_level, maker), maker) /\ free' = <<maker>> \o free
  BY DEF FillAll
<1>7. StoreInv' /\ free' # <<>>
  BY <1>1, <1>2, <1>4, <1>5, <1>6, RemoveStore
<1>8. oppo_book.has_best_ /\ pc = "match"
  BY <1>1 DEF AtMaker, CanMatch
<1>9. pc' = IF empty(links', best_level) THEN "erase" ELSE "match"
  BY DEF FillAll
<1>10. best_level' = best_level /\ oppo_book' = oppo_book
  BY <1>4 DEF best_level, oppo_book, oppo_side
<1>11. CallInv'
  BY <1>1, <1>4, <1>7, <1>8, <1>9, <1>10
     DEF CallInv, CallTypeOK, CallArgs, ErasesEmptyBest, ModifyHasSlot, ModifyNeverExhausts
<1> QED BY <1>7, <1>11 DEF IInv

LEMMA DropStep ==
    ASSUME IInv, pc \in {"match", "erase"}, oppo_book.has_best_, empty(links, best_level),
           DropEmptyBest
    PROVE  IInv'
<1> DEFINE s == oppo_side
           b == oppo_book
           c == DropBest(IsAskSide(s), b)
<1>1. StoreInv /\ CallInv /\ UNCHANGED <<order, links, call, quantity, out, fifo, free>>
  BY DEF IInv, DropEmptyBest
<1>2. s \in Side /\ IsAskSide(s) \in BOOLEAN
  BY <1>1, SideFacts DEF CallInv, CallTypeOK, oppo_side
<1>3. b \in SideBook /\ Sound(IsAskSide(s), b) /\ book \in [Side -> SideBook]
  BY <1>1, <1>2 DEF StoreInv, StoreTypeOK, SidesSound, oppo_book
<1>4. /\ c \in SideBook
      /\ Sound(IsAskSide(s), c)
      /\ Active(c.active_tree) = Active(b.active_tree) \ {b.best_price_idx_}
  BY <1>2, <1>3, DropBestSound
<1>5. book' = [book EXCEPT ![s] = c]
  BY DEF DropEmptyBest, oppo_book
<1> HIDE DEF c
<1>6. book' \in [Side -> SideBook] /\ book'[s] = c /\ \A x \in Side : x # s => book'[x] = book[x]
  BY <1>2, <1>3, <1>4, <1>5
<1>7. StoreTypeOK' /\ LinksExact' /\ PoolPartitioned' /\ OrdersAtTheirLevel' /\ SidesApart'
  BY <1>1, <1>6 DEF StoreInv, StoreTypeOK, LinksExact, PoolPartitioned, Resting,
                   OrdersAtTheirLevel, SidesApart
<1>8. SidesSound'
  BY <1>1, <1>4, <1>6 DEF StoreInv, SidesSound
<1>9. \A x \in Side : Occupied(x) \subseteq Active(book[x].active_tree)
  BY <1>1 DEF StoreInv, NothingHidden
<1>10. \A x \in Side : Occupied(x)' \subseteq Active(book'[x].active_tree)
  <2>1. \A x \in Side : Occupied(x)' = Occupied(x)
    BY <1>1 DEF Occupied
  <2>2. b.best_price_idx_ \notin Occupied(s)
    BY DEF Occupied, best_level
  <2> QED BY <1>4, <1>6, <1>9, <2>1, <2>2 DEF oppo_book
<1>11. NothingHidden'
  BY <1>8, <1>10 DEF SidesSound, Sound, BestIsExtremal, NothingHidden
<1>12. /\ pc' = IF b'.has_best_ /\ empty(links, <<s, b'.best_price_idx_>>)
                THEN "erase" ELSE "match"
       /\ s' = s
  BY <1>1 DEF DropEmptyBest, oppo_book, oppo_side
<1>13. CallInv'
  BY <1>1, <1>12 DEF CallInv, CallTypeOK, CallArgs, ErasesEmptyBest, best_level,
                    ModifyHasSlot, ModifyNeverExhausts
<1> QED BY <1>7, <1>8, <1>11, <1>13 DEF IInv, StoreInv

\* A returning call leaves no call in progress.
LEMMA ReturnStep ==
    ASSUME CallInv, NEW r \in ResultRecord, Return(r)
    PROVE  CallInv'
<1>1. quantity \in Nat
  BY DEF CallInv, CallTypeOK
<1>2. /\ out' = [r EXCEPT !.remaining_quantity = quantity]
      /\ pc' = "idle" /\ call' = NoCall /\ quantity' = 0
  BY DEF Return
<1>3. out' \in ResultRecord
  BY <1>1, <1>2 DEF ResultRecord
<1>4. NoCall \in [op : {"none", "limit", "market", "modify"}, id : OrNull(OrderId),
                  side : Side, price : OrNull(Prices)]
  BY DEF NoCall, OrNull, Side
<1> QED BY <1>2, <1>3, <1>4
        DEF CallInv, CallTypeOK, CallArgs, ErasesEmptyBest, ModifyHasSlot, ModifyNeverExhausts

LEMMA ReturnUnrestedStep == ASSUME IInv, ReturnUnrested PROVE IInv'
<1> DEFINE r == [out EXCEPT !.code = IF quantity = 0 THEN "Success"
                                     ELSE "MarketRemainderCancelled"]
<1>1. out \in ResultRecord
  BY DEF IInv, CallInv, CallTypeOK
<1>2. r \in ResultRecord
  BY <1>1 DEF ResultRecord, ErrorCode
<1>3. Return(r) /\ UNCHANGED <<order, links, book, fifo, free>>
  BY DEF ReturnUnrested
<1> QED BY <1>2, <1>3, ReturnStep, StoreFrame DEF IInv

LEMMA PoolExhaustedStep == ASSUME IInv, PoolExhausted PROVE IInv'
<1>1. /\ UNCHANGED <<order, links, book, call, quantity, out, fifo, free>>
      /\ pc = "match" /\ pc' = "aborted" /\ call.op # "market" /\ links.free_head_ = NULL
  BY DEF PoolExhausted, MustRest, LoopDone
<1>2. free = <<>>
  <2>1. free \in Seq(Handles) /\ FreeListSpells(links, free)
    BY DEF IInv, StoreInv, StoreTypeOK, LinksExact
  <2>2. free # <<>> => free[1] \in Handles
    BY <2>1, TailIsRemoveAt, ElementOfSeq
  <2> QED BY <1>1, <2>1, <2>2, HandleNotNull DEF FreeListSpells
<1>3. call.op = "limit"
  BY <1>1, <1>2 DEF IInv, CallInv, CallTypeOK, CallArgs, ModifyHasSlot
<1>4. CallInv'
  BY <1>1, <1>3 DEF IInv, CallInv, CallTypeOK, CallArgs, ErasesEmptyBest, ModifyHasSlot,
                    ModifyNeverExhausts
<1> QED BY <1>1, <1>4, StoreFrame DEF IInv

LEMMA RestStep == ASSUME IInv, RestRemainder PROVE IInv'
<1> DEFINE h   == links.free_head_
           idx == idx_of(call.price)
           l   == <<call.side, idx>>
           c   == GetOrCreate(IsAskSide(call.side), book[call.side], idx)
           new == [id |-> call.id, price |-> call.price, quantity |-> quantity]
           r   == [out EXCEPT !.handle = h]
<1>1. StoreInv /\ CallInv /\ LoopDone /\ quantity > 0 /\ call.op # "market" /\ h # NULL
  BY DEF IInv, RestRemainder, MustRest
<1>2. /\ order' = [order EXCEPT ![h] = new]
      /\ book' = [book EXCEPT ![call.side] = c]
      /\ links' = Linked(Acquire(links), l, h)
      /\ fifo' = [fifo EXCEPT ![l] = Append(@, h)]
      /\ free' = Tail(free)
      /\ Return(r)
  BY DEF RestRemainder, Linked
<1>3. /\ call.side \in Side /\ call.id \in OrderId /\ call.price \in Prices
      /\ quantity \in Nat /\ out \in ResultRecord
  BY <1>1 DEF CallInv, CallTypeOK, CallArgs, LoopDone
<1>4. idx \in Bits /\ price_of(idx) = call.price /\ l \in Levels
      /\ l[1] = call.side /\ l[2] = idx
  BY <1>3, LevelFacts
<1>5. Stored(links, fifo, free)
  BY <1>1, StoredIs
<1>6. Rested(fifo, l, h, links', fifo', free')
  BY <1>1, <1>2, <1>4, <1>5, RestExact
<1>7. Stored(links', fifo', free') /\ h \in Handles
  BY <1>6 DEF Rested
<1>8. LinksExact' /\ PoolPartitioned'
  BY <1>7, StoredIsNext
<1>9. new \in OrderData
  BY <1>3 DEF OrderData, OrNull
<1>10. /\ order' \in [Handles -> OrderData] /\ order'[h] = new
       /\ \A x \in Handles : x # h => order'[x] = order[x]
  BY <1>1, <1>2, <1>7, <1>9 DEF StoreInv, StoreTypeOK
<1>11. /\ c \in SideBook /\ Sound(IsAskSide(call.side), c) /\ c.has_best_
       /\ Active(c.active_tree) = Active(book[call.side].active_tree) \cup {idx}
  <2>1. /\ IsAskSide(call.side) \in BOOLEAN /\ book[call.side] \in SideBook
        /\ Sound(IsAskSide(call.side), book[call.side])
    BY <1>1, <1>3, SideFacts DEF StoreInv, StoreTypeOK, SidesSound
  <2> QED BY <1>4, <2>1, GetOrCreateSound
<1>12. /\ book' \in [Side -> SideBook] /\ book'[call.side] = c
       /\ \A x \in Side : x # call.side => book'[x] = book[x]
  BY <1>1, <1>2, <1>3, <1>11 DEF StoreInv, StoreTypeOK
<1>13. StoreTypeOK'
  BY <1>7, <1>10, <1>12 DEF StoreTypeOK, Stored
<1> HIDE DEF c
<1>14. SidesSound'
  BY <1>1, <1>11, <1>12 DEF StoreInv, SidesSound
<1>15. OrdersAtTheirLevel'
  <2> SUFFICES ASSUME NEW x \in Levels, NEW o \in ToSet(fifo'[x])
               PROVE  /\ order'[o].id \in OrderId
                      /\ order'[o].price = price_of(x[2])
                      /\ order'[o].quantity > 0
    BY DEF OrdersAtTheirLevel
  <2>1. CASE o = h
    <3>1. x = l
      <4>1. h \notin ToSet(fifo[x])
        BY <1>6, <1>7 DEF Rested, Listed
      <4> QED BY <1>6, <2>1, <4>1 DEF Rested
    <3> QED BY <1>1, <1>3, <1>4, <1>10, <2>1, <3>1
  <2>2. CASE o # h
    <3>1. o \in ToSet(fifo[x])
      BY <1>6, <2>2 DEF Rested
    <3>2. o \in Handles
      BY <1>5, <3>1, ToSetOfSeq DEF Stored
    <3> QED BY <1>1, <1>10, <2>2, <3>1, <3>2 DEF StoreInv, OrdersAtTheirLevel
  <2> QED BY <2>1, <2>2
<1>16. \A s \in Side, i \in Bits :
         fifo'[<<s, i>>] # <<>> => fifo[<<s, i>>] # <<>> \/ (s = call.side /\ i = idx)
  BY <1>6, LevelFacts DEF Rested
<1>17. NothingHidden'
  <2>1. \A s \in Side : Occupied(s) \subseteq Active(book[s].active_tree)
    BY <1>1 DEF StoreInv, NothingHidden
  <2>2. \A s \in Side : Occupied(s)' \subseteq Active(book'[s].active_tree)
    <3>1. \A s \in Side, i \in Bits : empty(links', <<s, i>>) <=> fifo'[<<s, i>>] = <<>>
      BY <1>7, OccupiedExact
    <3>2. \A s \in Side, i \in Bits : empty(links, <<s, i>>) <=> fifo[<<s, i>>] = <<>>
      BY <1>5, OccupiedExact
    <3> QED BY <1>11, <1>12, <1>16, <2>1, <3>1, <3>2 DEF Occupied
  <2> QED BY <1>14, <2>2 DEF SidesSound, Sound, BestIsExtremal, NothingHidden
<1>18. SidesApart'
  <2> SUFFICES ASSUME NEW i \in Bits, NEW j \in Bits,
                      fifo'[<<"Buy", i>>] # <<>>, fifo'[<<"Sell", j>>] # <<>>
               PROVE  i < j
    BY DEF SidesApart
  <2>1. "Buy" \in Side /\ "Sell" \in Side
    BY DEF Side
  <2>2. CASE fifo[<<"Buy", i>>] # <<>> /\ fifo[<<"Sell", j>>] # <<>>
    BY <1>1, <2>2 DEF StoreInv, SidesApart
  <2>3. CASE fifo[<<"Buy", i>>] = <<>>
    <3>1. call.side = "Buy" /\ i = idx /\ fifo[<<"Sell", j>>] # <<>>
      BY <1>16, <2>1, <2>3
    <3>2. ~WouldTradeAt(price_of(j))
      BY <1>1, <3>1, NobodyWouldTrade DEF oppo_side, Opposite
    <3>3. ~(call.price >= price_of(j))
      BY <3>1, <3>2 DEF WouldTradeAt
    <3> QED BY <1>4, <3>1, <3>3, LevelFacts, BasePriceAssumption DEF price_of
  <2>4. CASE fifo[<<"Sell", j>>] = <<>>
    <3>1. call.side = "Sell" /\ j = idx /\ fifo[<<"Buy", i>>] # <<>>
      BY <1>16, <2>1, <2>4
    <3>2. ~WouldTradeAt(price_of(i))
      BY <1>1, <3>1, NobodyWouldTrade DEF oppo_side, Opposite
    <3>3. ~(call.price <= price_of(i))
      BY <3>1, <3>2 DEF WouldTradeAt
    <3> QED BY <1>4, <3>1, <3>3, LevelFacts, BasePriceAssumption DEF price_of
  <2> QED BY <2>2, <2>3, <2>4
<1>19. CallInv'
  <2>1. r \in ResultRecord
    BY <1>3, <1>7 DEF ResultRecord, OrNull
  <2> QED BY <1>1, <1>2, <2>1, ReturnStep
<1> QED BY <1>8, <1>13, <1>14, <1>15, <1>17, <1>18, <1>19 DEF IInv, StoreInv

-----------------------------------------------------------------------------
(***************************************************************************)
(* The calls of the gateway.                                               *)
(***************************************************************************)
LEMMA BeginStep ==
    ASSUME CallInv, pc = "idle",
           NEW op \in {"limit", "market", "modify"}, NEW id \in OrderId, NEW side \in Side,
           NEW price \in OrNull(Prices), op # "market" => price \in Prices,
           NEW qty \in Nat, Begin(op, id, side, price, qty),
           op = "modify" => free' # <<>>
    PROVE  CallInv'
<1>1. CASE qty = 0
  <2>1. out' = Result("InvalidQuantity", 0) /\ UNCHANGED <<pc, call, quantity>>
    BY <1>1 DEF Begin
  <2>2. out' \in ResultRecord
    BY <2>1, EmptySeq DEF Result, ResultRecord, ErrorCode, OrNull
  <2> QED BY <2>1, <2>2 DEF CallInv, CallTypeOK, CallArgs, ErasesEmptyBest, ModifyHasSlot,
                            ModifyNeverExhausts
<1>2. CASE qty > 0
  <2>1. /\ out' = Result("Success", qty) /\ pc' = "match" /\ quantity' = qty
        /\ call' = [op |-> op, id |-> id, side |-> side, price |-> price]
    BY <1>2 DEF Begin
  <2>2. out' \in ResultRecord
    BY <2>1, EmptySeq DEF Result, ResultRecord, ErrorCode, OrNull
  <2>3. call' \in [op : {"none", "limit", "market", "modify"}, id : OrNull(OrderId),
                   side : Side, price : OrNull(Prices)]
    BY <2>1 DEF OrNull
  <2> QED BY <2>1, <2>2, <2>3 DEF CallInv, CallTypeOK, CallArgs, ErasesEmptyBest, ModifyHasSlot,
                                  ModifyNeverExhausts
<1> QED BY <1>1, <1>2

LEMMA CallsStep == ASSUME IInv, Calls PROVE IInv'
<1> USE OrderBookAssumption
<1>1. CASE \E id \in OrderId \ RestingIds, side \in Side, qty \in Quantity, price \in Prices :
             add_limit_order(id, side, price, qty)
  <2>1. PICK id \in OrderId, side \in Side, qty \in Quantity, price \in Prices :
          add_limit_order(id, side, price, qty)
    BY <1>1
  <2>2. /\ pc = "idle" /\ Begin("limit", id, side, price, qty)
        /\ UNCHANGED <<order, links, book, fifo, free>>
    BY <2>1 DEF add_limit_order
  <2>3. CallInv'
    BY <2>2, BeginStep DEF IInv, OrNull
  <2> QED BY <2>2, <2>3, StoreFrame DEF IInv
<1>2. CASE \E id \in OrderId \ RestingIds, side \in Side, qty \in Quantity :
             add_market_order(id, side, qty)
  <2>1. PICK id \in OrderId, side \in Side, qty \in Quantity : add_market_order(id, side, qty)
    BY <1>2
  <2>2. /\ pc = "idle" /\ Begin("market", id, side, NULL, qty)
        /\ UNCHANGED <<order, links, book, fifo, free>>
    BY <2>1 DEF add_market_order
  <2>3. CallInv'
    BY <2>2, BeginStep DEF IInv, OrNull
  <2> QED BY <2>2, <2>3, StoreFrame DEF IInv
<1>3. CASE \E h \in Resting : cancel_order(h)
  <2>1. PICK h \in Resting : cancel_order(h)
    BY <1>3
  <2>2. pc = "idle" /\ Unlink(h) /\ UNCHANGED <<order, book, pc, call, quantity, out>>
    BY <2>1 DEF cancel_order
  <2>3. StoreInv'
    BY <2>2, UnlinkStore DEF IInv
  <2>4. CallInv'
    BY <2>2 DEF IInv, CallInv, CallTypeOK, CallArgs, ErasesEmptyBest, ModifyHasSlot,
                ModifyNeverExhausts
  <2> QED BY <2>3, <2>4 DEF IInv
<1>4. CASE \E h \in Resting, side \in Side, price \in Prices, qty \in Quantity :
             modify_order(h, side, price, qty)
  <2>1. PICK h \in Resting, side \in Side, price \in Prices, qty \in Quantity :
          modify_order(h, side, price, qty)
    BY <1>4
  <2>2. /\ pc = "idle" /\ Unlink(h) /\ UNCHANGED <<order, book>>
        /\ Begin("modify", order[h].id, side, price, qty)
    BY <2>1 DEF modify_order
  <2>3. StoreInv' /\ free' # <<>>
    BY <2>2, UnlinkStore DEF IInv
  <2>4. order[h].id \in OrderId
    BY DEF IInv, StoreInv, OrdersAtTheirLevel, Resting
  <2>5. CallInv'
    BY <2>2, <2>3, <2>4, BeginStep DEF IInv, OrNull
  <2> QED BY <2>3, <2>5 DEF IInv
<1> QED BY <1>1, <1>2, <1>3, <1>4 DEF Calls

\* A new book.
EmptyStore ==
    /\ order = [h \in Handles |-> [id |-> NULL, price |-> base_price_, quantity |-> 0]]
    /\ links = InitLinks
    /\ book = [s \in Side |-> EmptyBook]
    /\ fifo = [l \in Levels |-> <<>>]
    /\ free = [k \in 1 .. capacity |-> capacity - k]

LEMMA EmptyStoreInv ==
    EmptyStore => StoreInv /\ Listed(fifo) = {} /\ \A l \in Levels : fifo[l] = <<>>
<1> SUFFICES ASSUME EmptyStore
             PROVE  StoreInv /\ Listed(fifo) = {} /\ \A l \in Levels : fifo[l] = <<>>
  OBVIOUS
<1>1. Stored(links, fifo, free) /\ Listed(fifo) = {} /\ \A l \in Levels : fifo[l] = <<>>
  BY InitExact DEF EmptyStore
<1>2. LinksExact /\ PoolPartitioned
  BY <1>1, StoredIs
<1>3. EmptyBook \in SideBook /\ \A s \in Side : book[s] = EmptyBook /\ Sound(IsAskSide(s), book[s])
  BY SideFacts, EmptyBookSound DEF EmptyStore
<1>4. StoreTypeOK
  <2>1. [id |-> NULL, price |-> base_price_, quantity |-> 0] \in OrderData
    BY LevelFacts DEF OrderData, OrNull
  <2> QED BY <1>1, <1>3, <2>1 DEF EmptyStore, StoreTypeOK, Stored
<1>5. OrdersAtTheirLevel
  <2>1. ToSet(<<>>) = {}
    BY DEF ToSet
  <2> QED BY <1>1, <2>1 DEF OrdersAtTheirLevel
<1>6. \A s \in Side : Occupied(s) = {}
  BY <1>1, OccupiedExact, LevelFacts DEF Occupied
<1>7. NothingHidden
  BY <1>6 DEF NothingHidden
<1>8. SidesApart
  BY <1>1, LevelFacts DEF SidesApart, Side
<1> QED BY <1>1, <1>2, <1>3, <1>4, <1>5, <1>7, <1>8 DEF StoreInv, SidesSound

LEMMA InitInv == Init => IInv
<1> SUFFICES ASSUME Init PROVE IInv
  OBVIOUS
<1>1. StoreInv
  BY EmptyStoreInv DEF Init, EmptyStore
<1>2. CallInv
  <2>1. NoCall \in [op : {"none", "limit", "market", "modify"}, id : OrNull(OrderId),
                    side : Side, price : OrNull(Prices)]
    BY DEF NoCall, OrNull, Side
  <2>2. Result("Success", 0) \in ResultRecord
    BY EmptySeq DEF Result, ResultRecord, ErrorCode, OrNull
  <2> QED BY <2>1, <2>2 DEF Init, CallInv, CallTypeOK, CallArgs, ErasesEmptyBest, ModifyHasSlot,
                            ModifyNeverExhausts
<1> QED BY <1>1, <1>2 DEF IInv

LEMMA StepInv == IInv /\ [Next]_vars => IInv'
<1> SUFFICES ASSUME IInv, [Next]_vars PROVE IInv'
  OBVIOUS
<1>1. CASE Calls
  BY <1>1, CallsStep
<1>2. CASE FillPart
  BY <1>2, FillPartStep
<1>3. CASE FillAll
  BY <1>3, FillAllStep
<1>4. CASE erase_best
  BY <1>4, DropStep DEF erase_best, IInv, CallInv, ErasesEmptyBest
<1>5. CASE SkipGhost
  BY <1>5, DropStep DEF SkipGhost, CanMatch
<1>6. CASE ReturnUnrested
  BY <1>6, ReturnUnrestedStep
<1>7. CASE RestRemainder
  BY <1>7, RestStep
<1>8. CASE PoolExhausted
  BY <1>8, PoolExhaustedStep
<1>9. CASE UNCHANGED vars
  <2>1. CallInv'
    BY <1>9 DEF vars, IInv, CallInv, CallTypeOK, CallArgs, ErasesEmptyBest, best_level, oppo_book,
                oppo_side, ModifyHasSlot, ModifyNeverExhausts
  <2> QED BY <1>9, <2>1, StoreFrame DEF vars, IInv
<1> QED BY <1>1, <1>2, <1>3, <1>4, <1>5, <1>6, <1>7, <1>8, <1>9 DEF Next, Steps

-----------------------------------------------------------------------------
(***************************************************************************)
(* What the engine keeps.                                                  *)
(***************************************************************************)
LEMMA Invariance == Spec => []IInv
<1>1. Init => IInv
  BY InitInv
<1>2. IInv /\ [Next]_vars => IInv'
  BY StepInv
<1> QED BY <1>1, <1>2, PTL DEF Spec

\* Every variable of the engine has its type, in every call.
THEOREM TypeCorrect == Spec => []TypeOK
<1>1. IInv => TypeOK
  BY DEF IInv, StoreInv, StoreTypeOK, CallInv, CallTypeOK, TypeOK, OrderData, ResultRecord
<1> QED BY <1>1, Invariance, PTL

\* push_back(), erase(), acquire() and release() keep every FIFO list and the
\* free list well linked, although they share the next field of the slots.
THEOREM LinksAlwaysExact == Spec => []LinksExact
<1>1. IInv => LinksExact
  BY DEF IInv, StoreInv
<1> QED BY <1>1, Invariance, PTL

\* No slot of the pool leaks, is released twice or is in two lists.
THEOREM PoolAlwaysPartitioned == Spec => []PoolPartitioned
<1>1. IInv => PoolPartitioned
  BY DEF IInv, StoreInv
<1> QED BY <1>1, Invariance, PTL

\* A resting order has the price of its level and something left: a fill takes
\* the order out as soon as nothing is left.
THEOREM OrdersStayAtTheirLevel == Spec => []OrdersAtTheirLevel
<1>1. IInv => OrdersAtTheirLevel
  BY DEF IInv, StoreInv
<1> QED BY <1>1, Invariance, PTL

\* Every level with orders is active and not better than the cached best,
\* whatever cancels, erase_best() and ghost levels do in between.
THEOREM NothingEverHidden == Spec => []NothingHidden
<1>1. IInv => NothingHidden
  BY DEF IInv, StoreInv
<1> QED BY <1>1, Invariance, PTL

\* No resting bid is at or above a resting ask, at every step of every call.
THEOREM NeverCrossed == Spec => []NotCrossed
<1>1. IInv => NotCrossed
  <2> SUFFICES ASSUME IInv, NEW b \in Resting, NEW a \in Resting, NEW i \in Bits, NEW j \in Bits,
                      b \in ToSet(fifo[<<"Buy", i>>]), a \in ToSet(fifo[<<"Sell", j>>])
               PROVE  order[b].price < order[a].price
    BY DEF NotCrossed
  <2>1. /\ <<"Buy", i>> \in Levels /\ <<"Sell", j>> \in Levels
        /\ <<"Buy", i>>[2] = i /\ <<"Sell", j>>[2] = j
    BY LevelFacts DEF Side
  <2>2. order[b].price = price_of(i) /\ order[a].price = price_of(j)
    BY <2>1 DEF IInv, StoreInv, OrdersAtTheirLevel
  <2>3. fifo[<<"Buy", i>>] # <<>> /\ fifo[<<"Sell", j>>] # <<>>
    <3>1. ToSet(<<>>) = {}
      BY DEF ToSet
    <3> QED BY <3>1
  <2>4. i < j
    BY <2>3 DEF IInv, StoreInv, SidesApart
  <2> QED BY <2>2, <2>4, LevelFacts, BasePriceAssumption DEF price_of
<1> QED BY <1>1, Invariance, PTL

\* When the matching loop stops with something left, no resting order of the
\* other side could have traded with it.
THEOREM TradesNeverMissed == Spec => []NoMissedTrade
<1>1. IInv => NoMissedTrade
  <2> SUFFICES ASSUME IInv, LoopDone, quantity > 0, NEW i \in Bits,
                      NEW h \in ToSet(fifo[<<oppo_side, i>>])
               PROVE  ~WouldTradeAt(order[h].price)
    BY DEF NoMissedTrade
  <2>1. <<oppo_side, i>> \in Levels /\ <<oppo_side, i>>[2] = i
    BY SideFacts, LevelFacts DEF IInv, CallInv, CallTypeOK, oppo_side
  <2>2. order[h].price = price_of(i)
    BY <2>1 DEF IInv, StoreInv, OrdersAtTheirLevel
  <2>3. fifo[<<oppo_side, i>>] # <<>>
    <3>1. ToSet(<<>>) = {}
      BY DEF ToSet
    <3> QED BY <3>1
  <2> QED BY <2>2, <2>3, NobodyWouldTrade DEF IInv
<1> QED BY <1>1, Invariance, PTL

\* Only add_limit_order can run into the pool's assertion: a modify finds the
\* slot it released, because matching only ever adds to the free list.
THEOREM ModifyAlwaysRests == Spec => []ModifyNeverExhausts
<1>1. IInv => ModifyNeverExhausts
  BY DEF IInv, CallInv
<1> QED BY <1>1, Invariance, PTL

-----------------------------------------------------------------------------
(***************************************************************************)
(* Adding up trades.  FoldLeft is a function on the sets of indices; it    *)
(* exists, and one more trade adds its quantity.                           *)
(***************************************************************************)

\* g adds up the quantities of the trades T[k] for k in a set s.
Adds(g, T, n) ==
    g = [s \in SUBSET (1 .. n) |-> IF s = {} THEN 0 ELSE g[s \ {Max(s)}] + T[Max(s)].quantity]

AddsDefined(T, n) == \E g : Adds(g, T, n) /\ \A h : Adds(h, T, n) => h = g

\* The greatest of the indices up to n + 1.
LEMMA MaxOfIndices ==
    ASSUME NEW n \in Nat, NEW s \in SUBSET (1 .. n + 1), s # {}
    PROVE  /\ n + 1 \in s => Max(s) = n + 1
           /\ Max(s) \in s
           /\ n + 1 \notin s => s \in SUBSET (1 .. n)
           /\ s \ {n + 1} \in SUBSET (1 .. n)
<1>1. s \in SUBSET (0 .. n + 1) /\ n + 1 \in Nat
  OBVIOUS
<1>2. Max(s) \in s /\ \A y \in s : y <= Max(s)
  BY <1>1, MaxIsGreatest
<1>3. Max(s) \in 1 .. n + 1
  BY <1>2
<1>4. n + 1 \in s => Max(s) = n + 1
  BY <1>2, <1>3
<1> QED BY <1>2, <1>4

\* One more index: g grows to h.
LEMMA AddsNext ==
    ASSUME NEW n \in Nat, NEW T, NEW g, Adds(g, T, n),
           NEW h, h = [s \in SUBSET (1 .. n + 1) |->
                          IF n + 1 \in s THEN g[s \ {n + 1}] + T[n + 1].quantity ELSE g[s]]
    PROVE  Adds(h, T, n + 1)
<1>1. ASSUME NEW s \in SUBSET (1 .. n + 1)
      PROVE  h[s] = IF s = {} THEN 0 ELSE h[s \ {Max(s)}] + T[Max(s)].quantity
  <2>1. CASE s = {}
    BY <2>1 DEF Adds
  <2>2. CASE n + 1 \in s
    <3>1. Max(s) = n + 1 /\ s \ {n + 1} \in SUBSET (1 .. n)
      BY <2>2, MaxOfIndices
    <3>2. h[s] = g[s \ {n + 1}] + T[n + 1].quantity
      BY <2>2
    <3>3. h[s \ {n + 1}] = g[s \ {n + 1}]
      OBVIOUS
    <3> QED BY <2>2, <3>1, <3>2, <3>3
  <2>3. CASE s # {} /\ n + 1 \notin s
    <3>1. Max(s) \in s /\ s \in SUBSET (1 .. n)
      BY <2>3, MaxOfIndices
    <3>2. h[s] = g[s] /\ h[s \ {Max(s)}] = g[s \ {Max(s)}]
      BY <2>3
    <3>3. g[s] = g[s \ {Max(s)}] + T[Max(s)].quantity
      BY <2>3, <3>1 DEF Adds
    <3> QED BY <2>3, <3>2, <3>3
  <2> QED BY <2>1, <2>2, <2>3
<1> QED BY <1>1 DEF Adds

\* T and U are the same up to n.
Agree(T, U, n) == \A k \in 1 .. n : U[k] = T[k]

\* h is g with index n + 1 of U added.
Grown(g, h, U, n) ==
    \A s \in SUBSET (1 .. n + 1) :
        h[s] = IF n + 1 \in s THEN g[s \ {n + 1}] + U[n + 1].quantity ELSE g[s]

\* One index less: h shrinks to the sums of the trades up to n.
LEMMA AddsPrevious ==
    ASSUME NEW n \in Nat, NEW T, NEW U, Agree(T, U, n),
           NEW h, Adds(h, U, n + 1),
           NEW g, g = [s \in SUBSET (1 .. n) |-> h[s]]
    PROVE  Adds(g, T, n) /\ Grown(g, h, U, n)
<1>1. SUBSET (1 .. n) \subseteq SUBSET (1 .. n + 1)
  OBVIOUS
<1>2. \A s \in SUBSET (1 .. n + 1) :
        h[s] = IF s = {} THEN 0 ELSE h[s \ {Max(s)}] + U[Max(s)].quantity
  BY DEF Adds
<1>3. ASSUME NEW s \in SUBSET (1 .. n)
      PROVE  g[s] = IF s = {} THEN 0 ELSE g[s \ {Max(s)}] + T[Max(s)].quantity
  <2>1. s # {} => Max(s) \in s
    BY <1>1, MaxOfIndices
  <2> QED BY <1>1, <1>2, <2>1 DEF Agree
<1>4. Adds(g, T, n)
  BY <1>3 DEF Adds
<1>5. ASSUME NEW s \in SUBSET (1 .. n + 1)
      PROVE  h[s] = IF n + 1 \in s THEN g[s \ {n + 1}] + U[n + 1].quantity ELSE g[s]
  <2>1. CASE n + 1 \in s
    <3>1. Max(s) = n + 1 /\ s \ {n + 1} \in SUBSET (1 .. n)
      BY <2>1, MaxOfIndices
    <3>2. h[s] = h[s \ {n + 1}] + U[n + 1].quantity
      BY <1>2, <2>1, <3>1
    <3> QED BY <2>1, <3>1, <3>2
  <2>2. CASE n + 1 \notin s
    <3>1. s \in SUBSET (1 .. n)
      BY <2>2
    <3> QED BY <2>2, <3>1
  <2> QED BY <2>1, <2>2
<1> QED BY <1>4, <1>5 DEF Grown

LEMMA AddsAlwaysDefined == ASSUME NEW T, NEW n \in Nat PROVE AddsDefined(T, n)
<1> DEFINE Bad == {k \in Nat : ~AddsDefined(T, k)}
<1>1. SUFFICES ASSUME Bad # {} PROVE FALSE
  OBVIOUS
<1>2. PICK k \in Bad : \A j \in Bad : k <= j
  BY <1>1, LeastNatural
<1>3. CASE k = 0
  <2>1. 1 .. 0 = {} /\ SUBSET (1 .. 0) = {{}}
    OBVIOUS
  <2> DEFINE g == [s \in SUBSET (1 .. 0) |-> 0]
  <2>2. Adds(g, T, 0) /\ \A h : Adds(h, T, 0) => h = g
    BY <2>1 DEF Adds
  <2> QED BY <1>2, <1>3, <2>2 DEF AddsDefined
<1>4. CASE k # 0
  <2> DEFINE m == k - 1
  <2>1. m \in Nat /\ k = m + 1 /\ m \notin Bad
    BY <1>2, <1>4
  <2> HIDE DEF m
  <2>2. PICK g : Adds(g, T, m) /\ \A h : Adds(h, T, m) => h = g
    BY <2>1 DEF AddsDefined
  <2> DEFINE h == [s \in SUBSET (1 .. m + 1) |->
                      IF m + 1 \in s THEN g[s \ {m + 1}] + T[m + 1].quantity ELSE g[s]]
  <2>3. Adds(h, T, m + 1)
    BY <2>1, <2>2, AddsNext
  <2>4. ASSUME NEW x, Adds(x, T, m + 1) PROVE x = h
    <3> DEFINE y == [s \in SUBSET (1 .. m) |-> x[s]]
    <3>0. y = [s \in SUBSET (1 .. m) |-> x[s]] /\ Agree(T, T, m)
      BY DEF Agree
    <3> HIDE DEF y
    <3>1. Adds(y, T, m) /\ Grown(y, x, T, m)
      BY <2>1, <2>4, <3>0, AddsPrevious
    <3>2. y = g
      BY <2>2, <3>1
    <3>3. x = [s \in SUBSET (1 .. m + 1) |-> x[s]]
      BY <2>4 DEF Adds
    <3> QED BY <3>1, <3>2, <3>3 DEF Grown
  <2> QED BY <1>2, <2>1, <2>3, <2>4 DEF AddsDefined
<1> QED BY <1>3, <1>4

LEMMA TradedIs ==
    ASSUME NEW T, NEW n, DOMAIN T = 1 .. n
    PROVE  Traded(T) = (CHOOSE g : Adds(g, T, n))[1 .. n]
BY DEF Traded, FoldLeft, MapThenFoldSet, Adds

LEMMA TradedFacts ==
    /\ Traded(<<>>) = 0
    /\ \A T \in Seq(TradeRecord), t \in TradeRecord :
         Traded(Append(T, t)) = Traded(T) + t.quantity
<1>1. Traded(<<>>) = 0
  <2>1. DOMAIN <<>> = 1 .. 0 /\ 1 .. 0 = {}
    BY EmptySeq, LenProperties
  <2>2. PICK g : Adds(g, <<>>, 0) /\ \A h : Adds(h, <<>>, 0) => h = g
    BY AddsAlwaysDefined DEF AddsDefined
  <2>3. Traded(<<>>) = g[{}]
    BY <2>1, <2>2, TradedIs
  <2> QED BY <2>1, <2>2, <2>3 DEF Adds
<1>2. ASSUME NEW T \in Seq(TradeRecord), NEW t \in TradeRecord
      PROVE  Traded(Append(T, t)) = Traded(T) + t.quantity
  <2> DEFINE n == Len(T)
             U == Append(T, t)
  <2>1. /\ n \in Nat /\ DOMAIN T = 1 .. n /\ DOMAIN U = 1 .. n + 1
        /\ U[n + 1] = t /\ \A k \in 1 .. n : U[k] = T[k]
    BY LenProperties, AppendProperties
  <2> HIDE DEF n, U
  <2>2. PICK g : Adds(g, T, n) /\ \A x : Adds(x, T, n) => x = g
    BY <2>1, AddsAlwaysDefined DEF AddsDefined
  <2>3. n + 1 \in Nat
    BY <2>1
  <2>4. PICK h : Adds(h, U, n + 1) /\ \A x : Adds(x, U, n + 1) => x = h
    BY <2>3, AddsAlwaysDefined DEF AddsDefined
  <2>5. Traded(T) = g[1 .. n]
    BY <2>1, <2>2, TradedIs
  <2>6. Traded(U) = h[1 .. n + 1]
    BY <2>1, <2>4, TradedIs
  <2> DEFINE y == [s \in SUBSET (1 .. n) |-> h[s]]
  <2>7. y = [s \in SUBSET (1 .. n) |-> h[s]] /\ Agree(T, U, n)
    BY <2>1 DEF Agree
  <2> HIDE DEF y
  <2>8. Adds(y, T, n) /\ Grown(y, h, U, n)
    BY <2>1, <2>4, <2>7, AddsPrevious
  <2>9. y = g
    BY <2>2, <2>8
  <2>10. (1 .. n + 1) \ {n + 1} = 1 .. n /\ n + 1 \in 1 .. n + 1
    BY <2>1
  <2>11. h[1 .. n + 1] = g[1 .. n] + t.quantity
    BY <2>1, <2>8, <2>9, <2>10 DEF Grown
  <2> QED BY <2>5, <2>6, <2>11 DEF U
<1> QED BY <1>1, <1>2

-----------------------------------------------------------------------------
(***************************************************************************)
(* The trades of the call in progress.  Price priority needs more than the *)
(* trades: no level left on the other side is better for the taker than a  *)
(* price already paid.                                                     *)
(***************************************************************************)

\* For the taker of the call in progress, price q is no better than p.
NoBetter(p, q) == IF call.side = "Buy" THEN p <= q ELSE p >= q

LevelsNoBetter ==
    pc \in {"match", "erase"} =>
        \A i \in Active(oppo_book.active_tree), k \in 1 .. Len(out.trades) :
            NoBetter(out.trades[k].price, price_of(i))

TradesInv == TradesAccountedFor /\ LevelsNoBetter

\* The parts of TradesAccountedFor, by name.
Accounted ==
    /\ out.filled_quantity + quantity = out.initial_quantity
    /\ out.filled_quantity = Traded(out.trades)

WithinLimit ==
    \A k \in 1 .. Len(out.trades) :
        WouldTradeAt(out.trades[k].price) /\ out.trades[k].quantity > 0

PricePriority ==
    \A k \in 1 .. Len(out.trades) - 1 : NoBetter(out.trades[k].price, out.trades[k + 1].price)

LEMMA TradesAccountedForIs ==
    TradesAccountedFor <=> (pc # "idle" => Accounted /\ WithinLimit /\ PricePriority)
BY DEF TradesAccountedFor, Accounted, WithinLimit, PricePriority, NoBetter

LEMMA FillTrades ==
    ASSUME IInv, TradesInv, AtMaker, NEW qty \in Nat, qty > 0, qty <= quantity,
           qty <= order[maker].quantity, Fill(qty)
    PROVE  TradesInv'
<1> DEFINE T == out.trades
           t == Trade(qty)
           U == Append(T, t)
           n == Len(T)
<1>1. StoreInv /\ CallInv /\ pc = "match" /\ oppo_book.has_best_ /\ quantity \in Nat
  BY DEF IInv, AtMaker, CanMatch, CallInv, CallTypeOK
<1>2. /\ quantity' = quantity - qty
      /\ out'.filled_quantity = out.filled_quantity + qty
      /\ out'.initial_quantity = out.initial_quantity
      /\ out'.trades = U /\ t \in TradeRecord
      /\ book' = book /\ call' = call
  BY <1>1, FillFacts DEF Fill
<1>3. /\ T \in Seq(TradeRecord) /\ out.filled_quantity \in Nat /\ out.initial_quantity \in Nat
      /\ n \in Nat
  BY <1>1, LenProperties DEF CallInv, CallTypeOK, ResultRecord
<1>4. /\ Len(U) = n + 1 /\ U[n + 1] = t /\ \A k \in 1 .. n : U[k] = T[k]
  BY <1>2, <1>3, AppendProperties
<1>5. t.price = best_price /\ t.quantity = qty /\ WouldTradeAt(best_price) /\ best_price \in Int
  BY <1>1, MakerFacts, LevelFacts DEF Trade
<1>6. \A k \in 1 .. n : T[k].price \in Int
  <2>1. \A k \in 1 .. n : T[k] \in TradeRecord
    BY <1>3, ElementOfSeq
  <2> QED BY <2>1, LevelFacts DEF TradeRecord
<1>7. Accounted /\ WithinLimit /\ PricePriority
  BY <1>1, TradesAccountedForIs DEF TradesInv
<1> HIDE DEF T, U, t, n
<1>8. Accounted'
  <2>1. Traded(U) = Traded(T) + qty
    BY <1>2, <1>3, <1>5, TradedFacts DEF U
  <2> QED BY <1>2, <1>3, <1>7, <1>1, <2>1 DEF Accounted, T
<1>9. WithinLimit'
  <2>1. \A k \in 1 .. n : WouldTradeAt(U[k].price) /\ U[k].quantity > 0
    BY <1>4, <1>7 DEF WithinLimit, T, n
  <2>2. WouldTradeAt(U[n + 1].price) /\ U[n + 1].quantity > 0
    BY <1>4, <1>5
  <2>3. \A k \in 1 .. Len(U) : WouldTradeAt(U[k].price) /\ U[k].quantity > 0
    BY <1>3, <1>4, <2>1, <2>2
  <2> QED BY <1>2, <2>3 DEF WithinLimit, WouldTradeAt
<1>10. oppo_book.best_price_idx_ \in Active(oppo_book.active_tree)
       /\ \A i \in Active(oppo_book.active_tree) :
            ~better_idx(IsAskSide(oppo_side), i, oppo_book.best_price_idx_)
  <2>1. oppo_side \in Side
    BY <1>1, MakerFacts
  <2> QED BY <1>1, <2>1 DEF StoreInv, SidesSound, Sound, BestIsExtremal, oppo_book
<1>11. \A k \in 1 .. n : NoBetter(T[k].price, best_price)
  BY <1>1, <1>10 DEF TradesInv, LevelsNoBetter, best_price, T, n
<1>12. PricePriority'
  <2>1. ASSUME NEW k \in 1 .. n PROVE NoBetter(U[k].price, U[k + 1].price)
    <3>1. CASE k = n
      BY <1>4, <1>5, <1>11, <3>1
    <3>2. CASE k # n
      <4>1. k \in 1 .. n - 1 /\ k + 1 \in 1 .. n
        BY <1>3, <3>2
      <4> QED BY <1>4, <1>7, <4>1 DEF PricePriority, T, n
    <3> QED BY <3>1, <3>2
  <2>2. Len(U) - 1 = n
    BY <1>3, <1>4
  <2> QED BY <1>2, <2>1, <2>2 DEF PricePriority, NoBetter
<1>13. LevelsNoBetter'
  <2>1. \A i \in Active(oppo_book.active_tree) : NoBetter(best_price, price_of(i))
    <3>1. CASE call.side = "Buy"
      <4>1. IsAskSide(oppo_side)
        BY <3>1 DEF oppo_side, Opposite, IsAskSide
      <4>2. ASSUME NEW i \in Active(oppo_book.active_tree)
            PROVE  i \in Int /\ oppo_book.best_price_idx_ \in Int
                   /\ ~(i < oppo_book.best_price_idx_)
        BY <1>10, <4>1, LevelFacts DEF better_idx, Active
      <4> QED BY <3>1, <4>2, BasePriceAssumption DEF NoBetter, best_price, price_of
    <3>2. CASE call.side # "Buy"
      <4>1. ~IsAskSide(oppo_side)
        BY <3>2 DEF oppo_side, Opposite, IsAskSide
      <4>2. ASSUME NEW i \in Active(oppo_book.active_tree)
            PROVE  i \in Int /\ oppo_book.best_price_idx_ \in Int
                   /\ ~(i > oppo_book.best_price_idx_)
        BY <1>10, <4>1, LevelFacts DEF better_idx, Active
      <4> QED BY <3>2, <4>2, BasePriceAssumption DEF NoBetter, best_price, price_of
    <3> QED BY <3>1, <3>2
  <2>2. ASSUME NEW i \in Active(oppo_book.active_tree), NEW k \in 1 .. Len(U)
        PROVE  NoBetter(U[k].price, price_of(i))
    <3>1. CASE k = n + 1
      BY <1>4, <1>5, <2>1, <3>1
    <3>2. CASE k # n + 1
      <4>1. k \in 1 .. n
        BY <1>3, <1>4, <3>2
      <4> QED BY <1>1, <1>4, <4>1 DEF TradesInv, LevelsNoBetter, T, n
    <3> QED BY <3>1, <3>2
  <2> QED BY <1>2, <2>2 DEF LevelsNoBetter, NoBetter, oppo_book, oppo_side
<1> QED BY <1>8, <1>9, <1>12, <1>13 DEF TradesInv, TradesAccountedFor, Accounted, WithinLimit,
                                     PricePriority, NoBetter

LEMMA DropTrades ==
    ASSUME IInv, TradesInv, pc \in {"match", "erase"}, oppo_book.has_best_, DropEmptyBest
    PROVE  TradesInv'
<1>1. StoreInv /\ CallInv /\ UNCHANGED <<order, links, call, quantity, out, fifo, free>>
  BY DEF IInv, DropEmptyBest
<1>2. oppo_side \in Side /\ IsAskSide(oppo_side) \in BOOLEAN
  BY <1>1, SideFacts DEF CallInv, CallTypeOK, oppo_side
<1>3. /\ oppo_book \in SideBook /\ Sound(IsAskSide(oppo_side), oppo_book)
      /\ book \in [Side -> SideBook]
  BY <1>1, <1>2 DEF StoreInv, StoreTypeOK, SidesSound, oppo_book
<1> DEFINE c == DropBest(IsAskSide(oppo_side), oppo_book)
<1>4. Active(c.active_tree) = Active(oppo_book.active_tree) \ {oppo_book.best_price_idx_}
  BY <1>2, <1>3, DropBestSound
<1>5. book' = [book EXCEPT ![oppo_side] = c]
  BY DEF DropEmptyBest, oppo_book
<1> HIDE DEF c
<1>6. oppo_book' = c
  BY <1>1, <1>2, <1>3, <1>5 DEF oppo_book, oppo_side
<1>7. LevelsNoBetter'
  BY <1>1, <1>4, <1>6 DEF TradesInv, LevelsNoBetter, NoBetter
<1>8. Accounted' /\ WithinLimit' /\ PricePriority'
  BY <1>1, TradesAccountedForIs DEF TradesInv, Accounted, WithinLimit, WouldTradeAt,
                                    PricePriority, NoBetter
<1> QED BY <1>7, <1>8 DEF TradesInv, TradesAccountedFor, Accounted, WithinLimit,
                         PricePriority, NoBetter

LEMMA IdleTrades == ASSUME pc' = "idle" PROVE TradesInv'
BY DEF TradesInv, TradesAccountedFor, LevelsNoBetter

LEMMA BeginTrades ==
    ASSUME NEW op, NEW id, NEW side, NEW price, NEW qty \in Nat, pc = "idle",
           Begin(op, id, side, price, qty)
    PROVE  TradesInv'
<1>1. CASE qty = 0
  BY <1>1, IdleTrades DEF Begin
<1>2. CASE qty > 0
  <2>1. pc' = "match" /\ quantity' = qty /\ out' = Result("Success", qty)
    BY <1>2 DEF Begin
  <2>2. /\ out'.filled_quantity = 0 /\ out'.initial_quantity = qty
        /\ out'.trades = <<>> /\ Len(out'.trades) = 0
    BY <2>1, EmptySeq DEF Result
  <2>3. Traded(out'.trades) = 0
    BY <2>2, TradedFacts
  <2> QED BY <2>1, <2>2, <2>3 DEF TradesInv, TradesAccountedFor, LevelsNoBetter
<1> QED BY <1>1, <1>2

LEMMA StepTrades == IInv /\ TradesInv /\ [Next]_vars => TradesInv'
<1> SUFFICES ASSUME IInv, TradesInv, [Next]_vars PROVE TradesInv'
  OBVIOUS
<1>1. CASE Calls
  <2> USE OrderBookAssumption
  <2>1. CASE \E id \in OrderId, side \in Side, price \in Prices, qty \in Quantity :
               add_limit_order(id, side, price, qty)
    BY <2>1, BeginTrades DEF add_limit_order
  <2>2. CASE \E id \in OrderId, side \in Side, qty \in Quantity : add_market_order(id, side, qty)
    BY <2>2, BeginTrades DEF add_market_order
  <2>3. CASE \E h \in Resting : cancel_order(h)
    BY <2>3, IdleTrades DEF cancel_order
  <2>4. CASE \E h \in Resting, side \in Side, price \in Prices, qty \in Quantity :
               modify_order(h, side, price, qty)
    BY <2>4, BeginTrades DEF modify_order
  <2> QED BY <1>1, <2>1, <2>2, <2>3, <2>4 DEF Calls
<1>2. CASE FillPart
  <2>1. AtMaker /\ quantity \in Nat /\ quantity > 0 /\ quantity < order[maker].quantity
        /\ Fill(quantity)
    BY <1>2 DEF IInv, CallInv, CallTypeOK, FillPart, AtMaker, CanMatch
  <2>2. order[maker].quantity \in Nat
    BY <2>1, MakerFacts DEF IInv, OrderData
  <2>3. quantity <= quantity /\ quantity <= order[maker].quantity
    BY <2>1, <2>2
  <2> QED BY <2>1, <2>3, FillTrades
<1>3. CASE FillAll
  <2>1. AtMaker /\ Fill(order[maker].quantity) /\ quantity >= order[maker].quantity
    BY <1>3 DEF FillAll
  <2>2. /\ order[maker].quantity \in Nat /\ order[maker].quantity > 0
        /\ quantity \in Nat
    BY <2>1, MakerFacts DEF IInv, CallInv, CallTypeOK, OrderData
  <2>3. order[maker].quantity <= quantity /\ order[maker].quantity <= order[maker].quantity
    BY <2>1, <2>2
  <2> QED BY <2>1, <2>2, <2>3, FillTrades
<1>4. CASE erase_best
  BY <1>4, DropTrades DEF erase_best, IInv, CallInv, ErasesEmptyBest
<1>5. CASE SkipGhost
  BY <1>5, DropTrades DEF SkipGhost, CanMatch
<1>6. CASE ReturnUnrested \/ RestRemainder
  BY <1>6, IdleTrades DEF ReturnUnrested, RestRemainder, Return
<1>7. CASE PoolExhausted
  <2>1. pc = "match" /\ pc' = "aborted" /\ UNCHANGED <<call, quantity, out>>
    BY <1>7 DEF PoolExhausted, MustRest, LoopDone
  <2> QED BY <2>1 DEF TradesInv, TradesAccountedFor, LevelsNoBetter, WouldTradeAt
<1>8. CASE UNCHANGED vars
  BY <1>8 DEF vars, TradesInv, TradesAccountedFor, LevelsNoBetter, NoBetter, WouldTradeAt,
              oppo_book, oppo_side
<1> QED BY <1>1, <1>2, <1>3, <1>4, <1>5, <1>6, <1>7, <1>8 DEF Next, Steps

\* Every AddResult adds up while it is built: fills and what is left make what
\* was asked, each fill is within the limit, and prices only get worse.
THEOREM TradesAlwaysAccountedFor == Spec => []TradesAccountedFor
<1>1. Init => TradesInv
  BY DEF Init, TradesInv, TradesAccountedFor, LevelsNoBetter
<1>2. IInv /\ TradesInv /\ [Next]_vars => TradesInv'
  BY StepTrades
<1>3. TradesInv => TradesAccountedFor
  BY DEF TradesInv
<1> QED BY <1>1, <1>2, <1>3, Invariance, PTL DEF Spec

-----------------------------------------------------------------------------
(***************************************************************************)
(* What a step does to the resting orders, for the clients of the engine   *)
(* that keep books of their own.  F holds the orders of each level, ord    *)
(* their data; G and ord2 are what they become.                            *)
(***************************************************************************)
IdsIn(ord, F) == {ord[h].id : h \in Listed(F)}

\* Order o of level l leaves.
Leaves(F, G, ord, ord2, l, o) ==
    /\ l \in Levels /\ o \in Handles /\ o \in ToSet(F[l])
    /\ o \in Listed(F) /\ Listed(G) = Listed(F) \ {o}
    /\ \A x \in Levels : ToSet(G[x]) \subseteq ToSet(F[x]) \cap (Handles \ {o})
    /\ \A h \in Handles : h # o => ord2[h] = ord[h]

\* Order o of level l has only left, and keeps its place.
Shrinks(F, ord, ord2, l, o, left) ==
    /\ l \in Levels /\ o \in Handles /\ o \in ToSet(F[l]) /\ o \in Listed(F)
    /\ \A x \in Levels : ToSet(F[x]) \subseteq Handles
    /\ ord2[o].id = ord[o].id /\ ord2[o].quantity = left
    /\ \A h \in Handles : h # o => ord2[h] = ord[h]

\* Order o joins level l.
Joins(F, G, ord, ord2, l, o) ==
    /\ l \in Levels /\ o \in Handles /\ o \notin Listed(F)
    /\ Listed(G) = Listed(F) \cup {o}
    /\ ToSet(G[l]) = ToSet(F[l]) \cup {o}
    /\ \A x \in Levels : x # l => G[x] = F[x]
    /\ \A x \in Levels : ToSet(F[x]) \subseteq Handles
    /\ \A h \in Handles : h # o => ord2[h] = ord[h]

\* The result says that order o was filled by qty.
Reported(r, r2, o, qty) ==
    /\ r.trades \in Seq(TradeRecord)
    /\ \E t \in TradeRecord : /\ t.maker = order[o].id /\ t.quantity = qty
                              /\ r2.trades = Append(r.trades, t)
    /\ r2.code = r.code

LEMMA RestingIs == Resting = Listed(fifo) /\ RestingIds = IdsIn(order, fifo)
BY DEF Resting, Listed, RestingIds, IdsIn

LEMMA RestingIsNext == Resting' = Listed(fifo') /\ RestingIds' = IdsIn(order', fifo')
BY DEF Resting, Listed, RestingIds, IdsIn

LEMMA LevelsHoldHandles == ASSUME StoreInv PROVE \A l \in Levels : ToSet(fifo[l]) \subseteq Handles
BY StoredIs, ToSetOfSeq DEF Stored

\* A removed order leaves every set of orders, and no other does.
LEMMA RemovedFromLevel ==
    ASSUME StoreInv, NEW l \in Levels, NEW o \in ToSet(fifo[l]),
           NEW G, NEW n, NEW g, Unlinked(links, fifo, l, o, n, G, g),
           NEW ord2, \A h \in Handles : h # o => ord2[h] = order[h]
    PROVE  Leaves(fifo, G, order, ord2, l, o)
<1>1. Partitioned(fifo, free) /\ \A x \in Levels : ToSet(fifo[x]) \subseteq Handles
  BY StoredIs, LevelsHoldHandles DEF Stored
<1>2. \A x \in Levels : x # l => o \notin ToSet(fifo[x])
  BY <1>1 DEF Partitioned
<1>3. o \in Listed(fifo)
  BY <1>1 DEF Listed
<1> QED BY <1>1, <1>2, <1>3 DEF Leaves, Unlinked

LEMMA UnlinkLeaves ==
    ASSUME StoreInv, NEW h \in Resting, Unlink(h), UNCHANGED order
    PROVE  \E l \in Levels : Leaves(fifo, fifo', order, order', l, h)
<1>1. PICK l \in Levels : \E k \in 1 .. Len(fifo[l]) :
             /\ h = fifo[l][k]
             /\ links' = Release(Erase(links, l, h), h)
             /\ fifo' = [fifo EXCEPT ![l] = RemoveAt(@, k)]
             /\ free' = <<h>> \o free
  BY UnlinkPlace
<1>2. PICK k \in 1 .. Len(fifo[l]) :
             /\ h = fifo[l][k]
             /\ links' = Release(Erase(links, l, h), h)
             /\ fifo' = [fifo EXCEPT ![l] = RemoveAt(@, k)]
             /\ free' = <<h>> \o free
  BY <1>1
<1>3. Stored(links, fifo, free)
  BY StoredIs
<1>4. Unlinked(links, fifo, l, h, links', fifo', free')
  BY <1>2, <1>3, UnlinkExact
<1>5. h \in ToSet(fifo[l])
  BY <1>2, <1>3, ToSetOfSeq DEF Stored
<1> QED BY <1>4, <1>5, RemovedFromLevel

LEMMA FillPartLedger ==
    ASSUME IInv, FillPart
    PROVE  \E l \in Levels, o \in Handles :
             /\ l = best_level /\ o = maker
             /\ Shrinks(fifo, order, order', l, o, order[o].quantity - quantity)
             /\ quantity \in Nat \ {0} /\ order[o].quantity \in Nat /\ quantity < order[o].quantity
             /\ Reported(out, out', o, quantity)
             /\ pc = "match" /\ UNCHANGED <<fifo, pc, call, book, links, free>> /\ quantity' = 0
<1>1. StoreInv /\ CallInv /\ AtMaker /\ pc = "match" /\ Fill(quantity)
      /\ UNCHANGED <<fifo, pc, links, free>> /\ quantity \in Nat
  BY DEF IInv, FillPart, AtMaker, CallInv, CallTypeOK
<1>2. /\ best_level \in Levels /\ maker \in ToSet(fifo[best_level]) /\ maker \in Handles
      /\ order[maker] \in OrderData /\ order[maker].quantity \in Nat
  BY <1>1, MakerFacts DEF OrderData
<1>3. quantity < order[maker].quantity /\ quantity \in Nat \ {0}
  BY <1>1 DEF FillPart, AtMaker, CanMatch
<1>4. /\ \A h \in Handles : h # maker => order'[h] = order[h]
      /\ order'[maker].id = order[maker].id
      /\ order'[maker].quantity = order[maker].quantity - quantity
      /\ out'.trades = Append(out.trades, Trade(quantity)) /\ Trade(quantity) \in TradeRecord
      /\ call' = call /\ book' = book
  BY <1>1, <1>2, <1>3, FillFacts
<1>5. out'.code = out.code /\ out.trades \in Seq(TradeRecord)
  BY <1>1 DEF Fill, CallInv, CallTypeOK, ResultRecord
<1>6. Reported(out, out', maker, quantity)
  BY <1>4, <1>5 DEF Reported, Trade
<1>7. maker \in Listed(fifo)
  BY <1>2 DEF Listed
<1>8. Shrinks(fifo, order, order', best_level, maker, order[maker].quantity - quantity)
  BY <1>1, <1>2, <1>4, <1>7, LevelsHoldHandles DEF Shrinks
<1>9. quantity' = 0
  BY <1>1 DEF Fill
<1> QED BY <1>1, <1>2, <1>3, <1>4, <1>6, <1>8, <1>9

LEMMA FillAllLedger ==
    ASSUME IInv, FillAll
    PROVE  \E l \in Levels, o \in Handles :
             /\ l = best_level /\ o = maker
             /\ Leaves(fifo, fifo', order, order', l, o)
             /\ order[o].quantity \in Nat \ {0} /\ order[o].quantity <= quantity
             /\ Reported(out, out', o, order[o].quantity)
             /\ pc = "match" /\ UNCHANGED <<call, book>> /\ quantity' = quantity - order[o].quantity
             /\ pc' = IF empty(links', best_level) THEN "erase" ELSE "match"
<1> DEFINE qty == order[maker].quantity
<1>1. StoreInv /\ CallInv /\ AtMaker /\ pc = "match" /\ quantity \in Nat
      /\ pc' = IF empty(links', best_level) THEN "erase" ELSE "match"
  BY DEF IInv, FillAll, AtMaker, CallInv, CallTypeOK
<1>2. /\ best_level \in Levels /\ maker \in ToSet(fifo[best_level]) /\ maker \in Handles
      /\ fifo[best_level] # <<>> /\ 1 \in 1 .. Len(fifo[best_level])
      /\ maker = fifo[best_level][1] /\ qty \in Nat \ {0} /\ qty <= qty
  BY <1>1, MakerFacts DEF OrderData
<1>3. qty <= quantity /\ Fill(qty)
  BY <1>1, <1>2 DEF FillAll
<1>4. /\ \A h \in Handles : h # maker => order'[h] = order[h]
      /\ out'.trades = Append(out.trades, Trade(qty)) /\ Trade(qty) \in TradeRecord
      /\ call' = call /\ book' = book
  BY <1>1, <1>2, <1>3, FillFacts
<1>5. out'.code = out.code /\ out.trades \in Seq(TradeRecord) /\ quantity' = quantity - qty
  BY <1>1, <1>3 DEF Fill, CallInv, CallTypeOK, ResultRecord
<1>6. Reported(out, out', maker, qty)
  BY <1>4, <1>5 DEF Reported, Trade
<1>7. Stored(links, fifo, free)
  BY <1>1, StoredIs
<1>8. /\ fifo' = [fifo EXCEPT ![best_level] = RemoveAt(@, 1)]
      /\ links' = Release(Erase(links, best_level, maker), maker) /\ free' = <<maker>> \o free
  <2>1. fifo[best_level] \in Seq(Handles)
    BY <1>2, <1>7 DEF Stored
  <2> QED BY <1>2, <2>1, TailIsRemoveAt DEF FillAll
<1>9. Unlinked(links, fifo, best_level, maker, links', fifo', free')
  BY <1>2, <1>7, <1>8, UnlinkExact
<1>10. Leaves(fifo, fifo', order, order', best_level, maker)
  BY <1>1, <1>2, <1>4, <1>9, RemovedFromLevel
<1> QED BY <1>1, <1>2, <1>3, <1>4, <1>5, <1>6, <1>10

LEMMA RestLedger ==
    ASSUME IInv, RestRemainder
    PROVE  \E l \in Levels, o \in Handles :
             /\ l = <<call.side, idx_of(call.price)>> /\ l[1] = call.side /\ price_of(l[2]) = call.price
             /\ Joins(fifo, fifo', order, order', l, o)
             /\ fifo' = [fifo EXCEPT ![l] = Append(@, o)]
             /\ order'[o] = [id |-> call.id, price |-> call.price, quantity |-> quantity]
             /\ out'.trades = out.trades /\ out'.code = out.code
             /\ out'.remaining_quantity = quantity /\ out'.handle = o
             /\ quantity \in Nat \ {0} /\ call.op # "market"
             /\ pc = "match" /\ pc' = "idle" /\ call' = NoCall /\ quantity' = 0
<1> DEFINE h     == links.free_head_
           l     == <<call.side, idx_of(call.price)>>
           new   == [id |-> call.id, price |-> call.price, quantity |-> quantity]
<1>1. StoreInv /\ CallInv /\ LoopDone /\ pc = "match" /\ quantity > 0
      /\ call.op # "market" /\ h # NULL
  BY DEF IInv, RestRemainder, MustRest, LoopDone
<1>2. /\ order' = [order EXCEPT ![h] = new]
      /\ links' = Linked(Acquire(links), l, h)
      /\ fifo' = [fifo EXCEPT ![l] = Append(@, h)]
      /\ free' = Tail(free)
      /\ out' = [[out EXCEPT !.handle = h] EXCEPT !.remaining_quantity = quantity]
      /\ pc' = "idle" /\ call' = NoCall /\ quantity' = 0
  BY DEF RestRemainder, Return, Linked
<1>3. /\ call.side \in Side /\ call.price \in Prices /\ quantity \in Nat \ {0} /\ out \in ResultRecord
  BY <1>1 DEF CallInv, CallTypeOK, CallArgs
<1>4. l \in Levels /\ l[1] = call.side /\ price_of(l[2]) = call.price
  BY <1>3, LevelFacts
<1>5. Rested(fifo, l, h, links', fifo', free')
  BY <1>1, <1>2, <1>4, StoredIs, RestExact
<1>6. /\ out'.trades = out.trades /\ out'.remaining_quantity = quantity /\ out'.handle = h
      /\ out'.code = out.code
  BY <1>2, <1>3 DEF ResultRecord
<1>7. h \in Handles /\ order'[h] = new /\ \A x \in Handles : x # h => order'[x] = order[x]
  BY <1>1, <1>2, <1>5 DEF Rested, StoreInv, StoreTypeOK
<1>8. Joins(fifo, fifo', order, order', l, h)
  BY <1>1, <1>4, <1>5, <1>7, LevelsHoldHandles DEF Rested, Joins
<1> QED BY <1>1, <1>2, <1>3, <1>4, <1>6, <1>7, <1>8
=============================================================================

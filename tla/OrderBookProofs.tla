-------------------------- MODULE OrderBookProofs --------------------------
(***************************************************************************)
(* TLAPS proofs about OrderBook, for every set of ids, prices and           *)
(* quantities and every width of the counters: its invariants, and that it  *)
(* implements the price-time auction.                                       *)
(***************************************************************************)
EXTENDS OrderBook, QueueLemmas

----------------------------------------------------------------------------
(* Operators *)

\* Unsigned arithmetic stays within the width.
LEMMA WrapType == \A n \in Int : Wrap(n) \in Quantity
BY WidthAssumption DEF Wrap, Quantity

\* std::min of two quantities.
LEMMA MinOfTwo ==
  ASSUME NEW a \in Int, NEW b \in Int
  PROVE  Min({a, b}) \in {a, b} /\ Min({a, b}) <= a /\ Min({a, b}) <= b
<1>1. \E x \in {a, b} : \A y \in {a, b} : x =< y
  <2>1. CASE a <= b
    BY <2>1
  <2>2. CASE b <= a
    BY <2>2
  <2> QED BY <2>1, <2>2
<1> QED BY <1>1 DEF Min

----------------------------------------------------------------------------
(* The inductive invariant *)

Queue(side, p) == levels[side][p].orders

BookTypeOK ==
  /\ levels \in [Side -> [Price -> PriceLevel]]
  /\ DOMAIN order_index \subseteq OrderId
  /\ order_index \in [DOMAIN order_index -> IndexEntry]
  /\ next_priority_sequence \in SequenceNumber

BookInv == BookTypeOK /\ IndexMatchesQueues /\ FifoByPriority /\ Uncrossed

\* What validate_new has established about the order being matched, and what
\* matching it does not undo.
TakerInv ==
  phase = "matching" =>
    /\ taker \in NewOrder
    /\ taker.type = "Limit" => taker.limit_price \in Price
    /\ taker.order_id \notin DOMAIN order_index
    /\ taker.time_in_force = "PostOnly" => ~would_cross(taker)

IInv == TypeOK /\ BookInv /\ TakerInv

\* An index entry's iterator points at a node of the level the entry names.
LEMMA Located ==
  ASSUME BookInv, NEW id \in DOMAIN order_index
  PROVE  /\ order_index[id].side \in Side /\ order_index[id].price \in Price
         /\ levels[order_index[id].side][order_index[id].price] \in PriceLevel
         /\ Position(id) \in 1..Len(Queue(order_index[id].side, order_index[id].price))
         /\ Queue(order_index[id].side, order_index[id].price)[Position(id)].order_id = id
         /\ Resting(id) = Queue(order_index[id].side, order_index[id].price)[Position(id)]
         /\ Resting(id) \in RestingOrder
<1> DEFINE side == order_index[id].side
           p == order_index[id].price
           q == Queue(side, p)
<1>1. side \in Side /\ p \in Price
  BY DEF BookInv, BookTypeOK, IndexEntry
<1>2. levels[side][p] \in PriceLevel
  BY <1>1 DEF BookInv, BookTypeOK
<1>3. q \in Seq(RestingOrder) /\ DOMAIN q = 1..Len(q)
  BY <1>2 DEF Queue, PriceLevel
<1>4. \E i \in DOMAIN q : q[i].order_id = id
  BY DEF BookInv, IndexMatchesQueues, Queue
<1>5. Position(id) \in DOMAIN q /\ q[Position(id)].order_id = id
  BY <1>4 DEF Position, Queue
<1>6. q[Position(id)] \in RestingOrder
  BY <1>3, <1>5, ElementOfSeq
<1> QED BY <1>1, <1>2, <1>3, <1>5, <1>6 DEF Resting, Queue

\* Each node of a queue belongs to one order, indexed at that level.
LEMMA NodeIndexed ==
  ASSUME BookInv, NEW side \in Side, NEW p \in Price
  PROVE  /\ Queue(side, p) \in Seq(RestingOrder)
         /\ levels[side][p].aggregate_quantity \in Quantity
         /\ DOMAIN Queue(side, p) = 1..Len(Queue(side, p))
         /\ \A i \in 1..Len(Queue(side, p)) :
              /\ Queue(side, p)[i] \in RestingOrder
              /\ Queue(side, p)[i].order_id \in DOMAIN order_index
              /\ order_index[Queue(side, p)[i].order_id] = [side |-> side, price |-> p]
         /\ \A i, j \in 1..Len(Queue(side, p)) :
              Queue(side, p)[i].order_id = Queue(side, p)[j].order_id => i = j
<1> DEFINE q == Queue(side, p)
<1>1. levels[side][p] \in PriceLevel
  BY DEF BookInv, BookTypeOK
<1>2. /\ q \in Seq(RestingOrder) /\ levels[side][p].aggregate_quantity \in Quantity
      /\ DOMAIN q = 1..Len(q)
  BY <1>1 DEF PriceLevel, Queue
<1>3. \A i \in 1..Len(q) : q[i] \in RestingOrder
  BY <1>2, ElementOfSeq
<1>4. /\ \A i \in DOMAIN q :
           /\ q[i].order_id \in DOMAIN order_index
           /\ order_index[q[i].order_id] = [side |-> side, price |-> p]
      /\ IsInjective([i \in DOMAIN q |-> q[i].order_id])
  BY DEF BookInv, IndexMatchesQueues, Queue
<1>5. \A i, j \in 1..Len(q) : q[i].order_id = q[j].order_id => i = j
  BY <1>2, <1>4 DEF IsInjective
<1> QED BY <1>2, <1>3, <1>4, <1>5

----------------------------------------------------------------------------
(* Three ways a level changes: a node is unlinked, resized or appended. *)

\* Unlinking a node and dropping its index entry keeps the book consistent.
LEMMA Unlink ==
  ASSUME BookInv,
         NEW side \in Side, NEW p \in Price, NEW i \in 1..Len(Queue(side, p)),
         NEW agg \in Quantity, NEW q2 \in Seq(RestingOrder),
         Len(q2) = Len(Queue(side, p)) - 1,
         \A j \in 1..Len(q2) :
           q2[j] = IF j < i THEN Queue(side, p)[j] ELSE Queue(side, p)[j + 1],
         levels' = [levels EXCEPT ![side][p] = [aggregate_quantity |-> agg, orders |-> q2]],
         order_index' = Forget(Queue(side, p)[i].order_id),
         next_priority_sequence' = next_priority_sequence
  PROVE  BookInv'
<1> DEFINE q == Queue(side, p)
           id == q[i].order_id
<1>1. /\ levels' \in [Side -> [Price -> PriceLevel]]
      /\ levels'[side][p].orders = q2
      /\ \A s2 \in Side, p2 \in Price :
           s2 # side \/ p2 # p => levels'[s2][p2] = levels[s2][p2]
  BY DEF BookInv, BookTypeOK, PriceLevel
<1>2. /\ DOMAIN order_index' = DOMAIN order_index \ {id}
      /\ \A id2 \in DOMAIN order_index' : order_index'[id2] = order_index[id2]
      /\ order_index' \in [DOMAIN order_index' -> IndexEntry]
  BY DEF Forget, BookInv, BookTypeOK
<1>3. /\ q \in Seq(RestingOrder) /\ DOMAIN q = 1..Len(q)
      /\ \A j \in 1..Len(q) :
           /\ q[j] \in RestingOrder /\ q[j].order_id \in DOMAIN order_index
           /\ order_index[q[j].order_id] = [side |-> side, price |-> p]
      /\ \A j, k \in 1..Len(q) : q[j].order_id = q[k].order_id => j = k
  BY NodeIndexed
<1>4. DOMAIN q2 = 1..Len(q2) /\ Len(q2) \in Nat
  OBVIOUS
<1>5. BookTypeOK'
  BY <1>1, <1>2 DEF BookInv, BookTypeOK
<1>6. \A j \in 1..Len(q2) : \E k \in 1..Len(q) : k # i /\ q2[j] = q[k]
  <2> TAKE j \in 1..Len(q2)
  <2>1. CASE j < i
    <3>1. j \in 1..Len(q) /\ j # i
      BY <2>1, <1>3
    <3> QED BY <3>1, <2>1
  <2>2. CASE ~(j < i)
    <3>1. j + 1 \in 1..Len(q) /\ j + 1 # i
      BY <2>2, <1>3
    <3> QED BY <3>1, <2>2
  <2> QED BY <2>1, <2>2
<1>7. \A k \in 1..Len(q) : k # i => \E j \in 1..Len(q2) : q2[j] = q[k]
  <2> SUFFICES ASSUME NEW k \in 1..Len(q), k # i
               PROVE  \E j \in 1..Len(q2) : q2[j] = q[k]
    OBVIOUS
  <2>1. CASE k < i
    <3>1. k \in 1..Len(q2)
      BY <2>1, <1>3
    <3> QED BY <2>1, <3>1
  <2>2. CASE k > i
    <3>1. k - 1 \in 1..Len(q2) /\ ~(k - 1 < i) /\ (k - 1) + 1 = k
      BY <2>2, <1>3
    <3>2. q2[k - 1] = q[k]
      BY <3>1
    <3> QED BY <3>1, <3>2
  <2> QED BY <2>1, <2>2
<1>8. FifoByPriority'
  <2>1. \A s2 \in Side, p2 \in Price : LET qq == levels[s2][p2].orders IN
          \A j \in DOMAIN qq : /\ qq[j].priority_sequence < next_priority_sequence
                               /\ j > 1 => qq[j - 1].priority_sequence < qq[j].priority_sequence
    BY DEF BookInv, FifoByPriority
  <2>2. \A j \in 1..Len(q) : /\ q[j].priority_sequence < next_priority_sequence
                             /\ j > 1 => q[j - 1].priority_sequence < q[j].priority_sequence
    BY <2>1, <1>3 DEF Queue
  <2>5. \A j \in 1..Len(q) : q[j].priority_sequence \in Int
    BY <1>3 DEF RestingOrder, SequenceNumber
  <2>3. ASSUME NEW j \in 1..Len(q2)
        PROVE  /\ q2[j].priority_sequence < next_priority_sequence
               /\ j > 1 => q2[j - 1].priority_sequence < q2[j].priority_sequence
    <3>1. q2[j].priority_sequence < next_priority_sequence
      BY <1>6, <2>2
    <3>2. ASSUME j > 1, j < i
          PROVE  q2[j - 1].priority_sequence < q2[j].priority_sequence
      <4>1. q2[j] = q[j] /\ q2[j - 1] = q[j - 1] /\ j \in 1..Len(q)
        BY <3>2, <1>3, <1>4
      <4> QED BY <4>1, <3>2, <2>2
    <3>3. ASSUME j > 1, j > i
          PROVE  q2[j - 1].priority_sequence < q2[j].priority_sequence
      <4>1. q2[j] = q[j + 1] /\ q2[j - 1] = q[(j - 1) + 1]
        BY <3>3, <1>3, <1>4
      <4>2. j + 1 \in 1..Len(q) /\ j + 1 > 1 /\ (j - 1) + 1 = j /\ (j + 1) - 1 = j
        BY <3>3, <1>3, <1>4
      <4>3. q[(j + 1) - 1].priority_sequence < q[j + 1].priority_sequence
        BY <4>2, <2>2
      <4> QED BY <4>1, <4>2, <4>3
    <3>4. ASSUME j > 1, j = i
          PROVE  q2[j - 1].priority_sequence < q2[j].priority_sequence
      <4>1. q2[j] = q[j + 1] /\ q2[j - 1] = q[j - 1]
        BY <3>4, <1>3, <1>4
      <4>2. j \in 1..Len(q) /\ j + 1 \in 1..Len(q) /\ j - 1 \in 1..Len(q) /\ (j + 1) - 1 = j
        BY <3>4, <1>3, <1>4
      <4>3. /\ q[j - 1].priority_sequence < q[j].priority_sequence
            /\ q[(j + 1) - 1].priority_sequence < q[j + 1].priority_sequence
        BY <4>2, <3>4, <2>2
      <4>4. /\ q[j - 1].priority_sequence \in Int /\ q[j].priority_sequence \in Int
            /\ q[j + 1].priority_sequence \in Int
        BY <4>2, <2>5
      <4> QED BY <4>1, <4>2, <4>3, <4>4
    <3> QED BY <3>1, <3>2, <3>3, <3>4
  <2>4. ASSUME NEW s2 \in Side, NEW p2 \in Price,
               NEW j \in DOMAIN levels'[s2][p2].orders
        PROVE  LET qq == levels'[s2][p2].orders
               IN  /\ qq[j].priority_sequence < next_priority_sequence'
                   /\ j > 1 => qq[j - 1].priority_sequence < qq[j].priority_sequence
    <3>1. CASE s2 = side /\ p2 = p
      BY <3>1, <1>1, <1>4, <2>3
    <3>2. CASE s2 # side \/ p2 # p
      BY <3>2, <1>1, <2>1
    <3> QED BY <3>1, <3>2
  <2> QED BY <2>4 DEF FifoByPriority
<1>9. Uncrossed'
  <2>1. \A s2 \in Side : Occupied(s2)' \subseteq Occupied(s2)
    <3> SUFFICES ASSUME NEW s2 \in Side, NEW p2 \in Price, levels'[s2][p2].orders # <<>>
                 PROVE  levels[s2][p2].orders # <<>>
      BY DEF Occupied
    <3>1. CASE s2 = side /\ p2 = p
      BY <3>1, <1>3 DEF Queue
    <3>2. CASE s2 # side \/ p2 # p
      BY <3>2, <1>1
    <3> QED BY <3>1, <3>2
  <2> QED BY <2>1 DEF BookInv, Uncrossed, Side
<1>10. IndexMatchesQueues'
  <2>1. ASSUME NEW id2 \in DOMAIN order_index'
        PROVE  LET qq == levels'[order_index'[id2].side][order_index'[id2].price].orders
               IN  \E j \in DOMAIN qq : qq[j].order_id = id2
    <3> DEFINE s2 == order_index[id2].side
               p2 == order_index[id2].price
    <3>1. id2 \in DOMAIN order_index /\ id2 # id /\ order_index'[id2] = order_index[id2]
      BY <1>2
    <3>2. /\ s2 \in Side /\ p2 \in Price
          /\ Position(id2) \in 1..Len(Queue(s2, p2))
          /\ Queue(s2, p2)[Position(id2)].order_id = id2
      BY <3>1, Located
    <3>3. CASE s2 = side /\ p2 = p
      <4>1. Position(id2) \in 1..Len(q) /\ q[Position(id2)].order_id = id2
        BY <3>2, <3>3
      <4>2. Position(id2) # i
        BY <4>1, <3>1
      <4>3. \E j \in 1..Len(q2) : q2[j].order_id = id2
        BY <4>1, <4>2, <1>7
      <4>4. levels'[s2][p2].orders = q2
        BY <3>3, <1>1
      <4>5. levels'[order_index'[id2].side][order_index'[id2].price].orders = q2
        BY <4>4, <3>1
      <4>6. DOMAIN q2 = 1..Len(q2)
        BY <1>4
      <4> QED BY <4>3, <4>5, <4>6
    <3>4. CASE s2 # side \/ p2 # p
      <4>1. levels'[s2][p2].orders = Queue(s2, p2)
        BY <3>2, <3>4, <1>1 DEF Queue
      <4>2. DOMAIN Queue(s2, p2) = 1..Len(Queue(s2, p2))
        BY <3>2, NodeIndexed
      <4> QED BY <4>1, <4>2, <3>1, <3>2
    <3> QED BY <3>3, <3>4
  <2>2. ASSUME NEW s2 \in Side, NEW p2 \in Price
        PROVE  LET qq == levels'[s2][p2].orders
               IN  /\ \A j \in DOMAIN qq :
                        /\ qq[j].order_id \in DOMAIN order_index'
                        /\ order_index'[qq[j].order_id] = [side |-> s2, price |-> p2]
                   /\ IsInjective([j \in DOMAIN qq |-> qq[j].order_id])
    <3>1. CASE s2 = side /\ p2 = p
      <4>1. \A j \in 1..Len(q2) :
              /\ q2[j].order_id \in DOMAIN order_index'
              /\ order_index'[q2[j].order_id] = [side |-> s2, price |-> p2]
        BY <1>6, <1>3, <1>2, <3>1
      <4>2. ASSUME NEW j \in 1..Len(q2), NEW k \in 1..Len(q2),
                   q2[j].order_id = q2[k].order_id
            PROVE  j = k
        <5> DEFINE At(n) == IF n < i THEN n ELSE n + 1
        <5>1. /\ At(j) \in 1..Len(q) /\ At(k) \in 1..Len(q)
              /\ q2[j] = q[At(j)] /\ q2[k] = q[At(k)]
          BY <1>3, <1>4
        <5>2. At(j) = At(k)
          BY <5>1, <4>2, <1>3
        <5> QED BY <5>2
      <4>3. IsInjective([j \in DOMAIN q2 |-> q2[j].order_id])
        BY <4>2, <1>4 DEF IsInjective
      <4>4. levels'[s2][p2].orders = q2
        BY <3>1, <1>1
      <4> QED BY <4>1, <4>3, <4>4, <1>4
    <3>2. CASE s2 # side \/ p2 # p
      <4>1. levels'[s2][p2].orders = Queue(s2, p2)
        BY <3>2, <1>1 DEF Queue
      <4>2. /\ DOMAIN Queue(s2, p2) = 1..Len(Queue(s2, p2))
            /\ \A j \in 1..Len(Queue(s2, p2)) :
              /\ Queue(s2, p2)[j].order_id \in DOMAIN order_index
              /\ order_index[Queue(s2, p2)[j].order_id] = [side |-> s2, price |-> p2]
            /\ \A j, k \in 1..Len(Queue(s2, p2)) :
              Queue(s2, p2)[j].order_id = Queue(s2, p2)[k].order_id => j = k
        BY NodeIndexed
      <4>3. order_index[id] = [side |-> side, price |-> p]
        BY <1>3
      <4>4. \A j \in 1..Len(Queue(s2, p2)) : Queue(s2, p2)[j].order_id # id
        BY <4>2, <4>3, <3>2
      <4>5. IsInjective([j \in DOMAIN Queue(s2, p2) |-> Queue(s2, p2)[j].order_id])
        BY <4>2 DEF IsInjective
      <4>6. \A j \in DOMAIN Queue(s2, p2) :
              /\ Queue(s2, p2)[j].order_id \in DOMAIN order_index'
              /\ order_index'[Queue(s2, p2)[j].order_id] = [side |-> s2, price |-> p2]
        BY <4>2, <4>4, <1>2
      <4> QED BY <4>1, <4>5, <4>6
    <3> QED BY <3>1, <3>2
  <2> QED BY <2>1, <2>2 DEF IndexMatchesQueues
<1> QED BY <1>5, <1>8, <1>9, <1>10 DEF BookInv

\* Changing open quantities in place keeps the book consistent.
LEMMA Resize ==
  ASSUME BookInv,
         NEW side \in Side, NEW p \in Price,
         NEW agg \in Quantity, NEW q2 \in Seq(RestingOrder),
         Len(q2) = Len(Queue(side, p)),
         \A j \in 1..Len(q2) :
           /\ q2[j].order_id = Queue(side, p)[j].order_id
           /\ q2[j].priority_sequence = Queue(side, p)[j].priority_sequence,
         levels' = [levels EXCEPT ![side][p] = [aggregate_quantity |-> agg, orders |-> q2]],
         order_index' = order_index,
         next_priority_sequence' = next_priority_sequence
  PROVE  BookInv'
<1> DEFINE q == Queue(side, p)
<1>1. /\ levels' \in [Side -> [Price -> PriceLevel]]
      /\ levels'[side][p].orders = q2
      /\ \A s2 \in Side, p2 \in Price :
           s2 # side \/ p2 # p => levels'[s2][p2] = levels[s2][p2]
  BY DEF BookInv, BookTypeOK, PriceLevel
<1>2. BookTypeOK'
  BY <1>1 DEF BookInv, BookTypeOK
<1>3. /\ q \in Seq(RestingOrder) /\ DOMAIN q = 1..Len(q) /\ DOMAIN q2 = DOMAIN q
      /\ q # <<>> <=> q2 # <<>>
  <2>1. q \in Seq(RestingOrder) /\ DOMAIN q = 1..Len(q)
    BY NodeIndexed
  <2>2. DOMAIN q2 = 1..Len(q2)
    OBVIOUS
  <2>3. q # <<>> <=> q2 # <<>>
    BY <2>1
  <2> QED BY <2>1, <2>2, <2>3
<1>4. ASSUME NEW s2 \in Side, NEW p2 \in Price
      PROVE  /\ DOMAIN levels'[s2][p2].orders = DOMAIN levels[s2][p2].orders
             /\ \A j \in DOMAIN levels[s2][p2].orders :
                  /\ levels'[s2][p2].orders[j].order_id = levels[s2][p2].orders[j].order_id
                  /\ levels'[s2][p2].orders[j].priority_sequence =
                       levels[s2][p2].orders[j].priority_sequence
  <2>1. CASE s2 = side /\ p2 = p
    BY <2>1, <1>1, <1>3 DEF Queue
  <2>2. CASE s2 # side \/ p2 # p
    BY <2>2, <1>1
  <2> QED BY <2>1, <2>2
<1>5. FifoByPriority'
  <2>1. ASSUME NEW s2 \in Side, NEW p2 \in Price, NEW j \in DOMAIN levels'[s2][p2].orders
        PROVE  LET qq == levels'[s2][p2].orders
               IN  /\ qq[j].priority_sequence < next_priority_sequence'
                   /\ j > 1 => qq[j - 1].priority_sequence < qq[j].priority_sequence
    <3>1. /\ levels[s2][p2].orders[j].priority_sequence < next_priority_sequence
          /\ j > 1 => levels[s2][p2].orders[j - 1].priority_sequence
                        < levels[s2][p2].orders[j].priority_sequence
      BY <1>4 DEF BookInv, FifoByPriority
    <3>2. DOMAIN levels[s2][p2].orders = 1..Len(levels[s2][p2].orders)
      BY NodeIndexed DEF Queue
    <3>3. j > 1 => j - 1 \in DOMAIN levels[s2][p2].orders
      BY <3>2, <1>4
    <3> QED BY <3>1, <3>3, <1>4
  <2> QED BY <2>1 DEF FifoByPriority
<1>6. Uncrossed'
  <2>1. \A s2 \in Side : Occupied(s2)' \subseteq Occupied(s2)
    <3> SUFFICES ASSUME NEW s2 \in Side, NEW p2 \in Price, levels'[s2][p2].orders # <<>>
                 PROVE  levels[s2][p2].orders # <<>>
      BY DEF Occupied
    <3>1. CASE s2 = side /\ p2 = p
      BY <3>1, <1>1, <1>3 DEF Queue
    <3>2. CASE s2 # side \/ p2 # p
      BY <3>2, <1>1
    <3> QED BY <3>1, <3>2
  <2> QED BY <2>1 DEF BookInv, Uncrossed, Side
<1>7. IndexMatchesQueues'
  <2>1. ASSUME NEW id2 \in DOMAIN order_index
        PROVE  LET qq == levels'[order_index[id2].side][order_index[id2].price].orders
               IN  \E j \in DOMAIN qq : qq[j].order_id = id2
    <3>1. /\ order_index[id2].side \in Side /\ order_index[id2].price \in Price
          /\ Position(id2) \in 1..Len(Queue(order_index[id2].side, order_index[id2].price))
          /\ Queue(order_index[id2].side, order_index[id2].price)[Position(id2)].order_id = id2
      BY Located
    <3>2. DOMAIN Queue(order_index[id2].side, order_index[id2].price)
            = 1..Len(Queue(order_index[id2].side, order_index[id2].price))
      BY <3>1, NodeIndexed
    <3>3. \E j \in DOMAIN levels[order_index[id2].side][order_index[id2].price].orders :
            levels[order_index[id2].side][order_index[id2].price].orders[j].order_id = id2
      BY <3>1, <3>2 DEF Queue
    <3> QED BY <3>1, <3>3, <1>4
  <2>2. ASSUME NEW s2 \in Side, NEW p2 \in Price
        PROVE  LET qq == levels'[s2][p2].orders
               IN  /\ \A j \in DOMAIN qq :
                        /\ qq[j].order_id \in DOMAIN order_index'
                        /\ order_index'[qq[j].order_id] = [side |-> s2, price |-> p2]
                   /\ IsInjective([j \in DOMAIN qq |-> qq[j].order_id])
    <3> DEFINE old == levels[s2][p2].orders
               new == levels'[s2][p2].orders
    <3>4. DOMAIN new = DOMAIN old /\ \A j \in DOMAIN old : new[j].order_id = old[j].order_id
      BY <1>4
    <3>1. [j \in DOMAIN new |-> new[j].order_id] = [j \in DOMAIN old |-> old[j].order_id]
      <4> HIDE DEF old, new
      <4> QED BY <3>4
    <3>2. /\ \A j \in DOMAIN levels[s2][p2].orders :
               /\ levels[s2][p2].orders[j].order_id \in DOMAIN order_index
               /\ order_index[levels[s2][p2].orders[j].order_id] = [side |-> s2, price |-> p2]
          /\ IsInjective([j \in DOMAIN levels[s2][p2].orders |->
                            levels[s2][p2].orders[j].order_id])
      BY DEF BookInv, IndexMatchesQueues
    <3>3. \A j \in DOMAIN levels'[s2][p2].orders :
            /\ levels'[s2][p2].orders[j].order_id \in DOMAIN order_index'
            /\ order_index'[levels'[s2][p2].orders[j].order_id] = [side |-> s2, price |-> p2]
      BY <3>2, <3>4
    <3>6. IsInjective([j \in DOMAIN old |-> old[j].order_id])
      BY <3>2
    <3>5. IsInjective([j \in DOMAIN new |-> new[j].order_id])
      <4> HIDE DEF old, new
      <4> QED BY <3>1, <3>6
    <3> QED BY <3>3, <3>5
  <2>3. \A id2 \in DOMAIN order_index' :
          LET qq == levels'[order_index'[id2].side][order_index'[id2].price].orders
          IN  \E j \in DOMAIN qq : qq[j].order_id = id2
    BY <2>1
  <2> QED BY <2>2, <2>3 DEF IndexMatchesQueues
<1> QED BY <1>2, <1>5, <1>6, <1>7 DEF BookInv

\* Appending an order that crosses nothing keeps the book consistent.
LEMMA Enqueue ==
  ASSUME BookInv,
         NEW side \in Side, NEW p \in Price, NEW agg \in Quantity,
         NEW node \in RestingOrder,
         node.order_id \notin DOMAIN order_index,
         node.priority_sequence = next_priority_sequence,
         \A p2 \in Occupied(Opposite(side)) : Better(side, p2, p),
         levels' = [levels EXCEPT ![side][p] =
           [aggregate_quantity |-> agg, orders |-> Append(Queue(side, p), node)]],
         order_index' = [id \in DOMAIN order_index \cup {node.order_id} |->
           IF id = node.order_id THEN [side |-> side, price |-> p] ELSE order_index[id]],
         next_priority_sequence \in SequenceNumber \ {kMaxSequence},
         next_priority_sequence' = next_priority_sequence + 1
  PROVE  BookInv'
<1> DEFINE q == Queue(side, p)
           q2 == Append(q, node)
           id == node.order_id
<1>1. /\ q \in Seq(RestingOrder) /\ DOMAIN q = 1..Len(q) /\ Len(q) \in Nat
      /\ \A j \in 1..Len(q) :
           /\ q[j] \in RestingOrder /\ q[j].order_id \in DOMAIN order_index
           /\ order_index[q[j].order_id] = [side |-> side, price |-> p]
      /\ \A j, k \in 1..Len(q) : q[j].order_id = q[k].order_id => j = k
  BY NodeIndexed
<1>2. /\ q2 \in Seq(RestingOrder) /\ Len(q2) = Len(q) + 1 /\ DOMAIN q2 = 1..(Len(q) + 1)
      /\ q2[Len(q) + 1] = node
      /\ \A j \in 1..Len(q) : q2[j] = q[j]
  BY <1>1
<1> HIDE DEF q2
<1>3. /\ levels' \in [Side -> [Price -> PriceLevel]]
      /\ levels'[side][p].orders = q2
      /\ \A s2 \in Side, p2 \in Price :
           s2 # side \/ p2 # p => levels'[s2][p2] = levels[s2][p2]
  BY <1>2 DEF BookInv, BookTypeOK, PriceLevel, q2
<1>4. /\ DOMAIN order_index' = DOMAIN order_index \cup {id}
      /\ order_index'[id] = [side |-> side, price |-> p]
      /\ \A id2 \in DOMAIN order_index : order_index'[id2] = order_index[id2]
  OBVIOUS
<1>5. BookTypeOK'
  <2>1. id \in OrderId
    BY DEF RestingOrder
  <2>2. order_index' \in [DOMAIN order_index' -> IndexEntry]
    BY <1>4 DEF BookInv, BookTypeOK, IndexEntry
  <2>3. next_priority_sequence' \in SequenceNumber
    BY WidthAssumption DEF SequenceNumber
  <2> QED BY <2>1, <2>2, <2>3, <1>3, <1>4 DEF BookInv, BookTypeOK
<1>6. FifoByPriority'
  <2>1. ASSUME NEW s2 \in Side, NEW p2 \in Price
        PROVE  /\ DOMAIN Queue(s2, p2) = 1..Len(Queue(s2, p2))
               /\ \A j \in 1..Len(Queue(s2, p2)) :
                    /\ Queue(s2, p2)[j].priority_sequence \in Int
                    /\ Queue(s2, p2)[j].priority_sequence < next_priority_sequence
                    /\ j > 1 => Queue(s2, p2)[j - 1].priority_sequence
                                  < Queue(s2, p2)[j].priority_sequence
    <3>1. /\ DOMAIN Queue(s2, p2) = 1..Len(Queue(s2, p2))
          /\ \A j \in 1..Len(Queue(s2, p2)) : Queue(s2, p2)[j] \in RestingOrder
      BY NodeIndexed
    <3> QED BY <3>1 DEF BookInv, FifoByPriority, Queue, RestingOrder, SequenceNumber
  <2>2. next_priority_sequence \in Int
    BY DEF SequenceNumber
  <2>3. ASSUME NEW s2 \in Side, NEW p2 \in Price, NEW j \in DOMAIN levels'[s2][p2].orders
        PROVE  LET qq == levels'[s2][p2].orders
               IN  /\ qq[j].priority_sequence < next_priority_sequence'
                   /\ j > 1 => qq[j - 1].priority_sequence < qq[j].priority_sequence
    <3>1. CASE (s2 = side /\ p2 = p) /\ j <= Len(q)
      <4>1. j \in 1..Len(q) /\ (j > 1 => j - 1 \in 1..Len(q))
        BY <3>1, <1>2, <1>3
      <4> QED BY <4>1, <3>1, <2>1, <2>2, <1>2, <1>3
    <3>2. CASE (s2 = side /\ p2 = p) /\ j = Len(q) + 1
      <4>1. j > 1 => j - 1 \in 1..Len(q) /\ q2[j - 1] = q[j - 1]
        BY <3>2, <1>1, <1>2
      <4>2. q2[j] = node
        BY <3>2, <1>2
      <4>3. j > 1 => q[j - 1].priority_sequence < next_priority_sequence
        BY <4>1, <2>1
      <4>4. q2[j].priority_sequence = next_priority_sequence
        BY <4>2
      <4>5. j > 1 => q2[j - 1].priority_sequence < q2[j].priority_sequence
        BY <4>1, <4>3, <4>4
      <4>6. q2[j].priority_sequence < next_priority_sequence'
        BY <4>4, <2>2
      <4> QED BY <4>5, <4>6, <3>2, <1>3
    <3>3. CASE s2 # side \/ p2 # p
      <4>1. levels'[s2][p2].orders = Queue(s2, p2)
        BY <3>3, <1>3 DEF Queue
      <4>2. j \in 1..Len(Queue(s2, p2))
        BY <4>1, <2>1
      <4> QED BY <4>1, <4>2, <2>1, <2>2
    <3> QED BY <3>1, <3>2, <3>3, <1>1, <1>2, <1>3
  <2> QED BY <2>3 DEF FifoByPriority
<1>7. Uncrossed'
  <2>1. /\ Occupied(side)' \subseteq Occupied(side) \cup {p}
        /\ Occupied(Opposite(side))' = Occupied(Opposite(side))
    BY <1>3 DEF Occupied, Opposite, Side
  <2> QED BY <2>1 DEF BookInv, Uncrossed, Better, Opposite, Side
<1>8. IndexMatchesQueues'
  <2>1. ASSUME NEW id2 \in DOMAIN order_index'
        PROVE  LET qq == levels'[order_index'[id2].side][order_index'[id2].price].orders
               IN  \E j \in DOMAIN qq : qq[j].order_id = id2
    <3>1. CASE id2 = id
      <4>1. Len(q) + 1 \in DOMAIN q2 /\ q2[Len(q) + 1].order_id = id
        BY <1>1, <1>2
      <4> QED BY <3>1, <4>1, <1>3, <1>4, ZenonT(40)
    <3>2. CASE id2 # id
      <4> DEFINE s2 == order_index[id2].side
                 p2 == order_index[id2].price
      <4>1. id2 \in DOMAIN order_index /\ order_index'[id2] = order_index[id2]
        BY <3>2, <1>4
      <4>2. /\ s2 \in Side /\ p2 \in Price
            /\ Position(id2) \in 1..Len(Queue(s2, p2))
            /\ Queue(s2, p2)[Position(id2)].order_id = id2
        BY <4>1, Located
      <4>3. CASE s2 = side /\ p2 = p
        <5>1. Position(id2) \in DOMAIN q2 /\ q2[Position(id2)].order_id = id2
          BY <4>2, <4>3, <1>1, <1>2
        <5> QED BY <5>1, <4>1, <4>3, <1>3
      <4>4. CASE s2 # side \/ p2 # p
        <5>1. levels'[s2][p2].orders = Queue(s2, p2)
          BY <4>2, <4>4, <1>3 DEF Queue
        <5>2. DOMAIN Queue(s2, p2) = 1..Len(Queue(s2, p2))
          BY <4>2, NodeIndexed
        <5> QED BY <5>1, <5>2, <4>1, <4>2
      <4> QED BY <4>3, <4>4
    <3> QED BY <3>1, <3>2
  <2>2. ASSUME NEW s2 \in Side, NEW p2 \in Price
        PROVE  LET qq == levels'[s2][p2].orders
               IN  /\ \A j \in DOMAIN qq :
                        /\ qq[j].order_id \in DOMAIN order_index'
                        /\ order_index'[qq[j].order_id] = [side |-> s2, price |-> p2]
                   /\ IsInjective([j \in DOMAIN qq |-> qq[j].order_id])
    <3>1. CASE s2 = side /\ p2 = p
      <4>1. \A j \in DOMAIN q2 :
              /\ q2[j].order_id \in DOMAIN order_index'
              /\ order_index'[q2[j].order_id] = [side |-> s2, price |-> p2]
        BY <3>1, <1>1, <1>2, <1>4
      <4>2. \A j, k \in DOMAIN q2 : q2[j].order_id = q2[k].order_id => j = k
        BY <1>1, <1>2
      <4>3. IsInjective([j \in DOMAIN q2 |-> q2[j].order_id])
        BY <4>2 DEF IsInjective
      <4> QED BY <3>1, <4>1, <4>3, <1>3
    <3>2. CASE s2 # side \/ p2 # p
      <4>1. levels'[s2][p2].orders = levels[s2][p2].orders
        BY <3>2, <1>3
      <4>2. /\ \A j \in DOMAIN levels[s2][p2].orders :
                 /\ levels[s2][p2].orders[j].order_id \in DOMAIN order_index
                 /\ order_index[levels[s2][p2].orders[j].order_id] = [side |-> s2, price |-> p2]
            /\ IsInjective([j \in DOMAIN levels[s2][p2].orders |->
                              levels[s2][p2].orders[j].order_id])
        BY DEF BookInv, IndexMatchesQueues
      <4>3. \A j \in DOMAIN levels[s2][p2].orders :
              /\ levels[s2][p2].orders[j].order_id \in DOMAIN order_index'
              /\ order_index'[levels[s2][p2].orders[j].order_id] = [side |-> s2, price |-> p2]
        BY <4>2, <1>4
      <4> QED BY <4>1, <4>2, <4>3, ZenonT(40)
    <3> QED BY <3>1, <3>2
  <2> QED BY <2>1, <2>2 DEF IndexMatchesQueues
<1> QED BY <1>5, <1>6, <1>7, <1>8 DEF BookInv

----------------------------------------------------------------------------
(* The helpers of the actions *)

\* take_event_sequence keeps the types of the counter, the vector and the phase.
LEMMA EmitType ==
  ASSUME next_event_sequence \in SequenceNumber,
         NEW before \in Seq(Event), NEW event \in Event, NEW then,
         Emit(before, event, then)
  PROVE  /\ next_event_sequence' \in SequenceNumber
         /\ events' \in Seq(Event)
         /\ phase' \in {then, "failed"}
<1>1. Append(before, event) \in Seq(Event) /\ <<>> \in Seq(Event)
  OBVIOUS
<1>2. CASE next_event_sequence # kMaxSequence
  BY <1>1, <1>2, WidthAssumption DEF Emit, SequenceNumber
<1>3. CASE next_event_sequence = kMaxSequence
  BY <1>1, <1>3 DEF Emit
<1> QED BY <1>2, <1>3

\* erase_indexed keeps the types and the consistency of the book.
LEMMA EraseKeeps ==
  ASSUME BookInv, NEW id \in DOMAIN order_index,
         erase_indexed(id), next_priority_sequence' = next_priority_sequence
  PROVE  BookInv' /\ DOMAIN order_index' = DOMAIN order_index \ {id}
<1> DEFINE side == order_index[id].side
           p == order_index[id].price
           q == Queue(side, p)
           i == Position(id)
           agg == Wrap(levels[side][p].aggregate_quantity - Resting(id).remaining_quantity)
<1>1. /\ side \in Side /\ p \in Price /\ i \in 1..Len(q) /\ q[i].order_id = id
      /\ Resting(id) \in RestingOrder
  BY Located
<1>2. q \in Seq(RestingOrder) /\ levels[side][p].aggregate_quantity \in Quantity
  BY <1>1, NodeIndexed
<1>3. agg \in Quantity
  <2>1. levels[side][p].aggregate_quantity - Resting(id).remaining_quantity \in Int
    BY <1>1, <1>2 DEF RestingOrder, Quantity
  <2> QED BY <2>1, WrapType
<1>4. /\ RemoveAt(q, i) \in Seq(RestingOrder)
      /\ Len(RemoveAt(q, i)) = Len(q) - 1
      /\ \A j \in 1..(Len(q) - 1) : RemoveAt(q, i)[j] = IF j < i THEN q[j] ELSE q[j + 1]
  BY <1>1, <1>2, RemoveAtProperties
<1>5. /\ levels' = [levels EXCEPT ![side][p] =
            [aggregate_quantity |-> agg, orders |-> RemoveAt(q, i)]]
      /\ order_index' = Forget(q[i].order_id)
  BY <1>1 DEF erase_indexed, Queue
<1> HIDE DEF agg, i, q
<1>6. BookInv'
  BY <1>1, <1>3, <1>4, <1>5, Unlink DEF q
<1>7. DOMAIN order_index' = DOMAIN order_index \ {id}
  BY <1>1, <1>5 DEF Forget
<1> QED BY <1>6, <1>7

\* Reducing a resting order in place keeps the types and the consistency of the book.
LEMMA SetRemainingKeeps ==
  ASSUME BookInv, NEW id \in DOMAIN order_index, NEW quantity \in Quantity,
         set_remaining(id, quantity)
  PROVE  BookInv'
<1> DEFINE side == order_index[id].side
           p == order_index[id].price
           q == Queue(side, p)
           i == Position(id)
           q2 == [q EXCEPT ![i].remaining_quantity = quantity]
           agg == Wrap(levels[side][p].aggregate_quantity
                         - (Resting(id).remaining_quantity - quantity))
<1>1. /\ side \in Side /\ p \in Price /\ i \in 1..Len(q)
      /\ Resting(id) \in RestingOrder
  BY Located
<1>2. /\ q \in Seq(RestingOrder) /\ levels[side][p].aggregate_quantity \in Quantity
      /\ \A j \in 1..Len(q) : q[j] \in RestingOrder
  BY <1>1, NodeIndexed
<1>3. agg \in Quantity
  BY <1>1, <1>2, WrapType DEF RestingOrder, Quantity
<1>4. [q[i] EXCEPT !.remaining_quantity = quantity] \in RestingOrder
  BY <1>1, <1>2 DEF RestingOrder
<1>5. /\ q2 \in Seq(RestingOrder) /\ Len(q2) = Len(q)
      /\ \A j \in 1..Len(q2) : /\ q2[j].order_id = q[j].order_id
                               /\ q2[j].priority_sequence = q[j].priority_sequence
  <2>1. q2 = [q EXCEPT ![i] = [q[i] EXCEPT !.remaining_quantity = quantity]]
    BY <1>1, <1>2
  <2>2. q2 \in Seq(RestingOrder) /\ Len(q2) = Len(q)
    BY <2>1, <1>1, <1>2, <1>4, ExceptSeq
  <2>3. \A j \in 1..Len(q) :
          q2[j] = IF j = i THEN [q[i] EXCEPT !.remaining_quantity = quantity] ELSE q[j]
    BY <2>1, <1>1, <1>2
  <2> QED BY <2>2, <2>3, <1>1, <1>2 DEF RestingOrder
<1>6. /\ levels' = [levels EXCEPT ![side][p] = [aggregate_quantity |-> agg, orders |-> q2]]
      /\ order_index' = order_index /\ next_priority_sequence' = next_priority_sequence
  BY DEF set_remaining, Queue
<1> HIDE DEF agg, i, q, q2
<1> QED BY <1>1, <1>3, <1>5, <1>6, Resize DEF q

\* validate_new answers "Valid" or one of the reject reasons.
LEMMA VerdictType ==
  \A c, rest, replacing : validate_new(c, rest, replacing) \in RejectReason \cup {Valid}
BY DEF validate_new, RejectReason, Valid

\* What a new order that passed validate_new satisfies.
LEMMA ValidNew ==
  ASSUME NEW c, NEW rest, NEW replacing, validate_new(c, rest, replacing) = Valid
  PROVE  /\ c.order_id \in DOMAIN order_index => replacing
         /\ c.limit_price \in IF c.type = "Limit" THEN Price ELSE {NoPrice}
         /\ c.time_in_force = "PostOnly" => ~would_cross(c)
         /\ c.type = "Market" => c.time_in_force \in {"IOC", "FOK"}
BY DEF validate_new, Valid

\* UNCHANGED book keeps everything said of the book.
LEMMA BookUnchanged ==
  ASSUME BookInv, UNCHANGED book
  PROVE  BookInv'
<1>1. levels' = levels /\ order_index' = order_index /\ next_priority_sequence' = next_priority_sequence
  BY DEF book
<1>2. BookTypeOK'
  BY <1>1 DEF BookInv, BookTypeOK
<1>3. IndexMatchesQueues'
  BY <1>1 DEF BookInv, IndexMatchesQueues
<1>4. FifoByPriority'
  BY <1>1 DEF BookInv, FifoByPriority
<1>5. Uncrossed'
  BY <1>1 DEF BookInv, Uncrossed, Occupied
<1> QED BY <1>2, <1>3, <1>4, <1>5 DEF BookInv

\* A rejected command keeps the inductive invariant.
LEMMA RejectKeeps ==
  ASSUME IInv, NEW id \in OrderId, NEW reason \in RejectReason, phase = "idle",
         Reject(id, reason)
  PROVE  IInv'
<1>1. [kind |-> "Rejected", order_id |-> id, reason |-> reason] \in Event
  BY DEF Event
<1>2. <<>> \in Seq(Event)
  OBVIOUS
<1>3. next_event_sequence' \in SequenceNumber /\ events' \in Seq(Event)
      /\ phase' \in {"idle", "failed"}
  BY <1>1, <1>2, EmitType DEF Reject, IInv, TypeOK
<1>4. UNCHANGED <<book, taker, remaining>>
  BY DEF Reject
<1>5. TypeOK'
  BY <1>3, <1>4 DEF IInv, TypeOK, book
<1>6. BookInv'
  BY <1>4, BookUnchanged DEF IInv
<1>7. TakerInv'
  BY <1>3 DEF TakerInv
<1> QED BY <1>5, <1>6, <1>7 DEF IInv

----------------------------------------------------------------------------
(* One lemma per action *)

\* A freshly constructed book satisfies the inductive invariant.
LEMMA InitIInv == Init => IInv
<1> SUFFICES ASSUME Init PROVE IInv
  OBVIOUS
<1>1. NoLevel \in PriceLevel
  <2>1. <<>> \in Seq(RestingOrder)
    OBVIOUS
  <2> QED BY <2>1, WidthAssumption DEF NoLevel, PriceLevel, Quantity
<1>2. BookTypeOK
  BY <1>1, WidthAssumption DEF Init, BookTypeOK, SequenceNumber
<1>3. \A side \in Side, p \in Price : levels[side][p].orders = <<>>
  BY DEF Init, NoLevel
<1>4. IndexMatchesQueues
  <2>1. IsInjective([i \in DOMAIN <<>> |-> <<>>[i].order_id])
    BY DEF IsInjective
  <2> QED BY <1>3, <2>1 DEF IndexMatchesQueues, Init
<1>5. FifoByPriority
  BY <1>3 DEF FifoByPriority
<1>6. Uncrossed
  BY <1>3 DEF Uncrossed, Occupied, Side
<1>7. TypeOK
  BY <1>2, WidthAssumption DEF Init, TypeOK, BookTypeOK, SequenceNumber, Quantity
<1> QED BY <1>2, <1>4, <1>5, <1>6, <1>7 DEF IInv, BookInv, TakerInv, Init

\* process_new, up to its first event, keeps the inductive invariant.
LEMMA NewKeeps ==
  ASSUME IInv, phase = "idle", NEW c \in NewOrderInputs, ProcessNew(c)
  PROVE  IInv'
<1> DEFINE verdict == validate_new(c, predicted_remainder(c), FALSE)
           accepted == [kind |-> "Accepted", order_id |-> c.order_id, quantity |-> c.quantity]
<1>1. c \in NewOrder /\ c.order_id \in OrderId /\ c.quantity \in Quantity
  BY DEF NewOrderInputs, NewOrder
<1>2. CASE verdict # Valid /\ Reject(c.order_id, verdict)
  BY <1>1, <1>2, VerdictType, RejectKeeps
<1>3. CASE /\ verdict = Valid
           /\ Emit(<<>>, accepted, "matching")
           /\ taker' = c /\ remaining' = c.quantity /\ UNCHANGED book
  <2>1. BookInv'
    BY <1>3, BookUnchanged DEF IInv
  <2>2. accepted \in Event /\ <<>> \in Seq(Event)
    BY <1>1 DEF Event
  <2>3. next_event_sequence' \in SequenceNumber /\ events' \in Seq(Event)
        /\ phase' \in {"matching", "failed"}
    BY <1>3, <2>2, EmitType DEF IInv, TypeOK
  <2>4. TypeOK'
    BY <2>3, <1>1, <1>3 DEF IInv, TypeOK, book
  <2>5. /\ c.order_id \notin DOMAIN order_index
        /\ c.type = "Limit" => c.limit_price \in Price
        /\ c.time_in_force = "PostOnly" => ~would_cross(c)
    BY <1>3, ValidNew
  <2>6. TakerInv'
    BY <2>5, <1>1, <1>3 DEF TakerInv, would_cross, Occupied, book, Crosses
  <2> QED BY <2>1, <2>4, <2>6 DEF IInv
<1> QED BY <1>2, <1>3 DEF ProcessNew

\* A step that leaves the book consistent and process() idle or failed.
LEMMA IdleKeeps ==
  ASSUME IInv, BookInv', NEW event \in Event,
         Emit(<<>>, event, "idle"), UNCHANGED <<taker, remaining>>
  PROVE  IInv'
<1>1. <<>> \in Seq(Event)
  OBVIOUS
<1>2. next_event_sequence' \in SequenceNumber /\ events' \in Seq(Event)
      /\ phase' \in {"idle", "failed"}
  BY <1>1, EmitType DEF IInv, TypeOK
<1>3. TypeOK'
  BY <1>2 DEF IInv, TypeOK, BookInv, BookTypeOK
<1>4. TakerInv'
  BY <1>2 DEF TakerInv
<1> QED BY <1>3, <1>4 DEF IInv

\* process_cancel keeps the inductive invariant.
LEMMA CancelKeeps ==
  ASSUME IInv, phase = "idle", NEW id \in OrderId, ProcessCancel(id)
  PROVE  IInv'
<1> DEFINE event == [kind |-> "Cancelled", order_id |-> id,
                     quantity |-> Resting(id).remaining_quantity]
<1>1. CASE RejectUnknown(id)
  BY <1>1, RejectKeeps DEF RejectUnknown, RejectReason
<1>2. CASE /\ id \in DOMAIN order_index /\ erase_indexed(id) /\ Emit(<<>>, event, "idle")
           /\ UNCHANGED <<next_priority_sequence, taker, remaining>>
  <2>1. BookInv'
    BY <1>2, EraseKeeps DEF IInv
  <2>2. event \in Event
    BY <1>2, Located DEF IInv, Event, RestingOrder
  <2> QED BY <1>2, <2>1, <2>2, IdleKeeps
<1> QED BY <1>1, <1>2 DEF ProcessCancel

\* process_reduce keeps the inductive invariant.
LEMMA ReduceKeeps ==
  ASSUME IInv, phase = "idle", NEW id \in OrderId, NEW reduce_by \in Quantities,
         ProcessReduce(id, reduce_by)
  PROVE  IInv'
<1> DEFINE old == Resting(id).remaining_quantity
           event == [kind |-> "Reduced", order_id |-> id, old |-> old,
                     quantity |-> old - reduce_by]
<1>1. CASE RejectUnknown(id)
  BY <1>1, RejectKeeps DEF RejectUnknown, RejectReason
<1>2. CASE Reject(id, "InvalidReduction")
  BY <1>2, RejectKeeps DEF RejectReason
<1>3. CASE /\ id \in DOMAIN order_index
           /\ ~InvalidReduction(id, reduce_by)
           /\ set_remaining(id, old - reduce_by)
           /\ Emit(<<>>, event, "idle")
           /\ UNCHANGED <<taker, remaining>>
  <2>1. old \in Quantity
    BY <1>3, Located DEF IInv, RestingOrder
  <2>2. old - reduce_by \in Quantity
    BY <1>3, <2>1, WidthAssumption DEF Quantity, InvalidReduction
  <2>3. BookInv'
    BY <1>3, <2>2, SetRemainingKeeps DEF IInv
  <2>4. event \in Event
    BY <2>1, <2>2 DEF Event
  <2> QED BY <1>3, <2>3, <2>4, IdleKeeps
<1> QED BY <1>1, <1>2, <1>3 DEF ProcessReduce

\* process_replace, in place or afresh, keeps the inductive invariant.
LEMMA ReplaceKeeps ==
  ASSUME IInv, phase = "idle", NEW id \in OrderId, NEW price \in PriceInputs,
         NEW quantity \in Quantities, ProcessReplace(id, price, quantity)
  PROVE  IInv'
<1> DEFINE old == Resting(id).remaining_quantity
<1>1. quantity \in Quantity
  BY WidthAssumption DEF Quantity
<1>2. CASE RejectUnknown(id)
  BY <1>2, RejectKeeps DEF RejectUnknown, RejectReason
<1>3. CASE Reject(id, IF quantity = 0 THEN "ZeroQuantity" ELSE "InvalidPrice")
  BY <1>3, RejectKeeps DEF RejectReason
<1>4. CASE ReplaceInPlace(id, price, quantity)
  <2>1. id \in DOMAIN order_index /\ price \in Price /\ old \in Quantity
    BY <1>4, Located DEF ReplaceInPlace, IInv, RestingOrder
  <2>2. BookInv'
    BY <1>1, <1>4, <2>1, SetRemainingKeeps DEF ReplaceInPlace, IInv
  <2>3. Replaced(id, price, quantity, TRUE) \in Event
    BY <1>1, <2>1 DEF Replaced, Event
  <2> QED BY <1>4, <2>2, <2>3, IdleKeeps DEF ReplaceInPlace
<1>5. CASE ReplaceAfresh(id, price, quantity)
  <2> DEFINE replacement == [order_id |-> id, side |-> order_index[id].side, type |-> "Limit",
                             time_in_force |-> "GTC", limit_price |-> price,
                             quantity |-> quantity]
             verdict == validate_new(replacement, predicted_remainder(replacement), TRUE)
             event == Replaced(id, price, quantity, FALSE)
  <2>1. /\ id \in DOMAIN order_index /\ price \in Price /\ old \in Quantity
        /\ order_index[id].side \in Side
    BY <1>5, Located DEF ReplaceAfresh, IInv, RestingOrder
  <2>2. CASE verdict # Valid /\ Reject(id, verdict)
    BY <2>2, VerdictType, RejectKeeps
  <2>3. CASE /\ erase_indexed(id) /\ Emit(<<>>, event, "matching")
             /\ taker' = replacement /\ remaining' = quantity
             /\ UNCHANGED next_priority_sequence
    <3>1. BookInv' /\ DOMAIN order_index' = DOMAIN order_index \ {id}
      BY <2>1, <2>3, EraseKeeps DEF IInv
    <3>2. event \in Event /\ <<>> \in Seq(Event)
      BY <1>1, <2>1 DEF Replaced, Event
    <3>3. next_event_sequence' \in SequenceNumber /\ events' \in Seq(Event)
          /\ phase' \in {"matching", "failed"}
      BY <2>3, <3>2, EmitType DEF IInv, TypeOK
    <3>4. replacement \in NewOrder
      BY <1>1, <2>1 DEF NewOrder
    <3>5. TypeOK'
      BY <1>1, <2>3, <3>1, <3>3, <3>4 DEF TypeOK, BookInv, BookTypeOK
    <3>6. TakerInv'
      BY <2>1, <2>3, <3>1, <3>4 DEF TakerInv
    <3> QED BY <3>1, <3>5, <3>6 DEF IInv
  <2> QED BY <1>5, <2>2, <2>3 DEF ReplaceAfresh
<1> QED BY <1>2, <1>3, <1>4, <1>5 DEF ProcessReplace

\* One trade of match() keeps the inductive invariant.
LEMMA MatchKeeps ==
  ASSUME IInv, Match
  PROVE  IInv'
<1> DEFINE side == Opposite(taker.side)
<1>1. PICK p \in BestPrices(side) :
        LET level == levels[side][p]
            maker == Head(level.orders)
            traded == Min({remaining, maker.remaining_quantity})
            left == maker.remaining_quantity - traded
            filled == left = 0 /\ next_event_sequence # kMaxSequence
        IN  /\ remaining' = remaining - traded
            /\ Emit(events, [kind |-> "Trade", maker_id |-> maker.order_id,
                             order_id |-> taker.order_id, price |-> p, quantity |-> traded],
                    "matching")
            /\ levels' = [levels EXCEPT ![side][p] =
                 [aggregate_quantity |-> Wrap(level.aggregate_quantity - traded),
                  orders |-> IF filled THEN Tail(level.orders)
                             ELSE [level.orders EXCEPT ![1].remaining_quantity = left]]]
            /\ order_index' = IF filled THEN Forget(maker.order_id) ELSE order_index
            /\ UNCHANGED <<next_priority_sequence, taker>>
  BY DEF Match
<1> DEFINE q == Queue(side, p)
           maker == Head(q)
           traded == Min({remaining, maker.remaining_quantity})
           left == maker.remaining_quantity - traded
           filled == left = 0 /\ next_event_sequence # kMaxSequence
           agg == Wrap(levels[side][p].aggregate_quantity - traded)
           event == [kind |-> "Trade", maker_id |-> maker.order_id,
                     order_id |-> taker.order_id, price |-> p, quantity |-> traded]
<1>2. /\ remaining' = remaining - traded
      /\ Emit(events, event, "matching")
      /\ levels' = [levels EXCEPT ![side][p] =
           [aggregate_quantity |-> agg,
            orders |-> IF filled THEN Tail(q) ELSE [q EXCEPT ![1].remaining_quantity = left]]]
      /\ order_index' = IF filled THEN Forget(maker.order_id) ELSE order_index
      /\ next_priority_sequence' = next_priority_sequence /\ taker' = taker
  BY <1>1 DEF Queue
<1>3. /\ phase = "matching" /\ taker \in NewOrder /\ taker.side \in Side
      /\ taker.order_id \in OrderId /\ taker.time_in_force # "PostOnly"
      /\ remaining \in Quantity
  BY DEF Match, Matchable, IInv, TakerInv, TypeOK, NewOrder
<1>4. side \in Side /\ p \in Price /\ q # <<>>
  BY <1>1, <1>3 DEF Opposite, Side, BestPrices, Occupied, Queue
<1>5. /\ q \in Seq(RestingOrder) /\ levels[side][p].aggregate_quantity \in Quantity
      /\ Len(q) \in Nat /\ 1 \in 1..Len(q) /\ maker = q[1] /\ q[1] \in RestingOrder
      /\ DOMAIN q = 1..Len(q)
  <2>1. /\ q \in Seq(RestingOrder) /\ levels[side][p].aggregate_quantity \in Quantity
        /\ DOMAIN q = 1..Len(q)
        /\ \A i \in 1..Len(q) : q[i] \in RestingOrder
    BY <1>4, NodeIndexed DEF IInv
  <2>2. Len(q) \in Nat /\ 1 \in 1..Len(q) /\ maker = q[1]
    BY <1>4, <2>1
  <2> QED BY <2>1, <2>2
<1>6. /\ maker.remaining_quantity \in Quantity /\ maker.order_id \in OrderId
      /\ traded \in Quantity /\ remaining - traded \in Quantity /\ left \in Quantity
  <2>1. maker.remaining_quantity \in Quantity /\ maker.order_id \in OrderId
    BY <1>5 DEF RestingOrder
  <2>2. remaining \in Int /\ maker.remaining_quantity \in Int
    BY <1>3, <2>1 DEF Quantity
  <2>3. /\ traded \in {remaining, maker.remaining_quantity}
        /\ traded <= remaining /\ traded <= maker.remaining_quantity
    BY <2>2, MinOfTwo
  <2> QED BY <1>3, <2>1, <2>3, WidthAssumption DEF Quantity
<1>7. agg \in Quantity
  <2>1. levels[side][p].aggregate_quantity - traded \in Int
    BY <1>5, <1>6 DEF Quantity
  <2> QED BY <2>1, WrapType
<1> HIDE DEF side, traded, left, agg, q, maker
<1>8. BookInv' /\ DOMAIN order_index' \subseteq DOMAIN order_index
  <2>1. CASE filled
    <3> DEFINE t == Tail(q)
    <3>1. /\ t \in Seq(RestingOrder) /\ Len(t) = Len(q) - 1
          /\ \A j \in 1..Len(t) : t[j] = q[j + 1]
      BY <1>4, <1>5, HeadTailProperties
    <3>2. \A j \in 1..Len(t) : t[j] = IF j < 1 THEN q[j] ELSE q[j + 1]
      BY <3>1, <1>5
    <3>3. /\ levels' = [levels EXCEPT ![side][p] = [aggregate_quantity |-> agg, orders |-> t]]
          /\ order_index' = Forget(q[1].order_id)
          /\ next_priority_sequence' = next_priority_sequence
      BY <2>1, <1>2, <1>5
    <3>4. 1 \in 1..Len(q)
      BY <1>5
    <3> HIDE DEF t
    <3>5. BookInv'
      BY <3>1, <3>2, <3>3, <3>4, <1>4, <1>7, Unlink DEF IInv, q
    <3> QED BY <3>3, <3>5 DEF Forget
  <2>2. CASE ~filled
    <3> DEFINE q2 == [q EXCEPT ![1].remaining_quantity = left]
    <3>1. [q[1] EXCEPT !.remaining_quantity = left] \in RestingOrder
      BY <1>5, <1>6 DEF RestingOrder
    <3>2. q2 = [q EXCEPT ![1] = [q[1] EXCEPT !.remaining_quantity = left]]
      BY <1>5
    <3>3. q2 \in Seq(RestingOrder) /\ Len(q2) = Len(q)
      BY <3>1, <3>2, <1>5, ExceptSeq
    <3>4. \A j \in 1..Len(q) :
            q2[j] = IF j = 1 THEN [q[1] EXCEPT !.remaining_quantity = left] ELSE q[j]
      BY <3>2, <1>5
    <3>5. \A j \in 1..Len(q2) : /\ q2[j].order_id = q[j].order_id
                                /\ q2[j].priority_sequence = q[j].priority_sequence
      BY <3>3, <3>4, <1>5 DEF RestingOrder
    <3>6. /\ levels' = [levels EXCEPT ![side][p] =
                [aggregate_quantity |-> agg, orders |-> q2]]
          /\ order_index' = order_index
      BY <2>2, <1>2
    <3> HIDE DEF q2
    <3>7. BookInv'
      BY <3>3, <3>5, <3>6, <1>2, <1>4, <1>7, Resize DEF IInv, q
    <3> QED BY <3>6, <3>7
  <2> QED BY <2>1, <2>2
<1>9. event \in Event
  BY <1>3, <1>4, <1>6 DEF Event
<1>10. next_event_sequence' \in SequenceNumber /\ events' \in Seq(Event)
       /\ phase' \in {"matching", "failed"}
  BY <1>2, <1>9, EmitType DEF IInv, TypeOK
<1>11. TypeOK'
  BY <1>2, <1>3, <1>6, <1>8, <1>10 DEF TypeOK, BookInv, BookTypeOK
<1>12. TakerInv'
  BY <1>2, <1>3, <1>8 DEF IInv, TakerInv
<1> QED BY <1>8, <1>11, <1>12 DEF IInv

\* Returning from process() keeps the inductive invariant.
LEMMA CompleteKeeps ==
  ASSUME IInv, Complete
  PROVE  IInv'
<1>1. BookInv'
  BY BookUnchanged DEF IInv, Complete
<1>2. TypeOK'
  BY DEF IInv, TypeOK, Complete, book
<1>3. TakerInv'
  BY DEF TakerInv, Complete
<1> QED BY <1>1, <1>2, <1>3 DEF IInv

\* add_resting keeps the inductive invariant: what rests crosses nothing.
LEMMA RestKeeps ==
  ASSUME IInv, Rest
  PROVE  IInv'
<1> DEFINE side == taker.side
           p == taker.limit_price
           node == [order_id |-> taker.order_id, remaining_quantity |-> remaining,
                    priority_sequence |-> next_priority_sequence]
           agg == Wrap(levels[side][p].aggregate_quantity + remaining)
           event == [kind |-> "Rested", order_id |-> taker.order_id,
                     price |-> p, quantity |-> remaining]
<1>1. /\ taker \in NewOrder /\ side \in Side /\ taker.order_id \in OrderId /\ p \in Price
      /\ taker.order_id \notin DOMAIN order_index
      /\ remaining \in Quantity /\ next_priority_sequence \in SequenceNumber
      /\ taker.type = "Limit" /\ ~would_cross(taker)
  BY DEF Rest, Rests, Matchable, IInv, TakerInv, TypeOK, NewOrder
<1>2. node \in RestingOrder
  BY <1>1 DEF RestingOrder
<1>3. agg \in Quantity
  <2>1. levels[side][p].aggregate_quantity \in Quantity
    BY <1>1, NodeIndexed DEF IInv
  <2>2. levels[side][p].aggregate_quantity + remaining \in Int
    BY <1>1, <2>1 DEF Quantity
  <2> QED BY <2>2, WrapType
<1>4. \A p2 \in Occupied(Opposite(side)) : Better(side, p2, p)
  BY <1>1 DEF would_cross, Crosses
<1>5. BookInv'
  <2>1. /\ levels' = [levels EXCEPT ![side][p] =
              [aggregate_quantity |-> agg, orders |-> Append(Queue(side, p), node)]]
        /\ order_index' = [id \in DOMAIN order_index \cup {node.order_id} |->
              IF id = node.order_id THEN [side |-> side, price |-> p] ELSE order_index[id]]
        /\ next_priority_sequence \in SequenceNumber \ {kMaxSequence}
        /\ next_priority_sequence' = next_priority_sequence + 1
    BY <1>1 DEF Rest, Queue, PushBack
  <2>2. node.order_id \notin DOMAIN order_index
        /\ node.priority_sequence = next_priority_sequence
    BY <1>1
  <2> HIDE DEF node, agg
  <2> QED BY <2>1, <2>2, <1>1, <1>2, <1>3, <1>4, Enqueue DEF IInv
<1>6. event \in Event
  BY <1>1 DEF Event
<1>7. next_event_sequence' \in SequenceNumber /\ events' \in Seq(Event)
      /\ phase' \in {"idle", "failed"}
  BY <1>6, EmitType DEF Rest, IInv, TypeOK
<1>8. TypeOK'
  <2>1. taker' = NoOrder /\ remaining' \in Quantity
    BY WidthAssumption DEF Rest, Quantity
  <2>2. BookTypeOK'
    BY <1>5 DEF BookInv
  <2> QED BY <2>1, <2>2, <1>7 DEF TypeOK, BookTypeOK
<1>9. TakerInv'
  BY <1>7 DEF TakerInv
<1> QED BY <1>5, <1>8, <1>9 DEF IInv

\* Dropping the remainder of an IOC or market order keeps the inductive invariant.
LEMMA ExpireKeeps ==
  ASSUME IInv, Expire
  PROVE  IInv'
<1> DEFINE event == [kind |-> "Expired", order_id |-> taker.order_id, quantity |-> remaining]
<1>1. event \in Event
  BY DEF Expire, IInv, TakerInv, TypeOK, NewOrder, Event
<1>2. next_event_sequence' \in SequenceNumber /\ events' \in Seq(Event)
      /\ phase' \in {"idle", "failed"}
  BY <1>1, EmitType DEF Expire, IInv, TypeOK
<1>3. BookInv'
  BY BookUnchanged DEF IInv, Expire
<1>4. TypeOK'
  BY <1>2, <1>3, WidthAssumption DEF Expire, TypeOK, BookInv, BookTypeOK, Quantity
<1>5. TakerInv'
  BY <1>2 DEF TakerInv
<1> QED BY <1>3, <1>4, <1>5 DEF IInv

----------------------------------------------------------------------------
(* The theorems *)

\* The invariant is inductive: it holds initially and every step keeps it.
THEOREM Invariance == Spec => []IInv
<1>1. Init => IInv
  BY InitIInv
<1>2. IInv /\ [Next]_vars => IInv'
  <2> SUFFICES ASSUME IInv, [Next]_vars PROVE IInv'
    OBVIOUS
  <2>1. CASE Command
    BY <2>1, NewKeeps, CancelKeeps, ReduceKeeps, ReplaceKeeps DEF Command
  <2>2. CASE Execute
    BY <2>2, MatchKeeps, CompleteKeeps, RestKeeps, ExpireKeeps DEF Execute
  <2>3. CASE UNCHANGED vars
    <3>1. BookInv'
      BY <2>3, BookUnchanged DEF IInv, vars, book
    <3>2. TypeOK'
      BY <2>3 DEF IInv, TypeOK, vars
    <3>3. TakerInv'
      BY <2>3 DEF IInv, TakerInv, vars, would_cross, Occupied, Crosses
    <3> QED BY <3>1, <3>2, <3>3 DEF IInv
  <2> QED BY <2>1, <2>2, <2>3 DEF Next, Terminated
<1> QED BY <1>1, <1>2, PTL DEF Spec

\* Every variable keeps its type: in particular no counter passes its width.
THEOREM TypeCorrect == Spec => []TypeOK
BY Invariance, PTL DEF IInv

\* The resting book is never locked or crossed, at rest or while matching, and
\* also after an exception has left process().
THEOREM NeverCrossed == Spec => []Uncrossed
BY Invariance, PTL DEF IInv, BookInv

\* The index and the queues name the same orders, one node each.
THEOREM IndexSound == Spec => []IndexMatchesQueues
BY Invariance, PTL DEF IInv, BookInv

\* Every queue is in the order its orders came to rest.
THEOREM QueuesAreFifo == Spec => []FifoByPriority
BY Invariance, PTL DEF IInv, BookInv

----------------------------------------------------------------------------
(* The open quantity of a queue *)

\* Setting a node's quantity changes nothing else of its queue.
LEMMA ResizedQueue ==
  ASSUME NEW q \in Seq(RestingOrder), NEW i \in 1..Len(q), NEW quantity \in Quantity
  PROVE  LET q2 == [q EXCEPT ![i].remaining_quantity = quantity]
         IN  /\ q2 \in Seq(RestingOrder) /\ Len(q2) = Len(q)
             /\ \A j \in 1..Len(q) : j # i => q2[j] = q[j]
             /\ q2[i].order_id = q[i].order_id
             /\ q2[i].priority_sequence = q[i].priority_sequence
             /\ q2[i].remaining_quantity = quantity
<1> DEFINE q2 == [q EXCEPT ![i].remaining_quantity = quantity]
           node2 == [q[i] EXCEPT !.remaining_quantity = quantity]
<1>1. q[i] \in RestingOrder
  BY ElementOfSeq
<1>2. /\ node2 \in RestingOrder /\ node2.order_id = q[i].order_id
      /\ node2.priority_sequence = q[i].priority_sequence
      /\ node2.remaining_quantity = quantity
  BY <1>1 DEF RestingOrder
<1>3. q2 = [q EXCEPT ![i] = node2]
  OBVIOUS
<1> HIDE DEF node2, q2
<1>4. q2 \in Seq(RestingOrder) /\ Len(q2) = Len(q)
  BY <1>2, <1>3, ExceptSeq
<1>5. q2[i] = node2 /\ \A j \in 1..Len(q) : j # i => q2[j] = q[j]
  BY <1>3
<1>6. /\ q2 \in Seq(RestingOrder) /\ Len(q2) = Len(q)
      /\ \A j \in 1..Len(q) : j # i => q2[j] = q[j]
      /\ q2[i].order_id = q[i].order_id
      /\ q2[i].priority_sequence = q[i].priority_sequence
      /\ q2[i].remaining_quantity = quantity
  BY <1>2, <1>4, <1>5
<1> QED BY <1>6 DEF q2
OpenOf(queue) == [i \in DOMAIN queue |-> queue[i].remaining_quantity]

\* The open quantities of a queue can be added.
LEMMA OpenAddable ==
  ASSUME NEW q \in Seq(RestingOrder)
  PROVE  /\ Addable(OpenOf(q), 1..Len(q))
         /\ \A i \in 1..Len(q) : OpenOf(q)[i] = q[i].remaining_quantity /\ OpenOf(q)[i] \in Nat
         /\ SumFunction(OpenOf(q)) \in Nat
<1>1. DOMAIN q = 1..Len(q) /\ Len(q) \in Nat /\ \A i \in 1..Len(q) : q[i] \in RestingOrder
  BY ElementOfSeq
<1>2. \A i \in 1..Len(q) : q[i].remaining_quantity \in Nat
  BY <1>1, WidthAssumption DEF RestingOrder, Quantity
<1>3. IsFiniteSet(1..Len(q))
  BY <1>1, FS_Interval
<1>4. Addable(OpenOf(q), 1..Len(q))
  BY <1>1, <1>2, <1>3 DEF Addable, OpenOf
<1>5. \A i \in 1..Len(q) : OpenOf(q)[i] = q[i].remaining_quantity /\ OpenOf(q)[i] \in Nat
  BY <1>1, <1>2 DEF OpenOf
<1> QED BY <1>4, <1>5, SumNat

\* A node at the back adds its quantity.
LEMMA OpenAppended ==
  ASSUME NEW q \in Seq(RestingOrder), NEW node \in RestingOrder
  PROVE  SumFunction(OpenOf(Append(q, node))) = SumFunction(OpenOf(q)) + node.remaining_quantity
<1> DEFINE r == Append(q, node)
           n == Len(q)
           last == n + 1
<1>1. /\ r \in Seq(RestingOrder) /\ Len(r) = last /\ n \in Nat /\ last \in 1..Len(r)
      /\ \A i \in 1..n : r[i] = q[i] /\ i \in 1..Len(r)
      /\ r[last] = node
      /\ \A y : y \in 1..last <=> y \in 1..n \/ y = last
      /\ last \notin 1..n
  OBVIOUS
<1> HIDE DEF r, last
<1>2. Addable(OpenOf(q), 1..n) /\ Addable(OpenOf(r), 1..last)
  BY <1>1, OpenAddable
<1>3. /\ \A y \in 1..n : OpenOf(r)[y] = OpenOf(q)[y]
      /\ OpenOf(r)[last] = node.remaining_quantity
  <2>1. \A y \in 1..n : OpenOf(q)[y] = q[y].remaining_quantity
    BY <1>1, OpenAddable
  <2>2. \A y \in 1..last : OpenOf(r)[y] = r[y].remaining_quantity
    BY <1>1, OpenAddable
  <2> QED BY <1>1, <2>1, <2>2
<1> DEFINE f == OpenOf(q)
           g == OpenOf(r)
           D == 1..n
           E == 1..last
<1>4. SumFunction(g) = SumFunction(f) + g[last]
  <2>1. /\ Addable(f, D) /\ Addable(g, E) /\ last \notin D
        /\ \A y : y \in E <=> y \in D \/ y = last
        /\ \A y \in D : g[y] = f[y]
    BY <1>1, <1>2, <1>3
  <2> HIDE DEF f, g, D, E
  <2> QED BY <2>1, SumMore
<1> QED BY <1>3, <1>4 DEF r

\* A node unlinked takes its quantity with it.
LEMMA OpenUnlinked ==
  ASSUME NEW q \in Seq(RestingOrder), NEW i \in 1..Len(q), NEW r \in Seq(RestingOrder),
         Len(r) = Len(q) - 1,
         \A j \in 1..Len(r) : r[j] = IF j < i THEN q[j] ELSE q[j + 1]
  PROVE  SumFunction(OpenOf(r)) = SumFunction(OpenOf(q)) - q[i].remaining_quantity
<1>1. Addable(OpenOf(q), 1..Len(q)) /\ Addable(OpenOf(r), 1..(Len(q) - 1)) /\ Len(q) \in Nat
  BY OpenAddable
<1>2. ASSUME NEW j \in 1..(Len(q) - 1)
      PROVE  OpenOf(r)[j] = IF j < i THEN OpenOf(q)[j] ELSE OpenOf(q)[j + 1]
  <2>1. j \in 1..Len(r) /\ j \in 1..Len(q) /\ j + 1 \in 1..Len(q)
    OBVIOUS
  <2>2. r[j] = IF j < i THEN q[j] ELSE q[j + 1]
    BY <2>1
  <2>3. /\ OpenOf(r)[j] = r[j].remaining_quantity
        /\ OpenOf(q)[j] = q[j].remaining_quantity
        /\ OpenOf(q)[j + 1] = q[j + 1].remaining_quantity
    BY <2>1, OpenAddable
  <2> QED BY <2>2, <2>3
<1>3. SumFunction(OpenOf(r)) = SumFunction(OpenOf(q)) - OpenOf(q)[i]
  BY <1>1, <1>2, SumUnlinked
<1> QED BY <1>3, OpenAddable

\* A node resized changes the sum by as much.
LEMMA OpenResized ==
  ASSUME NEW q \in Seq(RestingOrder), NEW i \in 1..Len(q), NEW r \in Seq(RestingOrder),
         Len(r) = Len(q), \A j \in 1..Len(q) : j # i => r[j] = q[j]
  PROVE  SumFunction(OpenOf(r))
           = SumFunction(OpenOf(q)) + r[i].remaining_quantity - q[i].remaining_quantity
<1>1. Addable(OpenOf(q), 1..Len(q)) /\ Addable(OpenOf(r), 1..Len(q))
  BY OpenAddable
<1>2. \A j \in 1..Len(q) \ {i} : OpenOf(r)[j] = OpenOf(q)[j]
  BY OpenAddable
<1>3. SumFunction(OpenOf(r)) = SumFunction(OpenOf(q)) + OpenOf(r)[i] - OpenOf(q)[i]
  BY <1>1, <1>2, SumChange
<1> QED BY <1>3, OpenAddable

\* No node has more than its queue.
LEMMA OpenOfOne ==
  ASSUME NEW q \in Seq(RestingOrder), NEW i \in 1..Len(q)
  PROVE  q[i].remaining_quantity \in Nat /\ q[i].remaining_quantity <= SumFunction(OpenOf(q))
BY OpenAddable, SumNat

\* An empty queue has nothing.
LEMMA OpenOfNone == SumFunction(OpenOf(<<>>)) = 0
<1>1. DOMAIN OpenOf(<<>>) = {}
  BY DEF OpenOf
<1> QED BY <1>1, SumEmpty

\* Within the width, unsigned arithmetic is arithmetic.
LEMMA WrapExact == \A n \in Quantity : Wrap(n) = n
BY WidthAssumption DEF Wrap, Quantity

----------------------------------------------------------------------------
(* Cached aggregates *)

\* Each cached aggregate is the sum of its level, and finitely many levels are there.
SumInv == AggregateIsSum /\ \A side \in Side : IsFiniteSet(Occupied(side))

\* One level.
LEMMA LevelSummed ==
  AggregateIsSum <=> \A side \in Side, p \in Price :
                       levels[side][p].aggregate_quantity = SumFunction(OpenOf(Queue(side, p)))
BY DEF AggregateIsSum, OpenOf, Queue

\* Levels stay summed when the one that changes is.
LEMMA StaySummed ==
  ASSUME BookInv, SumInv, NEW side \in Side, NEW p \in Price, NEW agg, NEW q2,
         levels' = [levels EXCEPT ![side][p] = [aggregate_quantity |-> agg, orders |-> q2]],
         agg = SumFunction(OpenOf(q2))
  PROVE  SumInv'
<1>1. levels \in [Side -> [Price -> PriceLevel]]
  BY DEF BookInv, BookTypeOK
<1>2. /\ levels'[side][p] = [aggregate_quantity |-> agg, orders |-> q2]
      /\ \A s \in Side, p2 \in Price : s # side \/ p2 # p => levels'[s][p2] = levels[s][p2]
  BY <1>1
<1>3. AggregateIsSum'
  <2> SUFFICES ASSUME NEW s \in Side, NEW p2 \in Price
               PROVE  levels'[s][p2].aggregate_quantity = SumFunction(OpenOf(levels'[s][p2].orders))
    BY DEF AggregateIsSum, OpenOf
  <2>1. CASE s = side /\ p2 = p
    BY <2>1, <1>2
  <2>2. CASE s # side \/ p2 # p
    BY <2>2, <1>2, LevelSummed DEF SumInv, Queue
  <2> QED BY <2>1, <2>2
<1>4. ASSUME NEW s \in Side PROVE IsFiniteSet(Occupied(s)')
  <2>1. Occupied(s)' \subseteq Occupied(s) \cup {p}
    BY <1>2 DEF Occupied
  <2>2. IsFiniteSet(Occupied(s) \cup {p})
    BY FS_AddElement DEF SumInv
  <2> QED BY <2>1, <2>2, FS_Subset
<1> QED BY <1>3, <1>4 DEF SumInv

\* A level of a consistent book.
LEMMA LevelIs ==
  ASSUME BookInv, SumInv, NEW side \in Side, NEW p \in Price
  PROVE  /\ Queue(side, p) \in Seq(RestingOrder)
         /\ levels[side][p].aggregate_quantity \in Quantity
         /\ levels[side][p].aggregate_quantity = SumFunction(OpenOf(Queue(side, p)))
         /\ \A i \in 1..Len(Queue(side, p)) :
              /\ Queue(side, p)[i].remaining_quantity \in Quantity
              /\ Queue(side, p)[i].remaining_quantity <= levels[side][p].aggregate_quantity
<1>1. /\ Queue(side, p) \in Seq(RestingOrder)
      /\ levels[side][p].aggregate_quantity \in Quantity
      /\ \A i \in 1..Len(Queue(side, p)) : Queue(side, p)[i] \in RestingOrder
  BY NodeIndexed
<1>2. levels[side][p].aggregate_quantity = SumFunction(OpenOf(Queue(side, p)))
  BY LevelSummed DEF SumInv
<1>3. \A i \in 1..Len(Queue(side, p)) :
         /\ Queue(side, p)[i].remaining_quantity \in Quantity
         /\ Queue(side, p)[i].remaining_quantity <= levels[side][p].aggregate_quantity
  <2> TAKE i \in 1..Len(Queue(side, p))
  <2>1. Queue(side, p)[i].remaining_quantity \in Quantity
    BY <1>1 DEF RestingOrder
  <2>2. Queue(side, p)[i].remaining_quantity <= SumFunction(OpenOf(Queue(side, p)))
    BY <1>1, OpenOfOne
  <2> QED BY <2>1, <2>2, <1>2
<1> QED BY <1>1, <1>2, <1>3

\* erase_indexed lowers the cache by what it unlinks.
LEMMA EraseSums ==
  ASSUME BookInv, SumInv, NEW id \in DOMAIN order_index, erase_indexed(id)
  PROVE  /\ SumInv'
         /\ \A s \in Side, p2 \in Price :
              levels'[s][p2].aggregate_quantity =
                levels[s][p2].aggregate_quantity
                  - (IF order_index[id] = [side |-> s, price |-> p2]
                     THEN Resting(id).remaining_quantity ELSE 0)
         /\ levels'[Opposite(order_index[id].side)] = levels[Opposite(order_index[id].side)]
<1> DEFINE side == order_index[id].side
           p == order_index[id].price
           q == Queue(side, p)
           i == Position(id)
           own == levels[side][p].aggregate_quantity
           agg == Wrap(own - Resting(id).remaining_quantity)
           r == RemoveAt(q, i)
<1>1. /\ side \in Side /\ p \in Price /\ i \in 1..Len(q)
      /\ Resting(id) = q[i] /\ order_index[id] = [side |-> side, price |-> p]
  BY Located DEF BookInv, BookTypeOK, IndexEntry
<1>2. /\ q \in Seq(RestingOrder) /\ own \in Quantity
      /\ own = SumFunction(OpenOf(q))
      /\ q[i].remaining_quantity \in Quantity /\ q[i].remaining_quantity <= own
  BY <1>1, LevelIs
<1>3. own - q[i].remaining_quantity \in Quantity
  BY <1>2, WidthAssumption DEF Quantity
<1>4. agg = own - q[i].remaining_quantity
  BY <1>1, <1>3, WrapExact
<1>5. /\ r \in Seq(RestingOrder) /\ Len(r) = Len(q) - 1
      /\ \A j \in 1..(Len(q) - 1) : r[j] = IF j < i THEN q[j] ELSE q[j + 1]
  BY <1>1, <1>2, RemoveAtProperties
<1>6. SumFunction(OpenOf(r)) = SumFunction(OpenOf(q)) - q[i].remaining_quantity
  <2> HIDE DEF r, q, i
  <2> QED BY <1>1, <1>2, <1>5, OpenUnlinked
<1>7. levels' = [levels EXCEPT ![side][p] = [aggregate_quantity |-> agg, orders |-> r]]
  BY DEF erase_indexed, Queue
<1>8. SumInv'
  <2>1. agg = SumFunction(OpenOf(r))
    BY <1>2, <1>4, <1>6
  <2> HIDE DEF agg, r, q, i, own
  <2> QED BY <1>1, <1>7, <2>1, StaySummed
<1>9. /\ levels \in [Side -> [Price -> PriceLevel]]
      /\ \A s \in Side, p2 \in Price : levels[s][p2].aggregate_quantity \in Int
      /\ q[i].remaining_quantity \in Int
  BY <1>2, WidthAssumption DEF BookInv, BookTypeOK, PriceLevel, Quantity
<1> HIDE DEF agg, r, q, i
<1>10. ASSUME NEW s \in Side, NEW p2 \in Price
       PROVE  levels'[s][p2].aggregate_quantity =
                levels[s][p2].aggregate_quantity
                  - (IF order_index[id] = [side |-> s, price |-> p2]
                     THEN Resting(id).remaining_quantity ELSE 0)
  <2>1. CASE s = side /\ p2 = p
    BY <2>1, <1>1, <1>4, <1>7, <1>9
  <2>2. CASE s # side \/ p2 # p
    <3>1. order_index[id] # [side |-> s, price |-> p2]
      BY <2>2
    <3>2. levels'[s][p2] = levels[s][p2]
      BY <2>2, <1>7, <1>9
    <3> QED BY <3>1, <3>2, <1>9
  <2> QED BY <2>1, <2>2
<1>11. levels'[Opposite(side)] = levels[Opposite(side)]
  <2>1. Opposite(side) \in Side /\ Opposite(side) # side
    BY <1>1 DEF Opposite, Side
  <2> QED BY <1>1, <1>7, <1>9, <2>1
<1> QED BY <1>8, <1>10, <1>11

\* set_remaining moves the cache by as much as the quantity it sets.
LEMMA SetRemainingSums ==
  ASSUME BookInv, SumInv, NEW id \in DOMAIN order_index,
         NEW quantity \in 0..Resting(id).remaining_quantity, set_remaining(id, quantity)
  PROVE  SumInv'
<1> DEFINE side == order_index[id].side
           p == order_index[id].price
           q == Queue(side, p)
           i == Position(id)
           own == levels[side][p].aggregate_quantity
           r == [q EXCEPT ![i].remaining_quantity = quantity]
           agg == Wrap(own - (Resting(id).remaining_quantity - quantity))
<1>1. /\ side \in Side /\ p \in Price /\ i \in 1..Len(q) /\ Resting(id) = q[i]
  BY Located
<1>2. /\ q \in Seq(RestingOrder) /\ own \in Quantity
      /\ own = SumFunction(OpenOf(q))
      /\ q[i].remaining_quantity \in Quantity /\ q[i].remaining_quantity <= own
  BY <1>1, LevelIs
<1>3. quantity \in Quantity /\ own - (q[i].remaining_quantity - quantity) \in Quantity
  BY <1>1, <1>2, WidthAssumption DEF Quantity
<1>4. agg = own - (q[i].remaining_quantity - quantity)
  BY <1>1, <1>3, WrapExact
<1>5. /\ r \in Seq(RestingOrder) /\ Len(r) = Len(q)
      /\ \A j \in 1..Len(q) : j # i => r[j] = q[j]
      /\ r[i].remaining_quantity = quantity
  <2> HIDE DEF q, i
  <2> QED BY <1>1, <1>2, <1>3, ResizedQueue
<1>6. SumFunction(OpenOf(r))
        = SumFunction(OpenOf(q)) + r[i].remaining_quantity - q[i].remaining_quantity
  <2> HIDE DEF r, q, i
  <2> QED BY <1>1, <1>2, <1>5, OpenResized
<1>7. levels' = [levels EXCEPT ![side][p] = [aggregate_quantity |-> agg, orders |-> r]]
  BY DEF set_remaining, Queue
<1>8. agg = SumFunction(OpenOf(r))
  BY <1>2, <1>3, <1>4, <1>5, <1>6, WidthAssumption DEF Quantity
<1> HIDE DEF agg, r, q, i, own
<1> QED BY <1>1, <1>7, <1>8, StaySummed

----------------------------------------------------------------------------
(* What validation promised *)

\* What an order can trade with, in any levels: the levels it crosses and the
\* quantity there.
Crossed(lv, c) == {q \in Price : lv[Opposite(c.side)][q].orders # <<>> /\ Crosses(c, q)}
Depth(lv, c) == SumFunction([p \in Crossed(lv, c) |-> lv[Opposite(c.side)][p].aggregate_quantity])

\* A fill-or-kill order finds its quantity; what may be left of an order that rests
\* fits its level.
Covered(lv, c, quantity) ==
  /\ c.time_in_force = "FOK" => quantity <= Depth(lv, c)
  /\ Rests(c) => \/ quantity <= Depth(lv, c)
                 \/ lv[c.side][c.limit_price].aggregate_quantity + (quantity - Depth(lv, c))
                      <= kMaxQuantity

CoverInv == phase = "matching" => Covered(levels, taker, remaining)

\* What an order can trade with is that of finitely many levels.
LEMMA DepthAddable ==
  ASSUME NEW lv \in [Side -> [Price -> PriceLevel]], NEW c, c.side \in Side,
         IsFiniteSet({p \in Price : lv[Opposite(c.side)][p].orders # <<>>})
  PROVE  /\ Addable([p \in Crossed(lv, c) |-> lv[Opposite(c.side)][p].aggregate_quantity],
                    Crossed(lv, c))
         /\ Depth(lv, c) \in Nat
<1> DEFINE D == Crossed(lv, c)
           f == [p \in D |-> lv[Opposite(c.side)][p].aggregate_quantity]
<1>1. IsFiniteSet(D)
  BY FS_Subset DEF Crossed
<1>2. \A p \in D : f[p] \in Nat
  <2> TAKE p \in D
  <2>1. p \in Price /\ Opposite(c.side) \in Side
    BY DEF Crossed, Opposite, Side
  <2> QED BY <2>1, WidthAssumption DEF PriceLevel, Quantity
<1>3. Addable(f, D) /\ DOMAIN f = D
  BY <1>1, <1>2 DEF Addable
<1>4. SumFunction(f) \in Nat
  <2> HIDE DEF f, D
  <2> QED BY <1>2, <1>3, SumNat
<1> QED BY <1>3, <1>4 DEF Depth

\* Where nothing is crossed there is nothing to trade with.
LEMMA DepthNone ==
  ASSUME NEW c, ~would_cross(c)
  PROVE  Depth(levels, c) = 0
<1>1. Crossed(levels, c) = {}
  BY DEF would_cross, Occupied, Crossed
<1>2. DOMAIN [p \in Crossed(levels, c) |-> levels[Opposite(c.side)][p].aggregate_quantity] = {}
  BY <1>1
<1> QED BY <1>2, SumEmpty DEF Depth

\* Only the opposite side counts.
LEMMA DepthSame ==
  ASSUME NEW lv, NEW lv2, NEW c, lv2[Opposite(c.side)] = lv[Opposite(c.side)]
  PROVE  Depth(lv2, c) = Depth(lv, c)
BY DEF Depth, Crossed

\* A trade at a level that is crossed takes its quantity from what is left.
LEMMA DepthTaken ==
  ASSUME NEW lv \in [Side -> [Price -> PriceLevel]],
         NEW lv2 \in [Side -> [Price -> PriceLevel]], NEW c, c.side \in Side,
         IsFiniteSet({p \in Price : lv[Opposite(c.side)][p].orders # <<>>}),
         NEW p \in Crossed(lv, c), NEW traded \in Int,
         \A q \in Price : q # p => lv2[Opposite(c.side)][q] = lv[Opposite(c.side)][q],
         lv2[Opposite(c.side)][p].aggregate_quantity
           = lv[Opposite(c.side)][p].aggregate_quantity - traded,
         lv2[Opposite(c.side)][p].orders = <<>>
           => lv2[Opposite(c.side)][p].aggregate_quantity = 0
  PROVE  Depth(lv2, c) = Depth(lv, c) - traded
<1> DEFINE side == Opposite(c.side)
           D == Crossed(lv, c)
           E == Crossed(lv2, c)
           f == [q \in D |-> lv[side][q].aggregate_quantity]
           g == [q \in D |-> lv2[side][q].aggregate_quantity]
           h == [q \in E |-> lv2[side][q].aggregate_quantity]
<1>1. side \in Side /\ p \in Price /\ \A q \in D : q \in Price
  BY DEF Opposite, Side, Crossed
<1>2. Addable(f, D) /\ IsFiniteSet(D)
  BY DepthAddable DEF Addable
<1>3. Addable(g, D)
  BY <1>1, <1>2, WidthAssumption DEF Addable, PriceLevel, Quantity
<1>4. SumFunction(g) = SumFunction(f) - traded
  <2>1. /\ p \in D /\ g[p] = f[p] - traded /\ f[p] \in Int
        /\ \A y \in D \ {p} : g[y] = f[y]
    BY <1>1, <1>2 DEF Addable
  <2> HIDE DEF f, g, D
  <2>2. SumFunction(g) = SumFunction(f) + g[p] - f[p]
    BY <1>2, <1>3, <2>1, SumChange
  <2> QED BY <1>2, <2>1, <2>2, SumInt
<1>5. SumFunction(h) = SumFunction(g)
  <2>1. CASE lv2[side][p].orders # <<>>
    <3>1. E = D
      BY <2>1, <1>1 DEF Crossed
    <3> QED BY <3>1
  <2>2. CASE lv2[side][p].orders = <<>>
    <3>1. /\ p \notin E /\ \A y : y \in D <=> y \in E \/ y = p
          /\ \A y \in E : h[y] = g[y]
          /\ g[p] = 0
      BY <2>2, <1>1 DEF Crossed
    <3>2. E \subseteq D
      BY <3>1
    <3>3. Addable(h, E)
      BY <1>1, <1>2, <3>2, FS_Subset, WidthAssumption DEF Addable, PriceLevel, Quantity
    <3> HIDE DEF f, g, h, D, E
    <3> QED BY <1>3, <3>1, <3>3, SumWithoutZeros
  <2> QED BY <2>1, <2>2
<1> QED BY <1>4, <1>5 DEF Depth

\* executable_quantity scans what the order can trade with.
LEMMA ExecutableIs ==
  ASSUME BookInv, SumInv, NEW c, c.side \in Side, c.quantity \in Quantity
  PROVE  /\ Depth(levels, c) \in Nat
         /\ executable_quantity(c) = IF c.quantity <= Depth(levels, c) THEN c.quantity
                                     ELSE Depth(levels, c)
<1>1. Crossed(levels, c) = {q \in Occupied(Opposite(c.side)) : Crosses(c, q)}
  BY DEF Crossed, Occupied
<1>2. executable_quantity(c) = Min({c.quantity, Depth(levels, c)})
  BY <1>1 DEF executable_quantity, Depth
<1>3. Depth(levels, c) \in Nat
  <2>1. /\ levels \in [Side -> [Price -> PriceLevel]]
        /\ IsFiniteSet(Occupied(Opposite(c.side)))
    BY DEF BookInv, BookTypeOK, SumInv, Opposite, Side
  <2> QED BY <2>1, DepthAddable DEF Occupied
<1>4. c.quantity \in Int /\ Depth(levels, c) \in Int
  BY <1>3, WidthAssumption DEF Quantity
<1>5. /\ Min({c.quantity, Depth(levels, c)}) \in {c.quantity, Depth(levels, c)}
      /\ Min({c.quantity, Depth(levels, c)}) <= c.quantity
      /\ Min({c.quantity, Depth(levels, c)}) <= Depth(levels, c)
  BY <1>4, MinOfTwo
<1> QED BY <1>2, <1>3, <1>4, <1>5

LEMMA PriceIsInt == \A p \in Price : p \in Int
BY PriceAssumption

LEMMA PriceIsOne == \A p \in Price : p # NoPrice
<1> SUFFICES ASSUME NEW p \in Price, p = NoPrice PROVE FALSE
  OBVIOUS
<1>1. p \in Nat
  BY PriceAssumption
<1>2. p \in Int
  BY <1>1
<1>3. NoPrice \in Int
  BY <1>2
<1> QED BY <1>3, PriceAssumption

\* What validate_new establishes before the book is touched.
LEMMA ValidCovers ==
  ASSUME BookInv, SumInv, NEW c \in NewOrder, NEW replacing,
         validate_new(c, predicted_remainder(c), replacing) = Valid
  PROVE  /\ c.time_in_force = "FOK" => c.quantity <= Depth(levels, c)
         /\ Rests(c) => \/ c.quantity <= Depth(levels, c)
                        \/ can_add_to_level(c, c.quantity - Depth(levels, c), replacing)
<1>1. c.side \in Side /\ c.quantity \in Quantity /\ c.quantity \in Int
  BY WidthAssumption DEF NewOrder, Quantity
<1>2. /\ Depth(levels, c) \in Nat
      /\ executable_quantity(c) = IF c.quantity <= Depth(levels, c) THEN c.quantity
                                  ELSE Depth(levels, c)
  BY <1>1, ExecutableIs
<1>3. c.time_in_force = "FOK" => ~(executable_quantity(c) < c.quantity)
  BY DEF validate_new, Valid
<1>4. ASSUME Rests(c), ~(c.quantity <= Depth(levels, c))
      PROVE  can_add_to_level(c, c.quantity - Depth(levels, c), replacing)
  <2>1. c.limit_price \in Price /\ c.limit_price # NoPrice
    <3>1. c.limit_price \in IF c.type = "Limit" THEN Price ELSE {NoPrice}
      BY ValidNew
    <3>2. c.limit_price \in Price
      BY <1>4, <3>1 DEF Rests
    <3> QED BY <3>2, PriceIsOne
  <2>2. predicted_remainder(c) = c.quantity - Depth(levels, c)
    BY <1>2, <1>4, <2>1 DEF predicted_remainder, Rests
  <2>3. predicted_remainder(c) # 0
    BY <1>1, <1>2, <1>4, <2>2
  <2>4. can_add_to_level(c, predicted_remainder(c), replacing)
    BY <2>3 DEF validate_new, Valid
  <2> QED BY <2>2, <2>4
<1> QED BY <1>1, <1>2, <1>3, <1>4

----------------------------------------------------------------------------
(* Each action keeps the sums and the promises *)

Promised == SumInv /\ CoverInv

\* A step that leaves the book alone keeps its sums.
LEMMA BookSums ==
  ASSUME SumInv, UNCHANGED book
  PROVE  SumInv' /\ levels' = levels
BY DEF book, SumInv, AggregateIsSum, Occupied

\* Nothing is promised of an order that is not being matched.
LEMMA IdlePromises ==
  ASSUME SumInv', phase' \in {"idle", "failed"}
  PROVE  Promised'
BY DEF Promised, CoverInv

LEMMA RejectPromises ==
  ASSUME Promised, phase = "idle", NEW id, NEW reason, Reject(id, reason)
  PROVE  Promised'
<1>1. UNCHANGED book /\ phase' \in {"idle", "failed"}
  BY DEF Reject, Emit
<1> QED BY <1>1, BookSums, IdlePromises DEF Promised

LEMMA NewPromises ==
  ASSUME IInv, Promised, phase = "idle", NEW c \in NewOrderInputs, ProcessNew(c)
  PROVE  Promised'
<1> DEFINE verdict == validate_new(c, predicted_remainder(c), FALSE)
<1>1. CASE verdict # Valid /\ Reject(c.order_id, verdict)
  BY <1>1, RejectPromises
<1>2. CASE /\ verdict = Valid
           /\ taker' = c /\ remaining' = c.quantity /\ UNCHANGED book
  <2>1. /\ c \in NewOrder /\ c.side \in Side /\ c.quantity \in Int
        /\ Depth(levels, c) \in Int /\ BookInv /\ SumInv
    BY ExecutableIs, WidthAssumption DEF NewOrderInputs, NewOrder, IInv, Promised, Quantity
  <2>2. SumInv' /\ levels' = levels
    BY <1>2, <2>1, BookSums
  <2>3. /\ c.time_in_force = "FOK" => c.quantity <= Depth(levels, c)
        /\ Rests(c) => \/ c.quantity <= Depth(levels, c)
                       \/ can_add_to_level(c, c.quantity - Depth(levels, c), FALSE)
    BY <1>2, <2>1, ValidCovers
  <2>4. ASSUME Rests(c), can_add_to_level(c, c.quantity - Depth(levels, c), FALSE)
        PROVE  levels[c.side][c.limit_price].aggregate_quantity
                 + (c.quantity - Depth(levels, c)) <= kMaxQuantity
    <3>1. c.limit_price \in Price
      BY <1>2, <2>4, ValidNew DEF Rests
    <3>2. levels[c.side][c.limit_price].aggregate_quantity \in Quantity
      BY <2>1, <3>1, LevelIs
    <3>3. Wrap(levels[c.side][c.limit_price].aggregate_quantity - 0)
            = levels[c.side][c.limit_price].aggregate_quantity
      BY <3>2, WrapExact, WidthAssumption DEF Quantity
    <3> QED BY <2>1, <2>4, <3>2, <3>3, WidthAssumption DEF can_add_to_level, Quantity
  <2>5. Covered(levels, c, c.quantity)
    BY <2>3, <2>4 DEF Covered
  <2>6. CoverInv'
    BY <1>2, <2>2, <2>5 DEF CoverInv
  <2> QED BY <2>2, <2>6 DEF Promised
<1> QED BY <1>1, <1>2 DEF ProcessNew

LEMMA CancelPromises ==
  ASSUME IInv, Promised, phase = "idle", NEW id \in OrderId, ProcessCancel(id)
  PROVE  Promised'
<1>1. CASE RejectUnknown(id)
  BY <1>1, RejectPromises DEF RejectUnknown
<1>2. CASE id \in DOMAIN order_index /\ erase_indexed(id) /\ phase' \in {"idle", "failed"}
  BY <1>2, EraseSums, IdlePromises DEF IInv, Promised
<1> QED BY <1>1, <1>2 DEF ProcessCancel, Emit

LEMMA ReducePromises ==
  ASSUME IInv, Promised, phase = "idle", NEW id \in OrderId, NEW reduce_by \in Quantities,
         ProcessReduce(id, reduce_by)
  PROVE  Promised'
<1> DEFINE old == Resting(id).remaining_quantity
<1>1. CASE RejectUnknown(id)
  BY <1>1, RejectPromises DEF RejectUnknown
<1>2. CASE Reject(id, "InvalidReduction")
  BY <1>2, RejectPromises
<1>3. CASE /\ id \in DOMAIN order_index
           /\ ~InvalidReduction(id, reduce_by)
           /\ set_remaining(id, old - reduce_by)
           /\ phase' \in {"idle", "failed"}
  <2>1. old \in Quantity
    BY <1>3, Located DEF IInv, RestingOrder
  <2>2. old - reduce_by \in 0..old
    BY <1>3, <2>1, WidthAssumption DEF Quantity, InvalidReduction
  <2>3. SumInv'
    BY <1>3, <2>2, SetRemainingSums DEF IInv, Promised
  <2> QED BY <1>3, <2>3, IdlePromises
<1> QED BY <1>1, <1>2, <1>3 DEF ProcessReduce, Emit

LEMMA ReplacePromises ==
  ASSUME IInv, Promised, phase = "idle", NEW id \in OrderId, NEW price \in PriceInputs,
         NEW quantity \in Quantities, ProcessReplace(id, price, quantity)
  PROVE  Promised'
<1>1. CASE RejectUnknown(id)
  BY <1>1, RejectPromises DEF RejectUnknown
<1>2. CASE Reject(id, IF quantity = 0 THEN "ZeroQuantity" ELSE "InvalidPrice")
  BY <1>2, RejectPromises
<1>3. CASE ReplaceInPlace(id, price, quantity)
  <2>1. /\ id \in DOMAIN order_index /\ quantity \in 1..Resting(id).remaining_quantity
        /\ set_remaining(id, quantity) /\ phase' \in {"idle", "failed"}
    BY <1>3 DEF ReplaceInPlace, Emit
  <2>2. quantity \in 0..Resting(id).remaining_quantity
    BY <2>1
  <2>3. SumInv'
    BY <2>1, <2>2, SetRemainingSums DEF IInv, Promised
  <2> QED BY <2>1, <2>3, IdlePromises
<1>4. CASE ReplaceAfresh(id, price, quantity)
  <2> DEFINE c == [order_id |-> id, side |-> order_index[id].side, type |-> "Limit",
                   time_in_force |-> "GTC", limit_price |-> price, quantity |-> quantity]
             verdict == validate_new(c, predicted_remainder(c), TRUE)
             own == levels[c.side][price].aggregate_quantity
             lost == IF order_index[id] = [side |-> c.side, price |-> price]
                     THEN Resting(id).remaining_quantity ELSE 0
  <2>1. CASE verdict # Valid /\ Reject(id, verdict)
    BY <2>1, RejectPromises
  <2>2. CASE /\ verdict = Valid /\ erase_indexed(id)
             /\ taker' = c /\ remaining' = quantity
    <3>1. /\ id \in DOMAIN order_index /\ price \in Price /\ BookInv /\ SumInv
          /\ order_index[id].side \in Side /\ quantity \in Quantity /\ quantity \in Int
      BY <1>4, Located, WidthAssumption DEF ReplaceAfresh, IInv, Promised, Quantity
    <3>2. /\ c \in NewOrder /\ c.side = order_index[id].side /\ c.quantity = quantity
          /\ c.limit_price = price /\ c.order_id = id /\ Rests(c)
          /\ c.time_in_force # "FOK"
      BY <3>1 DEF NewOrder, Rests
    <3>3. /\ SumInv' /\ levels'[c.side][price].aggregate_quantity = own - lost
          /\ levels'[Opposite(c.side)] = levels[Opposite(c.side)]
      BY <2>2, <3>1, EraseSums
    <3>4. BookInv'
      <4>1. next_priority_sequence' = next_priority_sequence
        BY <1>4, <2>2 DEF ReplaceAfresh, Reject, book
      <4> QED BY <2>2, <3>1, <4>1, EraseKeeps
    <3>5. own - lost \in Quantity
      <4>1. levels' \in [Side -> [Price -> PriceLevel]]
        BY <3>4 DEF BookInv, BookTypeOK
      <4>2. levels'[c.side][price].aggregate_quantity \in Quantity
        BY <3>1, <3>2, <4>1 DEF PriceLevel
      <4> HIDE DEF own, lost, c
      <4> QED BY <3>3, <4>2
    <3>6. Depth(levels', c) = Depth(levels, c) /\ Depth(levels, c) \in Int
      BY <3>1, <3>2, <3>3, DepthSame, ExecutableIs
    <3>7. \/ quantity <= Depth(levels, c)
          \/ can_add_to_level(c, quantity - Depth(levels, c), TRUE)
      <4> HIDE DEF c
      <4> QED BY <2>2, <3>1, <3>2, ValidCovers
    <3>8. can_add_to_level(c, quantity - Depth(levels, c), TRUE)
            => quantity - Depth(levels, c) <= kMaxQuantity - (own - lost)
      <4>1. Wrap(own - lost) = own - lost
        BY <3>5, WrapExact
      <4> QED BY <3>2, <4>1 DEF can_add_to_level
    <3>9. Covered(levels', c, quantity)
      <4>1. \/ quantity <= Depth(levels', c)
            \/ levels'[c.side][c.limit_price].aggregate_quantity
                 + (quantity - Depth(levels', c)) <= kMaxQuantity
        <5>1. own - lost \in Int /\ kMaxQuantity \in Int
          BY <3>5, WidthAssumption DEF Quantity
        <5> DEFINE deep == Depth(levels, c)
        <5>2. ASSUME quantity - deep <= kMaxQuantity - (own - lost)
              PROVE  (own - lost) + (quantity - deep) <= kMaxQuantity
          <6>1. deep \in Int /\ quantity \in Int
            BY <3>1, <3>6
          <6> HIDE DEF own, lost, c, deep
          <6> QED BY <5>1, <5>2, <6>1
        <5> HIDE DEF own, lost, c, deep
        <5> QED BY <5>2, <3>2, <3>3, <3>6, <3>7, <3>8 DEF deep
      <4> QED BY <3>2, <4>1 DEF Covered
    <3>10. CoverInv'
      BY <2>2, <3>9 DEF CoverInv
    <3> QED BY <3>3, <3>10 DEF Promised
  <2> QED BY <1>4, <2>1, <2>2 DEF ReplaceAfresh
<1> QED BY <1>1, <1>2, <1>3, <1>4 DEF ProcessReplace

\* One turn of match(): the cache follows the maker, and what is left of the order
\* and what is left to trade with shrink alike.
LEMMA MatchPromises ==
  ASSUME IInv, IInv', Promised, Match
  PROVE  Promised'
<1> DEFINE side == Opposite(taker.side)
<1>1. PICK p \in BestPrices(side) :
        LET level == levels[side][p]
            maker == Head(level.orders)
            traded == Min({remaining, maker.remaining_quantity})
            left == maker.remaining_quantity - traded
            filled == left = 0 /\ next_event_sequence # kMaxSequence
        IN  /\ remaining' = remaining - traded
            /\ levels' = [levels EXCEPT ![side][p] =
                 [aggregate_quantity |-> Wrap(level.aggregate_quantity - traded),
                  orders |-> IF filled THEN Tail(level.orders)
                             ELSE [level.orders EXCEPT ![1].remaining_quantity = left]]]
            /\ UNCHANGED <<next_priority_sequence, taker>>
  BY DEF Match
<1> DEFINE q == Queue(side, p)
           maker == Head(q)
           own == levels[side][p].aggregate_quantity
           traded == Min({remaining, maker.remaining_quantity})
           left == maker.remaining_quantity - traded
           filled == left = 0 /\ next_event_sequence # kMaxSequence
           agg == Wrap(own - traded)
           r == IF filled THEN Tail(q) ELSE [q EXCEPT ![1].remaining_quantity = left]
<1>2. /\ remaining' = remaining - traded /\ taker' = taker
      /\ levels' = [levels EXCEPT ![side][p] = [aggregate_quantity |-> agg, orders |-> r]]
  BY <1>1 DEF Queue
<1>3. /\ phase = "matching" /\ taker \in NewOrder /\ taker.side \in Side
      /\ remaining \in Quantity /\ remaining \in Int /\ BookInv /\ SumInv
      /\ Covered(levels, taker, remaining) /\ would_cross(taker)
      /\ taker.type = "Limit" => taker.limit_price \in Price
  <2>1. phase = "matching" /\ would_cross(taker)
    BY DEF Match, Matchable
  <2>2. /\ taker \in NewOrder /\ BookInv
        /\ taker.type = "Limit" => taker.limit_price \in Price
    BY <2>1 DEF IInv, TakerInv
  <2>3. taker.side \in Side
    BY <2>2 DEF NewOrder
  <2>4. remaining \in Quantity /\ remaining \in Int
    BY WidthAssumption DEF IInv, TypeOK, Quantity
  <2>5. SumInv /\ Covered(levels, taker, remaining)
    BY <2>1 DEF Promised, CoverInv
  <2> QED BY <2>1, <2>2, <2>3, <2>4, <2>5
<1>4. side \in Side /\ side # taker.side /\ p \in Price /\ q # <<>>
  BY <1>1, <1>3 DEF Opposite, Side, BestPrices, Occupied, Queue
<1>5. /\ q \in Seq(RestingOrder) /\ own \in Quantity /\ own = SumFunction(OpenOf(q))
      /\ Len(q) \in Nat /\ 1 \in 1..Len(q) /\ maker = q[1]
      /\ q[1].remaining_quantity \in Quantity /\ q[1].remaining_quantity <= own
  <2>1. /\ q \in Seq(RestingOrder) /\ own \in Quantity /\ own = SumFunction(OpenOf(q))
        /\ \A i \in 1..Len(q) : /\ q[i].remaining_quantity \in Quantity
                                /\ q[i].remaining_quantity <= own
    BY <1>3, <1>4, LevelIs
  <2>2. Len(q) \in Nat /\ 1 \in 1..Len(q) /\ maker = q[1]
    BY <1>4, <2>1
  <2> QED BY <2>1, <2>2
<1>6. /\ traded \in Quantity /\ traded \in Int /\ left \in Quantity
      /\ own - traded \in Quantity /\ agg = own - traded
      /\ left = q[1].remaining_quantity - traded
  <2>1. remaining \in Int /\ maker.remaining_quantity \in Int
    BY <1>3, <1>5, WidthAssumption DEF Quantity
  <2>2. /\ traded \in {remaining, maker.remaining_quantity}
        /\ traded <= maker.remaining_quantity
    BY <2>1, MinOfTwo
  <2>3. /\ traded \in Quantity /\ traded \in Int /\ left \in Quantity
        /\ own - traded \in Quantity
    BY <1>3, <1>5, <2>1, <2>2, WidthAssumption DEF Quantity
  <2> QED BY <1>5, <2>3, WrapExact
<1> HIDE DEF traded, maker, agg
<1>7. r \in Seq(RestingOrder) /\ SumFunction(OpenOf(r)) = SumFunction(OpenOf(q)) - traded
  <2> DEFINE first == 1
  <2>0. first = 1 /\ first \in 1..Len(q) /\ q[first] = q[1]
    BY <1>5
  <2>1. CASE filled
    <3> DEFINE t == Tail(q)
    <3>1. /\ t \in Seq(RestingOrder) /\ Len(t) = Len(q) - 1
          /\ \A j \in 1..Len(t) : t[j] = q[j + 1]
      BY <1>4, <1>5, HeadTailProperties
    <3>2. \A j \in 1..Len(t) : t[j] = IF j < first THEN q[j] ELSE q[j + 1]
      BY <3>1, <1>5
    <3> HIDE DEF t, first, q, own, left
    <3>3. SumFunction(OpenOf(t)) = SumFunction(OpenOf(q)) - q[first].remaining_quantity
      BY <2>0, <3>1, <3>2, <1>5, OpenUnlinked
    <3>4. r = t /\ left = 0
      BY <2>1 DEF t
    <3>5. q[1].remaining_quantity = traded
      BY <1>5, <1>6, <3>4, WidthAssumption DEF Quantity
    <3> QED BY <2>0, <3>1, <3>3, <3>4, <3>5
  <2>2. CASE ~filled
    <3> DEFINE s == [q EXCEPT ![first].remaining_quantity = left]
    <3> HIDE DEF first
    <3>1. /\ s \in Seq(RestingOrder) /\ Len(s) = Len(q)
          /\ \A j \in 1..Len(q) : j # first => s[j] = q[j]
          /\ s[first].remaining_quantity = left
      <4> HIDE DEF q, own, left, filled
      <4> QED BY <2>0, <1>5, <1>6, ResizedQueue
    <3>2. r = s
      BY <2>0, <2>2
    <3> HIDE DEF s, q, own, left, r
    <3>3. SumFunction(OpenOf(s))
            = SumFunction(OpenOf(q)) + s[first].remaining_quantity - q[first].remaining_quantity
      BY <2>0, <3>1, <1>5, OpenResized
    <3>4. SumFunction(OpenOf(q)) \in Int /\ q[first].remaining_quantity \in Int
      BY <2>0, <1>5, WidthAssumption DEF Quantity
    <3> QED BY <2>0, <3>1, <3>2, <3>3, <3>4, <1>6
  <2> QED BY <2>1, <2>2
<1> HIDE DEF q, r, own, left, filled
<1>8. SumInv'
  <2>1. agg = SumFunction(OpenOf(r))
    BY <1>5, <1>6, <1>7
  <2> HIDE DEF side
  <2> QED BY <1>2, <1>3, <1>4, <2>1, StaySummed
<1>9. /\ levels \in [Side -> [Price -> PriceLevel]] /\ levels' \in [Side -> [Price -> PriceLevel]]
      /\ levels'[side][p] = [aggregate_quantity |-> agg, orders |-> r]
      /\ \A p2 \in Price : p2 # p => levels'[side][p2] = levels[side][p2]
      /\ levels'[taker.side] = levels[taker.side]
  <2>1. levels \in [Side -> [Price -> PriceLevel]] /\ levels' \in [Side -> [Price -> PriceLevel]]
    BY DEF IInv, BookInv, BookTypeOK
  <2> HIDE DEF side
  <2> QED BY <1>2, <1>3, <1>4, <2>1
<1>10. Depth(levels', taker) = Depth(levels, taker) - traded
  <2>1. p \in Crossed(levels, taker)
    <3>1. PICK b \in Occupied(side) : Crosses(taker, b)
      BY <1>3 DEF would_cross
    <3>2. p \in Occupied(side) /\ ~Better(side, b, p)
      BY <1>1, <3>1 DEF BestPrices
    <3>3. p \in Int /\ b \in Int
      BY <1>4, <3>1, PriceIsInt DEF Occupied
    <3>4. taker.type = "Limit" => taker.limit_price \in Int
      BY <1>3, PriceIsInt
    <3>5. Crosses(taker, p)
      BY <1>3, <3>1, <3>2, <3>3, <3>4 DEF Crosses, Better, Opposite, Side
    <3> QED BY <3>2, <3>5 DEF Crossed, Occupied
  <2>2. IsFiniteSet({p2 \in Price : levels[side][p2].orders # <<>>})
    BY <1>3, <1>4 DEF SumInv, Occupied
  <2>3. levels'[side][p].orders = <<>> => levels'[side][p].aggregate_quantity = 0
    BY <1>5, <1>6, <1>7, <1>9, OpenOfNone
  <2>4. levels'[side][p].aggregate_quantity = levels[side][p].aggregate_quantity - traded
    BY <1>6, <1>9 DEF own
  <2> QED BY <1>3, <1>6, <1>9, <2>1, <2>2, <2>3, <2>4, DepthTaken
<1>11. Depth(levels, taker) \in Int
  <2>1. IsFiniteSet({p2 \in Price : levels[side][p2].orders # <<>>})
    BY <1>3, <1>4 DEF SumInv, Occupied
  <2>2. Depth(levels, taker) \in Nat
    BY <1>3, <1>9, <2>1, DepthAddable
  <2> QED BY <2>2
<1>12. Covered(levels', taker, remaining - traded)
  <2> DEFINE deep == Depth(levels, taker)
             deep2 == Depth(levels', taker)
             less == remaining - traded
  <2>1. /\ remaining <= deep => less <= deep2
        /\ remaining - deep = less - deep2
    <3> HIDE DEF deep, deep2
    <3>1. deep2 = deep - traded /\ deep \in Int
      BY <1>10, <1>11 DEF deep, deep2
    <3> QED BY <3>1, <1>3, <1>6
  <2> HIDE DEF less
  <2> QED BY <1>3, <1>9, <2>1 DEF Covered, less
<1>13. CoverInv'
  BY <1>2, <1>12 DEF CoverInv
<1> QED BY <1>8, <1>13 DEF Promised

\* add_resting: there is room for what is left, so the addition does not wrap.
LEMMA RestPromises ==
  ASSUME IInv, Promised, Rest
  PROVE  Promised'
<1> DEFINE side == taker.side
           p == taker.limit_price
           q == Queue(side, p)
           own == levels[side][p].aggregate_quantity
           node == [order_id |-> taker.order_id, remaining_quantity |-> remaining,
                    priority_sequence |-> next_priority_sequence]
           agg == Wrap(own + remaining)
<1>1. /\ taker \in NewOrder /\ side \in Side /\ taker.order_id \in OrderId /\ p \in Price
      /\ remaining \in Quantity /\ remaining \in Int /\ remaining # 0
      /\ next_priority_sequence \in SequenceNumber
      /\ Rests(taker) /\ ~would_cross(taker) /\ BookInv /\ SumInv
      /\ Covered(levels, taker, remaining)
  BY WidthAssumption DEF Rest, Rests, Matchable, IInv, TakerInv, TypeOK, NewOrder, Promised,
       CoverInv, Quantity
<1>2. node \in RestingOrder /\ node.remaining_quantity = remaining
  BY <1>1 DEF RestingOrder
<1>3. q \in Seq(RestingOrder) /\ own \in Quantity /\ own = SumFunction(OpenOf(q))
  BY <1>1, LevelIs
<1>4. Depth(levels, taker) = 0
  BY <1>1, DepthNone
<1>5. own + remaining \in Quantity
  <2>1. remaining <= 0 \/ own + (remaining - 0) <= kMaxQuantity
    BY <1>1, <1>4 DEF Covered
  <2> HIDE DEF own
  <2> QED BY <2>1, <1>1, <1>3, WidthAssumption DEF Quantity
<1>6. agg = own + remaining
  BY <1>5, WrapExact
<1>7. SumFunction(OpenOf(Append(q, node))) = SumFunction(OpenOf(q)) + remaining
  <2> HIDE DEF q, node
  <2> QED BY <1>2, <1>3, OpenAppended
<1>8. levels' = [levels EXCEPT ![side][p] =
        [aggregate_quantity |-> agg, orders |-> Append(q, node)]]
  BY DEF Rest, Queue, PushBack
<1>9. SumInv'
  <2>1. agg = SumFunction(OpenOf(Append(q, node)))
    BY <1>3, <1>6, <1>7
  <2> HIDE DEF q, node, agg, own, p, side
  <2> QED BY <1>1, <1>8, <2>1, StaySummed
<1>10. phase' \in {"idle", "failed"}
  BY DEF Rest, Emit
<1> QED BY <1>9, <1>10, IdlePromises

\* Every step keeps the cached aggregates and what validation promised.
LEMMA StepPromises ==
  ASSUME IInv, IInv', Promised, [Next]_vars
  PROVE  Promised'
<1>1. CASE Command
  BY <1>1, NewPromises, CancelPromises, ReducePromises, ReplacePromises DEF Command
<1>2. CASE Match
  BY <1>2, MatchPromises
<1>3. CASE Rest
  BY <1>3, RestPromises
<1>4. CASE Complete \/ Expire
  <2>1. UNCHANGED book /\ phase' \in {"idle", "failed"}
    BY <1>4 DEF Complete, Expire, Emit
  <2> QED BY <2>1, BookSums, IdlePromises DEF Promised
<1>5. CASE UNCHANGED vars
  <2>1. UNCHANGED book /\ phase' = phase /\ taker' = taker /\ remaining' = remaining
    BY <1>5 DEF vars, book
  <2>2. SumInv' /\ levels' = levels
    BY <2>1, BookSums DEF Promised
  <2>3. CoverInv'
    BY <2>1, <2>2 DEF Promised, CoverInv
  <2> QED BY <2>2, <2>3 DEF Promised
<1> QED BY <1>1, <1>2, <1>3, <1>4, <1>5 DEF Next, Execute, Terminated

\* A freshly constructed book has no level, and its aggregates are 0.
LEMMA InitPromises == Init => Promised
<1> SUFFICES ASSUME Init PROVE Promised
  OBVIOUS
<1>1. \A side \in Side, p \in Price :
        levels[side][p].orders = <<>> /\ levels[side][p].aggregate_quantity = 0
  BY DEF Init, NoLevel
<1>2. AggregateIsSum
  BY <1>1, LevelSummed, OpenOfNone DEF Queue
<1>3. \A side \in Side : IsFiniteSet(Occupied(side))
  <2> TAKE side \in Side
  <2>1. Occupied(side) = {}
    BY <1>1 DEF Occupied
  <2> QED BY <2>1, FS_EmptySet
<1>4. CoverInv
  BY DEF Init, CoverInv
<1> QED BY <1>2, <1>3, <1>4 DEF SumInv, Promised

\* The promises, as OrderBook states them.
LEMMA PromisesCover ==
  ASSUME IInv, Promised
  PROVE  ValidationCoversMatching
<1>1. ASSUME phase = "matching", ~would_cross(taker)
      PROVE  /\ Depth(levels, taker) = 0 /\ remaining \in Nat
             /\ Covered(levels, taker, remaining)
  BY <1>1, DepthNone, WidthAssumption DEF Promised, CoverInv, IInv, TypeOK, Quantity
<1>2. ASSUME phase = "matching", remaining # 0, ~Matchable, Rests(taker)
      PROVE  levels[taker.side][taker.limit_price].aggregate_quantity + remaining <= kMaxQuantity
  <2>1. ~would_cross(taker)
    BY <1>2 DEF Matchable, IInv, TakerInv
  <2>2. remaining - 0 = remaining /\ ~(remaining <= 0)
    BY <1>1, <1>2, <2>1
  <2> QED BY <1>1, <1>2, <2>1, <2>2 DEF Covered
<1>3. ASSUME phase = "matching", taker.time_in_force = "FOK", ~Matchable
      PROVE  remaining = 0
  <2> SUFFICES ASSUME remaining # 0 PROVE FALSE
    OBVIOUS
  <2>1. ~would_cross(taker)
    BY <1>3 DEF Matchable
  <2> QED BY <1>1, <1>3, <2>1 DEF Covered
<1> QED BY <1>2, <1>3 DEF ValidationCoversMatching, RestIsCovered, FillOrKillFills

\* The cached aggregates are the sums they stand for, and what validation promised
\* is kept through matching.
LEMMA PromisesKept == Spec => []Promised
<1>1. Promised /\ IInv /\ IInv' /\ [Next]_vars => Promised'
  BY StepPromises
<1> QED BY <1>1, InitPromises, Invariance, PTL DEF Spec

\* No path through match, reduce, replace or cancel forgets to move the cached
\* aggregate of a level, and no addition to it or subtraction from it wraps.
THEOREM AggregatesAreSums == Spec => []AggregateIsSum
<1>1. Promised => AggregateIsSum
  BY DEF Promised, SumInv
<1> QED BY <1>1, PromisesKept, PTL

\* The scans validate_new makes before the book is touched promise what matching
\* needs: room at its level for what add_resting adds, and makers enough for every
\* fill-or-kill order.
THEOREM ValidationSuffices == Spec => []ValidationCoversMatching
<1>1. IInv /\ Promised => ValidationCoversMatching
  BY PromisesCover
<1> QED BY <1>1, Invariance, PromisesKept, PTL

----------------------------------------------------------------------------
(* What the events account for *)

\* The quantities a vector of events reports after its first event.
Told(q) == SumFunction([i \in DOMAIN q \ {1} |-> q[i].quantity])
Measured(q) == \A i \in DOMAIN q \ {1} : q[i].quantity \in Int

\* The first event is that of an order which then met the book.
Opens(event) ==
  \/ event.kind = "Accepted"
  \/ event.kind = "Replaced" /\ ~event.priority_retained

\* So far, the events account for all but what remains; at the end, for all.
AccountInv ==
  /\ phase = "matching" =>
       /\ events # <<>> /\ Opens(events[1]) /\ Measured(events)
       /\ events[1].quantity = remaining + Told(events)
  /\ EventsAccountForQuantity

\* A vector of one event reports nothing after it.
LEMMA ToldOne == \A event : Told(<<event>>) = 0 /\ Measured(<<event>>)
<1> TAKE event
<1>1. DOMAIN <<event>> \ {1} = {}
  OBVIOUS
<1>2. DOMAIN [i \in DOMAIN <<event>> \ {1} |-> <<event>>[i].quantity] = {}
  BY <1>1
<1>3. Told(<<event>>) = 0
  BY <1>2, SumEmpty DEF Told
<1> QED BY <1>1, <1>3 DEF Measured

\* One more event reports its quantity.
LEMMA ToldMore ==
  ASSUME NEW q \in Seq(Event), q # <<>>, Measured(q), NEW event \in Event,
         NEW quantity \in Int, event.quantity = quantity
  PROVE  /\ Append(q, event) # <<>> /\ Append(q, event)[1] = q[1]
         /\ Measured(Append(q, event))
         /\ Told(Append(q, event)) = Told(q) + quantity /\ Told(q) \in Int
<1> DEFINE r == Append(q, event)
           last == Len(q) + 1
           D == DOMAIN q \ {1}
           E == DOMAIN r \ {1}
           f == [i \in D |-> q[i].quantity]
           g == [i \in E |-> r[i].quantity]
<1>1. /\ DOMAIN q = 1..Len(q) /\ Len(q) \in Nat \ {0} /\ DOMAIN r = 1..last
      /\ \A i \in DOMAIN q : r[i] = q[i] /\ i # last
      /\ r[last] = event /\ last \in DOMAIN r /\ last # 1 /\ r # <<>> /\ 1 \in DOMAIN q
  OBVIOUS
<1>2. \A y : y \in DOMAIN r <=> y \in DOMAIN q \/ y = last
  BY <1>1
<1> HIDE DEF r, last
<1>3. \A y : y \in E <=> y \in D \/ y = last
  BY <1>1, <1>2
<1>4. last \notin D /\ last \in E /\ \A y \in D : g[y] = f[y] /\ y \in E
  BY <1>1, <1>2
<1>5. IsFiniteSet(D) /\ IsFiniteSet(E)
  <2>1. IsFiniteSet(1..Len(q)) /\ IsFiniteSet(1..last)
    BY <1>1, FS_Interval DEF last
  <2> QED BY <1>1, <2>1, FS_Subset
<1>6. \A y \in D : f[y] \in Int
  BY DEF Measured
<1>7. \A y \in E : r[y].quantity \in Int /\ g[y] = r[y].quantity
  BY <1>1, <1>3, <1>4, <1>6
<1>8. Addable(f, D) /\ Addable(g, E)
  BY <1>5, <1>6, <1>7 DEF Addable
<1>9. SumFunction(g) = SumFunction(f) + g[last] /\ g[last] = quantity
  <2>1. g[last] = quantity
    BY <1>1, <1>4
  <2> HIDE DEF f, g, D, E
  <2>2. SumFunction(g) = SumFunction(f) + g[last]
    BY <1>3, <1>4, <1>8, SumMore
  <2> QED BY <2>1, <2>2
<1>10. Measured(r)
  BY <1>7 DEF Measured
<1>11. SumFunction(f) \in Int
  <2> HIDE DEF f, D
  <2> QED BY <1>8, SumInt
<1> QED BY <1>1, <1>9, <1>10, <1>11 DEF Told, r

\* A command that ends with its only event, or by an exception, accounts for nothing.
LEMMA OnlyEvent ==
  ASSUME NEW event, ~Opens(event), Emit(<<>>, event, "idle")
  PROVE  AccountInv'
<1>1. CASE events' = <<event>> /\ phase' = "idle"
  BY <1>1 DEF AccountInv, EventsAccountForQuantity, Opens
<1>2. CASE events' = <<>> /\ phase' = "failed"
  BY <1>2 DEF AccountInv, EventsAccountForQuantity
<1> QED BY <1>1, <1>2 DEF Emit

\* A command whose order goes on to meet the book has accounted for nothing yet.
LEMMA FirstEvent ==
  ASSUME NEW event, Opens(event), Emit(<<>>, event, "matching"), event.quantity = remaining',
         remaining' \in Quantity
  PROVE  AccountInv'
<1>1. CASE events' = <<event>> /\ phase' = "matching"
  <2>1. Told(events') = 0 /\ Measured(events')
    BY <1>1, ToldOne
  <2>2. events'[1] = event /\ events' # <<>>
    BY <1>1
  <2>3. remaining' + 0 = remaining'
    <3>1. remaining' \in Int
      BY WidthAssumption DEF Quantity
    <3>2. \A n \in Int : n + 0 = n
      OBVIOUS
    <3> QED BY <3>1, <3>2
  <2> QED BY <1>1, <2>1, <2>2, <2>3 DEF AccountInv, EventsAccountForQuantity
<1>2. CASE events' = <<>> /\ phase' = "failed"
  BY <1>2 DEF AccountInv, EventsAccountForQuantity
<1> QED BY <1>1, <1>2 DEF Emit

\* An event of an order that meets the book accounts for what it takes off what remains.
LEMMA LaterEvent ==
  ASSUME IInv, AccountInv, phase = "matching", NEW event \in Event,
         NEW quantity \in Int, event.quantity = quantity, NEW then \in {"matching", "idle"},
         Emit(events, event, then), remaining' = remaining - quantity,
         then = "idle" => remaining' = 0
  PROVE  AccountInv'
<1>1. /\ events \in Seq(Event) /\ events # <<>> /\ Opens(events[1]) /\ Measured(events)
      /\ events[1].quantity = remaining + Told(events) /\ remaining \in Int
  BY WidthAssumption DEF AccountInv, IInv, TypeOK, Quantity
<1>2. CASE events' = Append(events, event) /\ phase' = then
  <2>1. /\ events' # <<>> /\ events'[1] = events[1] /\ Measured(events')
        /\ Told(events') = Told(events) + quantity /\ Told(events) \in Int
    BY <1>1, <1>2, ToldMore
  <2>2. events'[1].quantity = remaining' + Told(events')
    BY <1>1, <2>1
  <2>3. CASE then = "matching"
    BY <1>1, <1>2, <2>1, <2>2, <2>3 DEF AccountInv, EventsAccountForQuantity
  <2>4. CASE then = "idle"
    <3>1. events'[1].quantity = Told(events')
      BY <2>1, <2>2, <2>4
    <3> QED BY <1>2, <2>4, <3>1 DEF AccountInv, EventsAccountForQuantity, Told
  <2> QED BY <2>3, <2>4
<1>3. CASE events' = <<>> /\ phase' = "failed"
  BY <1>3 DEF AccountInv, EventsAccountForQuantity
<1> QED BY <1>2, <1>3 DEF Emit

LEMMA RejectAccounts ==
  ASSUME NEW id, NEW reason, Reject(id, reason)
  PROVE  AccountInv'
<1> DEFINE event == [kind |-> "Rejected", order_id |-> id, reason |-> reason]
<1>1. ~Opens(event)
  BY DEF Opens
<1> QED BY <1>1, OnlyEvent DEF Reject

\* Each command that ends with one event, and each that goes on.
LEMMA CommandAccounts ==
  ASSUME IInv, Command
  PROVE  AccountInv'
<1>1. CASE \E c \in NewOrderInputs : ProcessNew(c)
  <2> PICK c \in NewOrderInputs : ProcessNew(c)
    BY <1>1
  <2> DEFINE event == [kind |-> "Accepted", order_id |-> c.order_id, quantity |-> c.quantity]
  <2>1. CASE Emit(<<>>, event, "matching") /\ remaining' = c.quantity
    <3>1. Opens(event) /\ event.quantity = remaining'
      BY <2>1 DEF Opens
    <3>2. remaining' \in Quantity
      BY <2>1 DEF NewOrderInputs, NewOrder
    <3> HIDE DEF event
    <3> QED BY <2>1, <3>1, <3>2, FirstEvent
  <2> QED BY <2>1, RejectAccounts DEF ProcessNew
<1>2. CASE \E id \in OrderId : ProcessCancel(id)
  <2> PICK id \in OrderId : ProcessCancel(id)
    BY <1>2
  <2> DEFINE event == [kind |-> "Cancelled", order_id |-> id,
                       quantity |-> Resting(id).remaining_quantity]
  <2>1. ~Opens(event)
    BY DEF Opens
  <2>2. CASE Emit(<<>>, event, "idle")
    <3> HIDE DEF event
    <3> QED BY <2>1, <2>2, OnlyEvent
  <2> QED BY <2>2, RejectAccounts DEF ProcessCancel, RejectUnknown
<1>3. CASE \E id \in OrderId, reduce_by \in Quantities : ProcessReduce(id, reduce_by)
  <2> PICK id \in OrderId, reduce_by \in Quantities : ProcessReduce(id, reduce_by)
    BY <1>3
  <2> DEFINE event == [kind |-> "Reduced", order_id |-> id,
                       old |-> Resting(id).remaining_quantity,
                       quantity |-> Resting(id).remaining_quantity - reduce_by]
  <2>1. ~Opens(event)
    BY DEF Opens
  <2>2. CASE Emit(<<>>, event, "idle")
    <3> HIDE DEF event
    <3> QED BY <2>1, <2>2, OnlyEvent
  <2> QED BY <2>2, RejectAccounts DEF ProcessReduce, RejectUnknown
<1>4. CASE \E id \in OrderId, price \in PriceInputs, quantity \in Quantities :
             ProcessReplace(id, price, quantity)
  <2> PICK id \in OrderId, price \in PriceInputs, quantity \in Quantities :
             ProcessReplace(id, price, quantity)
    BY <1>4
  <2>1. ~Opens(Replaced(id, price, quantity, TRUE)) /\ Opens(Replaced(id, price, quantity, FALSE))
        /\ Replaced(id, price, quantity, FALSE).quantity = quantity
    BY DEF Opens, Replaced
  <2>2. CASE ReplaceInPlace(id, price, quantity)
    BY <2>1, <2>2, OnlyEvent DEF ReplaceInPlace
  <2>3. CASE ReplaceAfresh(id, price, quantity)
    <3>1. CASE Emit(<<>>, Replaced(id, price, quantity, FALSE), "matching")
               /\ remaining' = quantity
      <4>1. remaining' \in Quantity
        BY <3>1, WidthAssumption DEF Quantity
      <4> QED BY <2>1, <3>1, <4>1, FirstEvent
    <3> QED BY <2>3, <3>1, RejectAccounts DEF ReplaceAfresh
  <2> QED BY <2>2, <2>3, RejectAccounts DEF ProcessReplace, RejectUnknown
<1> QED BY <1>1, <1>2, <1>3, <1>4 DEF Command

\* Each step of an order that meets the book.
LEMMA ExecuteAccounts ==
  ASSUME IInv, IInv', AccountInv, Execute
  PROVE  AccountInv'
<1>0. remaining \in Quantity /\ remaining \in Int /\ remaining - remaining = 0
  BY WidthAssumption DEF IInv, TypeOK, Quantity
<1>1. CASE Match
  <2>1. PICK p \in BestPrices(Opposite(taker.side)) :
          LET maker == Head(levels[Opposite(taker.side)][p].orders)
              traded == Min({remaining, maker.remaining_quantity})
          IN  /\ remaining' = remaining - traded
              /\ Emit(events, [kind |-> "Trade", maker_id |-> maker.order_id,
                               order_id |-> taker.order_id, price |-> p, quantity |-> traded],
                      "matching")
    BY <1>1 DEF Match
  <2> DEFINE maker == Head(levels[Opposite(taker.side)][p].orders)
             traded == Min({remaining, maker.remaining_quantity})
             event == [kind |-> "Trade", maker_id |-> maker.order_id,
                       order_id |-> taker.order_id, price |-> p, quantity |-> traded]
  <2>2. /\ phase = "matching" /\ taker \in NewOrder
        /\ taker.side \in Side /\ taker.order_id \in OrderId
    BY <1>1 DEF Match, IInv, TakerInv, NewOrder
  <2>3. /\ p \in Price
        /\ maker.order_id \in OrderId
        /\ maker.remaining_quantity \in Quantity
    <3>1. /\ Opposite(taker.side) \in Side /\ p \in Price
          /\ Queue(Opposite(taker.side), p) # <<>>
      BY <2>2 DEF Opposite, Side, BestPrices, Occupied, Queue
    <3>2. /\ Queue(Opposite(taker.side), p) \in Seq(RestingOrder)
          /\ \A i \in 1..Len(Queue(Opposite(taker.side), p)) :
               Queue(Opposite(taker.side), p)[i] \in RestingOrder
      BY <3>1, NodeIndexed DEF IInv
    <3>3. Head(Queue(Opposite(taker.side), p)) \in RestingOrder
      BY <3>1, <3>2
    <3> QED BY <3>1, <3>3 DEF Queue, RestingOrder
  <2>4. traded \in Quantity
    <3>1. maker.remaining_quantity \in Int
      BY <2>3, WidthAssumption DEF Quantity
    <3>2. traded \in {remaining, maker.remaining_quantity}
      BY <1>0, <3>1, MinOfTwo
    <3> QED BY <1>0, <2>3, <3>2
  <2>5. event \in Event /\ event.quantity = traded /\ traded \in Int
    <3>1. traded \in Int
      BY <2>4, WidthAssumption DEF Quantity
    <3> HIDE DEF maker, traded
    <3>2. event \in [kind : {"Trade"}, maker_id : OrderId, order_id : OrderId, price : Price,
                     quantity : Quantity]
      BY <2>2, <2>3, <2>4
    <3>3. event \in Event
      BY <3>2 DEF Event
    <3> QED BY <3>1, <3>3
  <2>6. remaining' = remaining - traded /\ Emit(events, event, "matching")
    BY <2>1
  <2> HIDE DEF event, traded, maker
  <2> QED BY <2>2, <2>5, <2>6, LaterEvent
<1>2. CASE Complete
  <2>1. /\ events' = events /\ phase' = "idle" /\ phase = "matching" /\ remaining = 0
        /\ events[1].quantity = remaining + Told(events)
    BY <1>2 DEF Complete, AccountInv
  <2>2. Told(events) \in Int
    <3> DEFINE D == DOMAIN events \ {1}
               f == [i \in D |-> events[i].quantity]
    <3>1. events \in Seq(Event) /\ Measured(events)
      BY <2>1 DEF IInv, TypeOK, AccountInv
    <3>2. IsFiniteSet(D)
      <4>1. DOMAIN events = 1..Len(events) /\ Len(events) \in Nat
        BY <3>1
      <4>2. IsFiniteSet(1..Len(events))
        BY <4>1, FS_Interval
      <4> QED BY <4>1, <4>2, FS_Subset
    <3>3. Addable(f, D)
      BY <3>1, <3>2 DEF Addable, Measured
    <3> HIDE DEF f, D
    <3>4. SumFunction(f) \in Int
      BY <3>3, SumInt
    <3> QED BY <3>4 DEF Told, f, D
  <2>3. events'[1].quantity = Told(events')
    BY <2>1, <2>2
  <2> QED BY <2>1, <2>3 DEF AccountInv, EventsAccountForQuantity, Told
<1>3. CASE Rest
  <2> DEFINE event == [kind |-> "Rested", order_id |-> taker.order_id,
                       price |-> taker.limit_price, quantity |-> remaining]
  <2>1. /\ phase = "matching" /\ taker \in NewOrder /\ taker.order_id \in OrderId
        /\ taker.limit_price \in Price
    BY <1>3 DEF Rest, Rests, IInv, TakerInv, NewOrder
  <2>2. event \in Event /\ event.quantity = remaining
    BY <1>0, <2>1 DEF Event
  <2>3. Emit(events, event, "idle") /\ remaining' = 0
    BY <1>3 DEF Rest
  <2> HIDE DEF event
  <2> QED BY <1>0, <2>1, <2>2, <2>3, LaterEvent
<1>4. CASE Expire
  <2> DEFINE event == [kind |-> "Expired", order_id |-> taker.order_id, quantity |-> remaining]
  <2>1. phase = "matching" /\ taker.order_id \in OrderId
    BY <1>4 DEF Expire, IInv, TakerInv, NewOrder
  <2>2. event \in Event /\ event.quantity = remaining
    BY <1>0, <2>1 DEF Event
  <2>3. Emit(events, event, "idle") /\ remaining' = 0
    BY <1>4 DEF Expire
  <2> HIDE DEF event
  <2> QED BY <1>0, <2>1, <2>2, <2>3, LaterEvent
<1> QED BY <1>1, <1>2, <1>3, <1>4 DEF Execute

\* The events of a finished command account for the whole quantity it asked for,
\* whatever trades, remainder at rest or expiry it ended with.
THEOREM EventsAccount == Spec => []EventsAccountForQuantity
<1>1. Init => AccountInv
  BY DEF Init, AccountInv, EventsAccountForQuantity
<1>2. IInv /\ IInv' /\ AccountInv /\ [Next]_vars => AccountInv'
  <2> SUFFICES ASSUME IInv, IInv', AccountInv, [Next]_vars PROVE AccountInv'
    OBVIOUS
  <2>1. CASE UNCHANGED vars
    BY <2>1 DEF vars, AccountInv, EventsAccountForQuantity
  <2> QED BY <2>1, CommandAccounts, ExecuteAccounts DEF Next, Terminated
<1>3. AccountInv => EventsAccountForQuantity
  BY DEF AccountInv
<1> QED BY <1>1, <1>2, <1>3, Invariance, PTL DEF Spec
----------------------------------------------------------------------------
(* The engine implements the auction: price-time priority *)

----------------------------------------------------------------------------
(* Orders and their nodes, in any levels and index *)

QueueAt(lv, side, p) == lv[side][p].orders

\* The index and the queues name the same orders, one node each.
Placed(lv, index) ==
  /\ lv \in [Side -> [Price -> PriceLevel]]
  /\ DOMAIN index \subseteq OrderId
  /\ \A id \in DOMAIN index :
       /\ index[id] \in IndexEntry
       /\ \E i \in DOMAIN QueueAt(lv, index[id].side, index[id].price) :
            QueueAt(lv, index[id].side, index[id].price)[i].order_id = id
  /\ \A side \in Side, p \in Price :
       /\ \A i \in DOMAIN QueueAt(lv, side, p) :
            /\ QueueAt(lv, side, p)[i].order_id \in DOMAIN index
            /\ index[QueueAt(lv, side, p)[i].order_id] = [side |-> side, price |-> p]
       /\ \A i, j \in DOMAIN QueueAt(lv, side, p) :
            QueueAt(lv, side, p)[i].order_id = QueueAt(lv, side, p)[j].order_id => i = j

\* Each queue is in strictly increasing priority, any two nodes of it.
Strict(lv) ==
  \A side \in Side, p \in Price : \A i, j \in DOMAIN QueueAt(lv, side, p) :
    i < j => QueueAt(lv, side, p)[i].priority_sequence < QueueAt(lv, side, p)[j].priority_sequence

\* The node of an order.
NodeOf(lv, index, id) ==
  LET queue == lv[index[id].side][index[id].price].orders
  IN  queue[CHOOSE i \in DOMAIN queue : queue[i].order_id = id]

LEMMA BookIsPlaced == BookInv => Placed(levels, order_index)
<1> SUFFICES ASSUME BookInv PROVE Placed(levels, order_index)
  OBVIOUS
<1>1. /\ levels \in [Side -> [Price -> PriceLevel]] /\ DOMAIN order_index \subseteq OrderId
      /\ \A id \in DOMAIN order_index : order_index[id] \in IndexEntry
  BY DEF BookInv, BookTypeOK
<1>2. \A id \in DOMAIN order_index :
        \E i \in DOMAIN QueueAt(levels, order_index[id].side, order_index[id].price) :
          QueueAt(levels, order_index[id].side, order_index[id].price)[i].order_id = id
  BY DEF BookInv, IndexMatchesQueues, QueueAt
<1>3. ASSUME NEW side \in Side, NEW p \in Price
      PROVE  /\ \A i \in DOMAIN QueueAt(levels, side, p) :
                  /\ QueueAt(levels, side, p)[i].order_id \in DOMAIN order_index
                  /\ order_index[QueueAt(levels, side, p)[i].order_id]
                       = [side |-> side, price |-> p]
             /\ \A i, j \in DOMAIN QueueAt(levels, side, p) :
                  QueueAt(levels, side, p)[i].order_id = QueueAt(levels, side, p)[j].order_id
                    => i = j
  <2>1. QueueAt(levels, side, p) = Queue(side, p)
    BY DEF Queue, QueueAt
  <2>2. DOMAIN Queue(side, p) = 1..Len(Queue(side, p))
    BY NodeIndexed
  <2>3. \A i \in 1..Len(Queue(side, p)) :
          /\ Queue(side, p)[i].order_id \in DOMAIN order_index
          /\ order_index[Queue(side, p)[i].order_id] = [side |-> side, price |-> p]
    BY NodeIndexed
  <2>4. \A i, j \in 1..Len(Queue(side, p)) :
          Queue(side, p)[i].order_id = Queue(side, p)[j].order_id => i = j
    BY NodeIndexed
  <2> QED BY <2>1, <2>2, <2>3, <2>4
<1> QED BY <1>1, <1>2, <1>3 DEF Placed

\* The same of the next state.
LEMMA NextBookIsPlaced == BookInv' => Placed(levels', order_index')
<1>1. BookInv' => Placed(levels, order_index)'
  BY BookIsPlaced, PTL
<1> QED BY <1>1 DEF Placed, QueueAt

\* A node is the node of the order it names.
LEMMA NodeIs ==
  ASSUME NEW lv, NEW index, Placed(lv, index), NEW side \in Side, NEW p \in Price,
         NEW queue, queue = QueueAt(lv, side, p), NEW i \in 1..Len(queue)
  PROVE  /\ queue[i].order_id \in DOMAIN index
         /\ index[queue[i].order_id].side = side /\ index[queue[i].order_id].price = p
         /\ NodeOf(lv, index, queue[i].order_id) = queue[i]
<1> DEFINE id == queue[i].order_id
<1>0. i \in DOMAIN queue
  <2>1. lv[side][p] \in PriceLevel
    BY DEF Placed
  <2> QED BY <2>1 DEF PriceLevel, QueueAt
<1>1. id \in DOMAIN index /\ index[id] = [side |-> side, price |-> p]
  BY <1>0 DEF Placed
<1>2. lv[index[id].side][index[id].price].orders = queue
  BY <1>1 DEF QueueAt
<1>3. \A j \in DOMAIN queue : queue[j].order_id = id => j = i
  BY <1>0 DEF Placed
<1>4. (CHOOSE j \in DOMAIN queue : queue[j].order_id = id) = i
  BY <1>0, <1>3
<1>5. NodeOf(lv, index, id) = queue[i]
  BY <1>2, <1>4 DEF NodeOf
<1> QED BY <1>1, <1>5

\* Every indexed order has its node.
LEMMA NodeThere ==
  ASSUME NEW lv, NEW index, Placed(lv, index), NEW id \in DOMAIN index
  PROVE  /\ id \in OrderId /\ index[id].side \in Side /\ index[id].price \in Price
         /\ index[id] = [side |-> index[id].side, price |-> index[id].price]
         /\ NodeOf(lv, index, id) \in RestingOrder
         /\ NodeOf(lv, index, id).order_id = id
         /\ \E i \in 1..Len(QueueAt(lv, index[id].side, index[id].price)) :
              QueueAt(lv, index[id].side, index[id].price)[i] = NodeOf(lv, index, id)
<1> DEFINE side == index[id].side
           p == index[id].price
           queue == QueueAt(lv, side, p)
<1>1. index[id] \in IndexEntry /\ id \in OrderId
  BY DEF Placed
<1>2. side \in Side /\ p \in Price /\ index[id] = [side |-> side, price |-> p]
  BY <1>1 DEF IndexEntry
<1>3. lv[side][p] \in PriceLevel
  BY <1>2 DEF Placed
<1>4. queue \in Seq(RestingOrder) /\ DOMAIN queue = 1..Len(queue)
  BY <1>3 DEF PriceLevel, QueueAt
<1>5. PICK i \in 1..Len(queue) : queue[i].order_id = id
  BY <1>4 DEF Placed
<1>6. queue = QueueAt(lv, side, p)
  OBVIOUS
<1> HIDE DEF queue
<1>7. queue[i] \in RestingOrder
  BY <1>4, <1>5, ElementOfSeq
<1>8. NodeOf(lv, index, id) = queue[i]
  BY <1>2, <1>5, <1>6, NodeIs
<1> QED BY <1>1, <1>2, <1>5, <1>7, <1>8 DEF queue

\* An indexed order's node is in the queue of its level.
LEMMA NodeListed ==
  ASSUME NEW lv, NEW index, Placed(lv, index), NEW id \in DOMAIN index, NEW side, NEW p,
         index[id].side = side, index[id].price = p, NEW queue, queue = QueueAt(lv, side, p)
  PROVE  \E i \in 1..Len(queue) : queue[i] = NodeOf(lv, index, id)
BY NodeThere

\* Where its level stays, so does a node.
LEMMA Elsewhere ==
  ASSUME NEW lv, NEW index, NEW lv2, NEW index2, NEW id,
         index2[id] = index[id],
         lv2[index[id].side][index[id].price] = lv[index[id].side][index[id].price]
  PROVE  NodeOf(lv2, index2, id) = NodeOf(lv, index, id)
BY DEF NodeOf

----------------------------------------------------------------------------
(* Three ways a level changes, as its orders see it *)

\* The levels are the same but for the queue of one.
OneQueue(lv, lv2, side, p, queue2) ==
  /\ QueueAt(lv2, side, p) = queue2
  /\ \A s2 \in Side, p2 \in Price : s2 # side \/ p2 # p => lv2[s2][p2] = lv[s2][p2]

LEMMA OneQueueChanges ==
  ASSUME NEW lv \in [Side -> [Price -> PriceLevel]], NEW side \in Side, NEW p \in Price,
         NEW agg, NEW queue2
  PROVE  OneQueue(lv, [lv EXCEPT ![side][p] = [aggregate_quantity |-> agg, orders |-> queue2]],
                  side, p, queue2)
BY DEF OneQueue, QueueAt

\* Queues stay strict when one of them does.
LEMMA StrictChange ==
  ASSUME NEW lv, NEW lv2, NEW side \in Side, NEW p \in Price, NEW queue2, Strict(lv),
         OneQueue(lv, lv2, side, p, queue2),
         \A i, j \in DOMAIN queue2 :
           i < j => queue2[i].priority_sequence < queue2[j].priority_sequence
  PROVE  Strict(lv2)
<1> SUFFICES ASSUME NEW s2 \in Side, NEW p2 \in Price,
                    NEW i \in DOMAIN QueueAt(lv2, s2, p2), NEW j \in DOMAIN QueueAt(lv2, s2, p2),
                    i < j
             PROVE  QueueAt(lv2, s2, p2)[i].priority_sequence
                      < QueueAt(lv2, s2, p2)[j].priority_sequence
  BY DEF Strict
<1>1. CASE s2 = side /\ p2 = p
  BY <1>1 DEF OneQueue
<1>2. CASE s2 # side \/ p2 # p
  <2>1. QueueAt(lv2, s2, p2) = QueueAt(lv, s2, p2)
    BY <1>2 DEF OneQueue, QueueAt
  <2> QED BY <2>1 DEF Strict
<1> QED BY <1>1, <1>2

\* One queue is another without its node i.
Unlinked(queue, queue2, i) ==
  /\ Len(queue2) = Len(queue) - 1
  /\ \A j \in 1..Len(queue2) : queue2[j] = IF j < i THEN queue[j] ELSE queue[j + 1]

\* The index has the same entries but for one order's.
SameEntries(index, index2, id) ==
  \A other \in DOMAIN index \ {id} : other \in DOMAIN index2 /\ index2[other] = index[other]

\* A node is unlinked: the others stay, in their order.
LEMMA UnlinkEffect ==
  ASSUME NEW lv, NEW index, NEW lv2, NEW index2, Placed(lv, index), Placed(lv2, index2),
         Strict(lv), NEW side \in Side, NEW p \in Price,
         NEW queue, queue = QueueAt(lv, side, p),
         NEW i \in 1..Len(queue), NEW queue2 \in Seq(RestingOrder),
         Unlinked(queue, queue2, i),
         OneQueue(lv, lv2, side, p, queue2), NEW id, id = queue[i].order_id,
         SameEntries(index, index2, id)
  PROVE  /\ Strict(lv2)
         /\ \A other \in DOMAIN index \ {id} :
              NodeOf(lv2, index2, other) = NodeOf(lv, index, other)
<1> DEFINE From(j) == IF j < i THEN j ELSE j + 1
<1>1. lv[side][p] \in PriceLevel
  BY DEF Placed
<1>2. queue \in Seq(RestingOrder) /\ DOMAIN queue = 1..Len(queue) /\ Len(queue) \in Nat
  BY <1>1 DEF PriceLevel, QueueAt
<1>3. DOMAIN queue2 = 1..Len(queue2)
  OBVIOUS
<1>4. /\ i \in 1..Len(queue) /\ Len(queue2) = Len(queue) - 1
      /\ \A j \in 1..Len(queue2) : queue2[j] = queue[From(j)] /\ From(j) \in 1..Len(queue)
      /\ \A j, k \in 1..Len(queue2) : j < k => From(j) < From(k)
  BY <1>2 DEF Unlinked
<1>5. \A j, k \in DOMAIN queue2 :
        j < k => queue2[j].priority_sequence < queue2[k].priority_sequence
  <2> SUFFICES ASSUME NEW j \in 1..Len(queue2), NEW k \in 1..Len(queue2), j < k
               PROVE  queue2[j].priority_sequence < queue2[k].priority_sequence
    BY <1>3
  <2>1. From(j) \in DOMAIN queue /\ From(k) \in DOMAIN queue /\ From(j) < From(k)
    BY <1>2, <1>4
  <2>2. queue[From(j)].priority_sequence < queue[From(k)].priority_sequence
    BY <2>1 DEF Strict
  <2> QED BY <2>2, <1>4
<1>6. Strict(lv2)
  BY <1>5, StrictChange
<1>7. ASSUME NEW other \in DOMAIN index \ {id}
      PROVE  NodeOf(lv2, index2, other) = NodeOf(lv, index, other)
  <2> DEFINE s == index[other].side
             o == index[other].price
  <2>1. /\ other \in DOMAIN index2 /\ index2[other] = index[other]
        /\ s \in Side /\ o \in Price /\ NodeOf(lv, index, other).order_id = other
    BY <1>7, NodeThere DEF SameEntries
  <2>2. CASE s # side \/ o # p
    <3>1. lv2[s][o] = lv[s][o]
      BY <2>1, <2>2 DEF OneQueue
    <3> QED BY <2>1, <3>1, Elsewhere
  <2>3. CASE s = side /\ o = p
    <3>1. PICK k \in 1..Len(queue) : queue[k] = NodeOf(lv, index, other)
      BY <2>3, NodeThere
    <3>2. k # i
      BY <3>1, <2>1, <1>7
    <3>3. \E j \in 1..Len(queue2) : From(j) = k
      <4>1. CASE k < i
        BY <4>1, <1>2, <1>4
      <4>2. CASE k > i
        <5>1. k - 1 \in 1..Len(queue2) /\ From(k - 1) = k
          BY <4>2, <1>2, <1>4
        <5> QED BY <5>1
      <4> QED BY <4>1, <4>2, <3>2, <1>4
    <3>4. PICK j \in 1..Len(queue2) : queue2[j] = queue[k]
      BY <3>3, <1>4
    <3>5. QueueAt(lv2, side, p) = queue2
      BY DEF OneQueue
    <3> HIDE DEF From
    <3>6. NodeOf(lv2, index2, queue2[j].order_id) = queue2[j]
      BY <3>4, <3>5, NodeIs
    <3> QED BY <2>1, <3>1, <3>4, <3>6
  <2> QED BY <2>2, <2>3
<1> QED BY <1>6, <1>7

\* A node's quantity is set in place: the others stay, all in their order.
LEMMA ResizeEffect ==
  ASSUME NEW lv, NEW index, NEW lv2, Placed(lv, index), Placed(lv2, index),
         Strict(lv), NEW side \in Side, NEW p \in Price,
         NEW queue, queue = QueueAt(lv, side, p),
         NEW i \in 1..Len(queue), NEW queue2 \in Seq(RestingOrder), Len(queue2) = Len(queue),
         \A j \in 1..Len(queue) : j # i => queue2[j] = queue[j],
         queue2[i].order_id = queue[i].order_id,
         queue2[i].priority_sequence = queue[i].priority_sequence,
         OneQueue(lv, lv2, side, p, queue2), NEW id, id = queue[i].order_id
  PROVE  /\ Strict(lv2)
         /\ NodeOf(lv, index, id) = queue[i]
         /\ NodeOf(lv2, index, id) = queue2[i]
         /\ \A other \in DOMAIN index \ {id} :
              NodeOf(lv2, index, other) = NodeOf(lv, index, other)
<1>1. lv[side][p] \in PriceLevel
  BY DEF Placed
<1>2. DOMAIN queue = 1..Len(queue) /\ DOMAIN queue2 = 1..Len(queue)
  BY <1>1 DEF PriceLevel, QueueAt
<1>3. \A j, k \in DOMAIN queue2 :
        j < k => queue2[j].priority_sequence < queue2[k].priority_sequence
  <2>1. \A j \in 1..Len(queue) : queue2[j].priority_sequence = queue[j].priority_sequence
    OBVIOUS
  <2>2. \A j, k \in 1..Len(queue) :
          j < k => queue[j].priority_sequence < queue[k].priority_sequence
    BY <1>2 DEF Strict
  <2> QED BY <2>1, <2>2, <1>2
<1>4. Strict(lv2)
  BY <1>3, StrictChange
<1>5. queue2 = QueueAt(lv2, side, p)
  BY DEF OneQueue
<1>6. NodeOf(lv, index, id) = queue[i]
  BY NodeIs
<1>7. NodeOf(lv2, index, id) = queue2[i]
  <2>1. i \in 1..Len(queue2) /\ queue2[i].order_id = id
    OBVIOUS
  <2> QED BY <1>5, <2>1, NodeIs
<1>8. ASSUME NEW other \in DOMAIN index \ {id}
      PROVE  NodeOf(lv2, index, other) = NodeOf(lv, index, other)
  <2> DEFINE s == index[other].side
             o == index[other].price
  <2>1. s \in Side /\ o \in Price /\ NodeOf(lv, index, other).order_id = other
    BY NodeThere
  <2>2. CASE s # side \/ o # p
    <3>1. lv2[s][o] = lv[s][o]
      BY <2>1, <2>2 DEF OneQueue
    <3> QED BY <3>1, Elsewhere
  <2>3. CASE s = side /\ o = p
    <3>1. PICK k \in 1..Len(queue) : queue[k] = NodeOf(lv, index, other)
      BY <2>3, NodeThere
    <3>2. k # i
      BY <3>1, <2>1, <1>8
    <3>3. k \in 1..Len(queue2) /\ queue2[k] = queue[k]
      BY <3>2
    <3>4. NodeOf(lv2, index, queue2[k].order_id) = queue2[k]
      BY <3>3, <1>5, NodeIs
    <3> QED BY <2>1, <3>1, <3>3, <3>4
  <2> QED BY <2>2, <2>3
<1> QED BY <1>4, <1>6, <1>7, <1>8

\* A node joins the back of a queue: the others stay, and it is behind them.
LEMMA EnqueueEffect ==
  ASSUME NEW lv, NEW index, NEW lv2, NEW index2, Placed(lv, index), Placed(lv2, index2),
         Strict(lv), NEW side \in Side, NEW p \in Price, NEW node \in RestingOrder,
         OneQueue(lv, lv2, side, p, Append(QueueAt(lv, side, p), node)),
         \A i \in DOMAIN QueueAt(lv, side, p) :
           QueueAt(lv, side, p)[i].priority_sequence < node.priority_sequence,
         \A other \in DOMAIN index : other \in DOMAIN index2 /\ index2[other] = index[other]
  PROVE  /\ Strict(lv2)
         /\ NodeOf(lv2, index2, node.order_id) = node
         /\ \A other \in DOMAIN index : NodeOf(lv2, index2, other) = NodeOf(lv, index, other)
<1> DEFINE queue == QueueAt(lv, side, p)
           queue2 == Append(queue, node)
<1>1. lv[side][p] \in PriceLevel
  BY DEF Placed
<1>2. queue \in Seq(RestingOrder) /\ DOMAIN queue = 1..Len(queue) /\ Len(queue) \in Nat
  BY <1>1 DEF PriceLevel, QueueAt
<1>3. /\ OneQueue(lv, lv2, side, p, queue2)
      /\ \A i \in 1..Len(queue) : queue[i].priority_sequence < node.priority_sequence
  BY <1>2
<1>4. /\ DOMAIN queue2 = 1..(Len(queue) + 1) /\ queue2[Len(queue) + 1] = node
      /\ \A i \in 1..Len(queue) : queue2[i] = queue[i]
  BY <1>2
<1> HIDE DEF queue, queue2
<1>5. \A j, k \in DOMAIN queue2 :
        j < k => queue2[j].priority_sequence < queue2[k].priority_sequence
  <2> SUFFICES ASSUME NEW j \in 1..(Len(queue) + 1), NEW k \in 1..(Len(queue) + 1), j < k
               PROVE  queue2[j].priority_sequence < queue2[k].priority_sequence
    BY <1>4
  <2>1. j \in 1..Len(queue)
    BY <1>2
  <2>2. CASE k = Len(queue) + 1
    BY <2>1, <2>2, <1>3, <1>4
  <2>3. CASE k \in 1..Len(queue)
    <3>1. queue[j].priority_sequence < queue[k].priority_sequence
      BY <2>1, <2>3, <1>2 DEF Strict, queue
    <3> QED BY <2>1, <2>3, <3>1, <1>4
  <2> QED BY <2>2, <2>3, <1>2
<1>6. Strict(lv2)
  BY <1>3, <1>5, StrictChange
<1>7. QueueAt(lv2, side, p) = queue2
  BY <1>3 DEF OneQueue
<1>8. NodeOf(lv2, index2, node.order_id) = node
  <2>1. Len(queue) + 1 \in DOMAIN queue2
    BY <1>2, <1>4
  <2> QED BY <2>1, <1>4, <1>7, NodeIs
<1>9. ASSUME NEW other \in DOMAIN index
      PROVE  NodeOf(lv2, index2, other) = NodeOf(lv, index, other)
  <2> DEFINE s == index[other].side
             o == index[other].price
  <2>1. /\ s \in Side /\ o \in Price /\ NodeOf(lv, index, other).order_id = other
        /\ index2[other] = index[other]
    BY NodeThere
  <2>2. CASE s # side \/ o # p
    <3>1. lv2[s][o] = lv[s][o]
      BY <2>1, <2>2, <1>3 DEF OneQueue
    <3> QED BY <2>1, <3>1, Elsewhere
  <2>3. CASE s = side /\ o = p
    <3>1. PICK k \in 1..Len(queue) : queue[k] = NodeOf(lv, index, other)
      BY <2>3, NodeThere DEF queue
    <3>2. k \in DOMAIN queue2 /\ queue2[k] = queue[k]
      BY <1>2, <1>4
    <3>3. NodeOf(lv2, index2, queue2[k].order_id) = queue2[k]
      BY <3>2, <1>7, NodeIs
    <3> QED BY <2>1, <3>1, <3>2, <3>3
  <2> QED BY <2>2, <2>3
<1> QED BY <1>6, <1>8, <1>9 DEF queue

----------------------------------------------------------------------------
(* The auction, in the proof's terms *)

\* What the auction sees of an order that rests, of all, and of the one matched.
View(entry, node) ==
  [side |-> entry.side, price |-> entry.price, quantity |-> node.remaining_quantity,
   arrival |-> node.priority_sequence]
Open(lv, index) == {id \in DOMAIN index : NodeOf(lv, index, id).remaining_quantity # 0}
Shown(lv, index) == [id \in Open(lv, index) |-> View(index[id], NodeOf(lv, index, id))]
Offered(order, quantity) ==
  IF order = NoOrder THEN NoOrder
  ELSE [order_id |-> order.order_id, side |-> order.side, limit |-> order.limit_price,
        quantity |-> quantity, rests |-> Rests(order),
        all_or_none |-> order.time_in_force = "FOK"]
Seen == Shown(levels, order_index)
Offer == Offered(taker, remaining)

Engine == INSTANCE Auction WITH
  resting <- Seen, incoming <- Offer, arrivals <- next_priority_sequence

\* It is the instance that OrderBook names.
LEMMA EngineIsExchange ==
  /\ Engine!Init <=> Exchange!Init
  /\ [Engine!Next]_(Engine!vars) <=> [Exchange!Next]_(Exchange!vars)
BY DEF Seen, Offer, Offered, Shown, Open, View, NodeOf, OpenIds, Resting, Position,
   Engine!Init, Engine!Next, Engine!vars, Engine!Submit, Engine!Amend, Engine!Trade, Engine!Join,
   Engine!Leave, Engine!Withdraw, Engine!Shrink, Engine!Without, Engine!Acceptable,
   Engine!Before, Engine!First, Engine!Arriving, Engine!Quantity,
   Exchange!Init, Exchange!Next, Exchange!vars, Exchange!Submit, Exchange!Amend, Exchange!Trade,
   Exchange!Join, Exchange!Leave, Exchange!Withdraw, Exchange!Shrink, Exchange!Without,
   Exchange!Acceptable, Exchange!Before, Exchange!First, Exchange!Arriving, Exchange!Quantity

LEMMA RestingIsNode == \A id : Resting(id) = NodeOf(levels, order_index, id)
BY DEF Resting, Position, NodeOf

\* What the auction sees of one order.
LEMMA SeenOrder ==
  ASSUME BookInv, NEW id \in DOMAIN Seen
  PROVE  /\ id \in DOMAIN order_index /\ id \in OrderId
         /\ Seen[id].side = order_index[id].side /\ Seen[id].price = order_index[id].price
         /\ Seen[id].quantity = Resting(id).remaining_quantity
         /\ Seen[id].arrival = Resting(id).priority_sequence
         /\ Seen[id].side \in Side /\ Seen[id].price \in Price
         /\ Seen[id].quantity \in Quantity \ {0}
<1>1. /\ id \in DOMAIN order_index /\ NodeOf(levels, order_index, id).remaining_quantity # 0
      /\ Seen[id] = View(order_index[id], NodeOf(levels, order_index, id))
  BY DEF Seen, Shown, Open
<1>2. Resting(id) = NodeOf(levels, order_index, id)
  BY RestingIsNode
<1>3. /\ order_index[id].side \in Side /\ order_index[id].price \in Price
      /\ Resting(id) \in RestingOrder
  BY <1>1, Located
<1>4. id \in OrderId
  BY <1>1 DEF BookInv, BookTypeOK
<1> QED BY <1>1, <1>2, <1>3, <1>4 DEF View, RestingOrder

\* All orders but one keep their places and nodes.
KeptBut(id) ==
  \A other \in DOMAIN order_index \ {id} :
    /\ other \in DOMAIN order_index'
    /\ order_index'[other] = order_index[other]
    /\ NodeOf(levels', order_index', other) = NodeOf(levels, order_index, other)

\* One order leaves the index, or is empty.
LEMMA SeenLess ==
  ASSUME NEW id \in DOMAIN Seen, KeptBut(id),
         \/ DOMAIN order_index' = DOMAIN order_index \ {id}
         \/ /\ DOMAIN order_index' = DOMAIN order_index
            /\ NodeOf(levels', order_index', id).remaining_quantity = 0
  PROVE  Seen' = Engine!Without(id)
<1>1. Seen' = Shown(levels', order_index')
  BY DEF Seen, Shown, Open, View, NodeOf
<1>2. Open(levels', order_index') = Open(levels, order_index) \ {id}
  BY DEF Open, KeptBut
<1>3. DOMAIN Seen = Open(levels, order_index)
  BY DEF Seen, Shown
<1>4. \A other \in Open(levels, order_index) \ {id} :
        /\ Shown(levels', order_index')[other] = Seen[other]
  BY <1>2 DEF Shown, Seen, KeptBut, Open
<1>5. Shown(levels', order_index')
        = [other \in Open(levels', order_index') |-> Shown(levels', order_index')[other]]
  BY DEF Shown
<1> QED BY <1>1, <1>2, <1>3, <1>4, <1>5 DEF Engine!Without

\* One order's quantity is another, and not 0.
LEMMA SeenSmaller ==
  ASSUME NEW id \in DOMAIN Seen, KeptBut(id), NEW q, q # 0,
         DOMAIN order_index' = DOMAIN order_index, order_index'[id] = order_index[id],
         NodeOf(levels', order_index', id).remaining_quantity = q,
         NodeOf(levels', order_index', id).priority_sequence
           = NodeOf(levels, order_index, id).priority_sequence
  PROVE  Seen' = [Seen EXCEPT ![id].quantity = q]
<1>1. Seen' = Shown(levels', order_index')
  BY DEF Seen, Shown, Open, View, NodeOf
<1>2. Open(levels', order_index') = Open(levels, order_index)
  BY DEF Open, KeptBut, Seen, Shown
<1>3. DOMAIN Seen = Open(levels, order_index)
  BY DEF Seen, Shown
<1>4. \A other \in Open(levels, order_index) \ {id} :
        Shown(levels', order_index')[other] = Seen[other]
  BY <1>2 DEF Shown, Seen, KeptBut, Open
<1>5. Shown(levels', order_index')[id] = [Seen[id] EXCEPT !.quantity = q]
  BY <1>2, <1>3 DEF Shown, Seen, View
<1>6. Shown(levels', order_index')
        = [other \in Open(levels', order_index') |-> Shown(levels', order_index')[other]]
  BY DEF Shown
<1>7. Seen = [other \in Open(levels, order_index) |-> Seen[other]]
  BY DEF Seen, Shown
<1> QED BY <1>1, <1>2, <1>3, <1>4, <1>5, <1>6, <1>7

\* One order joins.
Joined(id, order) ==
  [other \in DOMAIN Seen \cup {id} |-> IF other = id THEN order ELSE Seen[other]]

LEMMA SeenMore ==
  ASSUME NEW id, id \notin DOMAIN order_index, KeptBut(id),
         DOMAIN order_index' = DOMAIN order_index \cup {id},
         NodeOf(levels', order_index', id).remaining_quantity # 0,
         NEW order, order = View(order_index'[id], NodeOf(levels', order_index', id))
  PROVE  Seen' = Joined(id, order)
<1>1. Seen' = Shown(levels', order_index')
  BY DEF Seen, Shown, Open, View, NodeOf
<1>2. Open(levels', order_index') = Open(levels, order_index) \cup {id}
  BY DEF Open, KeptBut
<1>3. DOMAIN Seen = Open(levels, order_index)
  BY DEF Seen, Shown
<1>4. \A other \in Open(levels, order_index) :
        other # id /\ Shown(levels', order_index')[other] = Seen[other]
  BY <1>2 DEF Shown, Seen, KeptBut, Open
<1>5. Shown(levels', order_index')[id] = order
  BY <1>2 DEF Shown
<1>6. Shown(levels', order_index')
        = [other \in Open(levels', order_index') |-> Shown(levels', order_index')[other]]
  BY DEF Shown
<1> QED BY <1>1, <1>2, <1>3, <1>4, <1>5, <1>6 DEF Joined

----------------------------------------------------------------------------
(* What the engine's changes show *)

\* Every indexed order has something left.
NoneEmpty(lv, index) == \A id \in DOMAIN index : NodeOf(lv, index, id).remaining_quantity # 0

LEMMA NoneEmptied ==
  ASSUME NoneEmpty(levels, order_index), NEW id, KeptBut(id),
         \/ DOMAIN order_index' = DOMAIN order_index \ {id}
         \/ /\ DOMAIN order_index' \subseteq DOMAIN order_index \cup {id}
            /\ NodeOf(levels', order_index', id).remaining_quantity # 0
  PROVE  NoneEmpty(levels', order_index')
BY DEF NoneEmpty, KeptBut

\* Both books of a step are placed.
LEMMA BothPlaced ==
  ASSUME BookInv, BookInv'
  PROVE  Placed(levels, order_index) /\ Placed(levels', order_index')
BY BookIsPlaced, NextBookIsPlaced

\* A node is dropped from a queue.
LEMMA DropShows ==
  ASSUME BookInv, BookInv', Strict(levels),
         NEW side \in Side, NEW p \in Price, NEW i \in 1..Len(Queue(side, p)),
         NEW q2 \in Seq(RestingOrder), Len(q2) = Len(Queue(side, p)) - 1,
         \A j \in 1..Len(q2) :
           q2[j] = IF j < i THEN Queue(side, p)[j] ELSE Queue(side, p)[j + 1],
         OneQueue(levels, levels', side, p, q2),
         NEW id, id = Queue(side, p)[i].order_id, order_index' = Forget(id)
  PROVE  /\ Strict(levels') /\ KeptBut(id)
         /\ DOMAIN order_index' = DOMAIN order_index \ {id}
<1> DEFINE q == Queue(side, p)
<1>1. q = QueueAt(levels, side, p)
  BY DEF Queue, QueueAt
<1>2. /\ DOMAIN order_index' = DOMAIN order_index \ {id}
      /\ SameEntries(order_index, order_index', id)
  BY DEF Forget, SameEntries
<1>3. Placed(levels, order_index) /\ Placed(levels', order_index')
  BY BothPlaced
<1>4. i \in 1..Len(q) /\ Unlinked(q, q2, i) /\ id = q[i].order_id
  BY DEF Unlinked
<1> HIDE DEF q
<1>5. /\ Strict(levels')
      /\ \A other \in DOMAIN order_index \ {id} :
           NodeOf(levels', order_index', other) = NodeOf(levels, order_index, other)
  BY <1>1, <1>2, <1>3, <1>4, UnlinkEffect
<1> QED BY <1>2, <1>5 DEF KeptBut, SameEntries

\* A node's quantity is set.
LEMMA SetShows ==
  ASSUME BookInv, BookInv', Strict(levels),
         NEW side \in Side, NEW p \in Price, NEW i \in 1..Len(Queue(side, p)),
         NEW quantity, NEW q2 \in Seq(RestingOrder), Len(q2) = Len(Queue(side, p)),
         \A j \in 1..Len(Queue(side, p)) : j # i => q2[j] = Queue(side, p)[j],
         q2[i].order_id = Queue(side, p)[i].order_id,
         q2[i].priority_sequence = Queue(side, p)[i].priority_sequence,
         q2[i].remaining_quantity = quantity,
         OneQueue(levels, levels', side, p, q2),
         NEW id, id = Queue(side, p)[i].order_id, order_index' = order_index
  PROVE  /\ Strict(levels') /\ KeptBut(id)
         /\ NodeOf(levels', order_index', id).remaining_quantity = quantity
         /\ NodeOf(levels', order_index', id).priority_sequence
              = NodeOf(levels, order_index, id).priority_sequence
<1> DEFINE q == Queue(side, p)
<1>1. q = QueueAt(levels, side, p)
  BY DEF Queue, QueueAt
<1>2. Placed(levels, order_index) /\ Placed(levels', order_index)
  BY BothPlaced
<1>3. /\ i \in 1..Len(q) /\ id = q[i].order_id /\ Len(q2) = Len(q)
      /\ \A j \in 1..Len(q) : j # i => q2[j] = q[j]
      /\ q2[i].order_id = q[i].order_id /\ q2[i].priority_sequence = q[i].priority_sequence
  OBVIOUS
<1> HIDE DEF q
<1>4. /\ Strict(levels')
      /\ NodeOf(levels, order_index, id) = q[i] /\ NodeOf(levels', order_index, id) = q2[i]
      /\ \A other \in DOMAIN order_index \ {id} :
           NodeOf(levels', order_index, other) = NodeOf(levels, order_index, other)
  BY <1>1, <1>2, <1>3, ResizeEffect
<1>5. KeptBut(id)
  BY <1>4 DEF KeptBut
<1> QED BY <1>3, <1>4, <1>5

\* erase_indexed.
LEMMA EraseShows ==
  ASSUME BookInv, BookInv', Strict(levels), NEW id \in DOMAIN order_index, erase_indexed(id)
  PROVE  /\ Strict(levels') /\ KeptBut(id)
         /\ DOMAIN order_index' = DOMAIN order_index \ {id}
<1> DEFINE side == order_index[id].side
           p == order_index[id].price
           q == Queue(side, p)
           i == Position(id)
           agg == Wrap(levels[side][p].aggregate_quantity - Resting(id).remaining_quantity)
           q2 == RemoveAt(q, i)
<1>1. /\ side \in Side /\ p \in Price /\ i \in 1..Len(q) /\ q[i].order_id = id
  BY Located
<1>2. q \in Seq(RestingOrder)
  BY <1>1, NodeIndexed
<1>3. /\ q2 \in Seq(RestingOrder) /\ Len(q2) = Len(q) - 1
      /\ \A j \in 1..(Len(q) - 1) : q2[j] = IF j < i THEN q[j] ELSE q[j + 1]
  BY <1>1, <1>2, RemoveAtProperties
<1>4. /\ levels' = [levels EXCEPT ![side][p] = [aggregate_quantity |-> agg, orders |-> q2]]
      /\ order_index' = Forget(id) /\ levels \in [Side -> [Price -> PriceLevel]]
  BY DEF erase_indexed, Queue, BookInv, BookTypeOK
<1> HIDE DEF agg, i, q, q2, side, p
<1>5. OneQueue(levels, levels', side, p, q2)
  BY <1>1, <1>4, OneQueueChanges
<1> QED BY <1>1, <1>3, <1>4, <1>5, DropShows DEF q

\* set_remaining.
LEMMA SetRemainingShows ==
  ASSUME BookInv, BookInv', Strict(levels), NEW id \in DOMAIN order_index,
         NEW quantity \in Quantity, set_remaining(id, quantity)
  PROVE  /\ Strict(levels') /\ KeptBut(id)
         /\ order_index' = order_index
         /\ NodeOf(levels', order_index', id).remaining_quantity = quantity
         /\ NodeOf(levels', order_index', id).priority_sequence
              = NodeOf(levels, order_index, id).priority_sequence
<1> DEFINE side == order_index[id].side
           p == order_index[id].price
           q == Queue(side, p)
           i == Position(id)
           q2 == [q EXCEPT ![i].remaining_quantity = quantity]
           agg == Wrap(levels[side][p].aggregate_quantity
                         - (Resting(id).remaining_quantity - quantity))
<1>1. /\ side \in Side /\ p \in Price /\ i \in 1..Len(q) /\ q[i].order_id = id
  BY Located
<1>2. q \in Seq(RestingOrder)
  BY <1>1, NodeIndexed
<1>3. /\ levels' = [levels EXCEPT ![side][p] = [aggregate_quantity |-> agg, orders |-> q2]]
      /\ levels \in [Side -> [Price -> PriceLevel]]
  BY DEF set_remaining, Queue, BookInv, BookTypeOK
<1> HIDE DEF agg, i, side, p, q
<1>4. /\ q2 \in Seq(RestingOrder) /\ Len(q2) = Len(q)
      /\ \A j \in 1..Len(q) : j # i => q2[j] = q[j]
      /\ q2[i].order_id = q[i].order_id
      /\ q2[i].priority_sequence = q[i].priority_sequence
      /\ q2[i].remaining_quantity = quantity
  BY <1>1, <1>2, ResizedQueue
<1> HIDE DEF q2
<1>5. OneQueue(levels, levels', side, p, q2)
  BY <1>1, <1>3, OneQueueChanges
<1>6. order_index' = order_index
  BY DEF set_remaining
<1>7. /\ i \in 1..Len(Queue(side, p)) /\ id = Queue(side, p)[i].order_id
      /\ Len(q2) = Len(Queue(side, p))
      /\ \A j \in 1..Len(Queue(side, p)) : j # i => q2[j] = Queue(side, p)[j]
      /\ q2[i].order_id = Queue(side, p)[i].order_id
      /\ q2[i].priority_sequence = Queue(side, p)[i].priority_sequence
  BY <1>1, <1>4 DEF q
<1> QED BY <1>1, <1>4, <1>5, <1>6, <1>7, SetShows

\* add_resting: a node joins the back of a queue.
LEMMA RestShows ==
  ASSUME BookInv, BookInv', Strict(levels),
         NEW side \in Side, NEW p \in Price, NEW node \in RestingOrder,
         node.priority_sequence = next_priority_sequence,
         OneQueue(levels, levels', side, p, Append(Queue(side, p), node)),
         NEW id, id = node.order_id, id \notin DOMAIN order_index,
         DOMAIN order_index' = DOMAIN order_index \cup {id},
         \A other \in DOMAIN order_index : order_index'[other] = order_index[other]
  PROVE  /\ Strict(levels') /\ KeptBut(id) /\ NodeOf(levels', order_index', id) = node
<1>1. Queue(side, p) = QueueAt(levels, side, p)
  BY DEF Queue, QueueAt
<1>2. Placed(levels, order_index) /\ Placed(levels', order_index')
  BY BothPlaced
<1>3. \A i \in DOMAIN QueueAt(levels, side, p) :
        QueueAt(levels, side, p)[i].priority_sequence < node.priority_sequence
  BY DEF BookInv, FifoByPriority, QueueAt
<1>4. OneQueue(levels, levels', side, p, Append(QueueAt(levels, side, p), node))
  BY <1>1
<1>5. \A other \in DOMAIN order_index :
        other \in DOMAIN order_index' /\ order_index'[other] = order_index[other]
  OBVIOUS
<1>6. /\ Strict(levels') /\ NodeOf(levels', order_index', node.order_id) = node
      /\ \A other \in DOMAIN order_index :
           NodeOf(levels', order_index', other) = NodeOf(levels, order_index, other)
  BY <1>2, <1>3, <1>4, <1>5, EnqueueEffect
<1>7. KeptBut(id)
  BY <1>5, <1>6 DEF KeptBut
<1> QED BY <1>6, <1>7

----------------------------------------------------------------------------
(* Each action of the engine is one of the auction *)

\* What is needed beside IInv: queues in strict order, no order with nothing left
\* but after an exception, and what is matched.
ServeInv ==
  /\ Strict(levels)
  /\ phase # "failed" => NoneEmpty(levels, order_index)
  /\ phase = "idle" => taker = NoOrder
  /\ phase = "matching" /\ taker.type = "Market" => taker.limit_price = NoPrice

Serves == ServeInv' /\ [Engine!Next]_(Engine!vars)

\* The same in the next state.
LEMMA NextState ==
  /\ Seen' = Shown(levels', order_index')
  /\ Offer' = Offered(taker', remaining')
  /\ ServeInv' <=> /\ Strict(levels')
                   /\ phase' # "failed" => NoneEmpty(levels', order_index')
                   /\ phase' = "idle" => taker' = NoOrder
                   /\ phase' = "matching" /\ taker'.type = "Market"
                        => taker'.limit_price = NoPrice
<1>1. Seen' = Shown(levels', order_index')
  BY DEF Seen, Shown, Open, View, NodeOf
<1>2. Offer' = Offered(taker', remaining')
  BY DEF Offer, Offered, Rests
<1>3. Strict(levels)' <=> Strict(levels')
  BY DEF Strict, QueueAt
<1>4. NoneEmpty(levels, order_index)' <=> NoneEmpty(levels', order_index')
  BY DEF NoneEmpty, NodeOf
<1> QED BY <1>1, <1>2, <1>3, <1>4 DEF ServeInv

\* An order that is offered is no absence of one.
LEMMA OfferMade ==
  ASSUME NEW c \in NewOrder, NEW quantity \in Quantity
  PROVE  /\ Offered(c, quantity) # NoOrder /\ c # NoOrder
         /\ Offered(c, quantity).order_id = c.order_id /\ Offered(c, quantity).side = c.side
         /\ Offered(c, quantity).limit = c.limit_price
         /\ Offered(c, quantity).quantity = quantity
         /\ Offered(c, quantity).rests = Rests(c)
         /\ Offered(c, quantity).all_or_none = (c.time_in_force = "FOK")
<1> DEFINE offer == [order_id |-> c.order_id, side |-> c.side, limit |-> c.limit_price,
                     quantity |-> quantity, rests |-> Rests(c),
                     all_or_none |-> c.time_in_force = "FOK"]
<1>1. c # NoOrder
  BY AbsenceAssumption DEF AbsenceAssumption
<1>2. Offered(c, quantity) = offer
  BY <1>1 DEF Offered
<1>3. offer \in [order_id : OrderId, side : Side, limit : Price \cup {0, NoPrice},
                 quantity : Quantity, rests : BOOLEAN, all_or_none : BOOLEAN]
  BY DEF NewOrder, Rests
<1>4. offer # NoOrder
  BY <1>3, AbsenceAssumption DEF AbsenceAssumption
<1> QED BY <1>1, <1>2, <1>4

LEMMA Emitted ==
  ASSUME NEW before, NEW event, NEW then, Emit(before, event, then)
  PROVE  /\ phase' \in {then, "failed"}
         /\ next_event_sequence # kMaxSequence => phase' = then
         /\ next_event_sequence = kMaxSequence => phase' = "failed"
BY DEF Emit

\* A step that leaves the book and the order matched alone.
LEMMA QuietServes ==
  ASSUME ServeInv, UNCHANGED <<book, taker, remaining>>, phase' \in {phase, "failed"}
  PROVE  Serves
<1>1. /\ levels' = levels /\ order_index' = order_index
      /\ next_priority_sequence' = next_priority_sequence
      /\ taker' = taker /\ remaining' = remaining
  BY DEF book
<1>2. Seen' = Seen /\ Offer' = Offer
  BY <1>1, NextState DEF Seen, Offer
<1>3. ServeInv'
  BY <1>1, NextState DEF ServeInv
<1> QED BY <1>1, <1>2, <1>3 DEF Serves, Engine!vars

LEMMA RejectServes ==
  ASSUME ServeInv, phase = "idle", NEW id, NEW reason, Reject(id, reason)
  PROVE  Serves
BY QuietServes, Emitted DEF Reject

\* An accepted order is submitted.
LEMMA NewServes ==
  ASSUME IInv, ServeInv, phase = "idle", NEW c \in NewOrderInputs, ProcessNew(c)
  PROVE  Serves
<1> DEFINE verdict == validate_new(c, predicted_remainder(c), FALSE)
<1>1. c \in NewOrder /\ c.order_id \in OrderId /\ c.quantity \in Quantity
  BY DEF NewOrderInputs, NewOrder
<1>2. CASE Reject(c.order_id, verdict)
  BY <1>2, RejectServes
<1>3. CASE /\ verdict = Valid
           /\ Emit(<<>>, [kind |-> "Accepted", order_id |-> c.order_id, quantity |-> c.quantity],
                   "matching")
           /\ taker' = c /\ remaining' = c.quantity /\ UNCHANGED book
  <2>1. phase' \in {"matching", "failed"}
    BY <1>3, Emitted
  <2>2. /\ levels' = levels /\ order_index' = order_index
        /\ next_priority_sequence' = next_priority_sequence
        /\ taker' = c /\ remaining' = c.quantity
    BY <1>3 DEF book
  <2>3. /\ c.order_id \notin DOMAIN order_index /\ c.quantity # 0
        /\ c.type = "Market" => c.limit_price = NoPrice
    BY <1>3 DEF validate_new, Valid
  <2>4. Seen' = Seen /\ DOMAIN Seen \subseteq DOMAIN order_index
    BY <2>2, NextState DEF Seen, Shown, Open
  <2>5. Offer = NoOrder
    BY DEF ServeInv, Offer, Offered
  <2>6. /\ Offer' # NoOrder /\ Offer'.order_id = c.order_id
        /\ Offer'.quantity \in Engine!Quantity \ {0}
    BY <1>1, <2>2, <2>3, NextState, OfferMade DEF Engine!Quantity, Quantity
  <2>7. Engine!Submit
    BY <1>1, <2>2, <2>3, <2>4, <2>5, <2>6 DEF Engine!Submit, Engine!Arriving
  <2>8. ServeInv'
    BY <2>1, <2>2, <2>3, NextState DEF ServeInv
  <2> QED BY <2>7, <2>8 DEF Serves, Engine!Next
<1> QED BY <1>2, <1>3 DEF ProcessNew

\* While the engine is idle, the auction sees every indexed order and no other.
LEMMA IdleSees ==
  ASSUME ServeInv, phase = "idle"
  PROVE  DOMAIN Seen = DOMAIN order_index /\ Offer = NoOrder
BY DEF ServeInv, NoneEmpty, Seen, Shown, Open, Offer, Offered

\* A cancelled order is withdrawn.
LEMMA CancelServes ==
  ASSUME IInv, IInv', ServeInv, phase = "idle", NEW id \in OrderId, ProcessCancel(id)
  PROVE  Serves
<1>1. CASE RejectUnknown(id)
  BY <1>1, RejectServes DEF RejectUnknown
<1>2. CASE /\ id \in DOMAIN order_index
           /\ erase_indexed(id)
           /\ Emit(<<>>, [kind |-> "Cancelled", order_id |-> id,
                          quantity |-> Resting(id).remaining_quantity], "idle")
           /\ UNCHANGED <<next_priority_sequence, taker, remaining>>
  <2>1. phase' \in {"idle", "failed"}
    BY <1>2, Emitted
  <2>2. /\ Strict(levels') /\ KeptBut(id)
        /\ DOMAIN order_index' = DOMAIN order_index \ {id}
    BY <1>2, EraseShows DEF IInv, ServeInv
  <2>3. id \in DOMAIN Seen /\ Offer = NoOrder
    BY <1>2, IdleSees
  <2>4. Seen' = Engine!Without(id)
    BY <2>2, <2>3, SeenLess
  <2>5. NoneEmpty(levels', order_index')
    BY <2>2, NoneEmptied DEF ServeInv
  <2>6. ServeInv'
    BY <1>2, <2>1, <2>2, <2>5, NextState DEF ServeInv
  <2>7. Offer' = Offer
    BY <1>2, NextState DEF Offer
  <2>8. Engine!Withdraw
    BY <1>2, <2>3, <2>4, <2>7 DEF Engine!Withdraw
  <2> QED BY <2>6, <2>8 DEF Serves, Engine!Next
<1> QED BY <1>1, <1>2 DEF ProcessCancel

\* An order set to a smaller quantity, not 0, shrinks.
LEMMA SetServes ==
  ASSUME IInv, IInv', ServeInv, phase = "idle", NEW id \in DOMAIN order_index,
         NEW quantity \in 1..Resting(id).remaining_quantity, set_remaining(id, quantity),
         phase' \in {"idle", "failed"}, UNCHANGED <<taker, remaining>>
  PROVE  Serves
<1>1. Resting(id).remaining_quantity \in Quantity
  BY Located DEF IInv, RestingOrder
<1>2. quantity \in Quantity /\ quantity # 0
  BY <1>1, WidthAssumption DEF Quantity
<1>3. /\ Strict(levels') /\ KeptBut(id) /\ order_index' = order_index
      /\ NodeOf(levels', order_index', id).remaining_quantity = quantity
      /\ NodeOf(levels', order_index', id).priority_sequence
           = NodeOf(levels, order_index, id).priority_sequence
  BY <1>2, SetRemainingShows DEF IInv, ServeInv
<1>4. id \in DOMAIN Seen /\ Offer = NoOrder
  BY IdleSees
<1>5. Seen' = [Seen EXCEPT ![id].quantity = quantity]
  BY <1>2, <1>3, <1>4, SeenSmaller
<1>6. NoneEmpty(levels', order_index')
  BY <1>2, <1>3, NoneEmptied DEF ServeInv
<1>7. ServeInv'
  BY <1>3, <1>6, NextState DEF ServeInv
<1>8. Offer' = Offer
  BY NextState DEF Offer
<1>9. next_priority_sequence' = next_priority_sequence
  BY DEF set_remaining
<1>10. Seen[id].quantity = Resting(id).remaining_quantity
  BY <1>4, SeenOrder DEF IInv
<1>11. quantity \in 1..Seen[id].quantity
  BY <1>10
<1>12. Engine!Shrink
  BY <1>4, <1>5, <1>8, <1>9, <1>11 DEF Engine!Shrink
<1> QED BY <1>7, <1>12 DEF Serves, Engine!Next

LEMMA ReduceServes ==
  ASSUME IInv, IInv', ServeInv, phase = "idle", NEW id \in OrderId,
         NEW reduce_by \in Quantities, ProcessReduce(id, reduce_by)
  PROVE  Serves
<1> DEFINE old == Resting(id).remaining_quantity
<1>1. CASE RejectUnknown(id)
  BY <1>1, RejectServes DEF RejectUnknown
<1>2. CASE Reject(id, "InvalidReduction")
  BY <1>2, RejectServes
<1>3. CASE /\ id \in DOMAIN order_index
           /\ ~InvalidReduction(id, reduce_by)
           /\ set_remaining(id, old - reduce_by)
           /\ Emit(<<>>, [kind |-> "Reduced", order_id |-> id, old |-> old,
                          quantity |-> old - reduce_by], "idle")
           /\ UNCHANGED <<taker, remaining>>
  <2>1. old \in Quantity
    BY <1>3, Located DEF IInv, RestingOrder
  <2>2. old - reduce_by \in 1..Resting(id).remaining_quantity
    BY <1>3, <2>1, WidthAssumption DEF Quantity, InvalidReduction
  <2>3. phase' \in {"idle", "failed"}
    BY <1>3, Emitted
  <2> QED BY <1>3, <2>2, <2>3, SetServes
<1> QED BY <1>1, <1>2, <1>3 DEF ProcessReduce

\* A replaced order shrinks in place, or gives up its place and is amended.
LEMMA ReplaceServes ==
  ASSUME IInv, IInv', ServeInv, phase = "idle", NEW id \in OrderId,
         NEW price \in PriceInputs, NEW quantity \in Quantities,
         ProcessReplace(id, price, quantity)
  PROVE  Serves
<1>1. quantity \in Quantity
  BY WidthAssumption DEF Quantity
<1>2. CASE RejectUnknown(id)
  BY <1>2, RejectServes DEF RejectUnknown
<1>3. CASE Reject(id, IF quantity = 0 THEN "ZeroQuantity" ELSE "InvalidPrice")
  BY <1>3, RejectServes
<1>4. CASE ReplaceInPlace(id, price, quantity)
  <2>1. phase' \in {"idle", "failed"}
    BY <1>4, Emitted DEF ReplaceInPlace
  <2> QED BY <1>4, <2>1, SetServes DEF ReplaceInPlace
<1>5. CASE ReplaceAfresh(id, price, quantity)
  <2> DEFINE replacement == [order_id |-> id, side |-> order_index[id].side, type |-> "Limit",
                             time_in_force |-> "GTC", limit_price |-> price,
                             quantity |-> quantity]
             verdict == validate_new(replacement, predicted_remainder(replacement), TRUE)
  <2>1. /\ id \in DOMAIN order_index /\ price \in Price /\ quantity # 0
        /\ price # order_index[id].price \/ quantity > Resting(id).remaining_quantity
    BY <1>5 DEF ReplaceAfresh
  <2>2. CASE Reject(id, verdict)
    BY <2>2, RejectServes
  <2>3. CASE /\ erase_indexed(id) /\ Emit(<<>>, Replaced(id, price, quantity, FALSE), "matching")
             /\ taker' = replacement /\ remaining' = quantity
             /\ UNCHANGED next_priority_sequence
    <3>1. phase' \in {"matching", "failed"}
      BY <2>3, Emitted
    <3>2. order_index[id].side \in Side
      BY <2>1, Located DEF IInv
    <3>3. replacement \in NewOrder
      BY <1>1, <2>1, <3>2 DEF NewOrder
    <3>4. /\ Strict(levels') /\ KeptBut(id)
          /\ DOMAIN order_index' = DOMAIN order_index \ {id}
      BY <2>1, <2>3, EraseShows DEF IInv, ServeInv
    <3>5. id \in DOMAIN Seen /\ Offer = NoOrder
      BY <2>1, IdleSees
    <3>6. Seen' = Engine!Without(id)
      BY <3>4, <3>5, SeenLess
    <3>7. NoneEmpty(levels', order_index')
      BY <3>4, NoneEmptied DEF ServeInv
    <3>8. replacement.type = "Limit"
      OBVIOUS
    <3>9. ServeInv'
      BY <2>3, <3>1, <3>4, <3>7, <3>8, NextState DEF ServeInv
    <3>10. /\ Offer' # NoOrder /\ Offer'.order_id = id /\ Offer'.quantity = quantity
           /\ Offer'.side = order_index[id].side /\ Offer'.limit = price
      <4>1. Offer' = Offered(replacement, quantity)
        BY <2>3, NextState
      <4>2. /\ replacement.order_id = id /\ replacement.side = order_index[id].side
            /\ replacement.limit_price = price
        OBVIOUS
      <4> HIDE DEF replacement
      <4> QED BY <1>1, <3>3, <4>1, <4>2, OfferMade
    <3>11. quantity \in Engine!Quantity \ {0}
      BY <1>1, <2>1 DEF Engine!Quantity, Quantity
    <3>12. /\ Seen[id].side = order_index[id].side /\ Seen[id].price = order_index[id].price
           /\ Seen[id].quantity = Resting(id).remaining_quantity
      BY <3>5, SeenOrder DEF IInv
    <3> HIDE DEF replacement
    <3>13. Engine!Amend
      BY <2>1, <2>3, <3>5, <3>6, <3>10, <3>11, <3>12 DEF Engine!Amend, Engine!Arriving
    <3> QED BY <3>9, <3>13 DEF Serves, Engine!Next
  <2> QED BY <1>5, <2>2, <2>3 DEF ReplaceAfresh
<1> QED BY <1>2, <1>3, <1>4, <1>5 DEF ProcessReplace

\* Returning from process() lets the filled order leave.
LEMMA CompleteServes ==
  ASSUME IInv, ServeInv, Complete
  PROVE  Serves
<1>1. /\ phase = "matching" /\ remaining = 0 /\ phase' = "idle" /\ taker' = NoOrder
      /\ levels' = levels /\ order_index' = order_index
      /\ next_priority_sequence' = next_priority_sequence
  BY DEF Complete, book
<1>2. taker \in NewOrder /\ remaining \in Quantity
  BY <1>1 DEF IInv, TakerInv, TypeOK
<1>3. Offer # NoOrder /\ Offer.quantity = 0
  BY <1>1, <1>2, OfferMade DEF Offer
<1>4. Seen' = Seen /\ Offer' = NoOrder
  BY <1>1, NextState DEF Seen, Offered
<1>5. ServeInv'
  BY <1>1, NextState DEF ServeInv
<1>6. Engine!Leave
  BY <1>1, <1>3, <1>4 DEF Engine!Leave
<1> QED BY <1>5, <1>6 DEF Serves, Engine!Next

\* Where an order the auction sees rests, there is a level.
LEMMA SeenLevel ==
  ASSUME BookInv, NEW id \in DOMAIN Seen
  PROVE  Seen[id].price \in Occupied(Seen[id].side)
<1>1. /\ id \in DOMAIN order_index /\ Seen[id].side = order_index[id].side
      /\ Seen[id].price = order_index[id].price
  BY SeenOrder
<1>2. /\ order_index[id].side \in Side /\ order_index[id].price \in Price
      /\ Position(id) \in 1..Len(Queue(order_index[id].side, order_index[id].price))
  BY <1>1, Located
<1>3. Queue(order_index[id].side, order_index[id].price) # <<>>
  BY <1>2
<1> QED BY <1>1, <1>2, <1>3 DEF Occupied, Queue

\* An order that crosses nothing accepts no one.
LEMMA NoneAcceptable ==
  ASSUME IInv, phase = "matching", ~would_cross(taker), NEW id \in DOMAIN Seen
  PROVE  ~Engine!Acceptable(id)
<1>1. /\ taker \in NewOrder /\ remaining \in Quantity
      /\ taker.type = "Limit" => taker.limit_price \in Price
  BY DEF IInv, TakerInv, TypeOK
<1>2. Offer.side = taker.side /\ Offer.limit = taker.limit_price
  BY <1>1, OfferMade DEF Offer
<1>3. /\ Seen[id].side \in Side /\ Seen[id].price \in Price
      /\ Seen[id].price \in Occupied(Seen[id].side)
  BY SeenOrder, SeenLevel DEF IInv
<1>4. taker.side \in Side
  BY <1>1 DEF NewOrder
<1> SUFFICES ASSUME Seen[id].side # Offer.side
             PROVE  /\ Offer.limit # NoPrice
                    /\ Offer.side = "Buy" => ~(Seen[id].price <= Offer.limit)
                    /\ Offer.side = "Sell" => ~(Seen[id].price >= Offer.limit)
  BY DEF Engine!Acceptable
<1>5. Seen[id].side = Opposite(taker.side)
  BY <1>2, <1>3, <1>4 DEF Opposite, Side
<1>6. ~Crosses(taker, Seen[id].price)
  BY <1>3, <1>5 DEF would_cross
<1>7. taker.type = "Limit" /\ Better(taker.side, Seen[id].price, taker.limit_price)
  BY <1>6 DEF Crosses
<1>8. taker.limit_price \in Nat /\ Seen[id].price \in Nat
  BY <1>1, <1>3, <1>7, PriceAssumption DEF PriceAssumption
<1>9. taker.limit_price # NoPrice
  BY <1>8, PriceAssumption DEF PriceAssumption
<1>10. /\ taker.side = "Buy" => Seen[id].price > taker.limit_price
       /\ taker.side = "Sell" => Seen[id].price < taker.limit_price
  BY <1>7 DEF Better
<1>11. /\ taker.side = "Buy" => ~(Seen[id].price <= taker.limit_price)
       /\ taker.side = "Sell" => ~(Seen[id].price >= taker.limit_price)
  BY <1>8, <1>10
<1> QED BY <1>2, <1>9, <1>11

\* What is dropped leaves, unless it is to be filled or killed.
LEMMA ExpireServes ==
  ASSUME IInv, ServeInv, FillOrKillFills, Expire
  PROVE  Serves
<1>1. /\ phase = "matching" /\ remaining # 0 /\ ~Matchable /\ ~Rests(taker)
      /\ taker' = NoOrder /\ remaining' = 0
      /\ levels' = levels /\ order_index' = order_index
      /\ next_priority_sequence' = next_priority_sequence
  BY DEF Expire, book
<1>2. phase' \in {"idle", "failed"}
  BY Emitted DEF Expire
<1>3. taker \in NewOrder /\ remaining \in Quantity
  BY <1>1 DEF IInv, TakerInv, TypeOK
<1>4. ~would_cross(taker)
  BY <1>1 DEF Matchable, IInv, TakerInv
<1>5. taker.time_in_force # "FOK"
  BY <1>1 DEF FillOrKillFills
<1>6. Offer # NoOrder /\ ~Offer.rests /\ ~Offer.all_or_none
  BY <1>1, <1>3, <1>5, OfferMade DEF Offer
<1>7. Seen' = Seen /\ Offer' = NoOrder
  BY <1>1, NextState DEF Seen, Offered
<1>8. ServeInv'
  BY <1>1, <1>2, NextState DEF ServeInv
<1>9. Engine!Leave
  BY <1>1, <1>4, <1>6, <1>7, NoneAcceptable DEF Engine!Leave
<1> QED BY <1>8, <1>9 DEF Serves, Engine!Next

\* What is rested joins, behind all others at its price.
LEMMA RestServes ==
  ASSUME IInv, IInv', ServeInv, Rest
  PROVE  Serves
<1> DEFINE side == taker.side
           p == taker.limit_price
           id == taker.order_id
           agg == Wrap(levels[side][p].aggregate_quantity + remaining)
           node == [order_id |-> id, remaining_quantity |-> remaining,
                    priority_sequence |-> next_priority_sequence]
<1>1. /\ phase = "matching" /\ remaining # 0 /\ ~Matchable /\ Rests(taker)
      /\ taker' = NoOrder /\ remaining' = 0
      /\ next_priority_sequence' = next_priority_sequence + 1
  BY DEF Rest
<1>2. phase' \in {"idle", "failed"}
  BY Emitted DEF Rest
<1>3. /\ taker \in NewOrder /\ remaining \in Quantity /\ id \in OrderId /\ side \in Side
      /\ p \in Price /\ id \notin DOMAIN order_index
      /\ next_priority_sequence \in SequenceNumber
  BY <1>1 DEF IInv, TakerInv, TypeOK, NewOrder, Rests
<1>4. ~would_cross(taker)
  BY <1>1 DEF Matchable, IInv, TakerInv
<1>5. /\ node \in RestingOrder /\ node.order_id = id /\ node.remaining_quantity = remaining
      /\ node.priority_sequence = next_priority_sequence
  BY <1>3 DEF RestingOrder
<1>6. levels' = [levels EXCEPT ![side][p] =
        [aggregate_quantity |-> agg, orders |-> Append(Queue(side, p), node)]]
  BY DEF Rest, Queue, PushBack
<1>7. /\ DOMAIN order_index' = DOMAIN order_index \cup {id}
      /\ order_index'[id] = [side |-> side, price |-> p]
      /\ \A other \in DOMAIN order_index : order_index'[other] = order_index[other]
  BY <1>3 DEF Rest
<1>8. levels \in [Side -> [Price -> PriceLevel]]
  BY DEF IInv, BookInv, BookTypeOK
<1> HIDE DEF node, agg
<1>9. OneQueue(levels, levels', side, p, Append(Queue(side, p), node))
  BY <1>3, <1>6, <1>8, OneQueueChanges
<1>10. BookInv /\ BookInv' /\ Strict(levels) /\ NoneEmpty(levels, order_index)
  BY <1>1 DEF IInv, ServeInv
<1>11. /\ Strict(levels') /\ KeptBut(id) /\ NodeOf(levels', order_index', id) = node
  BY <1>3, <1>5, <1>7, <1>9, <1>10, RestShows
<1>12. NoneEmpty(levels', order_index')
  BY <1>1, <1>5, <1>7, <1>10, <1>11, NoneEmptied
<1>13. ServeInv'
  BY <1>1, <1>2, <1>11, <1>12, NextState
<1> DEFINE order == [side |-> side, price |-> p, quantity |-> remaining,
                     arrival |-> next_priority_sequence]
<1>14. order = View(order_index'[id], NodeOf(levels', order_index', id))
  BY <1>5, <1>7, <1>11 DEF View
<1> HIDE DEF order
<1>15. Seen' = Joined(id, order)
  BY <1>1, <1>3, <1>5, <1>7, <1>11, <1>14, SeenMore
<1>16. /\ Offer # NoOrder /\ Offer.order_id = id /\ Offer.side = side /\ Offer.limit = p
       /\ Offer.quantity = remaining /\ Offer.rests
  BY <1>1, <1>3, OfferMade DEF Offer
<1>17. Offer' = NoOrder
  BY <1>1, NextState DEF Offered
<1>18. order = [side |-> Offer.side, price |-> Offer.limit, quantity |-> Offer.quantity,
                arrival |-> next_priority_sequence]
  BY <1>16 DEF order
<1>19. \A other \in DOMAIN Seen : ~Engine!Acceptable(other)
  BY <1>1, <1>4, NoneAcceptable
<1> HIDE DEF id, side, p
<1>20. Engine!Join
  BY <1>1, <1>15, <1>16, <1>17, <1>18, <1>19 DEF Engine!Join, Joined
<1> QED BY <1>13, <1>20 DEF Serves, Engine!Next

\* The front of a best level is served before every other order of its side, and
\* its price is one that the order being matched accepts.
LEMMA FrontIsFirst ==
  ASSUME IInv, Strict(levels), phase = "matching", would_cross(taker),
         taker.type = "Market" => taker.limit_price = NoPrice,
         NEW p \in BestPrices(Opposite(taker.side)),
         NEW id \in DOMAIN Seen, id = Queue(Opposite(taker.side), p)[1].order_id
  PROVE  Engine!Acceptable(id) /\ Engine!First(id)
<1> DEFINE side == Opposite(taker.side)
           q == Queue(side, p)
<1>1. /\ taker \in NewOrder /\ remaining \in Quantity /\ taker.side \in Side
      /\ taker.type \in {"Limit", "Market"}
      /\ taker.type = "Limit" => taker.limit_price \in Price
  BY DEF IInv, TakerInv, TypeOK, NewOrder
<1>2. Offer.side = taker.side /\ Offer.limit = taker.limit_price
  BY <1>1, OfferMade DEF Offer
<1>3. side \in Side /\ side # taker.side
  BY <1>1 DEF Opposite, Side
<1>4. /\ p \in Price /\ p \in Nat /\ q # <<>>
      /\ \A p2 \in Occupied(side) : ~Better(side, p2, p)
  BY PriceAssumption DEF PriceAssumption, BestPrices, Occupied, Queue
<1>5. q \in Seq(RestingOrder) /\ DOMAIN q = 1..Len(q)
  BY <1>3, <1>4, NodeIndexed DEF IInv
<1>6. 1 \in 1..Len(q) /\ Len(q) \in Nat
  BY <1>4, <1>5
<1> HIDE DEF side, q
<1>7. BookInv /\ Placed(levels, order_index) /\ q = QueueAt(levels, side, p)
  BY BookIsPlaced DEF IInv, q, Queue, QueueAt, side
<1>8. /\ NodeOf(levels, order_index, id) = q[1] /\ q[1].order_id = id
      /\ order_index[id].side = side /\ order_index[id].price = p
  <2>1. q[1].order_id = id
    BY DEF q, side
  <2> QED BY <1>3, <1>4, <1>6, <1>7, <2>1, NodeIs
<1>9. /\ Seen[id].side = side /\ Seen[id].price = p
      /\ Seen[id].arrival = q[1].priority_sequence
  BY <1>7, <1>8, SeenOrder, RestingIsNode
<1>10. Engine!Acceptable(id)
  <2>1. CASE taker.type = "Market"
    BY <1>2, <1>3, <1>9, <2>1 DEF Engine!Acceptable
  <2>2. CASE taker.type = "Limit"
    <3>1. PICK p2 \in Occupied(side) : ~Better(taker.side, p2, taker.limit_price)
      BY <2>2 DEF would_cross, Crosses, side
    <3>2. p2 \in Nat /\ taker.limit_price \in Nat
      BY <1>1, <2>2, PriceAssumption DEF PriceAssumption, Occupied
    <3>3. CASE taker.side = "Buy"
      <4>1. side = "Sell"
        BY <3>3 DEF side, Opposite
      <4>2. ~(p2 > taker.limit_price) /\ ~(p2 < p)
        BY <1>4, <3>1, <3>3, <4>1 DEF Better
      <4>3. p <= taker.limit_price
        BY <1>4, <3>2, <4>2
      <4> QED BY <1>2, <1>3, <1>9, <3>3, <4>3 DEF Engine!Acceptable
    <3>4. CASE taker.side = "Sell"
      <4>1. side = "Buy"
        BY <3>4 DEF side, Opposite
      <4>2. ~(p2 < taker.limit_price) /\ ~(p2 > p)
        BY <1>4, <3>1, <3>4, <4>1 DEF Better
      <4>3. p >= taker.limit_price
        BY <1>4, <3>2, <4>2
      <4> QED BY <1>2, <1>3, <1>9, <3>4, <4>3 DEF Engine!Acceptable
    <3> QED BY <1>1, <3>3, <3>4 DEF Side
  <2> QED BY <1>1, <2>1, <2>2
<1>11. ASSUME NEW other \in DOMAIN Seen \ {id}, Seen[other].side = Seen[id].side
       PROVE  Engine!Before(id, other)
  <2>1. /\ other \in DOMAIN order_index /\ Seen[other].price = order_index[other].price
        /\ order_index[other].side = side
        /\ Seen[other].arrival = NodeOf(levels, order_index, other).priority_sequence
        /\ Seen[other].price \in Occupied(side)
    BY <1>7, <1>9, <1>11, SeenOrder, SeenLevel, RestingIsNode
  <2>2. CASE Seen[other].price = p
    <3>0. order_index[other].side = side /\ order_index[other].price = p
      BY <2>1, <2>2
    <3>1. PICK k \in 1..Len(q) : q[k] = NodeOf(levels, order_index, other)
      BY <1>7, <2>1, <3>0, NodeListed
    <3>2. NodeOf(levels, order_index, other).order_id = other
      BY <1>7, <2>1, NodeThere
    <3>3. k # 1
      BY <1>8, <1>11, <3>1, <3>2
    <3>4. 1 < k /\ k \in DOMAIN q /\ 1 \in DOMAIN q
      BY <1>5, <1>6, <3>3
    <3>5. q[1].priority_sequence < q[k].priority_sequence
      BY <1>3, <1>4, <1>7, <3>4 DEF Strict
    <3> QED BY <1>9, <2>1, <2>2, <3>1, <3>5 DEF Engine!Before
  <2>3. CASE Seen[other].price # p
    <3>1. Seen[other].price \in Nat /\ ~Better(side, Seen[other].price, p)
      BY <1>4, <2>1, PriceAssumption DEF PriceAssumption, Occupied
    <3>2. CASE side = "Buy"
      <4>1. p > Seen[other].price
        BY <1>4, <2>3, <3>1, <3>2 DEF Better
      <4> QED BY <1>9, <3>2, <4>1 DEF Engine!Before
    <3>3. CASE side = "Sell"
      <4>1. p < Seen[other].price
        BY <1>4, <2>3, <3>1, <3>3 DEF Better
      <4> QED BY <1>9, <3>3, <4>1 DEF Engine!Before
    <3> QED BY <1>3, <3>2, <3>3 DEF Side
  <2> QED BY <2>2, <2>3
<1> QED BY <1>10, <1>11 DEF Engine!First

\* One turn of match() is a trade with the first order of the opposite side.
LEMMA MatchServes ==
  ASSUME IInv, IInv', ServeInv, Match
  PROVE  Serves
<1> DEFINE side == Opposite(taker.side)
<1>1. PICK p \in BestPrices(side) :
        LET level == levels[side][p]
            maker == Head(level.orders)
            traded == Min({remaining, maker.remaining_quantity})
            left == maker.remaining_quantity - traded
            filled == left = 0 /\ next_event_sequence # kMaxSequence
        IN  /\ remaining' = remaining - traded
            /\ Emit(events, [kind |-> "Trade", maker_id |-> maker.order_id,
                             order_id |-> taker.order_id, price |-> p, quantity |-> traded],
                    "matching")
            /\ levels' = [levels EXCEPT ![side][p] =
                 [aggregate_quantity |-> Wrap(level.aggregate_quantity - traded),
                  orders |-> IF filled THEN Tail(level.orders)
                             ELSE [level.orders EXCEPT ![1].remaining_quantity = left]]]
            /\ order_index' = IF filled THEN Forget(maker.order_id) ELSE order_index
            /\ UNCHANGED <<next_priority_sequence, taker>>
  BY DEF Match
<1> DEFINE q == Queue(side, p)
           maker == Head(q)
           id == maker.order_id
           traded == Min({remaining, maker.remaining_quantity})
           left == maker.remaining_quantity - traded
           filled == left = 0 /\ next_event_sequence # kMaxSequence
           agg == Wrap(levels[side][p].aggregate_quantity - traded)
           q2 == IF filled THEN Tail(q) ELSE [q EXCEPT ![1].remaining_quantity = left]
<1>2. /\ remaining' = remaining - traded
      /\ next_priority_sequence' = next_priority_sequence /\ taker' = taker
      /\ phase' \in {"matching", "failed"}
      /\ next_event_sequence = kMaxSequence => phase' = "failed"
  BY <1>1, Emitted DEF Queue
<1>3. levels' = [levels EXCEPT ![side][p] = [aggregate_quantity |-> agg, orders |-> q2]]
  BY <1>1 DEF Queue
<1>4. order_index' = IF filled THEN Forget(id) ELSE order_index
  BY <1>1 DEF Queue
<1>5. /\ phase = "matching" /\ taker \in NewOrder /\ taker.side \in Side
      /\ would_cross(taker) /\ remaining # 0 /\ remaining \in Quantity
      /\ BookInv /\ BookInv' /\ Strict(levels) /\ NoneEmpty(levels, order_index)
      /\ taker.type = "Market" => taker.limit_price = NoPrice
  BY DEF Match, Matchable, IInv, TakerInv, TypeOK, NewOrder, ServeInv
<1>6. side \in Side /\ p \in Price /\ q # <<>>
  BY <1>1, <1>5 DEF Opposite, Side, BestPrices, Occupied, Queue
<1>7. /\ q \in Seq(RestingOrder) /\ Len(q) \in Nat /\ 1 \in 1..Len(q) /\ maker = q[1]
      /\ q[1] \in RestingOrder /\ DOMAIN q = 1..Len(q) /\ id \in DOMAIN order_index
  <2>1. /\ q \in Seq(RestingOrder) /\ DOMAIN q = 1..Len(q)
        /\ \A i \in 1..Len(q) : q[i] \in RestingOrder /\ q[i].order_id \in DOMAIN order_index
    BY <1>5, <1>6, NodeIndexed
  <2>2. Len(q) \in Nat /\ 1 \in 1..Len(q) /\ maker = q[1]
    BY <1>6, <2>1
  <2> QED BY <2>1, <2>2
<1>8. OneQueue(levels, levels', side, p, q2)
  <2>1. levels \in [Side -> [Price -> PriceLevel]]
    BY <1>5 DEF BookInv, BookTypeOK
  <2> HIDE DEF side, agg, q2
  <2> QED BY <1>3, <1>6, <2>1, OneQueueChanges
<1>9. Placed(levels, order_index) /\ q = QueueAt(levels, side, p)
  BY <1>5, BookIsPlaced DEF Queue, QueueAt
<1> HIDE DEF side, q, maker
<1>10. NodeOf(levels, order_index, id) = maker
  BY <1>6, <1>7, <1>9, NodeIs
<1>11. /\ id \in DOMAIN Seen
       /\ Seen[id].quantity = maker.remaining_quantity
       /\ maker.remaining_quantity \in Quantity \ {0}
  <2>1. id \in DOMAIN Seen
    BY <1>5, <1>7 DEF NoneEmpty, Seen, Shown, Open
  <2> QED BY <2>1, <1>5, <1>10, SeenOrder, RestingIsNode
<1>12. /\ traded \in Quantity \ {0} /\ traded <= remaining /\ traded <= Seen[id].quantity
       /\ traded = remaining \/ traded = Seen[id].quantity
       /\ remaining - traded \in Quantity /\ left \in Quantity
       /\ left = Seen[id].quantity - traded
  <2>1. remaining \in Int /\ maker.remaining_quantity \in Int
    BY <1>5, <1>11 DEF Quantity
  <2>2. /\ traded \in {remaining, maker.remaining_quantity}
        /\ traded <= remaining /\ traded <= maker.remaining_quantity
    BY <2>1, MinOfTwo
  <2> HIDE DEF traded
  <2>3. traded \in Quantity \ {0}
    BY <1>5, <1>11, <2>2
  <2> QED BY <1>5, <1>11, <2>2, <2>3, WidthAssumption DEF Quantity
<1> HIDE DEF traded, left, id
<1>13. Engine!Acceptable(id) /\ Engine!First(id)
  <2>1. p \in BestPrices(Opposite(taker.side)) /\ id = Queue(Opposite(taker.side), p)[1].order_id
    BY <1>1, <1>7 DEF side, q, id
  <2> QED BY <1>5, <1>11, <2>1, FrontIsFirst
<1>14. /\ Strict(levels')
       /\ phase' # "failed" => NoneEmpty(levels', order_index')
       /\ Seen' = IF traded = Seen[id].quantity THEN Engine!Without(id)
                  ELSE [Seen EXCEPT ![id].quantity = Seen[id].quantity - traded]
  <2>1. CASE filled
    <3>1. /\ q2 \in Seq(RestingOrder) /\ Len(q2) = Len(q) - 1
          /\ \A j \in 1..Len(q2) : q2[j] = IF j < 1 THEN q[j] ELSE q[j + 1]
      <4>1. /\ Tail(q) \in Seq(RestingOrder) /\ Len(Tail(q)) = Len(q) - 1
            /\ \A j \in 1..Len(Tail(q)) : Tail(q)[j] = q[j + 1]
        BY <1>6, <1>7, HeadTailProperties
      <4>2. q2 = Tail(q)
        BY <2>1
      <4> HIDE DEF q2, filled
      <4> QED BY <4>1, <4>2
    <3>2. order_index' = Forget(id) /\ left = 0
      BY <1>4, <2>1
    <3> HIDE DEF q2, filled
    <3> DEFINE first == 1
    <3>3. /\ first \in 1..Len(Queue(side, p)) /\ Len(q2) = Len(Queue(side, p)) - 1
          /\ \A j \in 1..Len(q2) :
               q2[j] = IF j < first THEN Queue(side, p)[j] ELSE Queue(side, p)[j + 1]
          /\ id = Queue(side, p)[first].order_id
      BY <1>7, <3>1 DEF id, q
    <3> HIDE DEF agg, first
    <3>4. /\ Strict(levels') /\ KeptBut(id)
          /\ DOMAIN order_index' = DOMAIN order_index \ {id}
      <4>1. BookInv /\ BookInv' /\ Strict(levels) /\ side \in Side /\ p \in Price
        BY <1>5, <1>6
      <4>2. q2 \in Seq(RestingOrder)
        BY <3>1
      <4>3. order_index' = Forget(id)
        BY <3>2
      <4> QED BY <1>8, <3>3, <4>1, <4>2, <4>3, DropShows
    <3>5. Seen' = Engine!Without(id)
      BY <1>11, <3>4, SeenLess
    <3>6. NoneEmpty(levels', order_index')
      BY <1>5, <3>4, NoneEmptied
    <3>7. traded = Seen[id].quantity
      BY <1>11, <1>12, <3>2 DEF Quantity
    <3> QED BY <3>4, <3>5, <3>6, <3>7
  <2>2. CASE ~filled
    <3>1. q2 = [q EXCEPT ![1].remaining_quantity = left]
      BY <2>2
    <3>2. order_index' = order_index
      BY <1>4, <2>2
    <3>3. left = 0 => phase' = "failed"
      BY <1>2, <2>2
    <3> HIDE DEF q2, filled
    <3>4. /\ q2 \in Seq(RestingOrder) /\ Len(q2) = Len(q)
          /\ \A j \in 1..Len(q) : j # 1 => q2[j] = q[j]
          /\ q2[1].order_id = q[1].order_id
          /\ q2[1].priority_sequence = q[1].priority_sequence
          /\ q2[1].remaining_quantity = left
      BY <1>7, <1>12, <3>1, ResizedQueue
    <3>5. id = q[1].order_id /\ q = Queue(side, p)
      BY <1>7 DEF id, q
    <3>6. /\ Strict(levels') /\ KeptBut(id)
          /\ NodeOf(levels', order_index', id).remaining_quantity = left
          /\ NodeOf(levels', order_index', id).priority_sequence
               = NodeOf(levels, order_index, id).priority_sequence
      BY <1>5, <1>6, <1>7, <1>8, <3>2, <3>4, <3>5, SetShows
    <3>7. CASE left = 0
      <4>1. Seen' = Engine!Without(id)
        BY <1>11, <3>2, <3>6, <3>7, SeenLess
      <4>2. traded = Seen[id].quantity
        BY <1>11, <1>12, <3>7 DEF Quantity
      <4> QED BY <3>3, <3>6, <3>7, <4>1, <4>2
    <3>8. CASE left # 0
      <4>1. Seen' = [Seen EXCEPT ![id].quantity = left]
        BY <1>11, <3>2, <3>6, <3>8, SeenSmaller
      <4>2. traded # Seen[id].quantity
        BY <1>11, <1>12, <3>8 DEF Quantity
      <4>3. NoneEmpty(levels', order_index')
        BY <1>5, <3>2, <3>6, <3>8, NoneEmptied
      <4>4. Seen' = [Seen EXCEPT ![id].quantity = Seen[id].quantity - traded]
        BY <4>1, <1>12
      <4> QED BY <3>6, <4>2, <4>3, <4>4
    <3> QED BY <3>7, <3>8
  <2> QED BY <2>1, <2>2
<1>15. ServeInv'
  <2>1. phase' # "idle" /\ taker' = taker
    BY <1>2
  <2>2. taker'.type = "Market" => taker'.limit_price = NoPrice
    BY <1>5, <2>1
  <2> HIDE DEF filled, agg, q2
  <2> QED BY <1>14, <2>1, <2>2, NextState
<1>16. /\ Offer # NoOrder /\ Offer.quantity = remaining
       /\ Offer' = [Offer EXCEPT !.quantity = Offer.quantity - traded]
  <2>1. Offer # NoOrder /\ Offer.quantity = remaining
    BY <1>5, OfferMade DEF Offer
  <2>2. Offer' = Offered(taker, remaining - traded)
    BY <1>2, NextState
  <2>3. taker # NoOrder
    BY <1>5, OfferMade
  <2> QED BY <2>1, <2>2, <2>3 DEF Offer, Offered
<1>17. Engine!Trade
  BY <1>2, <1>11, <1>12, <1>13, <1>14, <1>16 DEF Engine!Trade, Engine!Quantity, Quantity
<1> QED BY <1>15, <1>17 DEF Serves, Engine!Next

----------------------------------------------------------------------------
(* The theorem *)

\* An engine that has just been built has no order, and neither has the auction.
LEMMA InitServes == Init => ServeInv /\ Engine!Init
<1> SUFFICES ASSUME Init PROVE ServeInv /\ Engine!Init
  OBVIOUS
<1>1. /\ DOMAIN order_index = {} /\ taker = NoOrder /\ next_priority_sequence = 1
      /\ phase = "idle"
  BY DEF Init
<1>2. \A side \in Side, p \in Price : QueueAt(levels, side, p) = <<>>
  BY DEF Init, NoLevel, QueueAt
<1>3. Strict(levels)
  BY <1>2 DEF Strict
<1>4. ServeInv
  BY <1>1, <1>3 DEF ServeInv, NoneEmpty
<1>5. Seen = <<>>
  <2>1. DOMAIN Seen = {}
    BY <1>1 DEF Seen, Shown, Open
  <2>2. Seen = [id \in {} |-> Seen[id]]
    BY <2>1 DEF Seen, Shown
  <2> QED BY <2>2
<1>6. Offer = NoOrder
  BY <1>1 DEF Offer, Offered
<1> QED BY <1>1, <1>4, <1>5, <1>6 DEF Engine!Init

\* Every step of the engine is a step of the auction, or one it does not see.
LEMMA StepServes ==
  ASSUME IInv, IInv', ServeInv, FillOrKillFills, [Next]_vars
  PROVE  Serves
<1>1. CASE Command
  BY <1>1, NewServes, CancelServes, ReduceServes, ReplaceServes DEF Command
<1>2. CASE Execute
  BY <1>2, MatchServes, CompleteServes, RestServes, ExpireServes DEF Execute
<1>3. CASE UNCHANGED vars
  <2>1. UNCHANGED <<book, taker, remaining>> /\ phase' \in {phase, "failed"}
    BY <1>3 DEF vars, book
  <2> QED BY <2>1, QuietServes
<1> QED BY <1>1, <1>2, <1>3 DEF Next, Terminated

\* The matching engine is an auction in price-time priority: process() trades an
\* arriving order only with the first resting order it accepts, the best price and
\* then the longest at it, rests or drops what nothing accepts, and lets a resting
\* order keep its turn through a reduction and lose it through any other replacement.
\* It holds for every set of ids, prices and quantities and every width.
THEOREM PriceTimePriority == Spec => ImplementsAuction
<1>1. Init => ServeInv /\ Exchange!Init
  BY InitServes, EngineIsExchange
<1>2. ValidationCoversMatching => FillOrKillFills
  BY DEF ValidationCoversMatching
<1>3. IInv /\ IInv' /\ ServeInv /\ FillOrKillFills /\ [Next]_vars
        => ServeInv' /\ [Exchange!Next]_(Exchange!vars)
  BY StepServes, EngineIsExchange DEF Serves
<1> QED BY <1>1, <1>2, <1>3, Invariance, ValidationSuffices, PTL
        DEF Spec, ImplementsAuction, Exchange!Spec

\* Every level is what OrderBook::check_invariants asks of it, at every trade: the
\* cached aggregate is the sum of the queue, and no order that rests has nothing left,
\* unless an exception of take_event_sequence cut match() short.
THEOREM LevelsAreSound == Spec => []LevelsSound
<1>1. Init => ServeInv
  BY InitServes
<1>2. ValidationCoversMatching => FillOrKillFills
  BY DEF ValidationCoversMatching
<1>3. IInv /\ IInv' /\ ServeInv /\ FillOrKillFills /\ [Next]_vars => ServeInv'
  BY StepServes DEF Serves
<1>4. ServeInv => NoEmptyOrder
  BY RestingIsNode DEF ServeInv, NoneEmpty, NoEmptyOrder
<1>5. AggregateIsSum /\ NoEmptyOrder => LevelsSound
  BY DEF LevelsSound
<1> QED BY <1>1, <1>2, <1>3, <1>4, <1>5, Invariance, ValidationSuffices, AggregatesAreSums,
        PTL DEF Spec
=============================================================================

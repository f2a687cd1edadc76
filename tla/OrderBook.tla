----------------------------- MODULE OrderBook -----------------------------
(***************************************************************************)
(* The matching engine of src/order_book.cpp: one symbol, one caller, a     *)
(* price-time limit order book driven by OrderBook::process.                *)
(*                                                                          *)
(* A command is validated in one step (its first event is emitted there);   *)
(* a command that was accepted then trades with one maker per step and ends *)
(* by being filled, rested or expired.  The steps are the points at which   *)
(* take_event_sequence can throw, so the state an exception leaves behind   *)
(* is a state of this specification (phase = "failed").                     *)
(***************************************************************************)
EXTENDS Integers, Sequences, FiniteSetsExt, SequencesExt

CONSTANTS
  OrderId,        \* order identifiers offered by the caller
  Price,          \* positive limit prices offered by the caller
  Quantities,     \* order quantities offered by the caller
  NoPrice,        \* limit_price = std::nullopt
  NoOrder,        \* no order is being matched
  kMaxQuantity,   \* largest Quantity (2^64 - 1 in the code)
  kMaxSequence    \* largest SequenceNumber (2^64 - 1 in the code)

ASSUME PriceAssumption == Price \subseteq Nat \ {0} /\ NoPrice \notin Int
ASSUME WidthAssumption ==
  /\ kMaxQuantity \in Nat \ {0}
  /\ kMaxSequence \in Nat \ {0}
  /\ Quantities \subseteq 0..kMaxQuantity

VARIABLES
  levels,                   \* bids_ and asks_: side -> price -> level
  order_index,              \* order_index_: active id -> side and price
  next_event_sequence,      \* next_event_sequence_
  next_priority_sequence,   \* next_priority_sequence_
  phase,                    \* where process() is
  taker,                    \* the order process_new or process_replace matches
  remaining,                \* its unmatched quantity
  events                    \* the event vector being built

vars == <<levels, order_index, next_event_sequence, next_priority_sequence,
          phase, taker, remaining, events>>
book == <<levels, order_index, next_priority_sequence>>

Side == {"Buy", "Sell"}
Quantity == 0..kMaxQuantity
SequenceNumber == 1..kMaxSequence
Opposite(side) == IF side = "Buy" THEN "Sell" ELSE "Buy"

RestingOrder == [order_id : OrderId, remaining_quantity : Quantity,
                 priority_sequence : SequenceNumber]
PriceLevel == [aggregate_quantity : Quantity, orders : Seq(RestingOrder)]
IndexEntry == [side : Side, price : Price]

NewOrder == [order_id : OrderId, side : Side, type : {"Limit", "Market"},
             time_in_force : {"GTC", "IOC", "FOK", "PostOnly"},
             limit_price : Price \cup {0, NoPrice}, quantity : Quantity]

\* No order is told from any order by what it is.
ASSUME AbsenceAssumption ==
  /\ NoOrder \notin NewOrder
  /\ NoOrder \notin [order_id : OrderId, side : Side, limit : Price \cup {0, NoPrice},
                     quantity : Quantity, rests : BOOLEAN, all_or_none : BOOLEAN]

RejectReason == {"DuplicateOrderId", "UnknownOrderId", "ZeroQuantity", "InvalidPrice",
  "InvalidOrderTypeTimeInForce", "InvalidReduction", "WouldCross", "CannotFullyFill",
  "AggregateOverflow", "SequenceExhausted"}

Event ==
  [kind : {"Accepted", "Cancelled", "Expired"}, order_id : OrderId, quantity : Quantity]
  \cup [kind : {"Rejected"}, order_id : OrderId, reason : RejectReason]
  \cup [kind : {"Trade"}, maker_id : OrderId, order_id : OrderId, price : Price,
        quantity : Quantity]
  \cup [kind : {"Rested"}, order_id : OrderId, price : Price, quantity : Quantity]
  \cup [kind : {"Reduced"}, order_id : OrderId, old : Quantity, quantity : Quantity]
  \cup [kind : {"Replaced"}, order_id : OrderId, old : Quantity, price : Price,
        quantity : Quantity, priority_retained : BOOLEAN]

\* A level is present in bids_ or asks_ exactly when it has orders.
NoLevel == [aggregate_quantity |-> 0, orders |-> <<>>]
Occupied(side) == {p \in Price : levels[side][p].orders # <<>>}

\* std::greater for bids_, std::less for asks_
Better(side, p, q) == IF side = "Buy" THEN p > q ELSE p < q
AnyPrices(side) == Occupied(side)   \* mutant: the level is not the best
BestPrices(side) == {p \in Occupied(side) : \A q \in Occupied(side) : ~Better(side, q, p)}

\* Unsigned arithmetic wraps at the width of Quantity.
Wrap(n) == n % (kMaxQuantity + 1)

Init ==
  /\ levels = [side \in Side |-> [p \in Price |-> NoLevel]]
  /\ order_index = <<>>
  /\ next_event_sequence = 1
  /\ next_priority_sequence = 1
  /\ phase = "idle"
  /\ taker = NoOrder
  /\ remaining = 0
  /\ events = <<>>

----------------------------------------------------------------------------
(* Looking at the book *)

\* The node an index entry's list iterator points at.
Position(id) ==
  LET queue == levels[order_index[id].side][order_index[id].price].orders
  IN  CHOOSE i \in DOMAIN queue : queue[i].order_id = id

Resting(id) == levels[order_index[id].side][order_index[id].price].orders[Position(id)]

\* The order can trade at price p of the opposite side.
Crosses(c, p) == c.type = "Limit" => ~Better(c.side, p, c.limit_price)

\* mutant: the scan does not stop at the limit price
executable_beyond_limit(c) ==
  Min({c.quantity,
       SumFunction([p \in Occupied(Opposite(c.side)) |->
                      levels[Opposite(c.side)][p].aggregate_quantity])})

executable_quantity(c) ==
  Min({c.quantity,
       SumFunction([p \in {q \in Occupied(Opposite(c.side)) : Crosses(c, q)} |->
                      levels[Opposite(c.side)][p].aggregate_quantity])})

\* mutant: touching prices do not count as crossing
would_cross_strictly(c) ==
  \E p \in Occupied(Opposite(c.side)) : Crosses(c, p) /\ p # c.limit_price

would_cross(c) == \E p \in Occupied(Opposite(c.side)) : Crosses(c, p)

predicted_remainder(c) ==
  IF \/ c.type = "Market" \/ c.limit_price = NoPrice
     \/ c.time_in_force \in {"IOC", "FOK"}
  THEN 0 ELSE c.quantity - executable_quantity(c)

\* mutant: the replaced order is taken off whatever level it rests at
can_add_anywhere(c, rest, replacing) ==
  LET own == IF replacing THEN Resting(c.order_id).remaining_quantity ELSE 0
  IN  rest <= kMaxQuantity - (levels[c.side][c.limit_price].aggregate_quantity - own)

can_add_to_level(c, rest, replacing) ==
  LET level == levels[c.side][c.limit_price]
      own == IF replacing /\ order_index[c.order_id] = [side |-> c.side, price |-> c.limit_price]
             THEN Resting(c.order_id).remaining_quantity ELSE 0
  IN  rest <= kMaxQuantity - Wrap(level.aggregate_quantity - own)

Valid == "Valid"

\* validate_new: the first failing check decides the RejectReason.
validate_new(c, rest, replacing) ==
  IF c.order_id \in DOMAIN order_index /\ ~replacing THEN "DuplicateOrderId"
  ELSE IF c.quantity = 0 THEN "ZeroQuantity"
  ELSE IF c.limit_price \notin (IF c.type = "Limit" THEN Price ELSE {NoPrice})
       THEN "InvalidPrice"
  ELSE IF c.type = "Market" /\ c.time_in_force \notin {"IOC", "FOK"}
       THEN "InvalidOrderTypeTimeInForce"
  ELSE IF c.time_in_force = "FOK" /\ executable_quantity(c) < c.quantity
       THEN "CannotFullyFill"
  ELSE IF c.time_in_force = "PostOnly" /\ would_cross(c) THEN "WouldCross"
  ELSE IF rest # 0 /\ ~can_add_to_level(c, rest, replacing) THEN "AggregateOverflow"
  ELSE IF \/ next_event_sequence = kMaxSequence
          \/ rest # 0 /\ next_priority_sequence = kMaxSequence
       THEN "SequenceExhausted"
  ELSE Valid

----------------------------------------------------------------------------
(* Changing the book *)

\* mutant: the sequence is taken without looking at its limit
EmitUnchecked(before, event, then) ==
  /\ next_event_sequence' = next_event_sequence + 1
  /\ events' = Append(before, event)
  /\ phase' = then

\* take_event_sequence: the event joins the vector and control goes on to
\* "then", or the exception leaves process() and the vector is lost.
Emit(before, event, then) ==
  \/ /\ next_event_sequence # kMaxSequence
     /\ next_event_sequence' = next_event_sequence + 1
     /\ events' = Append(before, event)
     /\ phase' = then
  \/ /\ next_event_sequence = kMaxSequence
     /\ events' = <<>>
     /\ phase' = "failed"
     /\ UNCHANGED next_event_sequence

Remember(id) == order_index   \* mutant: the entry stays
Forget(id) == [other \in DOMAIN order_index \ {id} |-> order_index[other]]

\* erase_indexed: unlink the node, lower the cached aggregate, drop the entry.
erase_indexed(id) ==
  LET entry == order_index[id]
      level == levels[entry.side][entry.price]
  IN  /\ levels' = [levels EXCEPT ![entry.side][entry.price] =
           [aggregate_quantity |-> Wrap(level.aggregate_quantity - Resting(id).remaining_quantity),
            orders |-> RemoveAt(level.orders, Position(id))]]
      /\ order_index' = Forget(id)

\* mutant: the cached aggregate does not follow
set_remaining_uncached(id, quantity) ==
  LET entry == order_index[id]
  IN  /\ levels' = [levels EXCEPT
           ![entry.side][entry.price].orders[Position(id)].remaining_quantity = quantity]
      /\ UNCHANGED <<order_index, next_priority_sequence>>

\* The remaining quantity of a resting order is set in place.
set_remaining(id, quantity) ==
  LET entry == order_index[id]
      level == levels[entry.side][entry.price]
  IN  /\ levels' = [levels EXCEPT ![entry.side][entry.price] =
           [aggregate_quantity |->
              Wrap(level.aggregate_quantity - (Resting(id).remaining_quantity - quantity)),
            orders |-> [level.orders EXCEPT ![Position(id)].remaining_quantity = quantity]]]
      /\ UNCHANGED <<order_index, next_priority_sequence>>

Reject(id, reason) ==
  /\ Emit(<<>>, [kind |-> "Rejected", order_id |-> id, reason |-> reason], "idle")
  /\ UNCHANGED <<book, taker, remaining>>

RejectUnknown(id) == id \notin DOMAIN order_index /\ Reject(id, "UnknownOrderId")

----------------------------------------------------------------------------
(* Commands *)

\* process_new up to the Accepted event
ProcessNew(c) ==
  LET verdict == validate_new(c, predicted_remainder(c), FALSE)
  IN  \/ verdict # Valid /\ Reject(c.order_id, verdict)
      \/ /\ verdict = Valid
         /\ Emit(<<>>, [kind |-> "Accepted", order_id |-> c.order_id, quantity |-> c.quantity],
                 "matching")
         /\ taker' = c
         /\ remaining' = c.quantity
         /\ UNCHANGED book

ProcessCancel(id) ==
  \/ RejectUnknown(id)
  \/ /\ id \in DOMAIN order_index
     /\ erase_indexed(id)
     /\ Emit(<<>>, [kind |-> "Cancelled", order_id |-> id,
                    quantity |-> Resting(id).remaining_quantity], "idle")
     /\ UNCHANGED <<next_priority_sequence, taker, remaining>>

\* mutant: a reduction may take everything
ExcessiveReduction(id, reduce_by) ==
  reduce_by = 0 \/ reduce_by > Resting(id).remaining_quantity
InvalidReduction(id, reduce_by) ==
  reduce_by = 0 \/ reduce_by >= Resting(id).remaining_quantity

ProcessReduce(id, reduce_by) ==
  \/ RejectUnknown(id)
  \/ /\ id \in DOMAIN order_index
     /\ InvalidReduction(id, reduce_by)
     /\ Reject(id, "InvalidReduction")
  \/ /\ id \in DOMAIN order_index
     /\ ~InvalidReduction(id, reduce_by)
     /\ set_remaining(id, Resting(id).remaining_quantity - reduce_by)
     /\ Emit(<<>>, [kind |-> "Reduced", order_id |-> id,
                    old |-> Resting(id).remaining_quantity,
                    quantity |-> Resting(id).remaining_quantity - reduce_by], "idle")
     /\ UNCHANGED <<taker, remaining>>

Replaced(id, price, quantity, retained) ==
  [kind |-> "Replaced", order_id |-> id, old |-> Resting(id).remaining_quantity,
   price |-> price, quantity |-> quantity, priority_retained |-> retained]

\* process_replace, same price and no larger: priority is kept.
ReplaceInPlace(id, price, quantity) ==
  /\ id \in DOMAIN order_index
  /\ price = order_index[id].price
  /\ quantity \in 1..Resting(id).remaining_quantity
  /\ set_remaining(id, quantity)
  /\ Emit(<<>>, Replaced(id, price, quantity, TRUE), "idle")
  /\ UNCHANGED <<taker, remaining>>

\* process_replace, price change or increase: a fresh GTC limit order.
ReplaceAfresh(id, price, quantity) ==
  /\ id \in DOMAIN order_index
  /\ price \in Price /\ quantity # 0
  /\ price # order_index[id].price \/ quantity > Resting(id).remaining_quantity
  /\ LET replacement == [order_id |-> id, side |-> order_index[id].side, type |-> "Limit",
                         time_in_force |-> "GTC", limit_price |-> price,
                         quantity |-> quantity]
         verdict == validate_new(replacement, predicted_remainder(replacement), TRUE)
     IN  \/ verdict # Valid /\ Reject(id, verdict)
         \/ /\ verdict = Valid
            /\ erase_indexed(id)
            /\ Emit(<<>>, Replaced(id, price, quantity, FALSE), "matching")
            /\ taker' = replacement
            /\ remaining' = quantity
            /\ UNCHANGED next_priority_sequence

ProcessReplace(id, price, quantity) ==
  \/ RejectUnknown(id)
  \/ /\ id \in DOMAIN order_index
     /\ quantity = 0 \/ price \notin Price
     /\ Reject(id, IF quantity = 0 THEN "ZeroQuantity" ELSE "InvalidPrice")
  \/ ReplaceInPlace(id, price, quantity)
  \/ ReplaceAfresh(id, price, quantity)

----------------------------------------------------------------------------
(* An accepted order meets the book *)

\* The loops of match() go on; a PostOnly order skips match().
Matchable ==
  taker.time_in_force # "PostOnly" /\ remaining # 0 /\ would_cross(taker)

\* One turn of the inner loop of match(): trade with the maker at the front.
\* The quantities are lowered before the Trade event takes its sequence, the
\* filled maker is unlinked after it.
Match ==
  /\ phase = "matching" /\ Matchable
  /\ \E p \in BestPrices(Opposite(taker.side)) :
       LET side == Opposite(taker.side)
           level == levels[side][p]
           maker == Head(level.orders)
           traded == Min({remaining, maker.remaining_quantity})
           left == maker.remaining_quantity - traded
           filled == left = 0 /\ next_event_sequence # kMaxSequence
       IN  /\ remaining' = remaining - traded
           /\ Emit(events, [kind |-> "Trade", maker_id |-> maker.order_id,
                            order_id |-> taker.order_id, price |-> p, quantity |-> traded],
                   "matching")
           /\ levels' = [levels EXCEPT ![side][p] =
                [aggregate_quantity |-> Wrap(level.aggregate_quantity - traded),
                 orders |-> IF filled THEN Tail(level.orders)
                            ELSE [level.orders EXCEPT ![1].remaining_quantity = left]]]
           /\ order_index' = IF filled THEN Forget(maker.order_id) ELSE order_index
           /\ UNCHANGED <<next_priority_sequence, taker>>

\* process() returns its events.
Complete ==
  /\ phase = "matching" /\ remaining = 0
  /\ phase' = "idle"
  /\ taker' = NoOrder
  /\ UNCHANGED <<book, next_event_sequence, remaining, events>>

Rests(c) == c.type = "Limit" /\ c.time_in_force \in {"GTC", "PostOnly"}

\* mutant: the node goes to the front of the list
PushFront(queue, node) == <<node>> \o queue
PushBack(queue, node) == Append(queue, node)

\* add_resting.  validate_new has set a priority sequence aside for it: there
\* is none to take when the guard on next_priority_sequence is false.
Rest ==
  /\ phase = "matching" /\ remaining # 0 /\ ~Matchable /\ Rests(taker)
  /\ next_priority_sequence # kMaxSequence
  /\ LET level == levels[taker.side][taker.limit_price]
         node == [order_id |-> taker.order_id, remaining_quantity |-> remaining,
                  priority_sequence |-> next_priority_sequence]
     IN  levels' = [levels EXCEPT ![taker.side][taker.limit_price] =
           [aggregate_quantity |-> Wrap(level.aggregate_quantity + remaining),
            orders |-> PushBack(level.orders, node)]]
  /\ order_index' = [id \in DOMAIN order_index \cup {taker.order_id} |->
       IF id = taker.order_id THEN [side |-> taker.side, price |-> taker.limit_price]
       ELSE order_index[id]]
  /\ next_priority_sequence' = next_priority_sequence + 1
  /\ Emit(events, [kind |-> "Rested", order_id |-> taker.order_id,
                   price |-> taker.limit_price, quantity |-> remaining], "idle")
  /\ taker' = NoOrder
  /\ remaining' = 0

\* mutant: the remainder is dropped without an event
ExpireSilently ==
  /\ phase = "matching" /\ remaining # 0 /\ ~Matchable /\ ~Rests(taker)
  /\ phase' = "idle" /\ taker' = NoOrder /\ remaining' = 0
  /\ UNCHANGED <<book, next_event_sequence, events>>

\* The remainder of an IOC or market order is dropped.
Expire ==
  /\ phase = "matching" /\ remaining # 0 /\ ~Matchable /\ ~Rests(taker)
  /\ Emit(events, [kind |-> "Expired", order_id |-> taker.order_id, quantity |-> remaining],
          "idle")
  /\ taker' = NoOrder
  /\ remaining' = 0
  /\ UNCHANGED book

----------------------------------------------------------------------------
NewOrderInputs ==
  {c \in NewOrder : c.quantity \in Quantities}
PriceInputs == Price \cup {0}

\* The caller serialises commands: one is processed at a time.
Command ==
  /\ phase = "idle"
  /\ \/ \E c \in NewOrderInputs : ProcessNew(c)
     \/ \E id \in OrderId : ProcessCancel(id)
     \/ \E id \in OrderId, q \in Quantities : ProcessReduce(id, q)
     \/ \E id \in OrderId, p \in PriceInputs, q \in Quantities : ProcessReplace(id, p, q)

Execute == Match \/ Complete \/ Rest \/ Expire

\* An exception has left process(); no program of the repository goes on.
Terminated == phase = "failed" /\ UNCHANGED vars

Next == Command \/ Execute \/ Terminated

Spec == Init /\ [][Next]_vars

----------------------------------------------------------------------------
(* Properties *)

TypeOK ==
  /\ levels \in [Side -> [Price -> PriceLevel]]
  /\ DOMAIN order_index \subseteq OrderId
  /\ order_index \in [DOMAIN order_index -> IndexEntry]
  /\ next_event_sequence \in SequenceNumber
  /\ next_priority_sequence \in SequenceNumber
  /\ phase \in {"idle", "matching", "failed"}
  /\ taker \in NewOrder \cup {NoOrder}
  /\ remaining \in Quantity
  /\ events \in Seq(Event)

\* The resting book is never locked or crossed, whatever process() is doing:
\* the order being matched rests only after the opposite side stopped crossing.
Uncrossed == \A b \in Occupied("Buy"), a \in Occupied("Sell") : b < a

\* Every index entry leads to exactly one node of the level it names, and every
\* node is led to by the entry of its order.
IndexMatchesQueues ==
  /\ \A id \in DOMAIN order_index :
       LET queue == levels[order_index[id].side][order_index[id].price].orders
       IN  \E i \in DOMAIN queue : queue[i].order_id = id
  /\ \A side \in Side, p \in Price :
       LET queue == levels[side][p].orders
       IN  /\ \A i \in DOMAIN queue :
                /\ queue[i].order_id \in DOMAIN order_index
                /\ order_index[queue[i].order_id] = [side |-> side, price |-> p]
           /\ IsInjective([i \in DOMAIN queue |-> queue[i].order_id])

\* The cached aggregate of a level is the sum of its open quantities: no path
\* through match, reduce, replace or cancel forgets to move the cache, and no
\* addition wraps.
AggregateIsSum ==
  \A side \in Side, p \in Price :
    levels[side][p].aggregate_quantity =
      SumFunction([i \in DOMAIN levels[side][p].orders |->
                     levels[side][p].orders[i].remaining_quantity])

\* A queue is in strictly increasing priority, and all of it is earlier than
\* the next order to rest.
FifoByPriority ==
  \A side \in Side, p \in Price :
    LET queue == levels[side][p].orders
    IN  \A i \in DOMAIN queue :
          /\ queue[i].priority_sequence < next_priority_sequence
          /\ i > 1 => queue[i - 1].priority_sequence < queue[i].priority_sequence

\* No order with nothing left stays in the book, unless an exception of
\* take_event_sequence cut match() short.
NoEmptyOrder ==
  phase # "failed" =>
    \A id \in DOMAIN order_index : Resting(id).remaining_quantity # 0

\* Every level is what check_invariants asks of it, at every trade.
LevelsSound == AggregateIsSum /\ NoEmptyOrder

\* What validate_new predicted before the book was touched still holds when
\* add_resting runs: the remainder fits its level.
RestIsCovered ==
  phase = "matching" /\ remaining # 0 /\ ~Matchable /\ Rests(taker) =>
    levels[taker.side][taker.limit_price].aggregate_quantity + remaining <= kMaxQuantity

\* A fill-or-kill order that passed the liquidity scan never runs out of makers.
FillOrKillFills ==
  phase = "matching" /\ taker.time_in_force = "FOK" /\ ~Matchable => remaining = 0

\* Validation promised what matching then needs: nothing but an exhausted sequence
\* fails once the book is touched.
ValidationCoversMatching == RestIsCovered /\ FillOrKillFills

\* The events of a finished command account for the whole quantity it asked
\* for: what was traded, what was left resting and what expired.
EventsAccountForQuantity ==
  /\ phase = "idle" /\ events # <<>>
  /\ \/ events[1].kind = "Accepted"
     \/ events[1].kind = "Replaced" /\ ~events[1].priority_retained
  => events[1].quantity =
        SumFunction([i \in DOMAIN events \ {1} |-> events[i].quantity])

\* Running out of event sequences leaves the book as it was
\* (docs/adr/0001-matching-engine-semantics.md, Invalid input policy).
ExhaustionPreservesBook ==
  [][phase # "failed" /\ phase' = "failed" => UNCHANGED book]_vars

----------------------------------------------------------------------------
(* The engine implements the auction. *)

OpenIds == {id \in DOMAIN order_index : Resting(id).remaining_quantity # 0}

Exchange == INSTANCE Auction WITH
  resting <- [id \in OpenIds |->
    [side |-> order_index[id].side, price |-> order_index[id].price,
     quantity |-> Resting(id).remaining_quantity,
     arrival |-> Resting(id).priority_sequence]],
  incoming <- IF taker = NoOrder THEN NoOrder
    ELSE [order_id |-> taker.order_id, side |-> taker.side, limit |-> taker.limit_price,
          quantity |-> remaining, rests |-> Rests(taker),
          all_or_none |-> taker.time_in_force = "FOK"],
  arrivals <- next_priority_sequence

\* Every step of the engine is a step of the auction, or invisible to it:
\* price-time priority, fill-or-kill, and priority kept or lost by a replace.
ImplementsAuction == Exchange!Spec
=============================================================================

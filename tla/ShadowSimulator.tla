-------------------------- MODULE ShadowSimulator --------------------------
(***************************************************************************)
(* The shadow market maker of src/mm/simulator.cpp and src/mm/queue_model.cpp *)
(* driven by apps/lobforge_mm_sim.cpp: hypothetical orders that live beside  *)
(* the displayed ones, delayed by configured latencies and filled only on    *)
(* evidence.  Every message is a before_market (the local events that are    *)
(* due run one by one, against the book before the message), the message     *)
(* itself, and an after_market.                                              *)
(*                                                                           *)
(* The automatic strategy is modelled; its floating-point formulas are any   *)
(* choice among the prices they may return.  Money is left to the ledger:    *)
(* here it is an inventory, and an equity that may breach its limits once    *)
(* something was filled.  Timestamps of the feed never decrease.  Markouts,  *)
(* time integrals and rendering are left out.                                *)
(***************************************************************************)
EXTENDS Displayed, Sequences, FiniteSetsExt, SequencesExt

CONSTANTS
  config,       \* SimulationConfig: latencies, risk limits, quoting parameters
  QueueModels,  \* bound: queue models a configuration may choose
  Opening,      \* the book when the last message of the opening was applied
  kMaxLedger,   \* largest inventory the ledger can account for
  kMaxSubmitted, \* largest value of submitted_quantity_, 2^64 - 1 in the code
  Gaps,         \* bound: times between a message and the next
  Feed,         \* bound: types of the messages read
  kMaxFacts,    \* bound: messages after the opening
  SequenceGaps  \* whether the caller may skip factual sequences

\* What the protocol loader admits: unsigned latencies, a positive quantity and order limit.
ASSUME ConfigAssumption ==
  /\ QueueModels \subseteq {"MboFifoConservative", "TradeThroughOnly", "FrontOfQueue"}
  /\ {config.quantity, config.max_open_orders} \subseteq Nat \ {0}
  /\ {config.market_data_ns, config.strategy_compute_ns, config.order_entry_ns,
      config.cancel_ns, config.replace_ns, config.max_absolute_inventory} \subseteq Nat
  /\ {kMaxLedger, kMaxSubmitted} \subseteq Nat
  /\ Gaps # {} /\ IsFiniteSet(Gaps) /\ Gaps \subseteq Nat

BookMutation ==
  [message_type : {"A", "E", "X", "D", "U"}, symbol : Symbol, side : {"Buy", "Sell"},
   order_reference : OrderReference, new_order_reference : OrderReference \cup {None},
   event_quantity : Quantity, display_price : Price]

\* The displayed orders of the opening, with unsigned prices and positive shares.
ASSUME OpeningAssumption ==
  /\ IsFiniteSet(Symbol) /\ None \notin Symbol \cup Price /\ None \notin BookMutation
  /\ Price \subseteq Nat /\ Quantity \subseteq Nat \ {0}
  /\ \A a, b \in Quantity : b < a => a - b \in Quantity
  /\ IsFiniteSet(DOMAIN Opening) /\ DOMAIN Opening \subseteq OrderReference
  /\ Opening \in [DOMAIN Opening ->
                   [symbol : Symbol, side : {"Buy", "Sell"}, price : Price,
                    shares : Quantity, arrival : 1..Cardinality(DOMAIN Opening)]]

VARIABLES
  queue_model,       \* config_.queue_model, chosen once
  session_phase, trading_state,  \* of the factual state
  timestamp,         \* last_factual_timestamp_
  factual_sequence,  \* last_factual_sequence_, messages since the opening
  driver,            \* where the driver is: idle, message, finishing, finished
  horizon,           \* local events before it run now
  latest_markets,    \* latest_markets_: symbol -> snapshot
  scheduled,         \* scheduled_, in order of local sequence
  orders,            \* orders_ and queue_trackers_, by order id
  inventory,         \* ledger_.inventory()
  submitted_quantity,
  stop_switch,
  counts,            \* rejected_orders_, cancelled_orders_, filled_orders_
  last_market_quoted

facts == <<book, session_phase, trading_state, timestamp, factual_sequence>>
simulator == <<latest_markets, orders, inventory, submitted_quantity, stop_switch, counts,
               last_market_quoted>>
vars == <<facts, queue_model, driver, horizon, scheduled, simulator>>

Side == {"Buy", "Sell"}
Terminal == {"Filled", "Rejected", "Cancelled", "SessionEnded", "RiskCancelled"}
Resting == {"Active", "PartiallyFilled"}
Exposed == Resting \cup {"PendingCancel", "PendingReplace"}
is_open_state == Exposed \cup {"PendingAck"}

IsOpen(order) == order.state \in is_open_state
OpenIds(ords) == {id \in DOMAIN ords : IsOpen(ords[id])}
AnyExposed(ords) == \E id \in DOMAIN ords : ords[id].state \in Exposed

Prices(orders_displayed, symbol, side) ==
  {orders_displayed[ref].price : ref \in {r \in DOMAIN orders_displayed :
     orders_displayed[r].symbol = symbol /\ orders_displayed[r].side = side}}

\* snapshot_for: the depth of both sides, ten levels of it in the code.
snapshot_for(symbol, at, orders_displayed, phase, trading) ==
  [symbol |-> symbol, exchange_timestamp |-> at, session_phase |-> phase,
   trading_state |-> trading[symbol],
   bids |-> Prices(orders_displayed, symbol, "Buy"),
   asks |-> Prices(orders_displayed, symbol, "Sell")]

TwoSided(market) == market.bids # {} /\ market.asks # {}
Uncrossed(market) == TwoSided(market) /\ Max(market.bids) < Min(market.asks)
HasMid(market) == TwoSided(market) /\ Max(market.bids) <= Min(market.asks)

\* The opening: every symbol is listed and trading, market hours have begun,
\* and the message just applied is observed but not yet acted upon.
OpeningMarket(symbol) ==
  snapshot_for(symbol, 0, Opening, "MarketHours", [s \in Symbol |-> "T"])

ScheduledAt(at, seq, kind) == [timestamp |-> at, factual_sequence |-> seq, kind |-> kind]

Observe(market, seq) ==
  [at |-> ScheduledAt(market.exchange_timestamp + config.market_data_ns, seq, "Observation"),
   market |-> market]

SimulatorInit ==
  /\ queue_model \in QueueModels
  /\ displayed = Opening
  /\ arrivals = 1 + Cardinality(DOMAIN Opening)
  /\ mutation = None
  /\ session_phase = "MarketHours" /\ trading_state = [s \in Symbol |-> "T"]
  /\ timestamp = 0 /\ factual_sequence = 0
  /\ driver = "idle" /\ horizon = 0
  /\ latest_markets = [s \in Symbol |-> OpeningMarket(s)]
  /\ scheduled = SetToSeq({Observe(OpeningMarket(s), 0) : s \in Symbol})
  /\ orders = <<>> /\ inventory = 0 /\ submitted_quantity = 0 /\ stop_switch = FALSE
  /\ counts = [rejected |-> 0, cancelled |-> 0, filled |-> 0]
  /\ last_market_quoted = FALSE

----------------------------------------------------------------------------
(* QueueTracker *)

\* snapshot: the displayed orders an order that is activated now stands behind.
Snapshot(order) ==
  IF queue_model # "MboFifoConservative" THEN <<>>
  ELSE [ref \in {r \in DOMAIN displayed :
                   /\ displayed[r].symbol = order.symbol /\ displayed[r].side = order.side
                   /\ displayed[r].price = order.limit}
          |-> displayed[ref].shares]

IsExecution(m) == m.message_type \in {"E", "C"}
\* mutant: a trade at the limit counts as one through it
TradedAtOrThrough(order, m) ==
  IsExecution(m) /\ IF order.side = "Buy" THEN m.display_price <= order.limit
                    ELSE m.display_price >= order.limit
is_trade_through(order, m) ==
  IsExecution(m) /\ IF order.side = "Buy" THEN m.display_price < order.limit
                    ELSE m.display_price > order.limit

QueueReached(order) == order.ahead = <<>>

\* on_mutation, the fillable quantity it finds evidence for.
Evidence(order, m) ==
  IF \/ order.side # m.side
     \/ ~IsExecution(m)
  THEN 0
  ELSE IF is_trade_through(order, m) THEN m.event_quantity
  ELSE IF m.display_price # order.limit THEN 0
  ELSE CASE queue_model = "TradeThroughOnly" -> 0
         [] queue_model = "FrontOfQueue" -> m.event_quantity
         [] queue_model = "MboFifoConservative" ->
              IF QueueReached(order) THEN m.event_quantity ELSE 0

\* mutant: a replace away from the price is not seen
AheadUnlessMoved(order, m) ==
  IF \/ order.side # m.side \/ m.order_reference \notin DOMAIN order.ahead
     \/ m.display_price # order.limit
  THEN order.ahead
  ELSE IF \/ m.message_type \in {"U", "D"}
          \/ m.event_quantity >= order.ahead[m.order_reference]
  THEN [ref \in DOMAIN order.ahead \ {m.order_reference} |-> order.ahead[ref]]
  ELSE [order.ahead EXCEPT ![m.order_reference] = @ - m.event_quantity]

\* on_mutation, what it leaves of orders_ahead_.
Ahead(order, m) ==
  IF \/ order.side # m.side \/ m.order_reference \notin DOMAIN order.ahead
     \/ m.display_price # order.limit /\ m.message_type # "U"
  THEN order.ahead
  ELSE IF \/ m.message_type \in {"U", "D"}
          \/ m.event_quantity >= order.ahead[m.order_reference]
  THEN [ref \in DOMAIN order.ahead \ {m.order_reference} |-> order.ahead[ref]]
  ELSE [order.ahead EXCEPT ![m.order_reference] = @ - m.event_quantity]

----------------------------------------------------------------------------
(* Local events: the strategy and the confirmations of its orders *)

Earlier(e, f) ==
  LET rank == [Observation |-> 0, Decision |-> 1, Activate |-> 2, CancelConfirm |-> 3,
               ReplaceConfirm |-> 4]
      a == e.at  b == f.at
  IN  \/ a.timestamp < b.timestamp
      \/ a.timestamp = b.timestamp /\ a.factual_sequence < b.factual_sequence
      \/ /\ a.timestamp = b.timestamp /\ a.factual_sequence = b.factual_sequence
         /\ rank[a.kind] < rank[b.kind]

\* scheduled_.begin()
NextUp ==
  CHOOSE i \in DOMAIN scheduled : \A j \in DOMAIN scheduled \ {i} :
    \/ Earlier(scheduled[i], scheduled[j])
    \/ i < j /\ ~Earlier(scheduled[j], scheduled[i])

\* mutant: a local event need not wait until the feed has passed its timestamp
DueInclusive == scheduled # <<>> /\ scheduled[NextUp].at.timestamp <= horizon
Due == scheduled # <<>> /\ scheduled[NextUp].at.timestamp < horizon

\* What quote() may answer for one side: nothing, or an observed level.
Quotes(market, side) ==
  LET levels == IF side = "Buy" THEN market.bids ELSE market.asks
      best == IF side = "Buy" THEN Max(levels) ELSE Min(levels)
      near == {p \in levels : p - best \in -config.maximum_distance..config.maximum_distance}
  IN  IF /\ Uncrossed(market)
         /\ market.session_phase = "MarketHours" /\ market.trading_state = "T"
         /\ market.exchange_timestamp < config.session_end
         /\ IF side = "Buy" THEN inventory < config.max_absolute_inventory
            ELSE inventory > -config.max_absolute_inventory
      THEN {None} \cup near ELSE {None}

Ended(order, state) == [order EXCEPT !.state = state, !.ahead = <<>>]

\* mutant: an order waiting for its confirmation is left out
force_cancel_resting(ords, state) ==
  [id \in DOMAIN ords |-> IF ords[id].state \in Resting \cup {"PendingAck"}
                          THEN Ended(ords[id], state) ELSE ords[id]]
force_cancel_all(ords, state) ==
  [id \in DOMAIN ords |-> IF IsOpen(ords[id]) THEN Ended(ords[id], state) ELSE ords[id]]

\* The total of what was submitted overflows: trigger_stop, before the new order, not
\* yet open, is among those it cancels.
trigger_stop(sim) ==
  IF sim.stop THEN sim
  ELSE [sim EXCEPT !.stop = TRUE,
                   !.orders = force_cancel_all(@, "RiskCancelled"),
                   !.cancelled = @ + Cardinality(OpenIds(sim.orders))]

manual_submit(sim, symbol, side, price, at) ==
  LET total == sim.submitted + config.quantity
      added == IF total <= kMaxSubmitted THEN [sim EXCEPT !.submitted = total]
               ELSE trigger_stop(sim)
  IN  [added EXCEPT
   !.orders = Append(@,
     [symbol |-> symbol, side |-> side, limit |-> price, original |-> config.quantity,
      remaining |-> config.quantity, state |-> "PendingAck", active_at |-> 0,
      ahead |-> <<>>, joined |-> 0]),
   !.scheduled = Append(@,
     [at |-> ScheduledAt(at + config.order_entry_ns, factual_sequence, "Activate"),
      order_id |-> Len(sim.orders) + 1]),
   !.recorded = TRUE]

\* mutant: an order whose cancel is under way may be cancelled again
cancel_exposed(sim, id, at) ==
  IF sim.orders[id].state \notin Exposed THEN [sim EXCEPT !.recorded = TRUE]
  ELSE [sim EXCEPT
          !.orders = [@ EXCEPT ![id].state = "PendingCancel"],
          !.scheduled = Append(@,
            [at |-> ScheduledAt(at + config.cancel_ns, factual_sequence, "CancelConfirm"),
             order_id |-> id]),
          !.recorded = TRUE]
manual_cancel(sim, id, at) ==
  IF sim.orders[id].state \notin Resting THEN [sim EXCEPT !.recorded = TRUE]
  ELSE [sim EXCEPT
          !.orders = [@ EXCEPT ![id].state = "PendingCancel"],
          !.scheduled = Append(@,
            [at |-> ScheduledAt(at + config.cancel_ns, factual_sequence, "CancelConfirm"),
             order_id |-> id]),
          !.recorded = TRUE]

manual_replace(sim, id, price, at) ==
  [sim EXCEPT
     !.orders = [@ EXCEPT ![id].state = "PendingReplace"],
     !.scheduled = Append(@,
       [at |-> ScheduledAt(at + config.replace_ns, factual_sequence, "ReplaceConfirm"),
        order_id |-> id, price |-> price]),
     !.recorded = TRUE]

\* mutant: an order not yet acknowledged is overlooked
acknowledged_order(ords, symbol, side) ==
  {id \in DOMAIN ords : ords[id].symbol = symbol /\ ords[id].side = side
                        /\ ords[id].state \in Exposed}
open_order(ords, symbol, side) ==
  {id \in OpenIds(ords) : ords[id].symbol = symbol /\ ords[id].side = side}

manage_quote(sim, market, side, desired, at) ==
  LET existing == open_order(sim.orders, market.symbol, side)
      id == Min(existing)
      order == sim.orders[id]
  IN  IF existing = {}
      THEN IF desired = None THEN sim
           ELSE manual_submit(sim, market.symbol, side, desired, at)
      ELSE IF desired = None THEN manual_cancel(sim, id, at)
      ELSE IF \/ order.state \notin Resting
              \/ order.limit - desired \in (1 - config.refresh)..(config.refresh - 1)
      THEN sim
      ELSE IF at - order.active_at < config.minimum_rest THEN [sim EXCEPT !.recorded = TRUE]
      ELSE manual_replace(sim, id, desired, at)

execute_observation(event, rest) ==
  /\ event.at.kind = "Observation"
  /\ scheduled' = Append(rest,
       [at |-> [event.at EXCEPT !.timestamp = @ + config.strategy_compute_ns,
                                !.kind = "Decision"],
        market |-> event.market])
  /\ UNCHANGED simulator

execute_decision(event, rest) ==
  /\ event.at.kind = "Decision"
  /\ \E bid \in Quotes(event.market, "Buy"), ask \in Quotes(event.market, "Sell") :
       LET before == [orders |-> orders, scheduled |-> rest, recorded |-> FALSE,
                      submitted |-> submitted_quantity, stop |-> stop_switch,
                      cancelled |-> counts.cancelled]
           bidden == manage_quote(before, event.market, "Buy", bid, event.at.timestamp)
           quoted == manage_quote(bidden, event.market, "Sell", ask, event.at.timestamp)
           sim == IF stop_switch THEN before ELSE quoted
       IN  /\ orders' = sim.orders
           /\ scheduled' = sim.scheduled
           /\ submitted_quantity' = sim.submitted
           /\ stop_switch' = sim.stop
           /\ counts' = [counts EXCEPT !.cancelled = sim.cancelled]
           /\ last_market_quoted' =
                IF sim.recorded THEN AnyExposed(sim.orders) ELSE last_market_quoted
  /\ UNCHANGED <<latest_markets, inventory>>

\* mutant: only the inventory already held is looked at
InventoryHeldAllows(order) ==
  IF order.side = "Buy" THEN inventory < config.max_absolute_inventory
  ELSE inventory > -config.max_absolute_inventory
InventoryAllows(order) ==
  IF order.side = "Buy" THEN inventory + order.remaining <= config.max_absolute_inventory
  ELSE inventory - order.remaining >= -config.max_absolute_inventory

\* mutant: the session is that of the last snapshot
SessionObservedOpen(symbol) == latest_markets[symbol].session_phase = "MarketHours"
SessionOpen(symbol) ==
  session_phase = "MarketHours" /\ latest_markets[symbol].session_phase = "MarketHours"

\* activation_risk answers None: the order, of id id, may be activated.
Allowed(id, order, at) ==
  LET market == latest_markets[order.symbol]
      worst == IF order.side = "Buy" THEN inventory + order.remaining
               ELSE inventory - order.remaining
  IN  /\ ~stop_switch
      /\ order.original \in 1..config.max_order_quantity
      /\ Cardinality(OpenIds(orders) \ {id}) < config.max_open_orders
      /\ InventoryAllows(order)
      /\ SessionOpen(order.symbol)
      /\ at - market.exchange_timestamp \in 0..config.max_market_staleness
      /\ market.trading_state = "T"
      /\ at < config.session_end - config.stop_before_close
      /\ Uncrossed(market)
      /\ IF order.side = "Buy" THEN order.limit < Min(market.asks)
         ELSE order.limit > Max(market.bids)
      /\ order.limit * worst \in -config.max_notional..config.max_notional

Activated(order, at) ==
  [order EXCEPT !.state = "Active", !.active_at = at, !.ahead = Snapshot(order),
                !.joined = arrivals]

activate(event, rest) ==
  /\ event.at.kind = "Activate"
  /\ scheduled' = rest
  /\ LET id == event.order_id
         order == orders[id]
         allowed == Allowed(id, order, event.at.timestamp)
     IN  \/ order.state # "PendingAck" /\ UNCHANGED <<orders, counts, last_market_quoted>>
         \/ /\ order.state = "PendingAck"
            /\ orders' = [orders EXCEPT ![id] =
                 IF allowed THEN Activated(order, event.at.timestamp)
                 ELSE Ended(order, "Rejected")]
            /\ counts' = IF allowed THEN counts ELSE [counts EXCEPT !.rejected = @ + 1]
            /\ last_market_quoted' = AnyExposed(orders')
  /\ UNCHANGED <<latest_markets, inventory, submitted_quantity, stop_switch>>

\* mutant: the order may have ended while its cancel was under way
confirm_any_cancel(event, rest) ==
  /\ event.at.kind = "CancelConfirm"
  /\ scheduled' = rest
  /\ orders' = [orders EXCEPT ![event.order_id] = Ended(@, "Cancelled")]
  /\ counts' = [counts EXCEPT !.cancelled = @ + 1]
  /\ last_market_quoted' = AnyExposed(orders')
  /\ UNCHANGED <<latest_markets, inventory, submitted_quantity, stop_switch>>

confirm_cancel(event, rest) ==
  /\ event.at.kind = "CancelConfirm"
  /\ scheduled' = rest
  /\ LET id == event.order_id
     IN  \/ /\ orders[id].state # "PendingCancel"
            /\ UNCHANGED <<orders, counts, last_market_quoted>>
         \/ /\ orders[id].state = "PendingCancel"
            /\ orders' = [orders EXCEPT ![id] = Ended(@, "Cancelled")]
            /\ counts' = [counts EXCEPT !.cancelled = @ + 1]
            /\ last_market_quoted' = AnyExposed(orders')
  /\ UNCHANGED <<latest_markets, inventory, submitted_quantity, stop_switch>>

confirm_replace(event, rest) ==
  /\ event.at.kind = "ReplaceConfirm"
  /\ scheduled' = rest
  /\ LET id == event.order_id
         order == [orders[id] EXCEPT !.limit = event.price, !.original = config.quantity,
                                     !.remaining = config.quantity]
         allowed == Allowed(id, order, event.at.timestamp)
     IN  \/ /\ orders[id].state # "PendingReplace"
            /\ UNCHANGED <<orders, counts, last_market_quoted>>
         \/ /\ orders[id].state = "PendingReplace"
            /\ orders' = [orders EXCEPT ![id] =
                 IF allowed THEN Activated(order, event.at.timestamp)
                 ELSE Ended(order, "RiskCancelled")]
            /\ counts' = IF allowed THEN counts ELSE [counts EXCEPT !.rejected = @ + 1]
            /\ last_market_quoted' = AnyExposed(orders')
  /\ UNCHANGED <<latest_markets, inventory, submitted_quantity, stop_switch>>

\* drain_before and drain_through, one event a step.
execute_scheduled ==
  /\ driver \in {"message", "finishing"} /\ Due
  /\ LET event == scheduled[NextUp]
         rest == RemoveAt(scheduled, NextUp)
     IN  \/ execute_observation(event, rest)
         \/ execute_decision(event, rest)
         \/ activate(event, rest)
         \/ confirm_cancel(event, rest)
         \/ confirm_replace(event, rest)
  /\ UNCHANGED <<facts, driver, horizon>>

----------------------------------------------------------------------------
(* Messages *)

\* The driver reads the next message, of timestamp at: before_market.
before_market(at) ==
  /\ driver = "idle" /\ factual_sequence < kMaxFacts
  /\ driver' = "message" /\ horizon' = at
  /\ UNCHANGED <<facts, scheduled, simulator>>

\* The message skips a factual sequence: before_market ends with a trigger_stop.
sequence_gap ==
  /\ SequenceGaps /\ driver = "message" /\ ~Due /\ ~stop_switch
  /\ stop_switch' = TRUE
  /\ orders' = force_cancel_all(orders, "RiskCancelled")
  /\ counts' = [counts EXCEPT !.cancelled = @ + Cardinality(OpenIds(orders))]
  /\ last_market_quoted' = (OpenIds(orders) = {} /\ last_market_quoted)
  /\ UNCHANGED <<facts, driver, horizon, scheduled, latest_markets, inventory, submitted_quantity>>

\* mutant: the evidence is not capped by what the order has left
HitUncapped(order) ==
  IF mutation' # None /\ order.state \in Exposed /\ order.symbol = mutation'.symbol
  THEN Evidence(order, mutation') ELSE 0
\* The shares of the message that fill an order.
Hit(order) ==
  IF mutation' # None /\ order.state \in Exposed /\ order.symbol = mutation'.symbol
  THEN Min({Evidence(order, mutation'), order.remaining}) ELSE 0

\* apply_fill, after the ledger took the fill
Filled(order, quantity) ==
  IF quantity = order.remaining
  THEN [Ended(order, "Filled") EXCEPT !.remaining = 0]
  ELSE [order EXCEPT !.remaining = @ - quantity,
                     !.state = IF @ \in Resting THEN "PartiallyFilled" ELSE @]

\* apply_market_mutation for one order
Met(order, accounted) ==
  LET moved == IF /\ mutation' # None /\ order.state \in Exposed
                  /\ order.symbol = mutation'.symbol
               THEN [order EXCEPT !.ahead = Ahead(order, mutation')] ELSE order
  IN  IF accounted /\ Hit(order) # 0 THEN Filled(moved, Hit(order)) ELSE moved

Signed(order) == IF order.side = "Buy" THEN Hit(order) ELSE -Hit(order)

\* The simulator reacts to the message just applied; symbol is None when the
\* message is about no symbol.  One message fills at most one order: it is about
\* one symbol and one side.
after_market(symbol) ==
  LET hit == {id \in DOMAIN orders : Hit(orders[id]) # 0}
      traded == inventory + SumFunction([id \in hit |-> Signed(orders[id])])
      accounted == traded \in -kMaxLedger..kMaxLedger
      met == [id \in DOMAIN orders |-> Met(orders[id], accounted)]
      market == snapshot_for(symbol, horizon, displayed', session_phase', trading_state')
      closed == session_phase' # "MarketHours"
      filled == IF accounted THEN {id \in hit : met[id].state = "Filled"} ELSE {}
  IN  /\ latest_markets' = IF symbol = None THEN latest_markets
                           ELSE [latest_markets EXCEPT ![symbol] = market]
      /\ scheduled' = IF symbol = None THEN scheduled
                      ELSE Append(scheduled, Observe(market, factual_sequence'))
      /\ inventory' = IF accounted THEN traded ELSE inventory
      /\ \E breach \in BOOLEAN :
           LET stopping == ~stop_switch /\ (breach \/ ~accounted)
               forced == IF stopping \/ closed THEN OpenIds(met) ELSE {}
           IN  /\ breach => /\ \E s \in Symbol : HasMid(latest_markets'[s])
                            /\ \/ inventory' # 0
                                \/ \E id \in DOMAIN met : met[id].remaining # met[id].original
               /\ stop_switch' = (stop_switch \/ stopping)
               /\ orders' = IF stopping THEN force_cancel_all(met, "RiskCancelled")
                            ELSE IF closed THEN force_cancel_all(met, "SessionEnded") ELSE met
               /\ counts' = [counts EXCEPT !.filled = @ + Cardinality(filled),
                                           !.cancelled = @ + Cardinality(forced)]
               /\ last_market_quoted' =
                    IF forced # {} THEN AnyExposed(orders')
                    ELSE IF symbol # None
                    THEN \E side \in Side : open_order(met, symbol, side) # {}
                    ELSE last_market_quoted

\* The message is applied and after_market runs.
Message ==
  /\ driver = "message" /\ ~Due
  /\ timestamp' = horizon /\ factual_sequence' = factual_sequence + 1
  /\ driver' = "idle" /\ horizon' = 0
  /\ UNCHANGED submitted_quantity

BookMessage ==
  /\ Message
  /\ UNCHANGED <<session_phase, trading_state>>
  /\ \/ /\ "A" \in Feed
        /\ \E ref \in OrderReference, symbol \in Symbol, side \in Side, price \in Price,
              shares \in Quantity : Arrive("A", ref, symbol, side, price, shares)
     \/ \E type \in {"E", "X"} \cap Feed, ref \in OrderReference, shares \in Quantity :
          Shrink(type, ref, shares)
     \/ "D" \in Feed /\ \E ref \in OrderReference : Leave(ref)
     \/ /\ "U" \in Feed
        /\ \E ref, new_ref \in OrderReference, price \in Price, shares \in Quantity :
             Replace(ref, new_ref, price, shares)
  /\ after_market(mutation'.symbol)

\* A trading action, or any other message about a symbol that moves no book.
TradingMessage ==
  /\ "H" \in Feed
  /\ Message
  /\ Quiet
  /\ \E symbol \in Symbol, state \in {"T", "H"} :
       /\ trading_state' = [trading_state EXCEPT ![symbol] = state]
       /\ UNCHANGED session_phase
       /\ after_market(symbol)

\* Market hours end; system events are about no symbol.
SessionMessage ==
  /\ "S" \in Feed
  /\ Message
  /\ Quiet
  /\ session_phase = "MarketHours" /\ session_phase' = "MarketHoursEnded"
  /\ UNCHANGED trading_state
  /\ after_market(None)

\* End of the input: finish drains through the last timestamp ...
begin_finish ==
  /\ driver = "idle"
  /\ driver' = "finishing" /\ horizon' = timestamp + 1
  /\ UNCHANGED <<facts, scheduled, simulator>>

\* ... and ends whatever is still open.
finish ==
  /\ driver = "finishing" /\ ~Due
  /\ driver' = "finished" /\ horizon' = 0
  /\ orders' = force_cancel_all(orders, "SessionEnded")
  /\ counts' = [counts EXCEPT !.cancelled = @ + Cardinality(OpenIds(orders))]
  /\ last_market_quoted' = (OpenIds(orders) = {} /\ last_market_quoted)
  /\ scheduled' = <<>>
  /\ UNCHANGED <<facts, latest_markets, inventory, submitted_quantity, stop_switch>>

Terminated == driver = "finished" /\ UNCHANGED vars

SimulatorNext ==
  /\ \/ \E gap \in Gaps : before_market(timestamp + gap)
     \/ execute_scheduled
     \/ sequence_gap
     \/ BookMessage \/ TradingMessage \/ SessionMessage
     \/ begin_finish \/ finish
     \/ Terminated
  /\ UNCHANGED queue_model

\* The driver is one thread that reads its whole input and then finishes.
SimulatorSpec == SimulatorInit /\ [][SimulatorNext]_vars /\ WF_vars(SimulatorNext)

----------------------------------------------------------------------------
(* Properties *)

Order == [symbol : Symbol, side : Side, limit : Price, original : {config.quantity},
          remaining : 0..config.quantity,
          state : Terminal \cup is_open_state, active_at : 0..timestamp + Max(Gaps),
          ahead : UNION {[refs -> Quantity] : refs \in SUBSET OrderReference},
          joined : Nat]

\* Every variable has its type.  No order is filled beyond its quantity, whatever
\* mutations and confirmations it meets.
TypeOK ==
  /\ queue_model \in QueueModels
  /\ driver \in {"idle", "message", "finishing", "finished"}
  /\ \A id \in DOMAIN orders : orders[id] \in Order
  /\ \A i \in DOMAIN scheduled :
       IF scheduled[i].at.kind \in {"Observation", "Decision"}
       THEN scheduled[i].market.symbol \in Symbol
       ELSE scheduled[i].order_id \in DOMAIN orders
  /\ inventory \in -kMaxLedger..kMaxLedger
  /\ submitted_quantity \in 0..kMaxSubmitted
  /\ {stop_switch, last_market_quoted} \subseteq BOOLEAN
  /\ \A count \in {"rejected", "cancelled", "filled"} : counts[count] \in Nat

\* The displayed orders that were at the order's price before it joined it.
StandingBefore(order) ==
  {ref \in DOMAIN displayed :
     /\ displayed[ref].symbol = order.symbol /\ displayed[ref].side = order.side
     /\ displayed[ref].price = order.limit /\ displayed[ref].arrival < order.joined}

\* What the queue tracker, fed only with mutations, believes is ahead of an order
\* is what the factual book holds: the displayed orders that joined its price
\* earlier, each with the shares it has left.
QueueAheadIsFactual ==
  queue_model = "MboFifoConservative" =>
    \A id \in DOMAIN orders : orders[id].state \in Exposed =>
      orders[id].ahead = [ref \in StandingBefore(orders[id]) |-> displayed[ref].shares]

\* An order is filled by an execution on its own side and symbol alone, of no more
\* shares than that executed, and at its own price only when nothing that joined
\* the price before it is still displayed.
FillsNeedEvidence ==
  [][\A id \in DOMAIN orders :
       orders'[id].remaining < orders[id].remaining =>
         LET order == orders[id]
             m == mutation'
         IN  /\ m # None
             /\ IsExecution(m) /\ m.symbol = order.symbol /\ m.side = order.side
             /\ order.remaining - orders'[id].remaining <= m.event_quantity
             /\ \/ order.side = "Buy" /\ m.display_price < order.limit
                \/ order.side = "Sell" /\ m.display_price > order.limit
                \/ /\ m.display_price = order.limit
                   /\ queue_model # "TradeThroughOnly"
                   /\ queue_model = "MboFifoConservative" => StandingBefore(order) = {}]_vars

\* A fact wins a tie with a local event: an order that a message can fill became
\* active strictly before it.
FactsWinTies ==
  [][driver = "message" /\ driver' = "idle" =>
       \A id \in DOMAIN orders : orders[id].state \in Exposed =>
         orders[id].active_at < timestamp']_vars

\* No symbol has two open orders on one side, whatever is still unconfirmed.
OneQuotePerSide ==
  \A id, other \in OpenIds(orders) :
    orders[id].symbol = orders[other].symbol /\ orders[id].side = orders[other].side
      => id = other

\* Once the stop switch has fired nothing of ours can trade again, whatever decisions
\* and confirmations were already under way.  The decision whose own submission fires it
\* leaves its orders open, but they wait for an acknowledgement that refuses them.
StopEndsExposure == stop_switch => ~AnyExposed(orders)

\* After market hours nothing of ours can trade, though orders decided on before
\* may still be on their way in.
ClosedNotExposed == session_phase # "MarketHours" => ~AnyExposed(orders)

\* An order is exposed only while it may trade: not after the stop, not after the close.
BarredNotExposed == StopEndsExposure /\ ClosedNotExposed

\* How many orders on a side may stand beside one: one quote a symbol, and no more open
\* orders than max_open_orders when an order is activated.
OthersBeside == Max({0, Min({Cardinality(Symbol), config.max_open_orders}) - 1})

\* activation_risk looks at each order alone, and the symbols share the inventory: it
\* passes its limit by no more than one quantity for each other order that may stand,
\* so with one symbol never, through partial fills, replaces that restore the whole
\* quantity, and fills while a cancel is pending.
InventoryWithinLimit ==
  LET reach == config.max_absolute_inventory + OthersBeside * config.quantity
  IN  inventory \in -reach..reach

\* Fills, replaces and cancels that cross keep orders and position within bounds.
PositionsBounded == TypeOK /\ InventoryWithinLimit

\* The counters account for every order once: what is not open was rejected,
\* cancelled or filled, also when a fill and a confirmation race.
EveryOrderCounted ==
  Len(orders) = Cardinality(OpenIds(orders)) + counts.rejected + counts.cancelled
                  + counts.filled

\* An order that waits for the exchange has exactly one confirmation under way.
PendingIsConfirmed ==
  driver # "finished" =>
    \A id \in OpenIds(orders) \ {i \in DOMAIN orders : orders[i].state \in Resting} :
      LET kind == CASE orders[id].state = "PendingAck" -> "Activate"
                    [] orders[id].state = "PendingCancel" -> "CancelConfirm"
                    [] orders[id].state = "PendingReplace" -> "ReplaceConfirm"
      IN  Cardinality({i \in DOMAIN scheduled :
            scheduled[i].at.kind = kind /\ scheduled[i].order_id = id}) = 1

\* Every order is settled once: a confirmation is under way for each that waits, and
\* one that lost a race to a fill, a stop or the close counts nothing.
ConfirmationsSettle == EveryOrderCounted /\ PendingIsConfirmed

\* The run ends, with no order open and nothing left to happen.
EveryOrderEnds == <>(driver = "finished" /\ OpenIds(orders) = {} /\ scheduled = <<>>)

\* docs/round4_metrics.md: the quote is online while an order is active, partially
\* filled or pending cancel or replace; "Pending acknowledgement is not online".
QuotedOnlyWhenExposed == last_market_quoted => AnyExposed(orders)
=============================================================================

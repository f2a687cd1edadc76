------------------------- MODULE MCShadowSimulator -------------------------
(* ShadowSimulator on one symbol: a displayed bid and a displayed ask at the    *)
(* opening, a price between them, and room for one more order.                *)
EXTENDS ShadowSimulator

At(symbol, side, price, shares, arrival) ==
  [symbol |-> symbol, side |-> side, price |-> price, shares |-> shares,
   arrival |-> arrival]

OneSymbol == CHOOSE symbol \in Symbol : TRUE
OneBidOneAsk ==
  <<At(OneSymbol, "Buy", 1, 2, 1), At(OneSymbol, "Sell", 3, 2, 2)>>

\* A better bid whose execution moves the target of a quote.
TwoBidsOneAsk ==
  <<At(OneSymbol, "Buy", 1, 2, 1), At(OneSymbol, "Sell", 3, 2, 2),
    At(OneSymbol, "Buy", 2, 1, 3)>>

\* Orders enter at once, quotes come from the markets of the first two instants,
\* and a cancel takes longer than the run.
Immediate ==
  [market_data_ns |-> 0, strategy_compute_ns |-> 0, order_entry_ns |-> 0,
   cancel_ns |-> 3, replace_ns |-> 0,
   quantity |-> 2, refresh |-> 1, minimum_rest |-> 0, maximum_distance |-> 0,
   max_absolute_inventory |-> 2, max_order_quantity |-> 2, max_open_orders |-> 2,
   max_notional |-> 6, max_market_staleness |-> 2,
   session_end |-> 3, stop_before_close |-> 0]

\* Every order operation is under way while messages arrive.
Delayed ==
  [Immediate EXCEPT !.order_entry_ns = 1, !.cancel_ns = 1, !.replace_ns = 1,
                    !.minimum_rest = 1, !.session_end = 4, !.stop_before_close = 1]

\* As long as it takes for time to pass while an acknowledgement is pending.
SlowEntry == [Immediate EXCEPT !.order_entry_ns = 2]
=============================================================================

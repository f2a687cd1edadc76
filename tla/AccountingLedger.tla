-------------------------- MODULE AccountingLedger --------------------------
(***************************************************************************)
(* The ledger of src/mm/accounting.cpp: signed inventory, cash, fees,        *)
(* rebates, FIFO lots and realized profit of the shadow fills, all in        *)
(* checked 64-bit integers.  A fill that would overflow any of them is       *)
(* refused and changes nothing.  One price4 is two nanos here and one mid2   *)
(* is one nano; the code has 100000 and 50000.                               *)
(***************************************************************************)
EXTENDS Integers, FiniteSetsExt, Selection, SequencesExt

CONSTANTS
  Price,         \* Price(4) prices
  Quantity,      \* quantities of fills
  fees,          \* FeeConfig: maker_fee, maker_rebate, liquidation_fee
  kMaxMoney,     \* largest MoneyNanos
  kMaxInventory, \* largest signed inventory
  kMaxTurnover   \* largest turnover

ASSUME LedgerAssumption ==
  /\ {kMaxMoney, kMaxInventory, kMaxTurnover} \subseteq Nat
  /\ Price \subseteq Nat /\ Quantity \subseteq Nat
  /\ {fees.maker_fee, fees.maker_rebate, fees.liquidation_fee} \subseteq Nat

VARIABLES inventory, trade_cash, fees_paid, rebates, realized, turnover, lots

vars == <<inventory, trade_cash, fees_paid, rebates, realized, turnover, lots>>

Side == {"Buy", "Sell"}
nanos_per_price4 == 2
price_nanos(price4) == nanos_per_price4 * price4
Signed(side, quantity) == IF side = "Buy" THEN quantity ELSE -quantity

\* checked_multiply and checked_add succeed: the result is a 64-bit integer.
IsMoney(value) == value \in -kMaxMoney - 1..kMaxMoney

Init ==
  /\ inventory = 0 /\ trade_cash = 0 /\ fees_paid = 0 /\ rebates = 0
  /\ realized = 0 /\ turnover = 0 /\ lots = <<>>

\* The shares of lot i that a fill closes: what older lots leave of it.
ClosedOf(i, side, quantity) ==
  IF lots[i].side = side THEN 0
  ELSE Max({0, Min({lots[i].quantity,
                    quantity - SumFunction([j \in 1..(i - 1) |-> lots[j].quantity])})})

\* mutant: the newest lots are closed first
ClosedLast(i, side, quantity) ==
  IF lots[i].side = side THEN 0
  ELSE Max({0, Min({lots[i].quantity,
                    quantity - SumFunction([j \in (i + 1)..Len(lots) |-> lots[j].quantity])})})
Closed(i, side, quantity) == ClosedOf(i, side, quantity)

\* mutant: a short is closed as if it were a long
LongPerShare(side, price4, lot) == price_nanos(price4) - lot.price
PerShare(side, price4, lot) ==
  IF side = "Sell" THEN price_nanos(price4) - lot.price ELSE lot.price - price_nanos(price4)

Piece(i, side, quantity, price4) ==
  Closed(i, side, quantity) * PerShare(side, price4, lots[i])

\* Profit realized by the fill on the first n lots.
RealizedDelta(n, side, quantity, price4) ==
  SumFunction([i \in 1..n |-> Piece(i, side, quantity, price4)])

\* mutant: a fill that closes lots still opens its whole quantity
OpenedWhole(side, quantity) == quantity
Opened(side, quantity) ==
  quantity - SumFunction([i \in DOMAIN lots |-> Closed(i, side, quantity)])

\* mutant: the pieces are checked and not the total they are added to
PiecesFit(side, quantity, price4) ==
  \A i \in DOMAIN lots : IsMoney(Piece(i, side, quantity, price4))
RealizedFits(side, quantity, price4) ==
  /\ \A i \in DOMAIN lots :
       IsMoney(Piece(i, side, quantity, price4)) /\ IsMoney(RealizedDelta(i, side, quantity, price4))
  /\ IsMoney(realized + RealizedDelta(Len(lots), side, quantity, price4))

\* Every checked operation of apply_fill succeeds.
Accounted(side, quantity, price4) ==
  /\ quantity \in 1..kMaxInventory
  /\ IsMoney(price_nanos(price4) * quantity)
  /\ IsMoney(fees.maker_fee * quantity) /\ IsMoney(fees.maker_rebate * quantity)
  /\ inventory + Signed(side, quantity) \in -kMaxInventory - 1..kMaxInventory
  /\ IsMoney(trade_cash - Signed(side, price_nanos(price4) * quantity))
  /\ IsMoney(fees_paid + fees.maker_fee * quantity)
  /\ IsMoney(rebates + fees.maker_rebate * quantity)
  /\ turnover + quantity <= kMaxTurnover
  /\ RealizedFits(side, quantity, price4)

apply_fill(side, quantity, price4) ==
  /\ Accounted(side, quantity, price4)
  /\ LET left == [i \in DOMAIN lots |->
                    [lots[i] EXCEPT !.quantity = @ - Closed(i, side, quantity)]]
         lot == [side |-> side, quantity |-> Opened(side, quantity),
                 price |-> price_nanos(price4)]
         all == left \o <<lot>>
     IN  lots' = SelectAt(all, {i \in DOMAIN all : all[i].quantity # 0})
  /\ inventory' = inventory + Signed(side, quantity)
  /\ trade_cash' = trade_cash - Signed(side, price_nanos(price4) * quantity)
  /\ fees_paid' = fees_paid + fees.maker_fee * quantity
  /\ rebates' = rebates + fees.maker_rebate * quantity
  /\ realized' = realized + RealizedDelta(Len(lots), side, quantity, price4)
  /\ turnover' = turnover + quantity

\* apply_fill answers nullopt.
Refuse(side, quantity, price4) == ~Accounted(side, quantity, price4) /\ UNCHANGED vars

Next ==
  \E side \in Side, quantity \in Quantity, price4 \in Price :
    apply_fill(side, quantity, price4) \/ Refuse(side, quantity, price4)

Spec == Init /\ [][Next]_vars
----------------------------------------------------------------------------
(* Valuations *)

gross_equity_at_mid2(mid2) == trade_cash + inventory * mid2
net_equity_at_mid2(mid2) == gross_equity_at_mid2(mid2) - fees_paid + rebates

\* mutant: a short is bought back at the bid
LiquidateAtBid(bid, ask) == bid
LiquidationPrice(bid, ask) == IF inventory >= 0 THEN bid ELSE ask
conservative_liquidation_equity(bid, ask) ==
  LET size == IF inventory < 0 THEN -inventory ELSE inventory
  IN  trade_cash + inventory * price_nanos(LiquidationPrice(bid, ask)) - fees_paid + rebates
      - fees.liquidation_fee * size
----------------------------------------------------------------------------
(* Properties *)

\* Every total keeps its 64-bit type and every lot holds shares.
TypeOK ==
  /\ inventory \in -kMaxInventory - 1..kMaxInventory
  /\ \A money \in {trade_cash, fees_paid, rebates, realized} : IsMoney(money)
  /\ turnover \in 0..kMaxTurnover
  /\ \A i \in DOMAIN lots : lots[i] \in
       [side : Side, quantity : 1..kMaxInventory + 1, price : {price_nanos(p) : p \in Price}]

SignedLot(i) == Signed(lots[i].side, lots[i].quantity)

\* check_invariants: the lots add up to the inventory; and they are all on one
\* side, so that a fill never opens a lot against another.
LotsAreInventory ==
  /\ SumFunction([i \in DOMAIN lots |-> SignedLot(i)]) = inventory
  /\ \A i, j \in DOMAIN lots : lots[i].side = lots[j].side

\* Cash, kept from whole trades, agrees with profit, kept from closed lots: they
\* differ by what the open lots cost.
CashExplainsProfit ==
  trade_cash = realized - SumFunction([i \in DOMAIN lots |-> SignedLot(i) * lots[i].price])

\* The ledger's redundant totals agree after every fill, taken or refused.
TotalsAgree == TypeOK /\ LotsAreInventory /\ CashExplainsProfit

\* Liquidating is never worth more than marking at the mid, long or short.
LiquidationIsConservative ==
  \A bid, ask \in Price : bid <= ask =>
    conservative_liquidation_equity(bid, ask) <= net_equity_at_mid2(bid + ask)

\* The open shares of the lots, one by one, and the side they are on.
Shares == FlattenSeq([i \in DOMAIN lots |-> [share \in 1..lots[i].quantity |-> lots[i].price]])
Position == IF lots = <<>> THEN "Buy" ELSE lots[1].side

\* The ledger of lots, with its partial closes and its checked arithmetic,
\* implements shares that are closed one by one, first in, first out.
Fifo == INSTANCE FifoLots WITH
  Price <- {price_nanos(p) : p \in Price}, Quantity <- Quantity \ {0},
  open <- Shares, position <- Position
ImplementsFifoLots == Fifo!Spec
=============================================================================

------------------------------ MODULE FifoLots ------------------------------
(***************************************************************************)
(* What the accounting ledger promises: shares are closed first in, first    *)
(* out.  Every open share is kept on its own, with the price it was opened    *)
(* at; a fill is taken share by share.                                        *)
(***************************************************************************)
EXTENDS Integers, Sequences, Functions

CONSTANTS Price, Quantity

VARIABLES
  open,      \* prices of the open shares, oldest first
  position,  \* Buy or Sell, the side the open shares are on; Buy when there are none
  realized   \* profit of the shares closed so far

lots == <<open, position, realized>>

Init == open = <<>> /\ position = "Buy" /\ realized = 0

\* Of a fill on the other side, the oldest shares are closed; the rest opens.
Fill(side, quantity, price) ==
  LET closed == IF side = position THEN 0
                ELSE IF quantity < Len(open) THEN quantity ELSE Len(open)
      gain(opened) == IF side = "Sell" THEN price - opened ELSE opened - price
      left == SubSeq(open, closed + 1, Len(open))
  IN  /\ open' = left \o [share \in 1..(quantity - closed) |-> price]
      /\ position' = IF open' = <<>> THEN "Buy" ELSE IF left = <<>> THEN side ELSE position
      /\ realized' = realized + SumFunction([share \in 1..closed |-> gain(open[share])])

Next ==
  \/ \E side \in {"Buy", "Sell"}, quantity \in Quantity, price \in Price :
       Fill(side, quantity, price)
  \/ UNCHANGED lots  \* a fill that is refused

Spec == Init /\ [][Next]_lots
=============================================================================

------------------------ MODULE MCAccountingLedger -------------------------
(* AccountingLedger with three prices and limits that fills soon reach.       *)
EXTENDS AccountingLedger

Fees == [maker_fee |-> 1, maker_rebate |-> 1, liquidation_fee |-> 1]
=============================================================================

---------------------------- MODULE MCOrderBook ----------------------------
(* OrderBook on small sets: model values for the ids, integers for the rest. *)
EXTENDS OrderBook, TLC

Ids == Permutations(OrderId)
MCPrice == {1, 2}
MCQuantities == {0, 1, 2}
=============================================================================

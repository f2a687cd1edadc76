------------------------------ MODULE Auction ------------------------------
(***************************************************************************)
(* What the matching engine promises, without levels, caches or an index:   *)
(* a continuous auction in price-time priority.  Orders rest with the time  *)
(* they arrived; at most one incoming order meets them, and it always       *)
(* trades with the best-priced and, at that price, the earliest of the      *)
(* opposite side, at that order's price.                                    *)
(* docs/adr/0001-matching-engine-semantics.md is the prose of this module.  *)
(***************************************************************************)
EXTENDS Integers

CONSTANTS OrderId, Price, NoPrice, NoOrder, kMaxQuantity

VARIABLES
  resting,    \* active id -> side, price, open quantity and arrival
  incoming,   \* the order meeting the book, or NoOrder
  arrivals    \* arrival number of the next order to rest

vars == <<resting, incoming, arrivals>>

Quantity == 0..kMaxQuantity

Init == resting = <<>> /\ incoming = NoOrder /\ arrivals = 1

Without(id) == [other \in DOMAIN resting \ {id} |-> resting[other]]

\* The incoming order accepts the price of resting order id.
Acceptable(id) ==
  /\ resting[id].side # incoming.side
  /\ \/ incoming.limit = NoPrice
     \/ incoming.side = "Buy" /\ resting[id].price <= incoming.limit
     \/ incoming.side = "Sell" /\ resting[id].price >= incoming.limit

\* Order id is served before order other of the same side.
Before(id, other) ==
  \/ /\ resting[id].price = resting[other].price
     /\ resting[id].arrival < resting[other].arrival
  \/ resting[id].side = "Buy" /\ resting[id].price > resting[other].price
  \/ resting[id].side = "Sell" /\ resting[id].price < resting[other].price

First(id) ==
  \A other \in DOMAIN resting \ {id} :
    resting[other].side = resting[id].side => Before(id, other)

Arriving(id) == incoming'.order_id = id /\ incoming'.quantity \in Quantity \ {0}

Submit ==
  /\ incoming = NoOrder /\ incoming' # NoOrder
  /\ \E id \in OrderId \ DOMAIN resting : Arriving(id)
  /\ UNCHANGED <<resting, arrivals>>

\* An order that moves or grows gives up its place and arrives again.
Amend ==
  /\ incoming = NoOrder /\ incoming' # NoOrder
  /\ \E id \in DOMAIN resting :
       /\ Arriving(id)
       /\ incoming'.side = resting[id].side
       /\ \/ incoming'.limit # resting[id].price
          \/ incoming'.quantity > resting[id].quantity
       /\ resting' = Without(id)
  /\ UNCHANGED arrivals

Trade ==
  /\ incoming # NoOrder
  /\ \E id \in DOMAIN resting, q \in Quantity \ {0} :
       /\ Acceptable(id) /\ First(id)
       /\ q <= incoming.quantity /\ q <= resting[id].quantity
       /\ q = incoming.quantity \/ q = resting[id].quantity
       /\ incoming' = [incoming EXCEPT !.quantity = incoming.quantity - q]
       /\ resting' = IF q = resting[id].quantity THEN Without(id)
                     ELSE [resting EXCEPT ![id].quantity = resting[id].quantity - q]
  /\ UNCHANGED arrivals

Join ==
  /\ incoming # NoOrder
  /\ incoming.rests /\ incoming.quantity # 0
  /\ \A id \in DOMAIN resting : ~Acceptable(id)
  /\ resting' = [id \in DOMAIN resting \cup {incoming.order_id} |->
       IF id = incoming.order_id
       THEN [side |-> incoming.side, price |-> incoming.limit,
             quantity |-> incoming.quantity, arrival |-> arrivals]
       ELSE resting[id]]
  /\ arrivals' = arrivals + 1
  /\ incoming' = NoOrder

\* The incoming order is filled, or is not to rest and finds no one to trade
\* with; an all-or-none order leaves only when it is filled.
Leave ==
  /\ incoming # NoOrder /\ incoming' = NoOrder
  /\ \/ incoming.quantity = 0
     \/ /\ ~incoming.rests /\ ~incoming.all_or_none
        /\ \A id \in DOMAIN resting : ~Acceptable(id)
  /\ UNCHANGED <<resting, arrivals>>

Withdraw ==
  /\ incoming = NoOrder
  /\ \E id \in DOMAIN resting : resting' = Without(id)
  /\ UNCHANGED <<incoming, arrivals>>

\* Shrinking an order in place keeps its arrival.
Shrink ==
  /\ incoming = NoOrder
  /\ \E id \in DOMAIN resting : \E q \in 1..resting[id].quantity :
       resting' = [resting EXCEPT ![id].quantity = q]
  /\ UNCHANGED <<incoming, arrivals>>

Next == Submit \/ Amend \/ Trade \/ Join \/ Leave \/ Withdraw \/ Shrink

Spec == Init /\ [][Next]_vars
=============================================================================

----------------------------- MODULE Displayed -----------------------------
(***************************************************************************)
(* What the factual book promises its readers: a set of displayed orders    *)
(* that arrive, shrink and leave, each change reported by one mutation.     *)
(* No matching, no levels, no caches.  FactualBook implements this module,  *)
(* and ShadowSimulator is built on it.                                      *)
(***************************************************************************)
EXTENDS Integers

CONSTANTS
  OrderReference, Symbol, Price,
  Quantity,   \* share quantities, all positive
  None        \* no mutation, no replacement reference

VARIABLES
  displayed,  \* reference -> symbol, side, price, open shares and arrival
  arrivals,   \* arrival number of the next order
  mutation    \* what the last message did to the displayed orders, or None

book == <<displayed, arrivals, mutation>>

Init == displayed = <<>> /\ arrivals = 1 /\ mutation = None

Without(ref) == [other \in DOMAIN displayed \ {ref} |-> displayed[other]]
With(orders, ref, order) ==
  [other \in DOMAIN orders \cup {ref} |-> IF other = ref THEN order ELSE orders[other]]

Report(type, order, ref, new_ref, shares) ==
  mutation' = [message_type |-> type, symbol |-> order.symbol, side |-> order.side,
               order_reference |-> ref, new_order_reference |-> new_ref,
               event_quantity |-> shares, display_price |-> order.price]

\* A and F: a new order is displayed behind all that are there.
Arrive(type, ref, symbol, side, price, shares) ==
  LET order == [symbol |-> symbol, side |-> side, price |-> price, shares |-> shares,
                arrival |-> arrivals]
  IN  /\ ref \notin DOMAIN displayed
      /\ Report(type, order, ref, None, shares)
      /\ displayed' = With(displayed, ref, order)
      /\ arrivals' = arrivals + 1

\* E, C and X: shares leave an order; an order with none left is gone.
Shrink(type, ref, shares) ==
  /\ ref \in DOMAIN displayed
  /\ shares <= displayed[ref].shares
  /\ Report(type, displayed[ref], ref, None, shares)
  /\ displayed' = IF shares = displayed[ref].shares THEN Without(ref)
                  ELSE [displayed EXCEPT ![ref].shares = @ - shares]
  /\ UNCHANGED arrivals

\* D: the order is gone with all its shares.
Leave(ref) ==
  /\ ref \in DOMAIN displayed
  /\ Report("D", displayed[ref], ref, None, displayed[ref].shares)
  /\ displayed' = Without(ref)
  /\ UNCHANGED arrivals

\* U: the order gives its place up and arrives again under another reference.
Replace(ref, new_ref, price, shares) ==
  /\ ref \in DOMAIN displayed /\ new_ref \notin DOMAIN displayed
  /\ LET order == [displayed[ref] EXCEPT !.price = price, !.shares = shares,
                                         !.arrival = arrivals]
     IN  /\ Report("U", order, ref, new_ref, shares)
         /\ displayed' = With(Without(ref), new_ref, order)
  /\ arrivals' = arrivals + 1

\* A message about anything else, or one that is refused.
Quiet == mutation' = None /\ UNCHANGED <<displayed, arrivals>>

Next ==
  \/ \E type \in {"A", "F"}, ref \in OrderReference, symbol \in Symbol,
        side \in {"Buy", "Sell"}, price \in Price, shares \in Quantity :
       Arrive(type, ref, symbol, side, price, shares)
  \/ \E type \in {"E", "C", "X"}, ref \in OrderReference, shares \in Quantity :
       Shrink(type, ref, shares)
  \/ \E ref \in OrderReference : Leave(ref)
  \/ \E ref, new_ref \in OrderReference, price \in Price, shares \in Quantity :
       Replace(ref, new_ref, price, shares)
  \/ Quiet

Spec == Init /\ [][Next]_book
=============================================================================

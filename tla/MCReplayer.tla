----------------------------- MODULE MCReplayer ----------------------------
(* Replayer over short files: framed messages that are sound, ill formed or  *)
(* refused by the book, a file cut short, and single records of every type.  *)
EXTENDS Replayer, TLC

Message(type, rest) == [type |-> type, locate |-> 1] @@ rest
Listings ==
  {Message("R", [symbol |-> "AAPL"]), [type |-> "R", locate |-> 2, symbol |-> "MSFT"]}
\* The orders of a side may rest in either order of prices or at one; one bids 0.
Placed ==
  {<<1, "Buy", 1>>, <<1, "Buy", 2>>, <<2, "Buy", 0>>, <<2, "Buy", 1>>,
   <<1, "Sell", 2>>, <<2, "Sell", 1>>}
Adds ==
  {Message("A", [symbol |-> "AAPL", ref |-> at[1], side |-> at[2], shares |-> 1, price |-> at[3]]) :
     at \in Placed}
Executions ==
  {Message("E", [ref |-> 1, shares |-> 1, match |-> match, printable |-> TRUE]) :
     match \in MatchNumber}
Deletes == {Message("D", [ref |-> 2])}
Replaces ==
  {Message("U", [ref |-> 1, new_ref |-> 2, shares |-> 2, price |-> p]) : p \in {0, 2}}
Unselected ==
  {[type |-> "A", locate |-> 2, symbol |-> "MSFT", ref |-> 2, side |-> "Buy", shares |-> 1,
    price |-> 1]}
ReplayFeed == Listings \cup Unselected \cup Adds \cup Executions \cup Deletes \cup Replaces

\* What would be applied if an ill-formed payload were decoded.
Wrong == Message("R", [symbol |-> "AAPL"])
Payload(type, size, bad) ==
  [type |-> type, size |-> size, bad |-> bad, timestamp |-> 0, message |-> Wrong]
Framed(payload) == [category |-> "ok", payload |-> payload]
Sound(message, timestamp) ==
  Framed([Payload(message.type, Width(message.type), {})
            EXCEPT !.timestamp = timestamp, !.message = message])

Cut(category) == [category |-> category]
IllFormed == Framed(Payload("A", 0, {}))
\* Executions are stamped later than the rest: what follows one goes back in time.
ReplayFrames ==
  {Cut("TruncatedFrame"), IllFormed}
    \cup {Sound(m, 1) : m \in ReplayFeed \ Executions} \cup {Sound(m, 2) : m \in Executions}

\* Every type, with each length about the expected one, and each pair of fields that a
\* check names holding a value it refuses.
BadFields(type) == {{a, b} : a, b \in Ruled(type)}
ReplayProbes ==
  {Framed(Payload(type, Width(type) + d, {})) : type \in MessageType, d \in {-1, 1}}
    \cup UNION {{Framed(Payload(type, Width(type), bad)) :
                    bad \in BadFields(type)} : type \in MessageType}
    \cup {Framed(Payload("A", 2, {})), Framed(Payload(Unknown, 19, {})),
           Cut("IncompleteEnvelope")}
=============================================================================

--------------------------- MODULE MCFactualBook ---------------------------
(* FactualBook with two small feeds of the messages the decoder lets through: *)
(* one for the queues of one symbol, one for the ledger and the directories.  *)
EXTENDS FactualBook, TLC

Symmetric == Permutations(OrderReference) \cup Permutations(MatchNumber)

\* The decoder refuses zero shares everywhere but in a cross trade.
Traded4 == Shares \ {0}
Listings == [type : {"R"}, locate : Locate, symbol : Symbol]
Misprints == [type : {"R"}, locate : Locate \cup {0}, symbol : Symbol \cup {None}]
Adds == [type : {"A", "F"}, locate : Locate, symbol : Symbol, ref : OrderReference,
         side : Side, shares : Traded4, price : Price]
Executions ==
  {m \in [type : {"E", "C"}, locate : Locate, ref : OrderReference, shares : Traded4,
          match : MatchNumber, printable : BOOLEAN] : m.type = "E" => m.printable}
Cancels == [type : {"X"}, locate : Locate, ref : OrderReference, shares : Traded4]
Deletes == [type : {"D"}, locate : Locate, ref : OrderReference]
Replaces ==
  {m \in [type : {"U"}, locate : Locate, ref : OrderReference, new_ref : OrderReference,
          shares : Traded4, price : Price] : m.ref # m.new_ref}
Trades ==
  {m \in [type : {"P", "Q"}, locate : Locate, symbol : Symbol, match : MatchNumber,
          shares : Shares] : m.type = "P" => m.shares # 0}
Breaks == [type : {"B"}, locate : Locate, match : MatchNumber]
Sessions == [type : {"S"}, event_code : Range(EventCodes)]
Haltings == [type : {"H"}, locate : Locate, symbol : Symbol, state : {"H", "T"}]
References ==
  [type : {"Y"}, locate : Locate, symbol : Symbol] \cup [type : {"V"}, locate : {0}]

\* The executions of E and of an unprintable C; F differs from A in nothing here.
Fills == {m \in Executions : m.printable <=> m.type = "E"}
\* Two prices and three references on both sides.
QueueFeed ==
  {m \in Listings \cup Adds \cup Fills \cup Cancels \cup Deletes \cup Replaces : m.type # "F"}
\* Two symbols that claim two locates, the opening of a session and halts, buy
\* orders that are replaced or executed, every kind of trade, and breaks.
RecordFeed ==
  Misprints \cup References \cup Fills \cup Trades \cup Breaks
    \cup {m \in Sessions : m.event_code = "O"} \cup {m \in Haltings : m.state = "H"}
    \cup {m \in Adds : m.side = "Buy" /\ m.type = "A"} \cup Replaces
SymmetricRecords ==
  Permutations(OrderReference) \cup Permutations(MatchNumber) \cup Permutations(Symbol)
=============================================================================

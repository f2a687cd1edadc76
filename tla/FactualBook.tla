---------------------------- MODULE FactualBook ----------------------------
(***************************************************************************)
(* The factual book of src/replay/factual_book.cpp: the exchange's own      *)
(* displayed orders, rebuilt from ITCH messages.  It never matches: each    *)
(* message says what happened to a named order, and apply() either performs *)
(* exactly that or reports an error.  Offsets, diagnostics, attribution,    *)
(* timestamps, the count of applied messages and what reference messages    *)
(* store, except the trading state, are left out.                           *)
(***************************************************************************)
EXTENDS Integers, Sequences, FiniteSetsExt, SequencesExt

CONSTANTS
  OrderReference, \* order reference numbers of the feed
  Locate,         \* nonzero stock locates
  Symbol,         \* trimmed stock symbols
  Price,          \* Price(4) display prices
  Shares,         \* share quantities of the feed, 0 included where decodable
  MatchNumber,    \* match numbers of the feed
  Feed,           \* the decoded messages the feed may carry
  None,           \* std::nullopt
  kMax            \* largest 64-bit quantity, volume and FIFO sequence

\* Reference messages, those that must name a listed stock and the others.
AboutStock == {"H", "Y", "L", "J", "h", "I", "N", "O"}
AboutMarket == {"V", "W", "K"}

ASSUME FactualAssumption ==
  /\ kMax \in Nat \ {0}
  /\ Shares \subseteq 0..kMax
  /\ 0 \notin Locate
  /\ None \notin Symbol
  /\ IsFiniteSet(Symbol) /\ IsFiniteSet(Price)  \* 8 characters, 32 bits
  /\ \A m \in Feed : m.type \in {"S", "R", "A", "F", "E", "C", "X", "D", "U", "P", "Q", "B"}
                                  \cup AboutStock \cup AboutMarket

VARIABLES
  session_phase,       \* session_phase_
  directories,         \* directories_: locate -> symbol
  symbol_locates,      \* symbol_locates_: symbol -> locate
  trading,             \* reference_state_["H|symbol"]: symbol -> trading state
  books,               \* books_: symbol -> side -> price -> level
  order_index,         \* order_index_: reference -> symbol, side, price
  trades,              \* trades_, the ledger of executions
  trade_index,         \* trade_index_: match number -> position in trades
  volumes,             \* volumes_
  next_fifo_sequence,  \* next_fifo_sequence_
  last_book_mutation,  \* last_book_mutation_ (capture enabled)
  result               \* what apply() returned last: "ok" or the error category

reference == <<session_phase, directories, symbol_locates, trading>>
displayed == <<books, order_index, next_fifo_sequence>>
ledger == <<trades, trade_index>>
facts == <<reference, displayed, ledger, volumes>>
vars == <<facts, last_book_mutation, result>>

Side == {"Buy", "Sell"}
Quantity == 0..kMax

\* The decoder gives every field a value of its type.
ASSUME FeedAssumption ==
  \A m \in Feed :
    /\ m.type = "R" => m.locate \in Locate \cup {0} /\ m.symbol \in Symbol \cup {None}
    /\ m.type \in {"A", "F"} => m.ref \in OrderReference /\ m.side \in Side
    /\ m.type = "U" => m.new_ref \in OrderReference
    /\ m.type \in {"A", "F", "U"} => m.price \in Price
    /\ m.type \in {"A", "F", "E", "C", "X", "U", "P", "Q"} => m.shares \in Shares
    /\ m.type \in {"E", "C", "P", "Q", "B"} => m.match \in MatchNumber
    /\ m.type \in {"E", "C"} => m.printable \in BOOLEAN

\* What a handler captures of a message that moved the displayed orders.
BookMutation ==
  [message_type : {"A", "F", "E", "C", "X", "D", "U"}, symbol : Symbol, side : Side,
   order_reference : OrderReference, new_order_reference : OrderReference \cup {None},
   event_quantity : 1..kMax, display_price : Price]
ASSUME MutationAssumption == None \notin OrderReference /\ None \notin BookMutation

Phases == <<"before_messages", "messages_started", "system_hours", "market_hours",
            "market_hours_ended", "system_hours_ended", "messages_ended">>
EventCodes == <<"O", "S", "Q", "M", "E", "C">>

Node == [order_reference : OrderReference, stock_locate : Locate,
         remaining_shares : Quantity, fifo_sequence : 1..kMax]
Level == [aggregate_shares : Quantity, orders : Seq(Node)]
IndexEntry == [symbol : Symbol, side : Side, price : Price]
TradeRecord == [match_number : MatchNumber, stock_locate : Locate \cup {0},
                shares : Quantity, printable : BOOLEAN, broken : BOOLEAN]
Counter == {"displayed_add", "displayed_cancel", "displayed_execute",
            "printable_trade", "non_printable_trade", "broken_trade"}

\* A level is present in bids or asks exactly when it has orders.
NoLevel == [aggregate_shares |-> 0, orders |-> <<>>]

Init ==
  /\ session_phase = "before_messages"
  /\ directories = <<>> /\ symbol_locates = <<>> /\ trading = <<>>
  /\ books = [s \in Symbol |-> [side \in Side |-> [p \in Price |-> NoLevel]]]
  /\ order_index = <<>> /\ next_fifo_sequence = 1
  /\ trades = <<>> /\ trade_index = <<>>
  /\ volumes = [c \in Counter |-> 0]
  /\ last_book_mutation = None
  /\ result = "ok"

----------------------------------------------------------------------------
(* Helpers *)

can_add_alone(current, quantity) == quantity <= kMax   \* mutant: ignores what is there
can_add(current, quantity) == quantity <= kMax - current
Wrap(n) == n % (kMax + 1)

\* f with key mapped to value (std::map::insert_or_assign, emplace)
Put(f, key, value) == [k \in DOMAIN f \cup {key} |-> IF k = key THEN value ELSE f[k]]
Drop(f, key) == [k \in DOMAIN f \ {key} |-> f[k]]

LevelOf(bks, entry) == bks[entry.symbol][entry.side][entry.price]
SetLevel(bks, entry, level) ==
  [bks EXCEPT ![entry.symbol][entry.side][entry.price] = level]

\* The node the index entry's list iterator points at.
Position(ref) ==
  LET queue == LevelOf(books, order_index[ref]).orders
  IN  CHOOSE i \in DOMAIN queue : queue[i].order_reference = ref
Order(ref) == LevelOf(books, order_index[ref]).orders[Position(ref)]

\* erase_order: the books without the order.
Erased(ref) ==
  LET level == LevelOf(books, order_index[ref])
  IN  SetLevel(books, order_index[ref],
        [aggregate_shares |-> Wrap(level.aggregate_shares - Order(ref).remaining_shares),
         orders |-> RemoveAt(level.orders, Position(ref))])

\* mutant: the emptied order stays in its queue
LoweredNeverErased(ref, shares) ==
  LET level == LevelOf(books, order_index[ref])
  IN  SetLevel(books, order_index[ref],
        [aggregate_shares |-> Wrap(level.aggregate_shares - shares),
         orders |-> [level.orders EXCEPT ![Position(ref)].remaining_shares = @ - shares]])

\* The books after shares have left an order; an emptied order is erased.
Lowered(ref, shares) ==
  IF shares = Order(ref).remaining_shares THEN Erased(ref)
  ELSE LET level == LevelOf(books, order_index[ref])
       IN  SetLevel(books, order_index[ref],
             [aggregate_shares |-> Wrap(level.aggregate_shares - shares),
              orders |-> [level.orders EXCEPT ![Position(ref)].remaining_shares = @ - shares]])

IndexWithout(ref, shares) ==
  IF shares = Order(ref).remaining_shares THEN Drop(order_index, ref) ELSE order_index

\* mutant: the cached aggregate is not raised
AppendedUncounted(bks, entry, node) ==
  SetLevel(bks, entry,
    [LevelOf(bks, entry) EXCEPT !.orders = Append(@, node)])

\* push_back on a level, created on demand
Appended(bks, entry, node) ==
  LET level == LevelOf(bks, entry)
  IN  SetLevel(bks, entry,
        [aggregate_shares |-> Wrap(level.aggregate_shares + node.remaining_shares),
         orders |-> Append(level.orders, node)])

\* mutant: any listed locate will do
LocateUnlisted(locate, symbol) ==
  IF locate \notin DOMAIN directories THEN "UnknownStockLocate" ELSE "ok"

\* validate_locate_symbol
LocateError(locate, symbol) ==
  IF locate \notin DOMAIN directories THEN "UnknownStockLocate"
  ELSE IF directories[locate] # symbol THEN "SymbolMismatch" ELSE "ok"

\* mutant: the event quantity is that of the whole order
MutationOfWhole(type, ref, new_ref, shares, price) ==
  [message_type |-> type, symbol |-> order_index[ref].symbol, side |-> order_index[ref].side,
   order_reference |-> ref, new_order_reference |-> new_ref,
   event_quantity |-> Order(ref).remaining_shares, display_price |-> price]

Mutation(type, ref, new_ref, shares, price) ==
  [message_type |-> type, symbol |-> order_index[ref].symbol, side |-> order_index[ref].side,
   order_reference |-> ref, new_order_reference |-> new_ref, event_quantity |-> shares,
   display_price |-> price]

Fail(category) ==
  /\ result' = category
  /\ last_book_mutation' = None
  /\ UNCHANGED facts
Succeed(mutation) == result' = "ok" /\ last_book_mutation' = mutation

----------------------------------------------------------------------------
(* One handler per message type *)

apply_system_event(m) ==
  \/ \E i \in DOMAIN EventCodes :
       /\ EventCodes[i] = m.event_code /\ Phases[i] = session_phase
       /\ session_phase' = Phases[i + 1]
       /\ Succeed(None)
       /\ UNCHANGED <<directories, symbol_locates, trading, displayed, ledger, volumes>>
  \/ /\ \A i \in DOMAIN EventCodes :
          EventCodes[i] = m.event_code => Phases[i] # session_phase
     /\ Fail("IllegalSessionTransition")

\* mutant: a symbol may move to another locate
DirectoryErrorOneWay(m) ==
  IF m.locate = 0 \/ m.symbol = None THEN "InvalidField"
  ELSE IF m.locate \in DOMAIN directories /\ directories[m.locate] # m.symbol
       THEN "DirectoryConflict" ELSE "ok"

DirectoryError(m) ==
  IF m.locate = 0 \/ m.symbol = None THEN "InvalidField"
  ELSE IF \/ m.locate \in DOMAIN directories /\ directories[m.locate] # m.symbol
          \/ m.symbol \in DOMAIN symbol_locates /\ symbol_locates[m.symbol] # m.locate
       THEN "DirectoryConflict" ELSE "ok"

apply_directory(m) ==
  \/ DirectoryError(m) # "ok" /\ Fail(DirectoryError(m))
  \/ /\ DirectoryError(m) = "ok"
     /\ directories' = Put(directories, m.locate, m.symbol)
     /\ symbol_locates' = Put(symbol_locates, m.symbol, m.locate)
     /\ Succeed(None)
     /\ UNCHANGED <<session_phase, trading, displayed, ledger, volumes>>

AddError(m) ==
  LET entry == [symbol |-> m.symbol, side |-> m.side, price |-> m.price]
  IN  IF LocateError(m.locate, m.symbol) # "ok" THEN LocateError(m.locate, m.symbol)
      ELSE IF m.shares = 0 THEN "ZeroShares"
      ELSE IF m.ref \in DOMAIN order_index THEN "DuplicateOrderReference"
      ELSE IF \/ ~can_add(LevelOf(books, entry).aggregate_shares, m.shares)
              \/ ~can_add(volumes["displayed_add"], m.shares)
              \/ next_fifo_sequence = kMax
           THEN "AggregateOverflow" ELSE "ok"

\* apply_add, for A and F
apply_add(m) ==
  \/ AddError(m) # "ok" /\ Fail(AddError(m))
  \/ /\ AddError(m) = "ok"
     /\ LET entry == [symbol |-> m.symbol, side |-> m.side, price |-> m.price]
            node == [order_reference |-> m.ref, stock_locate |-> m.locate,
                     remaining_shares |-> m.shares, fifo_sequence |-> next_fifo_sequence]
        IN  /\ books' = Appended(books, entry, node)
            /\ order_index' = Put(order_index, m.ref, entry)
     /\ next_fifo_sequence' = next_fifo_sequence + 1
     /\ volumes' = [volumes EXCEPT !["displayed_add"] = @ + m.shares]
     /\ Succeed([message_type |-> m.type, symbol |-> m.symbol, side |-> m.side,
                 order_reference |-> m.ref, new_order_reference |-> None,
                 event_quantity |-> m.shares, display_price |-> m.price])
     /\ UNCHANGED <<reference, ledger>>

\* The checks shared by E, C, X, D and U on the order they name.
OrderError(ref, locate) ==
  IF ref \notin DOMAIN order_index THEN "UnknownOrderReference"
  ELSE IF Order(ref).stock_locate # locate THEN "StockLocateMismatch" ELSE "ok"

SharesError(ref, locate, shares) ==
  IF OrderError(ref, locate) # "ok" THEN OrderError(ref, locate)
  ELSE IF shares = 0 THEN "ZeroShares"
  ELSE IF shares > Order(ref).remaining_shares THEN "QuantityExceedsRemaining" ELSE "ok"

TradeCounter(printable) == IF printable THEN "printable_trade" ELSE "non_printable_trade"

\* mutant: a match number may be used twice
Retraded(match) == FALSE
Traded(match) == match \in DOMAIN trade_index

ExecutionError(m) ==
  IF SharesError(m.ref, m.locate, m.shares) # "ok" THEN SharesError(m.ref, m.locate, m.shares)
  ELSE IF Traded(m.match) THEN "DuplicateMatchNumber"
  ELSE IF \/ ~can_add(volumes["displayed_execute"], m.shares)
          \/ ~can_add(volumes[TradeCounter(m.printable)], m.shares)
       THEN "AggregateOverflow" ELSE "ok"

\* A trade joins the ledger.
Record(match, locate, shares, printable) ==
  /\ trades' = Append(trades, [match_number |-> match, stock_locate |-> locate,
                               shares |-> shares, printable |-> printable, broken |-> FALSE])
  /\ trade_index' = Put(trade_index, match, Len(trades) + 1)

\* apply_execution, for E (printable) and C
apply_execution(m) ==
  \/ ExecutionError(m) # "ok" /\ Fail(ExecutionError(m))
  \/ /\ ExecutionError(m) = "ok"
     /\ Record(m.match, Order(m.ref).stock_locate, m.shares, m.printable)
     /\ volumes' = [volumes EXCEPT !["displayed_execute"] = @ + m.shares,
                                   ![TradeCounter(m.printable)] = @ + m.shares]
     /\ books' = Lowered(m.ref, m.shares)
     /\ order_index' = IndexWithout(m.ref, m.shares)
     /\ Succeed(Mutation(m.type, m.ref, None, m.shares, order_index[m.ref].price))
     /\ UNCHANGED <<reference, next_fifo_sequence>>

CancelError(m) ==
  IF SharesError(m.ref, m.locate, m.shares) # "ok" THEN SharesError(m.ref, m.locate, m.shares)
  ELSE IF ~can_add(volumes["displayed_cancel"], m.shares) THEN "AggregateOverflow" ELSE "ok"

apply_cancel(m) ==
  \/ CancelError(m) # "ok" /\ Fail(CancelError(m))
  \/ /\ CancelError(m) = "ok"
     /\ books' = Lowered(m.ref, m.shares)
     /\ order_index' = IndexWithout(m.ref, m.shares)
     /\ volumes' = [volumes EXCEPT !["displayed_cancel"] = @ + m.shares]
     /\ Succeed(Mutation("X", m.ref, None, m.shares, order_index[m.ref].price))
     /\ UNCHANGED <<reference, next_fifo_sequence, ledger>>

DeleteError(m) ==
  IF OrderError(m.ref, m.locate) # "ok" THEN OrderError(m.ref, m.locate)
  ELSE IF ~can_add(volumes["displayed_cancel"], Order(m.ref).remaining_shares)
       THEN "AggregateOverflow" ELSE "ok"

apply_delete(m) ==
  \/ DeleteError(m) # "ok" /\ Fail(DeleteError(m))
  \/ /\ DeleteError(m) = "ok"
     /\ volumes' = [volumes EXCEPT !["displayed_cancel"] = @ + Order(m.ref).remaining_shares]
     /\ books' = Erased(m.ref)
     /\ order_index' = Drop(order_index, m.ref)
     /\ Succeed(Mutation("D", m.ref, None, Order(m.ref).remaining_shares,
                         order_index[m.ref].price))
     /\ UNCHANGED <<reference, next_fifo_sequence, ledger>>

ReplaceError(m) ==
  LET target == [order_index[m.ref] EXCEPT !.price = m.price]
      own == IF m.price = order_index[m.ref].price THEN Order(m.ref).remaining_shares ELSE 0
  IN  IF OrderError(m.ref, m.locate) # "ok" THEN OrderError(m.ref, m.locate)
      ELSE IF m.new_ref \in DOMAIN order_index THEN "DuplicateReplacementReference"
      ELSE IF m.shares = 0 THEN "ZeroShares"
      ELSE IF \/ ~can_add(LevelOf(books, target).aggregate_shares - own, m.shares)
              \/ ~can_add(volumes["displayed_cancel"], Order(m.ref).remaining_shares)
              \/ ~can_add(volumes["displayed_add"], m.shares)
              \/ next_fifo_sequence = kMax
           THEN "AggregateOverflow" ELSE "ok"

\* mutant: the displayed volume of a replace counts only the cancel
ReplaceVolumesHalf(removed, added) ==
  [volumes EXCEPT !["displayed_cancel"] = @ + removed]
ReplaceVolumes(removed, added) ==
  [volumes EXCEPT !["displayed_cancel"] = @ + removed, !["displayed_add"] = @ + added]

\* A replace erases the order and appends a new reference at the back of its
\* level; the mutation names the old reference and the new price.
apply_replace(m) ==
  \/ ReplaceError(m) # "ok" /\ Fail(ReplaceError(m))
  \/ /\ ReplaceError(m) = "ok"
     /\ LET target == [order_index[m.ref] EXCEPT !.price = m.price]
            node == [order_reference |-> m.new_ref,
                     stock_locate |-> Order(m.ref).stock_locate,
                     remaining_shares |-> m.shares, fifo_sequence |-> next_fifo_sequence]
        IN  /\ books' = Appended(Erased(m.ref), target, node)
            /\ order_index' = Put(Drop(order_index, m.ref), m.new_ref, target)
     /\ next_fifo_sequence' = next_fifo_sequence + 1
     /\ volumes' = ReplaceVolumes(Order(m.ref).remaining_shares, m.shares)
     /\ Succeed(Mutation("U", m.ref, m.new_ref, m.shares, m.price))
     /\ UNCHANGED <<reference, ledger>>

TradeError(m) ==
  IF LocateError(m.locate, m.symbol) # "ok" THEN LocateError(m.locate, m.symbol)
  ELSE IF Traded(m.match) THEN "DuplicateMatchNumber"
  ELSE IF ~can_add(volumes["printable_trade"], m.shares) THEN "AggregateOverflow" ELSE "ok"

\* apply_non_cross_trade (P) and apply_cross_trade (Q): no displayed order moves.
apply_trade(m) ==
  \/ TradeError(m) # "ok" /\ Fail(TradeError(m))
  \/ /\ TradeError(m) = "ok"
     /\ Record(m.match, m.locate, m.shares, TRUE)
     /\ volumes' = [volumes EXCEPT !["printable_trade"] = @ + m.shares]
     /\ Succeed(None)
     /\ UNCHANGED <<reference, displayed>>

\* mutant: a trade may be broken again
BreakableTwice(match) == match \in DOMAIN trade_index
Breakable(match) == match \in DOMAIN trade_index /\ ~trades[trade_index[match]].broken

BrokenError(m) ==
  IF ~Breakable(m.match) THEN "UnknownMatchNumber"
  ELSE IF trades[trade_index[m.match]].stock_locate # m.locate THEN "StockLocateMismatch"
  ELSE IF ~can_add(volumes["broken_trade"], trades[trade_index[m.match]].shares)
       THEN "AggregateOverflow" ELSE "ok"

apply_broken_trade(m) ==
  \/ BrokenError(m) # "ok" /\ Fail(BrokenError(m))
  \/ /\ BrokenError(m) = "ok"
     /\ trades' = [trades EXCEPT ![trade_index[m.match]].broken = TRUE]
     /\ volumes' = [volumes EXCEPT !["broken_trade"] = @ + trades[trade_index[m.match]].shares]
     /\ Succeed(None)
     /\ UNCHANGED <<reference, displayed, trade_index>>

ReferenceError(m) ==
  IF m.type \in AboutStock THEN LocateError(m.locate, m.symbol) ELSE "ok"

\* Every reference message is stored; the trading action alone is read back.
apply_reference(m) ==
  \/ ReferenceError(m) # "ok" /\ Fail(ReferenceError(m))
  \/ /\ ReferenceError(m) = "ok"
     /\ trading' = IF m.type = "H" THEN Put(trading, m.symbol, m.state) ELSE trading
     /\ Succeed(None)
     /\ UNCHANGED <<session_phase, directories, symbol_locates, displayed, ledger, volumes>>

----------------------------------------------------------------------------
Apply(m) ==
  CASE m.type = "S" -> apply_system_event(m)
    [] m.type = "R" -> apply_directory(m)
    [] m.type \in {"A", "F"} -> apply_add(m)
    [] m.type \in {"E", "C"} -> apply_execution(m)
    [] m.type = "X" -> apply_cancel(m)
    [] m.type = "D" -> apply_delete(m)
    [] m.type = "U" -> apply_replace(m)
    [] m.type \in {"P", "Q"} -> apply_trade(m)
    [] m.type = "B" -> apply_broken_trade(m)
    [] m.type \in AboutStock \cup AboutMarket -> apply_reference(m)

Next == \E m \in Feed : Apply(m)

Spec == Init /\ [][Next]_vars

----------------------------------------------------------------------------
(* Properties *)

AllEntries == [symbol : Symbol, side : Side, price : Price]
QueueOf(entry) == LevelOf(books, entry).orders
QueuedShares(level) ==
  SumFunction([i \in DOMAIN level.orders |-> level.orders[i].remaining_shares])

TypeOK ==
  /\ session_phase \in Range(Phases)
  /\ DOMAIN directories \subseteq Locate /\ Range(directories) \subseteq Symbol
  /\ DOMAIN symbol_locates \subseteq Symbol /\ Range(symbol_locates) \subseteq Locate
  /\ DOMAIN trading \subseteq Symbol
  /\ books \in [Symbol -> [Side -> [Price -> Level]]]
  /\ DOMAIN order_index \subseteq OrderReference /\ Range(order_index) \subseteq AllEntries
  /\ trades \in Seq(TradeRecord)
  /\ DOMAIN trade_index \subseteq MatchNumber
  /\ Range(trade_index) \subseteq DOMAIN trades
  /\ volumes \in [Counter -> Quantity]
  /\ next_fifo_sequence \in 1..kMax

\* Every indexed order is one node of the level its entry names, no node is
\* empty or unindexed, and a queue is in order of arrival.
BookSound ==
  /\ \A ref \in DOMAIN order_index :
       Cardinality({i \in DOMAIN QueueOf(order_index[ref]) :
                      QueueOf(order_index[ref])[i].order_reference = ref}) = 1
  /\ \A e \in AllEntries : \A i \in DOMAIN QueueOf(e) :
       LET node == QueueOf(e)[i]
       IN  /\ node.order_reference \in DOMAIN order_index
           /\ order_index[node.order_reference] = e
           /\ node.remaining_shares # 0
           /\ i > 1 => QueueOf(e)[i - 1].fifo_sequence < node.fifo_sequence

\* The cached aggregate of every level is the sum of its orders.
AggregatesAreSums ==
  \A e \in AllEntries :
    LevelOf(books, e).aggregate_shares = QueuedShares(LevelOf(books, e))

\* Shares are conserved: whatever was displayed is still resting, was cancelled
\* or was executed.
VolumeConservation ==
  volumes["displayed_add"] =
    SumFunction([e \in AllEntries |-> QueuedShares(LevelOf(books, e))])
      + volumes["displayed_cancel"] + volumes["displayed_execute"]

LedgerShares(keep(_)) ==
  SumFunction([i \in {j \in DOMAIN trades : keep(trades[j])} |-> trades[i].shares])

\* The trade volumes are those of the ledger, each break counted once, and the
\* ledger holds every execution of a displayed order.
VolumesMatchLedger ==
  /\ volumes["printable_trade"] = LedgerShares(LAMBDA t : t.printable)
  /\ volumes["non_printable_trade"] = LedgerShares(LAMBDA t : ~t.printable)
  /\ volumes["broken_trade"] = LedgerShares(LAMBDA t : t.broken)
  /\ volumes["displayed_execute"] <= volumes["printable_trade"] + volumes["non_printable_trade"]

\* A match number leads to its own ledger record, and every record is reached.
LedgerIndexed ==
  /\ \A match \in DOMAIN trade_index : trades[trade_index[match]].match_number = match
  /\ \A i \in DOMAIN trades : trades[i].match_number \in DOMAIN trade_index
                            /\ trade_index[trades[i].match_number] = i

\* Locates and symbols are mapped one to one, whatever directory messages repeat.
DirectoriesAgree ==
  /\ \A locate \in DOMAIN directories :
       /\ directories[locate] \in DOMAIN symbol_locates
       /\ symbol_locates[directories[locate]] = locate
  /\ \A symbol \in DOMAIN symbol_locates :
       /\ symbol_locates[symbol] \in DOMAIN directories
       /\ directories[symbol_locates[symbol]] = symbol

\* A resting order's locate is still listed for the symbol whose book holds it.
OrdersAreListed ==
  \A e \in AllEntries : \A i \in DOMAIN QueueOf(e) :
    /\ QueueOf(e)[i].stock_locate \in DOMAIN directories
    /\ directories[QueueOf(e)[i].stock_locate] = e.symbol

\* check_invariants holds of the book after every message, whatever was refused
\* before: levels, index and aggregates agree, and no counter passed its limit.
InvariantsHold == TypeOK /\ BookSound /\ AggregatesAreSums

\* The directories agree with each other and with every order that rests.
ListingsAgree == DirectoriesAgree /\ OrdersAreListed

----------------------------------------------------------------------------
(* The book implements the displayed orders its readers rely on. *)

Displays == INSTANCE Displayed WITH
  Quantity <- 1..kMax,
  displayed <- [ref \in DOMAIN order_index |->
    [symbol |-> order_index[ref].symbol, side |-> order_index[ref].side,
     price |-> order_index[ref].price, shares |-> Order(ref).remaining_shares,
     arrival |-> Order(ref).fifo_sequence]],
  arrivals <- next_fifo_sequence,
  mutation <- last_book_mutation

\* Every message moves the displayed orders exactly as the captured mutation
\* says, or leaves them alone and captures none: the exporter and the simulator
\* see the book move only through it.
ImplementsDisplayed == Displays!Spec
=============================================================================

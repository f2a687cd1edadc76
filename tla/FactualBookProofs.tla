------------------------- MODULE FactualBookProofs -------------------------
(***************************************************************************)
(* Theorems about the factual book, for every feed: its directories stay one *)
(* to one; its trade ledger and the index of match numbers agree; its queues, *)
(* its index of orders and its directories agree; its aggregates and volumes  *)
(* account for every share; and every message moves the displayed orders      *)
(* exactly as the captured mutation says.                                     *)
(***************************************************************************)
EXTENDS FactualBook, QueueLemmas

----------------------------------------------------------------------------
(* Directories *)

\* Only a directory message that is accepted changes the two maps.
LEMMA OnlyDirectoryListings ==
  ASSUME NEW m \in Feed, Apply(m)
  PROVE  \/ UNCHANGED <<directories, symbol_locates>>
         \/ /\ DirectoryError(m) = "ok"
            /\ directories' = Put(directories, m.locate, m.symbol)
            /\ symbol_locates' = Put(symbol_locates, m.symbol, m.locate)
<1> USE DEF Apply, AboutStock, AboutMarket
<1>1. m.type \in {"S", "R", "A", "F", "E", "C", "X", "D", "U", "P", "Q", "B"}
                   \cup AboutStock \cup AboutMarket
  BY FactualAssumption DEF FactualAssumption
<1>2. CASE m.type = "R"
  BY <1>2 DEF apply_directory, Fail, facts, reference
<1>3. CASE m.type = "S"
  BY <1>3 DEF apply_system_event, Fail, facts, reference
<1>4. CASE m.type \in {"A", "F"}
  BY <1>4 DEF apply_add, Fail, facts, reference
<1>5. CASE m.type \in {"E", "C"}
  BY <1>5 DEF apply_execution, Fail, facts, reference
<1>6. CASE m.type \in {"X", "D", "U"}
  BY <1>6 DEF apply_cancel, apply_delete, apply_replace, Fail, facts, reference
<1>7. CASE m.type \in {"P", "Q", "B"}
  BY <1>7 DEF apply_trade, apply_broken_trade, Fail, facts, reference
<1>8. CASE m.type \in AboutStock \cup AboutMarket
  BY <1>8 DEF apply_reference, Fail, facts, reference
<1> QED BY <1>1, <1>2, <1>3, <1>4, <1>5, <1>6, <1>7, <1>8

\* A directory message that passes both conflict checks keeps the maps inverse.
LEMMA ListingKeeps ==
  ASSUME DirectoriesAgree, NEW locate, NEW symbol,
         locate \in DOMAIN directories => directories[locate] = symbol,
         symbol \in DOMAIN symbol_locates => symbol_locates[symbol] = locate,
         directories' = Put(directories, locate, symbol),
         symbol_locates' = Put(symbol_locates, symbol, locate)
  PROVE  DirectoriesAgree'
<1>1. /\ DOMAIN directories' = DOMAIN directories \cup {locate}
      /\ directories'[locate] = symbol
      /\ \A k \in DOMAIN directories \ {locate} : directories'[k] = directories[k]
  BY DEF Put
<1>2. /\ DOMAIN symbol_locates' = DOMAIN symbol_locates \cup {symbol}
      /\ symbol_locates'[symbol] = locate
      /\ \A k \in DOMAIN symbol_locates \ {symbol} : symbol_locates'[k] = symbol_locates[k]
  BY DEF Put
<1>3. ASSUME NEW other \in DOMAIN directories'
      PROVE  /\ directories'[other] \in DOMAIN symbol_locates'
             /\ symbol_locates'[directories'[other]] = other
  <2>1. CASE other = locate
    BY <2>1, <1>1, <1>2
  <2>2. CASE other # locate
    <3>1. directories'[other] = directories[other]
      BY <2>2, <1>1, <1>3
    <3>2. /\ directories[other] \in DOMAIN symbol_locates
          /\ symbol_locates[directories[other]] = other
      BY <2>2, <1>1, <1>3 DEF DirectoriesAgree
    <3>3. directories[other] # symbol
      BY <2>2, <3>2
    <3> QED BY <3>1, <3>2, <3>3, <1>2
  <2> QED BY <2>1, <2>2
<1>4. ASSUME NEW other \in DOMAIN symbol_locates'
      PROVE  /\ symbol_locates'[other] \in DOMAIN directories'
             /\ directories'[symbol_locates'[other]] = other
  <2>1. CASE other = symbol
    BY <2>1, <1>1, <1>2
  <2>2. CASE other # symbol
    <3>1. symbol_locates'[other] = symbol_locates[other]
      BY <2>2, <1>2, <1>4
    <3>2. /\ symbol_locates[other] \in DOMAIN directories
          /\ directories[symbol_locates[other]] = other
      BY <2>2, <1>2, <1>4 DEF DirectoriesAgree
    <3>3. symbol_locates[other] # locate
      BY <2>2, <3>2
    <3> QED BY <3>1, <3>2, <3>3, <1>1
  <2> QED BY <2>1, <2>2
<1> QED BY <1>3, <1>4 DEF DirectoriesAgree

\* Whatever directory messages repeat, contradict or precede, the map from
\* locates to symbols and the map back (factual_book.cpp, apply_directory) stay
\* inverse to each other.
THEOREM DirectoriesOneToOne == Spec => []DirectoriesAgree
<1>1. Init => DirectoriesAgree
  BY DEF Init, DirectoriesAgree
<1>2. DirectoriesAgree /\ [Next]_vars => DirectoriesAgree'
  <2> SUFFICES ASSUME DirectoriesAgree, [Next]_vars PROVE DirectoriesAgree'
    OBVIOUS
  <2>1. CASE UNCHANGED <<directories, symbol_locates>>
    BY <2>1 DEF DirectoriesAgree
  <2>2. CASE UNCHANGED vars
    BY <2>1, <2>2 DEF vars, facts, reference
  <2>3. CASE Next
    <3>1. PICK m \in Feed : Apply(m)
      BY <2>3 DEF Next
    <3>2. CASE DirectoryError(m) = "ok"
               /\ directories' = Put(directories, m.locate, m.symbol)
               /\ symbol_locates' = Put(symbol_locates, m.symbol, m.locate)
      <4>1. /\ m.locate \in DOMAIN directories => directories[m.locate] = m.symbol
            /\ m.symbol \in DOMAIN symbol_locates => symbol_locates[m.symbol] = m.locate
        BY <3>2 DEF DirectoryError
      <4> QED BY <3>2, <4>1, ListingKeeps
    <3> QED BY <3>1, <3>2, <2>1, OnlyDirectoryListings
  <2> QED BY <2>2, <2>3
<1> QED BY <1>1, <1>2, PTL DEF Spec
----------------------------------------------------------------------------
(* The trade ledger *)

\* What makes LedgerIndexed inductive: the index stays within the ledger,
\* and a break finds the field it leaves alone.
LedgerSound ==
  /\ \E Records : trades \in Seq(Records)
  /\ \A i \in DOMAIN trades : "match_number" \in DOMAIN trades[i]
  /\ \A match \in DOMAIN trade_index : trade_index[match] \in DOMAIN trades
  /\ LedgerIndexed

\* Only a trade under a fresh match number and a break touch the ledger.
LEMMA OnlyTradesLedger ==
  ASSUME NEW m \in Feed, Apply(m)
  PROVE  \/ UNCHANGED ledger
         \/ /\ ~Traded(m.match)
            /\ \E locate, shares, printable : Record(m.match, locate, shares, printable)
         \/ /\ Breakable(m.match)
            /\ trades' = [trades EXCEPT ![trade_index[m.match]].broken = TRUE]
            /\ UNCHANGED trade_index
<1> USE DEF Apply, AboutStock, AboutMarket
<1>1. m.type \in {"S", "R", "A", "F", "E", "C", "X", "D", "U", "P", "Q", "B"}
                   \cup AboutStock \cup AboutMarket
  BY FactualAssumption DEF FactualAssumption
<1>2. CASE m.type \in {"S", "R", "A", "F"}
  BY <1>2 DEF apply_system_event, apply_directory, apply_add, Fail, facts, ledger
<1>3. CASE m.type \in {"X", "D", "U"}
  BY <1>3 DEF apply_cancel, apply_delete, apply_replace, Fail, facts, ledger
<1>4. CASE m.type \in {"E", "C"}
  <2>1. CASE ExecutionError(m) # "ok" /\ Fail(ExecutionError(m))
    BY <2>1 DEF Fail, facts
  <2>2. CASE ExecutionError(m) = "ok"
             /\ Record(m.match, Order(m.ref).stock_locate, m.shares, m.printable)
    <3>1. ~Traded(m.match)
      BY <2>2 DEF ExecutionError
    <3> QED BY <2>2, <3>1
  <2> QED BY <1>4, <2>1, <2>2 DEF apply_execution
<1>5. CASE m.type \in {"P", "Q"}
  <2>1. CASE TradeError(m) # "ok" /\ Fail(TradeError(m))
    BY <2>1 DEF Fail, facts
  <2>2. CASE TradeError(m) = "ok" /\ Record(m.match, m.locate, m.shares, TRUE)
    <3>1. ~Traded(m.match)
      BY <2>2 DEF TradeError
    <3> QED BY <2>2, <3>1
  <2> QED BY <1>5, <2>1, <2>2 DEF apply_trade
<1>6. CASE m.type = "B"
  <2>1. CASE BrokenError(m) # "ok" /\ Fail(BrokenError(m))
    BY <2>1 DEF Fail, facts
  <2>2. CASE /\ BrokenError(m) = "ok"
             /\ trades' = [trades EXCEPT ![trade_index[m.match]].broken = TRUE]
             /\ UNCHANGED trade_index
    BY <2>2 DEF BrokenError
  <2> QED BY <1>6, <2>1, <2>2 DEF apply_broken_trade
<1>7. CASE m.type \in AboutStock \cup AboutMarket
  BY <1>7 DEF apply_reference, Fail, facts, ledger
<1> QED BY <1>1, <1>2, <1>3, <1>4, <1>5, <1>6, <1>7

\* A record of a fresh match number keeps ledger and index in agreement.
LEMMA RecordKeeps ==
  ASSUME LedgerSound, NEW match, NEW locate, NEW shares, NEW printable,
         ~Traded(match), Record(match, locate, shares, printable)
  PROVE  LedgerSound'
<1> DEFINE record == [match_number |-> match, stock_locate |-> locate, shares |-> shares,
                      printable |-> printable, broken |-> FALSE]
<1>1. record.match_number = match /\ "match_number" \in DOMAIN record
  OBVIOUS
<1> HIDE DEF record
<1>2. PICK Records : trades \in Seq(Records)
  BY DEF LedgerSound
<1>3. trades \in Seq(Records \cup {record})
  BY <1>2, SeqMonotonic
<1>4. trades' = Append(trades, record)
  BY DEF Record, record
<1>5. /\ trades' \in Seq(Records \cup {record})
      /\ Len(trades) \in Nat
      /\ DOMAIN trades = 1..Len(trades)
      /\ DOMAIN trades' = 1..(Len(trades) + 1)
      /\ trades'[Len(trades) + 1] = record
      /\ \A i \in DOMAIN trades : trades'[i] = trades[i]
  BY <1>3, <1>4
<1>6. /\ DOMAIN trade_index' = DOMAIN trade_index \cup {match}
      /\ trade_index'[match] = Len(trades) + 1
      /\ \A k \in DOMAIN trade_index \ {match} : trade_index'[k] = trade_index[k]
  BY DEF Record, Put
<1>7. match \notin DOMAIN trade_index
  BY DEF Traded
<1>8. ASSUME NEW other \in DOMAIN trade_index'
      PROVE  /\ trade_index'[other] \in DOMAIN trades'
             /\ trades'[trade_index'[other]].match_number = other
  <2>1. CASE other = match
    BY <2>1, <1>1, <1>5, <1>6
  <2>2. CASE other # match
    <3>1. trade_index'[other] = trade_index[other] /\ other \in DOMAIN trade_index
      BY <2>2, <1>6, <1>8
    <3>2. /\ trade_index[other] \in DOMAIN trades
          /\ trades[trade_index[other]].match_number = other
      BY <3>1 DEF LedgerSound, LedgerIndexed
    <3> QED BY <3>1, <3>2, <1>5
  <2> QED BY <2>1, <2>2
<1>9. ASSUME NEW i \in DOMAIN trades'
      PROVE  /\ trades'[i].match_number \in DOMAIN trade_index'
             /\ trade_index'[trades'[i].match_number] = i
  <2>1. CASE i = Len(trades) + 1
    BY <2>1, <1>1, <1>5, <1>6
  <2>2. CASE i \in DOMAIN trades
    <3>1. /\ trades[i].match_number \in DOMAIN trade_index
          /\ trade_index[trades[i].match_number] = i
      BY <2>2 DEF LedgerSound, LedgerIndexed
    <3>2. trades'[i] = trades[i]
      BY <2>2, <1>5
    <3> QED BY <3>1, <3>2, <1>6, <1>7
  <2> QED BY <2>1, <2>2, <1>5, <1>9
<1>10. LedgerIndexed'
  BY <1>8, <1>9 DEF LedgerIndexed
<1>11. \A i \in DOMAIN trades' : "match_number" \in DOMAIN trades'[i]
  BY <1>1, <1>5 DEF LedgerSound
<1> QED BY <1>5, <1>8, <1>10, <1>11 DEF LedgerSound

\* A break marks its record and keeps match numbers where they are.
LEMMA BreakKeeps ==
  ASSUME LedgerSound, NEW match, Breakable(match),
         trades' = [trades EXCEPT ![trade_index[match]].broken = TRUE],
         UNCHANGED trade_index
  PROVE  LedgerSound'
<1> DEFINE at == trade_index[match]
           marked == [trades[at] EXCEPT !.broken = TRUE]
<1>1. PICK Records : trades \in Seq(Records)
  BY DEF LedgerSound
<1>2. at \in DOMAIN trades /\ trades[at].match_number = match
  BY DEF Breakable, LedgerSound, LedgerIndexed
<1>3. marked.match_number = match /\ "match_number" \in DOMAIN marked
  BY <1>2 DEF LedgerSound
<1> HIDE DEF marked
<1>4. trades' = [trades EXCEPT ![at] = marked]
  BY DEF marked
<1>5. /\ DOMAIN trades' = DOMAIN trades
      /\ trades'[at] = marked
      /\ \A i \in DOMAIN trades \ {at} : trades'[i] = trades[i]
  BY <1>2, <1>4
<1>6. trades' \in Seq(Records \cup {marked})
  <2>1. trades \in Seq(Records \cup {marked})
    BY <1>1, SeqMonotonic
  <2> QED BY <2>1, <1>2, <1>4, ExceptSeq
<1>7. \A i \in DOMAIN trades :
        /\ trades'[i].match_number = trades[i].match_number
        /\ "match_number" \in DOMAIN trades'[i]
  BY <1>2, <1>3, <1>5 DEF LedgerSound
<1>8. LedgerIndexed'
  BY <1>5, <1>7 DEF LedgerSound, LedgerIndexed
<1>9. \A other \in DOMAIN trade_index' : trade_index'[other] \in DOMAIN trades'
  BY <1>5 DEF LedgerSound
<1> QED BY <1>5, <1>6, <1>7, <1>8, <1>9 DEF LedgerSound

\* Whatever executions, trades and breaks the feed repeats (factual_book.cpp,
\* trades_ and trade_index_), a match number leads to its own ledger record and
\* every record is reached by its own match number: none is entered twice.
THEOREM LedgerOneToOne == Spec => []LedgerIndexed
<1>1. Init => LedgerSound
  <2>1. <<>> \in Seq({})
    OBVIOUS
  <2> QED BY <2>1 DEF Init, LedgerSound, LedgerIndexed
<1>2. LedgerSound /\ [Next]_vars => LedgerSound'
  <2> SUFFICES ASSUME LedgerSound, [Next]_vars PROVE LedgerSound'
    OBVIOUS
  <2>1. CASE UNCHANGED ledger
    BY <2>1 DEF ledger, LedgerSound, LedgerIndexed
  <2>2. CASE UNCHANGED vars
    BY <2>1, <2>2 DEF vars, facts
  <2>3. CASE Next
    <3>1. PICK m \in Feed : Apply(m)
      BY <2>3 DEF Next
    <3>2. CASE /\ ~Traded(m.match)
               /\ \E locate, shares, printable : Record(m.match, locate, shares, printable)
      BY <3>2, RecordKeeps
    <3>3. CASE /\ Breakable(m.match)
               /\ trades' = [trades EXCEPT ![trade_index[m.match]].broken = TRUE]
               /\ UNCHANGED trade_index
      BY <3>3, BreakKeeps
    <3> QED BY <3>1, <3>2, <3>3, <2>1, OnlyTradesLedger
  <2> QED BY <2>2, <2>3
<1>3. LedgerSound => LedgerIndexed
  BY DEF LedgerSound
<1> QED BY <1>1, <1>2, <1>3, PTL DEF Spec

----------------------------------------------------------------------------
(* The inductive invariant, of any books, index, next sequence and directory *)

Books == [Symbol -> [Side -> [Price -> Level]]]

\* One queue against the index and the directory: each node is indexed here,
\* holds shares, arrived before what comes next and is listed; nodes stand in
\* order of arrival; and every order indexed here has its node.
Queued(queue, entry, index, next, listed) ==
  /\ queue \in Seq(Node)
  /\ \A i \in 1..Len(queue) :
       /\ queue[i].order_reference \in DOMAIN index
       /\ index[queue[i].order_reference] = entry
       /\ queue[i].remaining_shares # 0
       /\ queue[i].fifo_sequence < next
       /\ queue[i].stock_locate \in DOMAIN listed
       /\ listed[queue[i].stock_locate] = entry.symbol
  /\ \A i, j \in 1..Len(queue) :
       i < j => /\ queue[i].order_reference # queue[j].order_reference
                /\ queue[i].fifo_sequence < queue[j].fifo_sequence
  /\ \A ref \in DOMAIN index :
       index[ref] = entry => \E i \in 1..Len(queue) : queue[i].order_reference = ref

Consistent(bks, index, next, listed) ==
  /\ bks \in Books
  /\ DOMAIN index \subseteq OrderReference
  /\ \A ref \in DOMAIN index : index[ref] \in AllEntries
  /\ \A entry \in AllEntries : Queued(LevelOf(bks, entry).orders, entry, index, next, listed)

----------------------------------------------------------------------------
(* How one level changes *)

\* Unsigned arithmetic stays within the width.
LEMMA WrapIsQuantity == \A n \in Int : Wrap(n) \in Quantity
BY FactualAssumption DEF FactualAssumption, Wrap, Quantity

\* Shares that leave a quantity that holds them leave a quantity.
LEMMA QuantityLeft ==
  \A a, b \in Quantity : b <= a => a - b \in Quantity /\ (a # b => a - b # 0)
BY FactualAssumption DEF FactualAssumption, Quantity

\* SetLevel replaces the level of its entry and no other.
LEMMA SetLevelAt ==
  ASSUME NEW bks \in Books, NEW entry \in AllEntries, NEW level \in Level
  PROVE  /\ SetLevel(bks, entry, level) \in Books
         /\ LevelOf(SetLevel(bks, entry, level), entry) = level
         /\ \A other \in AllEntries :
              other # entry => LevelOf(SetLevel(bks, entry, level), other) = LevelOf(bks, other)
<1>1. /\ entry.symbol \in Symbol /\ entry.side \in Side /\ entry.price \in Price
  BY DEF AllEntries
<1>2. SetLevel(bks, entry, level) \in Books
  BY <1>1 DEF SetLevel, Books
<1>3. LevelOf(SetLevel(bks, entry, level), entry) = level
  BY <1>1 DEF SetLevel, LevelOf, Books
<1>4. ASSUME NEW other \in AllEntries, other # entry
      PROVE  LevelOf(SetLevel(bks, entry, level), other) = LevelOf(bks, other)
  <2>1. /\ other.symbol \in Symbol /\ other.side \in Side /\ other.price \in Price
        /\ \/ other.symbol # entry.symbol
           \/ other.side # entry.side
           \/ other.price # entry.price
    BY <1>4 DEF AllEntries
  <2> QED BY <1>1, <2>1 DEF SetLevel, LevelOf, Books
<1> QED BY <1>2, <1>3, <1>4

\* The levels of consistent books have their types.
LEMMA LevelTyped ==
  ASSUME NEW bks \in Books, NEW entry \in AllEntries
  PROVE  /\ LevelOf(bks, entry) \in Level
         /\ LevelOf(bks, entry).aggregate_shares \in Quantity
         /\ LevelOf(bks, entry).orders \in Seq(Node)
<1>1. /\ entry.symbol \in Symbol /\ entry.side \in Side /\ entry.price \in Price
  BY DEF AllEntries
<1>2. LevelOf(bks, entry) \in Level
  BY <1>1 DEF LevelOf, Books
<1> QED BY <1>2 DEF Level

\* Books stay consistent when one level, and the index entries that lead to it,
\* change together.
LEMMA LevelChange ==
  ASSUME NEW bks, NEW index, NEW next \in Int, NEW listed,
         Consistent(bks, index, next, listed),
         NEW entry \in AllEntries, NEW level \in Level, NEW index2, NEW next2 \in Int,
         next <= next2,
         DOMAIN index2 \subseteq OrderReference,
         \A ref \in DOMAIN index2 : index2[ref] \in AllEntries,
         \A ref \in DOMAIN index2 :
           index2[ref] # entry => ref \in DOMAIN index /\ index[ref] = index2[ref],
         \A ref \in DOMAIN index :
           index[ref] # entry => ref \in DOMAIN index2 /\ index2[ref] = index[ref],
         Queued(level.orders, entry, index2, next2, listed)
  PROVE  Consistent(SetLevel(bks, entry, level), index2, next2, listed)
<1> DEFINE bks2 == SetLevel(bks, entry, level)
<1>1. bks \in Books
  BY DEF Consistent
<1>2. bks2 \in Books
  BY <1>1, SetLevelAt
<1>3. ASSUME NEW other \in AllEntries
      PROVE  Queued(LevelOf(bks2, other).orders, other, index2, next2, listed)
  <2>1. CASE other = entry
    <3>1. LevelOf(bks2, entry) = level
      BY <1>1, SetLevelAt
    <3> QED BY <2>1, <3>1
  <2>2. CASE other # entry
    <3> DEFINE queue == LevelOf(bks, other).orders
    <3>1. LevelOf(bks2, other).orders = queue
      BY <2>2, <1>1, SetLevelAt
    <3>2. Queued(queue, other, index, next, listed)
      BY DEF Consistent
    <3> HIDE DEF queue, bks2
    <3>3. \A i \in 1..Len(queue) :
            /\ queue[i].order_reference \in DOMAIN index2
            /\ index2[queue[i].order_reference] = other
      BY <2>2, <3>2 DEF Queued
    <3>4. \A i \in 1..Len(queue) : queue[i].fifo_sequence < next2
      <4> SUFFICES ASSUME NEW i \in 1..Len(queue) PROVE queue[i].fifo_sequence < next2
        OBVIOUS
      <4>1. queue[i].fifo_sequence < next /\ queue[i] \in Node
        BY <3>2, ElementOfSeq DEF Queued
      <4> QED BY <4>1 DEF Node
    <3>5. \A ref \in DOMAIN index2 :
            index2[ref] = other => \E i \in 1..Len(queue) : queue[i].order_reference = ref
      BY <2>2, <3>2 DEF Queued
    <3>6. Queued(queue, other, index2, next2, listed)
      BY <3>2, <3>3, <3>4, <3>5 DEF Queued
    <3> QED BY <3>1, <3>6
  <2> QED BY <2>1, <2>2
<1> HIDE DEF bks2
<1>4. Consistent(bks2, index2, next2, listed)
  BY <1>2, <1>3 DEF Consistent
<1> QED BY <1>4 DEF bks2

\* Unlinking a node and dropping its index entry keeps a queue sound.
LEMMA UnlinkQueue ==
  ASSUME NEW queue, NEW entry, NEW index, NEW next, NEW listed,
         Queued(queue, entry, index, next, listed), NEW i \in 1..Len(queue)
  PROVE  Queued(RemoveAt(queue, i), entry, Drop(index, queue[i].order_reference), next, listed)
<1> DEFINE queue2 == RemoveAt(queue, i)
           ref == queue[i].order_reference
           index2 == Drop(index, ref)
           From(j) == IF j < i THEN j ELSE j + 1
<1>1. queue \in Seq(Node) /\ Len(queue) \in Nat
  BY DEF Queued
<1>2. /\ queue2 \in Seq(Node)
      /\ Len(queue2) = Len(queue) - 1
      /\ \A j \in 1..(Len(queue) - 1) : queue2[j] = IF j < i THEN queue[j] ELSE queue[j + 1]
  BY <1>1, RemoveAtProperties
<1> HIDE DEF queue2
<1>3. \A j \in 1..Len(queue2) : /\ From(j) \in 1..Len(queue) /\ From(j) # i
                                /\ queue2[j] = queue[From(j)]
  BY <1>1, <1>2
<1>4. \A j, k \in 1..Len(queue2) : j < k => From(j) < From(k)
  BY <1>1, <1>2
<1>5. \A k \in 1..Len(queue) : k # i => \E j \in 1..Len(queue2) : From(j) = k
  <2> SUFFICES ASSUME NEW k \in 1..Len(queue), k # i
               PROVE  \E j \in 1..Len(queue2) : From(j) = k
    OBVIOUS
  <2>1. CASE k < i
    BY <2>1, <1>1, <1>2
  <2>2. CASE k > i
    <3>1. k - 1 \in 1..Len(queue2) /\ From(k - 1) = k
      BY <2>2, <1>1, <1>2
    <3> QED BY <3>1
  <2> QED BY <2>1, <2>2
<1> HIDE DEF From
<1>6. \A j \in 1..Len(queue) : j # i => queue[j].order_reference # ref
  BY <1>1 DEF Queued
<1>7. /\ DOMAIN index2 = DOMAIN index \ {ref}
      /\ \A other \in DOMAIN index2 : index2[other] = index[other]
  BY DEF Drop
<1> HIDE DEF ref, index2
<1>8. \A j \in 1..Len(queue2) :
        /\ queue2[j].order_reference \in DOMAIN index2
        /\ index2[queue2[j].order_reference] = entry
        /\ queue2[j].remaining_shares # 0
        /\ queue2[j].fifo_sequence < next
        /\ queue2[j].stock_locate \in DOMAIN listed
        /\ listed[queue2[j].stock_locate] = entry.symbol
  <2> SUFFICES ASSUME NEW j \in 1..Len(queue2), NEW k \in 1..Len(queue),
                      k # i, queue2[j] = queue[k]
               PROVE  /\ queue[k].order_reference \in DOMAIN index2
                      /\ index2[queue[k].order_reference] = entry
                      /\ queue[k].remaining_shares # 0
                      /\ queue[k].fifo_sequence < next
                      /\ queue[k].stock_locate \in DOMAIN listed
                      /\ listed[queue[k].stock_locate] = entry.symbol
    BY <1>3
  <2>1. queue[k].order_reference # ref
    BY <1>6
  <2> QED BY <2>1, <1>7 DEF Queued
<1>9. \A j, k \in 1..Len(queue2) :
        j < k => /\ queue2[j].order_reference # queue2[k].order_reference
                 /\ queue2[j].fifo_sequence < queue2[k].fifo_sequence
  <2> SUFFICES ASSUME NEW j \in 1..Len(queue2), NEW k \in 1..Len(queue2), j < k
               PROVE  /\ queue2[j].order_reference # queue2[k].order_reference
                      /\ queue2[j].fifo_sequence < queue2[k].fifo_sequence
    OBVIOUS
  <2>1. /\ From(j) \in 1..Len(queue) /\ From(k) \in 1..Len(queue) /\ From(j) < From(k)
        /\ queue2[j] = queue[From(j)] /\ queue2[k] = queue[From(k)]
    BY <1>3, <1>4
  <2> QED BY <2>1 DEF Queued
<1>10. ASSUME NEW other \in DOMAIN index2, index2[other] = entry
       PROVE  \E j \in 1..Len(queue2) : queue2[j].order_reference = other
  <2>1. PICK k \in 1..Len(queue) : queue[k].order_reference = other
    BY <1>7, <1>10 DEF Queued
  <2>2. k # i
    BY <2>1, <1>7, <1>10 DEF ref
  <2>3. PICK j \in 1..Len(queue2) : From(j) = k
    BY <2>2, <1>5
  <2> QED BY <2>1, <2>3, <1>3
<1>11. Queued(queue2, entry, index2, next, listed)
  BY <1>2, <1>8, <1>9, <1>10 DEF Queued
<1> QED BY <1>11 DEF queue2, index2, ref

\* Lowering the shares of a node in place keeps a queue sound.
LEMMA LowerQueue ==
  ASSUME NEW queue, NEW entry, NEW index, NEW next, NEW listed,
         Queued(queue, entry, index, next, listed), NEW i \in 1..Len(queue),
         NEW shares \in Quantity \ {0}
  PROVE  Queued([queue EXCEPT ![i].remaining_shares = shares], entry, index, next, listed)
<1> DEFINE node == [queue[i] EXCEPT !.remaining_shares = shares]
           queue2 == [queue EXCEPT ![i] = node]
<1>1. queue \in Seq(Node)
  BY DEF Queued
<1>2. queue[i] \in Node
  BY <1>1, ElementOfSeq
<1>3. /\ node \in Node
      /\ node.order_reference = queue[i].order_reference
      /\ node.stock_locate = queue[i].stock_locate
      /\ node.fifo_sequence = queue[i].fifo_sequence
      /\ node.remaining_shares = shares
  BY <1>2 DEF Node
<1> HIDE DEF node
<1>4. queue2 \in Seq(Node)
  BY <1>1, <1>3, ExceptSeq
<1>5. /\ Len(queue2) = Len(queue)
      /\ queue2[i] = node
      /\ \A j \in 1..Len(queue) : j # i => queue2[j] = queue[j]
  BY <1>1, <1>3, ExceptSeq
<1> HIDE DEF queue2
<1>6. \A j \in 1..Len(queue) :
        /\ queue2[j].order_reference = queue[j].order_reference
        /\ queue2[j].stock_locate = queue[j].stock_locate
        /\ queue2[j].fifo_sequence = queue[j].fifo_sequence
  BY <1>3, <1>5
<1>7. \A j \in 1..Len(queue) : queue2[j].remaining_shares # 0
  BY <1>3, <1>5 DEF Queued
<1>8. Queued(queue2, entry, index, next, listed)
  BY <1>4, <1>5, <1>6, <1>7 DEF Queued
<1> QED BY <1>8 DEF queue2, node

\* A new order at the back keeps a queue sound.
LEMMA AppendQueue ==
  ASSUME NEW queue, NEW entry, NEW index, NEW next \in Int, NEW listed,
         Queued(queue, entry, index, next, listed), NEW node \in Node,
         node.order_reference \notin DOMAIN index, node.remaining_shares # 0,
         node.fifo_sequence = next,
         node.stock_locate \in DOMAIN listed, listed[node.stock_locate] = entry.symbol
  PROVE  Queued(Append(queue, node), entry, Put(index, node.order_reference, entry),
                next + 1, listed)
<1> DEFINE queue2 == Append(queue, node)
           ref == node.order_reference
           index2 == Put(index, ref, entry)
<1>1. queue \in Seq(Node) /\ Len(queue) \in Nat
  BY DEF Queued
<1>2. /\ queue2 \in Seq(Node) /\ Len(queue2) = Len(queue) + 1
      /\ queue2[Len(queue) + 1] = node
      /\ \A i \in 1..Len(queue) : queue2[i] = queue[i]
  BY <1>1
<1>3. /\ DOMAIN index2 = DOMAIN index \cup {ref}
      /\ index2[ref] = entry
      /\ \A other \in DOMAIN index : index2[other] = index[other]
  BY DEF Put
<1>4. ASSUME NEW i \in 1..Len(queue) PROVE queue[i].fifo_sequence \in Int
  <2>1. queue[i] \in Node
    BY <1>1, ElementOfSeq
  <2> QED BY <2>1 DEF Node
<1> HIDE DEF queue2, index2
<1>5. ASSUME NEW i \in 1..Len(queue2)
      PROVE  /\ queue2[i].order_reference \in DOMAIN index2
             /\ index2[queue2[i].order_reference] = entry
             /\ queue2[i].remaining_shares # 0
             /\ queue2[i].fifo_sequence < next + 1
             /\ queue2[i].stock_locate \in DOMAIN listed
             /\ listed[queue2[i].stock_locate] = entry.symbol
  <2>1. CASE i = Len(queue) + 1
    BY <2>1, <1>2, <1>3
  <2>2. CASE i \in 1..Len(queue)
    <3>1. queue[i].fifo_sequence < next + 1
      BY <2>2, <1>4 DEF Queued
    <3> QED BY <2>2, <3>1, <1>2, <1>3 DEF Queued
  <2> QED BY <1>1, <1>2, <2>1, <2>2
<1>6. ASSUME NEW i \in 1..Len(queue2), NEW j \in 1..Len(queue2), i < j
      PROVE  /\ queue2[i].order_reference # queue2[j].order_reference
             /\ queue2[i].fifo_sequence < queue2[j].fifo_sequence
  <2>1. i \in 1..Len(queue)
    BY <1>1, <1>2, <1>6
  <2>2. CASE j = Len(queue) + 1
    BY <2>1, <2>2, <1>2 DEF Queued
  <2>3. CASE j \in 1..Len(queue)
    BY <2>1, <2>3, <1>2, <1>6 DEF Queued
  <2> QED BY <1>1, <1>2, <2>2, <2>3
<1>7. ASSUME NEW other \in DOMAIN index2, index2[other] = entry
      PROVE  \E i \in 1..Len(queue2) : queue2[i].order_reference = other
  <2>1. CASE other = ref
    BY <2>1, <1>1, <1>2
  <2>2. CASE other \in DOMAIN index
    <3>1. PICK i \in 1..Len(queue) : queue[i].order_reference = other
      BY <2>2, <1>3, <1>7 DEF Queued
    <3>2. i \in 1..Len(queue2)
      BY <1>1, <1>2
    <3> QED BY <3>1, <3>2, <1>2
  <2> QED BY <2>1, <2>2, <1>3
<1>8. Queued(queue2, entry, index2, next + 1, listed)
  BY <1>2, <1>5, <1>6, <1>7 DEF Queued
<1> QED BY <1>8 DEF queue2, index2

----------------------------------------------------------------------------
(* How a message changes the books *)

\* The displayed orders are consistent with the directory.
Rests ==
  /\ Consistent(books, order_index, next_fifo_sequence, directories)
  /\ next_fifo_sequence \in 1..kMax

\* The index leads to the node of its order.
LEMMA Located ==
  ASSUME Rests, NEW ref \in DOMAIN order_index
  PROVE  LET queue == LevelOf(books, order_index[ref]).orders
         IN  /\ ref \in OrderReference
             /\ order_index[ref] \in AllEntries
             /\ Queued(queue, order_index[ref], order_index, next_fifo_sequence, directories)
             /\ Position(ref) \in 1..Len(queue)
             /\ Order(ref) = queue[Position(ref)]
             /\ Order(ref) \in Node
             /\ Order(ref).order_reference = ref
             /\ LevelOf(books, order_index[ref]).aggregate_shares \in Quantity
<1> DEFINE queue == LevelOf(books, order_index[ref]).orders
<1>1. /\ ref \in OrderReference /\ order_index[ref] \in AllEntries /\ books \in Books
      /\ Queued(queue, order_index[ref], order_index, next_fifo_sequence, directories)
  BY DEF Rests, Consistent
<1>2. LevelOf(books, order_index[ref]).aggregate_shares \in Quantity
  BY <1>1, LevelTyped
<1>3. queue \in Seq(Node) /\ DOMAIN queue = 1..Len(queue)
  BY <1>1 DEF Queued
<1>4. \E i \in DOMAIN queue : queue[i].order_reference = ref
  BY <1>1, <1>3 DEF Queued
<1>5. Position(ref) \in DOMAIN queue /\ queue[Position(ref)].order_reference = ref
  BY <1>4 DEF Position
<1>6. Order(ref) = queue[Position(ref)] /\ queue[Position(ref)] \in Node
  BY <1>3, <1>5, ElementOfSeq DEF Order
<1> QED BY <1>1, <1>2, <1>3, <1>5, <1>6

\* An order that is erased leaves consistent books.
LEMMA EraseKeeps ==
  ASSUME Rests, NEW ref \in DOMAIN order_index
  PROVE  Consistent(Erased(ref), Drop(order_index, ref), next_fifo_sequence, directories)
<1> DEFINE entry == order_index[ref]
           level == LevelOf(books, entry)
           i == Position(ref)
           level2 == [aggregate_shares |-> Wrap(level.aggregate_shares
                                                  - Order(ref).remaining_shares),
                      orders |-> RemoveAt(level.orders, i)]
           index2 == Drop(order_index, ref)
<1>1. /\ entry \in AllEntries /\ i \in 1..Len(level.orders)
      /\ Queued(level.orders, entry, order_index, next_fifo_sequence, directories)
      /\ level.orders[i].order_reference = ref
      /\ Order(ref).remaining_shares \in Int /\ level.aggregate_shares \in Int
  BY Located DEF Node, Quantity
<1>2. Queued(level2.orders, entry, index2, next_fifo_sequence, directories)
  BY <1>1, UnlinkQueue
<1>3. level2 \in Level
  <2>1. level2.orders \in Seq(Node)
    BY <1>2 DEF Queued
  <2>2. level2.aggregate_shares \in Quantity
    BY <1>1, WrapIsQuantity
  <2> QED BY <2>1, <2>2 DEF Level
<1>4. /\ DOMAIN index2 = DOMAIN order_index \ {ref}
      /\ \A other \in DOMAIN index2 : index2[other] = order_index[other]
  BY DEF Drop
<1>5. /\ Consistent(books, order_index, next_fifo_sequence, directories)
      /\ next_fifo_sequence \in Int
  BY DEF Rests
<1>6. /\ DOMAIN index2 \subseteq OrderReference
      /\ \A other \in DOMAIN index2 : index2[other] \in AllEntries
      /\ \A other \in DOMAIN order_index :
           order_index[other] # entry => other \in DOMAIN index2
  BY <1>4, <1>5 DEF Consistent
<1>7. Erased(ref) = SetLevel(books, entry, level2)
  BY DEF Erased
<1> HIDE DEF level2, index2, entry
<1>8. Consistent(SetLevel(books, entry, level2), index2, next_fifo_sequence, directories)
  BY <1>1, <1>2, <1>3, <1>4, <1>5, <1>6, LevelChange
<1> QED BY <1>7, <1>8 DEF index2

\* Shares that leave an order, or take it away, leave consistent books.
LEMMA LowerKeeps ==
  ASSUME Rests, NEW ref \in DOMAIN order_index, NEW shares \in Quantity \ {0},
         shares <= Order(ref).remaining_shares
  PROVE  Consistent(Lowered(ref, shares), IndexWithout(ref, shares), next_fifo_sequence,
                    directories)
<1>1. CASE shares = Order(ref).remaining_shares
  BY <1>1, EraseKeeps DEF Lowered, IndexWithout
<1>2. CASE shares # Order(ref).remaining_shares
  <2> DEFINE entry == order_index[ref]
             level == LevelOf(books, entry)
             i == Position(ref)
             left == Order(ref).remaining_shares - shares
             level2 == [aggregate_shares |-> Wrap(level.aggregate_shares - shares),
                        orders |-> [level.orders EXCEPT ![i].remaining_shares = left]]
  <2>1. /\ entry \in AllEntries /\ i \in 1..Len(level.orders)
        /\ Queued(level.orders, entry, order_index, next_fifo_sequence, directories)
        /\ Order(ref) = level.orders[i]
        /\ Order(ref).remaining_shares \in Quantity /\ level.aggregate_shares \in Quantity
    BY Located DEF Node
  <2>2. left \in Quantity \ {0}
    <3> DEFINE open == Order(ref).remaining_shares
    <3>1. open \in Quantity /\ shares \in Quantity /\ shares <= open /\ open # shares
      BY <1>2, <2>1
    <3> HIDE DEF open
    <3>2. kMax \in Nat
      BY FactualAssumption DEF FactualAssumption
    <3>3. open - shares \in Quantity /\ open - shares # 0
      BY ONLY <3>1, <3>2 DEF Quantity
    <3> QED BY <3>3 DEF open
  <2>3. Wrap(level.aggregate_shares - shares) \in Quantity
    <3> DEFINE n == level.aggregate_shares - shares
    <3>1. n \in Int
      BY <2>1 DEF Quantity
    <3> HIDE DEF n
    <3>2. Wrap(n) \in Quantity
      BY ONLY <3>1, WrapIsQuantity
    <3> QED BY <3>2 DEF n
  <2>4. Lowered(ref, shares) = SetLevel(books, entry, level2)
    <3>1. [level.orders EXCEPT ![i].remaining_shares = @ - shares]
            = [level.orders EXCEPT ![i].remaining_shares = left]
      BY <2>1
    <3> QED BY <1>2, <3>1 DEF Lowered
  <2>5. IndexWithout(ref, shares) = order_index
    BY <1>2 DEF IndexWithout
  <2> HIDE DEF left
  <2>6. Queued(level2.orders, entry, order_index, next_fifo_sequence, directories)
    BY <2>1, <2>2, LowerQueue
  <2>7. level2 \in Level
    <3>1. level2.orders \in Seq(Node)
      BY <2>6 DEF Queued
    <3> QED BY <2>3, <3>1 DEF Level
  <2>8. /\ Consistent(books, order_index, next_fifo_sequence, directories)
        /\ next_fifo_sequence \in Int
    BY DEF Rests
  <2>9. /\ DOMAIN order_index \subseteq OrderReference
        /\ \A other \in DOMAIN order_index : order_index[other] \in AllEntries
    BY <2>8 DEF Consistent
  <2> HIDE DEF level2, entry
  <2>10. Consistent(SetLevel(books, entry, level2), order_index, next_fifo_sequence, directories)
    BY <2>1, <2>6, <2>7, <2>8, <2>9, LevelChange
  <2> QED BY <2>4, <2>5, <2>10
<1> QED BY <1>1, <1>2

\* An order that arrives at the back of a level leaves consistent books.
LEMMA AppendKeeps ==
  ASSUME NEW bks, NEW index, NEW next \in Int, NEW listed,
         Consistent(bks, index, next, listed),
         NEW entry \in AllEntries, NEW node \in Node,
         node.order_reference \notin DOMAIN index, node.remaining_shares # 0,
         node.fifo_sequence = next,
         node.stock_locate \in DOMAIN listed, listed[node.stock_locate] = entry.symbol
  PROVE  Consistent(Appended(bks, entry, node), Put(index, node.order_reference, entry),
                    next + 1, listed)
<1> DEFINE level == LevelOf(bks, entry)
           ref == node.order_reference
           level2 == [aggregate_shares |-> Wrap(level.aggregate_shares + node.remaining_shares),
                      orders |-> Append(level.orders, node)]
           index2 == Put(index, ref, entry)
<1>1. /\ bks \in Books /\ Queued(level.orders, entry, index, next, listed)
      /\ DOMAIN index \subseteq OrderReference
      /\ \A other \in DOMAIN index : index[other] \in AllEntries
  BY DEF Consistent
<1>2. Queued(level2.orders, entry, index2, next + 1, listed)
  BY <1>1, AppendQueue
<1>3. level2 \in Level
  <2>1. level2.orders \in Seq(Node)
    BY <1>2 DEF Queued
  <2>2. level.aggregate_shares \in Int /\ node.remaining_shares \in Int
    BY <1>1, LevelTyped DEF Quantity, Node
  <2>3. Wrap(level.aggregate_shares + node.remaining_shares) \in Quantity
    BY <2>2, WrapIsQuantity
  <2> QED BY <2>1, <2>3 DEF Level
<1>4. /\ DOMAIN index2 = DOMAIN index \cup {ref} /\ index2[ref] = entry
      /\ \A other \in DOMAIN index : index2[other] = index[other]
  BY DEF Put
<1>5. /\ DOMAIN index2 \subseteq OrderReference
      /\ \A other \in DOMAIN index2 : index2[other] \in AllEntries
      /\ \A other \in DOMAIN index2 :
           index2[other] # entry => other \in DOMAIN index /\ index[other] = index2[other]
  BY <1>1, <1>4 DEF Node
<1>6. Appended(bks, entry, node) = SetLevel(bks, entry, level2)
  BY DEF Appended
<1> HIDE DEF level2, index2
<1>7. Consistent(SetLevel(bks, entry, level2), index2, next + 1, listed)
  BY <1>2, <1>3, <1>4, <1>5, LevelChange
<1> QED BY <1>6, <1>7 DEF index2

\* A directory that only gains listings keeps the books consistent.
LEMMA ListingsKeepBooks ==
  ASSUME NEW bks, NEW index, NEW next, NEW listed, NEW listed2,
         Consistent(bks, index, next, listed),
         \A locate \in DOMAIN listed :
           locate \in DOMAIN listed2 /\ listed2[locate] = listed[locate]
  PROVE  Consistent(bks, index, next, listed2)
BY DEF Consistent, Queued

----------------------------------------------------------------------------
(* The messages *)

DirectoriesTyped ==
  /\ DOMAIN directories \subseteq Locate
  /\ \A locate \in DOMAIN directories : directories[locate] \in Symbol
  /\ DOMAIN symbol_locates \subseteq Symbol
  /\ \A symbol \in DOMAIN symbol_locates : symbol_locates[symbol] \in Locate

LedgerTyped ==
  /\ trades \in Seq(TradeRecord)
  /\ DOMAIN trade_index \subseteq MatchNumber
  /\ \A match \in DOMAIN trade_index : trade_index[match] \in DOMAIN trades

\* The invariant: everything check_invariants walks but the sums.
BookInv ==
  /\ session_phase \in Range(Phases)
  /\ DirectoriesTyped
  /\ DOMAIN trading \subseteq Symbol
  /\ LedgerTyped
  /\ volumes \in [Counter -> Quantity]
  /\ Rests

\* What the two checks on a named order establish.
LEMMA SharesChecked ==
  ASSUME BookInv, NEW ref, NEW locate, NEW shares \in Shares,
         SharesError(ref, locate, shares) = "ok"
  PROVE  /\ ref \in DOMAIN order_index /\ shares \in Quantity \ {0}
         /\ shares <= Order(ref).remaining_shares
<1>1. OrderError(ref, locate) = "ok" /\ shares # 0
      /\ ~(shares > Order(ref).remaining_shares)
  BY DEF SharesError
<1>2. ref \in DOMAIN order_index
  BY <1>1 DEF OrderError
<1>3. Order(ref).remaining_shares \in Int /\ shares \in Quantity
  BY <1>2, Located, FactualAssumption DEF BookInv, Node, Quantity, FactualAssumption
<1> QED BY <1>1, <1>2, <1>3 DEF Quantity

\* A listed locate has its symbol.
LEMMA LocateChecked ==
  ASSUME BookInv, NEW locate, NEW symbol, LocateError(locate, symbol) = "ok"
  PROVE  /\ locate \in DOMAIN directories /\ directories[locate] = symbol
         /\ locate \in Locate /\ symbol \in Symbol
BY DEF LocateError, BookInv, DirectoriesTyped

\* An add keeps the books.
LEMMA AddKeepsBooks ==
  ASSUME BookInv, NEW m \in Feed, m.type \in {"A", "F"}, AddError(m) = "ok", apply_add(m)
  PROVE  Rests'
<1> DEFINE entry == [symbol |-> m.symbol, side |-> m.side, price |-> m.price]
           node == [order_reference |-> m.ref, stock_locate |-> m.locate,
                    remaining_shares |-> m.shares, fifo_sequence |-> next_fifo_sequence]
<1>2. /\ books' = Appended(books, entry, node)
      /\ order_index' = Put(order_index, m.ref, entry)
      /\ next_fifo_sequence' = next_fifo_sequence + 1
      /\ directories' = directories
  BY DEF apply_add, reference
<1>3. /\ LocateError(m.locate, m.symbol) = "ok" /\ m.shares # 0
      /\ m.ref \notin DOMAIN order_index /\ next_fifo_sequence # kMax
  BY DEF AddError
<1>4. /\ m.locate \in DOMAIN directories /\ directories[m.locate] = m.symbol
      /\ m.locate \in Locate /\ m.symbol \in Symbol
  BY <1>3, LocateChecked
<1>5. /\ m.ref \in OrderReference /\ m.side \in Side /\ m.price \in Price
      /\ m.shares \in Quantity
  BY FeedAssumption, FactualAssumption DEF FeedAssumption, FactualAssumption, Quantity
<1>6. next_fifo_sequence \in 1..kMax
  BY DEF BookInv, Rests
<1>7. entry \in AllEntries /\ node \in Node
  BY <1>4, <1>5, <1>6 DEF AllEntries, Node
<1>8. Consistent(books, order_index, next_fifo_sequence, directories)
  BY DEF BookInv, Rests
<1>9. /\ node.order_reference = m.ref /\ node.remaining_shares = m.shares
      /\ node.fifo_sequence = next_fifo_sequence /\ node.stock_locate = m.locate
      /\ entry.symbol = m.symbol
  OBVIOUS
<1> HIDE DEF entry, node
<1>10. Consistent(Appended(books, entry, node), Put(order_index, m.ref, entry),
                  next_fifo_sequence + 1, directories)
  BY <1>3, <1>4, <1>6, <1>7, <1>8, <1>9, AppendKeeps
<1>11. next_fifo_sequence + 1 \in 1..kMax
  BY <1>3, <1>6, FactualAssumption DEF FactualAssumption
<1> QED BY <1>2, <1>10, <1>11 DEF Rests

\* A replace keeps the books: what it erases makes room for what it appends.
LEMMA ReplaceKeepsBooks ==
  ASSUME BookInv, NEW m \in Feed, m.type = "U", ReplaceError(m) = "ok", apply_replace(m)
  PROVE  Rests'
<1> DEFINE target == [order_index[m.ref] EXCEPT !.price = m.price]
           node == [order_reference |-> m.new_ref, stock_locate |-> Order(m.ref).stock_locate,
                    remaining_shares |-> m.shares, fifo_sequence |-> next_fifo_sequence]
           index == Drop(order_index, m.ref)
<1>1. /\ books' = Appended(Erased(m.ref), target, node)
      /\ order_index' = Put(index, m.new_ref, target)
      /\ next_fifo_sequence' = next_fifo_sequence + 1
      /\ directories' = directories
  BY DEF apply_replace, reference
<1>2. /\ OrderError(m.ref, m.locate) = "ok" /\ m.shares # 0
      /\ m.new_ref \notin DOMAIN order_index /\ next_fifo_sequence # kMax
  BY DEF ReplaceError
<1>3. m.ref \in DOMAIN order_index
  BY <1>2 DEF OrderError
<1>4. m.new_ref \in OrderReference /\ m.price \in Price /\ m.shares \in Quantity
  BY FeedAssumption, FactualAssumption DEF FeedAssumption, FactualAssumption, Quantity
<1>5. next_fifo_sequence \in 1..kMax /\ Rests
  BY DEF BookInv, Rests
<1>6. /\ order_index[m.ref] \in AllEntries /\ Order(m.ref) \in Node
      /\ Order(m.ref).stock_locate \in DOMAIN directories
      /\ directories[Order(m.ref).stock_locate] = order_index[m.ref].symbol
  BY <1>3, <1>5, Located DEF Queued
<1>7. target \in AllEntries /\ target.symbol = order_index[m.ref].symbol
  BY <1>4, <1>6 DEF AllEntries
<1>8. node \in Node
  BY <1>4, <1>5, <1>6 DEF Node
<1>9. Consistent(Erased(m.ref), index, next_fifo_sequence, directories)
  BY <1>3, <1>5, EraseKeeps
<1>10. m.new_ref \notin DOMAIN index
  BY <1>2 DEF Drop
<1>11. /\ node.order_reference = m.new_ref /\ node.remaining_shares = m.shares
       /\ node.fifo_sequence = next_fifo_sequence
       /\ node.stock_locate = Order(m.ref).stock_locate
  OBVIOUS
<1> HIDE DEF target, node, index
<1>12. Consistent(Appended(Erased(m.ref), target, node), Put(index, m.new_ref, target),
                  next_fifo_sequence + 1, directories)
  BY <1>2, <1>5, <1>6, <1>7, <1>8, <1>9, <1>10, <1>11, AppendKeeps
<1>13. next_fifo_sequence + 1 \in 1..kMax
  BY <1>2, <1>5, FactualAssumption DEF FactualAssumption
<1> QED BY <1>1, <1>12, <1>13 DEF Rests

\* Every message keeps the books consistent with the directory.
LEMMA MessageKeepsBooks ==
  ASSUME BookInv, NEW m \in Feed, Apply(m)
  PROVE  Rests'
<1> USE DEF Apply, AboutStock, AboutMarket
<1>1. m.type \in {"S", "R", "A", "F", "E", "C", "X", "D", "U", "P", "Q", "B"}
                   \cup AboutStock \cup AboutMarket
  BY FactualAssumption DEF FactualAssumption
<1>2. ASSUME UNCHANGED <<displayed, directories>> PROVE Rests'
  BY <1>2 DEF BookInv, Rests, displayed
<1>3. ASSUME NEW category, Fail(category) PROVE Rests'
  <2>1. UNCHANGED <<displayed, directories>>
    BY <1>3 DEF Fail, facts, reference
  <2> QED BY <2>1, <1>2
<1>4. CASE m.type \in {"S", "P", "Q", "B"} \cup AboutStock \cup AboutMarket
  <2>1. UNCHANGED <<displayed, directories>>
    BY <1>4 DEF apply_system_event, apply_trade, apply_broken_trade, apply_reference,
                Fail, facts, reference
  <2> QED BY <2>1, <1>2
<1>5. CASE m.type = "R"
  <2>1. CASE Fail(DirectoryError(m))
    BY <2>1, <1>3
  <2>2. CASE DirectoryError(m) = "ok" /\ directories' = Put(directories, m.locate, m.symbol)
             /\ UNCHANGED displayed
    <3>1. \A locate \in DOMAIN directories :
            locate \in DOMAIN directories' /\ directories'[locate] = directories[locate]
      BY <2>2 DEF DirectoryError, Put
    <3>2. Consistent(books, order_index, next_fifo_sequence, directories')
      BY <3>1, ListingsKeepBooks DEF BookInv, Rests
    <3> QED BY <2>2, <3>2 DEF BookInv, Rests, displayed
  <2> QED BY <1>5, <2>1, <2>2 DEF apply_directory
<1>6. CASE m.type \in {"A", "F"}
  <2>1. apply_add(m)
    BY <1>6
  <2>2. CASE Fail(AddError(m))
    BY <2>2, <1>3
  <2>3. CASE AddError(m) = "ok"
    BY <1>6, <2>1, <2>3, AddKeepsBooks
  <2> QED BY <2>1, <2>2, <2>3 DEF apply_add
<1>7. ASSUME m.shares \in Shares, SharesError(m.ref, m.locate, m.shares) = "ok",
             books' = Lowered(m.ref, m.shares), order_index' = IndexWithout(m.ref, m.shares),
             UNCHANGED <<next_fifo_sequence, directories>>
      PROVE  Rests'
  <2>1. /\ m.ref \in DOMAIN order_index /\ m.shares \in Quantity \ {0}
        /\ m.shares <= Order(m.ref).remaining_shares
    BY <1>7, SharesChecked
  <2>2. Rests
    BY DEF BookInv
  <2>3. Consistent(Lowered(m.ref, m.shares), IndexWithout(m.ref, m.shares),
                   next_fifo_sequence, directories)
    BY <2>1, <2>2, LowerKeeps
  <2> QED BY <1>7, <2>2, <2>3 DEF Rests
<1>8. CASE m.type \in {"E", "C"}
  <2>1. CASE Fail(ExecutionError(m))
    BY <2>1, <1>3
  <2>2. CASE /\ ExecutionError(m) = "ok"
             /\ books' = Lowered(m.ref, m.shares) /\ order_index' = IndexWithout(m.ref, m.shares)
             /\ UNCHANGED <<next_fifo_sequence, directories>>
    <3>1. SharesError(m.ref, m.locate, m.shares) = "ok"
      BY <2>2 DEF ExecutionError
    <3>2. m.shares \in Shares
      BY <1>8, FeedAssumption DEF FeedAssumption
    <3> QED BY <2>2, <3>1, <3>2, <1>7
  <2> QED BY <1>8, <2>1, <2>2 DEF apply_execution, reference
<1>9. CASE m.type = "X"
  <2>1. CASE Fail(CancelError(m))
    BY <2>1, <1>3
  <2>2. CASE /\ CancelError(m) = "ok"
             /\ books' = Lowered(m.ref, m.shares) /\ order_index' = IndexWithout(m.ref, m.shares)
             /\ UNCHANGED <<next_fifo_sequence, directories>>
    <3>1. SharesError(m.ref, m.locate, m.shares) = "ok"
      BY <2>2 DEF CancelError
    <3>2. m.shares \in Shares
      BY <1>9, FeedAssumption DEF FeedAssumption
    <3> QED BY <2>2, <3>1, <3>2, <1>7
  <2> QED BY <1>9, <2>1, <2>2 DEF apply_cancel, reference
<1>10. CASE m.type = "D"
  <2>1. CASE Fail(DeleteError(m))
    BY <2>1, <1>3
  <2>2. CASE /\ DeleteError(m) = "ok"
             /\ books' = Erased(m.ref) /\ order_index' = Drop(order_index, m.ref)
             /\ UNCHANGED <<next_fifo_sequence, directories>>
    <3>1. m.ref \in DOMAIN order_index
      BY <2>2 DEF DeleteError, OrderError
    <3>2. Rests
      BY DEF BookInv
    <3>3. Consistent(Erased(m.ref), Drop(order_index, m.ref), next_fifo_sequence, directories)
      BY <3>1, <3>2, EraseKeeps
    <3> QED BY <2>2, <3>2, <3>3 DEF Rests
  <2> QED BY <1>10, <2>1, <2>2 DEF apply_delete, reference
<1>11. CASE m.type = "U"
  <2>1. apply_replace(m)
    BY <1>11
  <2>2. CASE Fail(ReplaceError(m))
    BY <2>2, <1>3
  <2>3. CASE ReplaceError(m) = "ok"
    BY <1>11, <2>1, <2>3, ReplaceKeepsBooks
  <2> QED BY <2>1, <2>2, <2>3 DEF apply_replace
<1> QED BY <1>1, <1>4, <1>5, <1>6, <1>8, <1>9, <1>10, <1>11

----------------------------------------------------------------------------
(* What a message does to the rest of the state *)

\* A checked sum stays within its counter.
LEMMA CounterAdds ==
  ASSUME NEW v \in [Counter -> Quantity], NEW c \in Counter, NEW shares \in Quantity,
         can_add(v[c], shares)
  PROVE  /\ [v EXCEPT ![c] = @ + shares] \in [Counter -> Quantity]
         /\ \A d \in Counter : d # c => [v EXCEPT ![c] = @ + shares][d] = v[d]
<1>1. v[c] + shares \in Quantity
  BY FactualAssumption DEF can_add, Quantity, FactualAssumption
<1> QED BY <1>1

\* Two checked sums do as well.
LEMMA TwoCountersAdd ==
  ASSUME NEW v \in [Counter -> Quantity], NEW c \in Counter, NEW d \in Counter, c # d,
         NEW one \in Quantity, NEW two \in Quantity, can_add(v[c], one), can_add(v[d], two)
  PROVE  [v EXCEPT ![c] = @ + one, ![d] = @ + two] \in [Counter -> Quantity]
<1> DEFINE w == [v EXCEPT ![c] = @ + one]
<1>1. w \in [Counter -> Quantity] /\ w[d] = v[d]
  BY CounterAdds
<1>2. [v EXCEPT ![c] = @ + one, ![d] = @ + two] = [w EXCEPT ![d] = @ + two]
  OBVIOUS
<1> HIDE DEF w
<1>3. [w EXCEPT ![d] = @ + two] \in [Counter -> Quantity]
  BY <1>1, CounterAdds
<1> QED BY <1>2, <1>3

LEMMA MessageKeepsVolumes ==
  ASSUME BookInv, NEW m \in Feed, Apply(m)
  PROVE  volumes' \in [Counter -> Quantity]
<1> USE DEF Apply, AboutStock, AboutMarket
<1>1. m.type \in {"S", "R", "A", "F", "E", "C", "X", "D", "U", "P", "Q", "B"}
                   \cup AboutStock \cup AboutMarket
  BY FactualAssumption DEF FactualAssumption
<1>2. volumes \in [Counter -> Quantity] /\ Rests
  BY DEF BookInv
<1>3. ASSUME NEW category, Fail(category) PROVE volumes' = volumes
  BY <1>3 DEF Fail, facts
<1>4. m.type \in {"A", "F", "E", "C", "X", "U", "P", "Q"} => m.shares \in Quantity
  BY FeedAssumption, FactualAssumption DEF FeedAssumption, FactualAssumption, Quantity
<1>5. \A c \in {"displayed_add", "displayed_cancel", "displayed_execute",
                 "printable_trade", "non_printable_trade", "broken_trade"} : c \in Counter
  BY DEF Counter
<1>6. CASE m.type \in {"S", "R"} \cup AboutStock \cup AboutMarket
  BY <1>2, <1>6 DEF apply_system_event, apply_directory, apply_reference, Fail, facts
<1>7. CASE m.type \in {"A", "F"}
  <2>1. CASE Fail(AddError(m))
    BY <2>1, <1>2, <1>3
  <2>2. CASE AddError(m) = "ok" /\ volumes' = [volumes EXCEPT !["displayed_add"] = @ + m.shares]
    <3>1. can_add(volumes["displayed_add"], m.shares)
      BY <2>2 DEF AddError
    <3> QED BY <2>2, <3>1, <1>2, <1>4, <1>5, <1>7, CounterAdds
  <2> QED BY <1>7, <2>1, <2>2 DEF apply_add
<1>8. CASE m.type \in {"E", "C"}
  <2>1. CASE Fail(ExecutionError(m))
    BY <2>1, <1>2, <1>3
  <2>2. CASE /\ ExecutionError(m) = "ok"
             /\ volumes' = [volumes EXCEPT !["displayed_execute"] = @ + m.shares,
                                            ![TradeCounter(m.printable)] = @ + m.shares]
    <3>1. /\ can_add(volumes["displayed_execute"], m.shares)
          /\ can_add(volumes[TradeCounter(m.printable)], m.shares)
      BY <2>2 DEF ExecutionError
    <3>2. TradeCounter(m.printable) \in Counter /\ TradeCounter(m.printable) # "displayed_execute"
      BY DEF TradeCounter, Counter
    <3> QED BY <2>2, <3>1, <3>2, <1>2, <1>4, <1>5, <1>8, TwoCountersAdd
  <2> QED BY <1>8, <2>1, <2>2 DEF apply_execution
<1>9. CASE m.type = "X"
  <2>1. CASE Fail(CancelError(m))
    BY <2>1, <1>2, <1>3
  <2>2. CASE /\ CancelError(m) = "ok"
             /\ volumes' = [volumes EXCEPT !["displayed_cancel"] = @ + m.shares]
    <3>1. can_add(volumes["displayed_cancel"], m.shares)
      BY <2>2 DEF CancelError
    <3> QED BY <2>2, <3>1, <1>2, <1>4, <1>5, <1>9, CounterAdds
  <2> QED BY <1>9, <2>1, <2>2 DEF apply_cancel
<1>10. CASE m.type = "D"
  <2>1. CASE Fail(DeleteError(m))
    BY <2>1, <1>2, <1>3
  <2>2. CASE /\ DeleteError(m) = "ok"
             /\ volumes' = [volumes EXCEPT
                              !["displayed_cancel"] = @ + Order(m.ref).remaining_shares]
    <3>1. /\ can_add(volumes["displayed_cancel"], Order(m.ref).remaining_shares)
          /\ m.ref \in DOMAIN order_index
      BY <2>2 DEF DeleteError, OrderError
    <3>2. Order(m.ref).remaining_shares \in Quantity
      BY <3>1, <1>2, Located DEF Node
    <3> QED BY <2>2, <3>1, <3>2, <1>2, <1>5, CounterAdds
  <2> QED BY <1>10, <2>1, <2>2 DEF apply_delete
<1>11. CASE m.type = "U"
  <2>1. CASE Fail(ReplaceError(m))
    BY <2>1, <1>2, <1>3
  <2>2. CASE /\ ReplaceError(m) = "ok"
             /\ volumes' = ReplaceVolumes(Order(m.ref).remaining_shares, m.shares)
    <3>1. /\ can_add(volumes["displayed_cancel"], Order(m.ref).remaining_shares)
          /\ can_add(volumes["displayed_add"], m.shares)
          /\ m.ref \in DOMAIN order_index
      BY <2>2 DEF ReplaceError, OrderError
    <3>2. Order(m.ref).remaining_shares \in Quantity
      BY <3>1, <1>2, Located DEF Node
    <3> QED BY <2>2, <3>1, <3>2, <1>2, <1>4, <1>5, <1>11, TwoCountersAdd DEF ReplaceVolumes
  <2> QED BY <1>11, <2>1, <2>2 DEF apply_replace
<1>12. CASE m.type \in {"P", "Q"}
  <2>1. CASE Fail(TradeError(m))
    BY <2>1, <1>2, <1>3
  <2>2. CASE /\ TradeError(m) = "ok"
             /\ volumes' = [volumes EXCEPT !["printable_trade"] = @ + m.shares]
    <3>1. can_add(volumes["printable_trade"], m.shares)
      BY <2>2 DEF TradeError
    <3> QED BY <2>2, <3>1, <1>2, <1>4, <1>5, <1>12, CounterAdds
  <2> QED BY <1>12, <2>1, <2>2 DEF apply_trade
<1>13. CASE m.type = "B"
  <2>1. CASE Fail(BrokenError(m))
    BY <2>1, <1>2, <1>3
  <2>2. CASE /\ BrokenError(m) = "ok"
             /\ volumes' = [volumes EXCEPT
                              !["broken_trade"] = @ + trades[trade_index[m.match]].shares]
    <3>1. /\ can_add(volumes["broken_trade"], trades[trade_index[m.match]].shares)
          /\ m.match \in DOMAIN trade_index
      BY <2>2 DEF BrokenError, Breakable
    <3>2. trade_index[m.match] \in DOMAIN trades /\ trades \in Seq(TradeRecord)
      BY <3>1 DEF BookInv, LedgerTyped
    <3>3. trades[trade_index[m.match]] \in TradeRecord
      BY <3>2, ElementOfSeq
    <3>4. trades[trade_index[m.match]].shares \in Quantity
      BY <3>3 DEF TradeRecord
    <3> QED BY <2>2, <3>1, <3>4, <1>2, <1>5, CounterAdds
  <2> QED BY <1>13, <2>1, <2>2 DEF apply_broken_trade
<1> QED BY <1>1, <1>6, <1>7, <1>8, <1>9, <1>10, <1>11, <1>12, <1>13

\* A record of a listed locate joins a typed ledger.
LEMMA RecordTyped ==
  ASSUME LedgerTyped, NEW match \in MatchNumber, NEW locate \in Locate \cup {0},
         NEW shares \in Quantity, NEW printable \in BOOLEAN,
         Record(match, locate, shares, printable)
  PROVE  LedgerTyped'
<1> DEFINE record == [match_number |-> match, stock_locate |-> locate, shares |-> shares,
                      printable |-> printable, broken |-> FALSE]
<1>1. record \in TradeRecord
  BY DEF TradeRecord
<1> HIDE DEF record
<1>2. trades \in Seq(TradeRecord) /\ trades' = Append(trades, record)
  BY DEF LedgerTyped, Record, record
<1>3. /\ trades' \in Seq(TradeRecord)
      /\ DOMAIN trades' = DOMAIN trades \cup {Len(trades) + 1}
  BY <1>1, <1>2
<1>4. /\ DOMAIN trade_index' = DOMAIN trade_index \cup {match}
      /\ \A other \in DOMAIN trade_index' :
           trade_index'[other] = IF other = match THEN Len(trades) + 1 ELSE trade_index[other]
  BY DEF Record, Put
<1> QED BY <1>3, <1>4 DEF LedgerTyped

LEMMA MessageKeepsLedger ==
  ASSUME BookInv, NEW m \in Feed, Apply(m)
  PROVE  LedgerTyped'
<1> USE DEF Apply, AboutStock, AboutMarket
<1>1. m.type \in {"S", "R", "A", "F", "E", "C", "X", "D", "U", "P", "Q", "B"}
                   \cup AboutStock \cup AboutMarket
  BY FactualAssumption DEF FactualAssumption
<1>2. LedgerTyped /\ Rests
  BY DEF BookInv
<1>3. ASSUME UNCHANGED ledger PROVE LedgerTyped'
  BY <1>2, <1>3 DEF LedgerTyped, ledger
<1>4. ASSUME NEW category, Fail(category) PROVE LedgerTyped'
  BY <1>3, <1>4 DEF Fail, facts
<1>5. CASE m.type \notin {"E", "C", "P", "Q", "B"}
  <2>1. UNCHANGED ledger
    BY <1>1, <1>5 DEF apply_system_event, apply_directory, apply_add, apply_cancel,
       apply_delete, apply_replace, apply_reference, Fail, facts, ledger
  <2> QED BY <2>1, <1>3
<1>6. CASE m.type \in {"E", "C"}
  <2>1. CASE Fail(ExecutionError(m))
    BY <2>1, <1>4
  <2>2. CASE /\ ExecutionError(m) = "ok"
             /\ Record(m.match, Order(m.ref).stock_locate, m.shares, m.printable)
    <3>1. m.ref \in DOMAIN order_index
      BY <2>2 DEF ExecutionError, SharesError, OrderError
    <3>2. Order(m.ref).stock_locate \in Locate
      BY <3>1, <1>2, Located DEF Node
    <3>3. m.shares \in Quantity /\ m.match \in MatchNumber /\ m.printable \in BOOLEAN
      BY <1>6, FeedAssumption, FactualAssumption
         DEF FeedAssumption, FactualAssumption, Quantity
    <3> QED BY <2>2, <3>2, <3>3, <1>2, RecordTyped
  <2> QED BY <1>6, <2>1, <2>2 DEF apply_execution
<1>7. CASE m.type \in {"P", "Q"}
  <2>1. CASE Fail(TradeError(m))
    BY <2>1, <1>4
  <2>2. CASE TradeError(m) = "ok" /\ Record(m.match, m.locate, m.shares, TRUE)
    <3>1. LocateError(m.locate, m.symbol) = "ok"
      BY <2>2 DEF TradeError
    <3>2. m.locate \in Locate
      BY <3>1, LocateChecked
    <3>3. m.shares \in Quantity /\ m.match \in MatchNumber
      BY <1>7, FeedAssumption, FactualAssumption
         DEF FeedAssumption, FactualAssumption, Quantity
    <3> QED BY <2>2, <3>2, <3>3, <1>2, RecordTyped
  <2> QED BY <1>7, <2>1, <2>2 DEF apply_trade
<1>8. CASE m.type = "B"
  <2>1. CASE Fail(BrokenError(m))
    BY <2>1, <1>4
  <2>2. CASE /\ BrokenError(m) = "ok"
             /\ trades' = [trades EXCEPT ![trade_index[m.match]].broken = TRUE]
             /\ UNCHANGED trade_index
    <3> DEFINE at == trade_index[m.match]
               marked == [trades[at] EXCEPT !.broken = TRUE]
    <3>1. m.match \in DOMAIN trade_index
      BY <2>2 DEF BrokenError, Breakable
    <3>2. trades \in Seq(TradeRecord) /\ at \in 1..Len(trades)
      BY <3>1, <1>2 DEF LedgerTyped
    <3>3. trades[at] \in TradeRecord
      BY <3>2, ElementOfSeq
    <3>4. marked \in TradeRecord
      BY <3>3 DEF TradeRecord
    <3>5. trades' = [trades EXCEPT ![at] = marked]
      BY <2>2
    <3> HIDE DEF marked
    <3>6. trades' \in Seq(TradeRecord) /\ DOMAIN trades' = DOMAIN trades
      BY <3>2, <3>4, <3>5, ExceptSeq
    <3> QED BY <2>2, <3>6, <1>2 DEF LedgerTyped
  <2> QED BY <1>8, <2>1, <2>2 DEF apply_broken_trade
<1> QED BY <1>1, <1>5, <1>6, <1>7, <1>8

LEMMA MessageKeepsReference ==
  ASSUME BookInv, NEW m \in Feed, Apply(m)
  PROVE  /\ session_phase' \in Range(Phases)
         /\ DirectoriesTyped'
         /\ DOMAIN trading' \subseteq Symbol
<1> USE DEF Apply, AboutStock, AboutMarket
<1>1. m.type \in {"S", "R", "A", "F", "E", "C", "X", "D", "U", "P", "Q", "B"}
                   \cup AboutStock \cup AboutMarket
  BY FactualAssumption DEF FactualAssumption
<1>2. session_phase' \in Range(Phases)
  <2>1. CASE UNCHANGED session_phase
    BY <2>1 DEF BookInv
  <2>2. CASE m.type = "S"
    <3>1. ASSUME NEW i \in DOMAIN EventCodes PROVE Phases[i + 1] \in Range(Phases)
      <4>1. DOMAIN EventCodes = 1..6 /\ DOMAIN Phases = 1..7
        BY DEF EventCodes, Phases
      <4>2. i + 1 \in DOMAIN Phases
        BY <4>1
      <4> QED BY <4>2 DEF Range
    <3> QED BY <2>1, <2>2, <3>1 DEF apply_system_event, Fail, facts, reference
  <2>3. CASE m.type # "S"
    <3>1. UNCHANGED session_phase
      BY <1>1, <2>3 DEF apply_directory, apply_add, apply_execution, apply_cancel,
         apply_delete, apply_replace, apply_trade, apply_broken_trade, apply_reference,
         Fail, facts, reference
    <3> QED BY <2>1, <3>1
  <2> QED BY <2>2, <2>3
<1>3. DirectoriesTyped'
  <2>1. CASE UNCHANGED <<directories, symbol_locates>>
    BY <2>1 DEF BookInv, DirectoriesTyped
  <2>2. CASE m.type # "R"
    <3>1. UNCHANGED <<directories, symbol_locates>>
      BY <1>1, <2>2 DEF apply_system_event, apply_add, apply_execution, apply_cancel,
         apply_delete, apply_replace, apply_trade, apply_broken_trade, apply_reference,
         Fail, facts, reference
    <3> QED BY <2>1, <3>1
  <2>3. CASE /\ m.type = "R" /\ DirectoryError(m) = "ok"
             /\ directories' = Put(directories, m.locate, m.symbol)
             /\ symbol_locates' = Put(symbol_locates, m.symbol, m.locate)
    <3>1. m.locate \in Locate /\ m.symbol \in Symbol
      BY <2>3, FeedAssumption DEF FeedAssumption, DirectoryError
    <3> QED BY <2>3, <3>1 DEF BookInv, DirectoriesTyped, Put
  <2> QED BY <2>1, <2>2, <2>3, OnlyDirectoryListings
<1>4. DOMAIN trading' \subseteq Symbol
  <2>1. CASE UNCHANGED trading
    BY <2>1 DEF BookInv
  <2>2. CASE m.type \notin AboutStock \cup AboutMarket
    <3>1. UNCHANGED trading
      BY <1>1, <2>2 DEF apply_system_event, apply_directory, apply_add, apply_execution,
         apply_cancel, apply_delete, apply_replace, apply_trade, apply_broken_trade,
         Fail, facts, reference
    <3> QED BY <2>1, <3>1
  <2>3. CASE m.type \in AboutStock \cup AboutMarket
    <3>1. CASE Fail(ReferenceError(m))
      BY <2>1, <3>1 DEF Fail, facts, reference
    <3>2. CASE m.type # "H" /\ trading' = trading
      BY <2>1, <3>2
    <3>3. CASE /\ m.type = "H" /\ ReferenceError(m) = "ok"
               /\ trading' = Put(trading, m.symbol, m.state)
      <4>1. m.symbol \in Symbol
        BY <3>3, LocateChecked DEF ReferenceError
      <4> QED BY <3>3, <4>1 DEF BookInv, Put
    <3> QED BY <2>3, <3>1, <3>2, <3>3 DEF apply_reference
  <2> QED BY <2>2, <2>3
<1> QED BY <1>2, <1>3, <1>4

----------------------------------------------------------------------------
(* The invariant holds, and what follows from it *)

LEMMA BookInvInit == Init => BookInv
<1> SUFFICES ASSUME Init PROVE BookInv
  OBVIOUS
<1>1. NoLevel \in Level
  BY FactualAssumption DEF NoLevel, Level, Quantity, FactualAssumption
<1>2. books \in Books
  BY <1>1 DEF Init, Books
<1>3. ASSUME NEW entry \in AllEntries
      PROVE  Queued(LevelOf(books, entry).orders, entry, order_index, next_fifo_sequence,
                    directories)
  <2>1. /\ entry.symbol \in Symbol /\ entry.side \in Side /\ entry.price \in Price
    BY DEF AllEntries
  <2>2. LevelOf(books, entry).orders = <<>>
    BY <2>1 DEF Init, LevelOf, NoLevel
  <2>3. DOMAIN order_index = {}
    BY DEF Init
  <2> QED BY <2>2, <2>3 DEF Queued
<1>4. Consistent(books, order_index, next_fifo_sequence, directories)
  BY <1>2, <1>3 DEF Init, Consistent
<1>5. session_phase \in Range(Phases)
  <2>1. 1 \in DOMAIN Phases /\ Phases[1] = "before_messages"
    BY DEF Phases
  <2> QED BY <2>1 DEF Init, Range
<1>6. DirectoriesTyped /\ DOMAIN trading \subseteq Symbol /\ LedgerTyped
  BY DEF Init, DirectoriesTyped, LedgerTyped
<1>7. volumes \in [Counter -> Quantity]
  BY FactualAssumption DEF Init, Quantity, FactualAssumption
<1>8. next_fifo_sequence \in 1..kMax
  BY FactualAssumption DEF Init, FactualAssumption
<1> QED BY <1>4, <1>5, <1>6, <1>7, <1>8 DEF BookInv, Rests

LEMMA BookInvStep == BookInv /\ [Next]_vars => BookInv'
<1> SUFFICES ASSUME BookInv, [Next]_vars PROVE BookInv'
  OBVIOUS
<1>1. CASE UNCHANGED vars
  BY <1>1 DEF vars, facts, reference, displayed, ledger, BookInv, DirectoriesTyped,
     LedgerTyped, Rests
<1>2. CASE Next
  <2>1. PICK m \in Feed : Apply(m)
    BY <1>2 DEF Next
  <2> QED BY <2>1, MessageKeepsBooks, MessageKeepsVolumes, MessageKeepsLedger,
             MessageKeepsReference DEF BookInv
<1> QED BY <1>1, <1>2

LEMMA BookInvariant == Spec => []BookInv
BY BookInvInit, BookInvStep, PTL DEF Spec

\* No counter, quantity or sequence of the factual book ever leaves its width,
\* and everything it stores is of the type that its readers take it for.
THEOREM FactualTypeCorrect == Spec => []TypeOK
<1>1. BookInv => TypeOK
  <2> SUFFICES ASSUME BookInv PROVE TypeOK
    OBVIOUS
  <2>1. /\ Range(directories) \subseteq Symbol /\ Range(symbol_locates) \subseteq Locate
    BY DEF BookInv, DirectoriesTyped, Range
  <2>2. DOMAIN order_index \subseteq OrderReference /\ Range(order_index) \subseteq AllEntries
    BY DEF BookInv, Rests, Consistent, Range
  <2>3. Range(trade_index) \subseteq DOMAIN trades
    BY DEF BookInv, LedgerTyped, Range
  <2>4. books \in [Symbol -> [Side -> [Price -> Level]]]
    BY DEF BookInv, Rests, Consistent, Books
  <2> QED BY <2>1, <2>2, <2>3, <2>4 DEF BookInv, DirectoriesTyped, LedgerTyped, Rests, TypeOK
<1> QED BY <1>1, BookInvariant, PTL

\* Whatever arrives, is executed, cancelled, deleted, replaced or refused, the
\* index of orders and the queues agree (factual_book.cpp, check_invariants): an
\* indexed order is one node, a node is indexed at its own level and holds
\* shares, and a queue stands in order of arrival.
THEOREM IndexAndQueuesAgree == Spec => []BookSound
<1>1. BookInv => BookSound
  <2> SUFFICES ASSUME BookInv PROVE BookSound
    OBVIOUS
  <2>1. ASSUME NEW ref \in DOMAIN order_index
        PROVE  Cardinality({i \in DOMAIN QueueOf(order_index[ref]) :
                             QueueOf(order_index[ref])[i].order_reference = ref}) = 1
    <3> DEFINE queue == QueueOf(order_index[ref])
    <3>1. /\ Queued(queue, order_index[ref], order_index, next_fifo_sequence, directories)
          /\ Position(ref) \in 1..Len(queue)
          /\ queue[Position(ref)].order_reference = ref
      BY Located DEF BookInv, QueueOf
    <3> HIDE DEF queue
    <3>2. queue \in Seq(Node) /\ DOMAIN queue = 1..Len(queue) /\ Len(queue) \in Nat
      BY <3>1 DEF Queued
    <3>3. \A i \in 1..Len(queue) : queue[i].order_reference = ref => i = Position(ref)
      BY <3>1, <3>2 DEF Queued
    <3>4. {i \in DOMAIN queue : queue[i].order_reference = ref} = {Position(ref)}
      BY <3>1, <3>2, <3>3
    <3>5. Cardinality({i \in DOMAIN queue : queue[i].order_reference = ref}) = 1
      BY <3>4, FS_Singleton
    <3> QED BY <3>5 DEF queue
  <2>2. ASSUME NEW e \in AllEntries, NEW i \in DOMAIN QueueOf(e)
        PROVE  LET node == QueueOf(e)[i]
               IN  /\ node.order_reference \in DOMAIN order_index
                   /\ order_index[node.order_reference] = e
                   /\ node.remaining_shares # 0
                   /\ i > 1 => QueueOf(e)[i - 1].fifo_sequence < node.fifo_sequence
    <3> DEFINE queue == QueueOf(e)
    <3>1. Queued(queue, e, order_index, next_fifo_sequence, directories)
      BY DEF BookInv, Rests, Consistent, QueueOf
    <3>2. DOMAIN queue = 1..Len(queue) /\ Len(queue) \in Nat
      BY <3>1 DEF Queued
    <3> HIDE DEF queue
    <3>3. i \in 1..Len(queue)
      BY <3>2 DEF queue
    <3>4. i > 1 => i - 1 \in 1..Len(queue) /\ i - 1 < i
      BY <3>2, <3>3
    <3>5. /\ queue[i].order_reference \in DOMAIN order_index
          /\ order_index[queue[i].order_reference] = e
          /\ queue[i].remaining_shares # 0
          /\ i > 1 => queue[i - 1].fifo_sequence < queue[i].fifo_sequence
      BY <3>1, <3>3, <3>4 DEF Queued
    <3> QED BY <3>5 DEF queue
  <2> QED BY <2>1, <2>2 DEF BookSound
<1> QED BY <1>1, BookInvariant, PTL

\* Locates and symbols stay one to one, and a resting order's locate stays
\* listed for the symbol whose book holds it (factual_book.cpp, apply_directory
\* and validate_locate_symbol), whatever directory messages repeat.
THEOREM ListingsAlwaysAgree == Spec => []ListingsAgree
<1>1. BookInv => OrdersAreListed
  <2> SUFFICES ASSUME BookInv, NEW e \in AllEntries, NEW i \in DOMAIN QueueOf(e)
               PROVE  /\ QueueOf(e)[i].stock_locate \in DOMAIN directories
                      /\ directories[QueueOf(e)[i].stock_locate] = e.symbol
    BY DEF OrdersAreListed
  <2>1. Queued(QueueOf(e), e, order_index, next_fifo_sequence, directories)
    BY DEF BookInv, Rests, Consistent, QueueOf
  <2>2. i \in 1..Len(QueueOf(e))
    BY <2>1 DEF Queued
  <2> QED BY <2>1, <2>2 DEF Queued
<1>2. DirectoriesAgree /\ OrdersAreListed => ListingsAgree
  BY DEF ListingsAgree
<1> QED BY <1>1, <1>2, BookInvariant, DirectoriesOneToOne, PTL

----------------------------------------------------------------------------
(* The book implements the displayed orders *)

\* The node of an order, in any books and index.
NodeOf(bks, index, ref) ==
  LET queue == LevelOf(bks, index[ref]).orders
  IN  queue[CHOOSE i \in DOMAIN queue : queue[i].order_reference = ref]

\* What Displayed sees of an order, and of all.
View(entry, node) ==
  [symbol |-> entry.symbol, side |-> entry.side, price |-> entry.price,
   shares |-> node.remaining_shares, arrival |-> node.fifo_sequence]
Shown(bks, index) == [ref \in DOMAIN index |-> View(index[ref], NodeOf(bks, index, ref))]

\* The node that carries a reference in the queue of its entry is its node.
LEMMA NodeIs ==
  ASSUME NEW bks, NEW index, NEW next, NEW listed, Consistent(bks, index, next, listed),
         NEW ref \in DOMAIN index, NEW i \in 1..Len(LevelOf(bks, index[ref]).orders),
         LevelOf(bks, index[ref]).orders[i].order_reference = ref
  PROVE  NodeOf(bks, index, ref) = LevelOf(bks, index[ref]).orders[i]
<1> DEFINE queue == LevelOf(bks, index[ref]).orders
<1>1. Queued(queue, index[ref], index, next, listed)
  BY DEF Consistent
<1>2. DOMAIN queue = 1..Len(queue) /\ Len(queue) \in Nat
  BY <1>1 DEF Queued
<1> HIDE DEF queue
<1>3. \A j \in 1..Len(queue) : queue[j].order_reference = ref => j = i
  BY <1>1, <1>2 DEF Queued, queue
<1>4. (CHOOSE j \in DOMAIN queue : queue[j].order_reference = ref) = i
  BY <1>2, <1>3 DEF queue
<1> QED BY <1>4 DEF NodeOf, queue

\* Every indexed order has its node.
LEMMA NodeThere ==
  ASSUME NEW bks, NEW index, NEW next, NEW listed, Consistent(bks, index, next, listed),
         NEW ref \in DOMAIN index
  PROVE  \E i \in 1..Len(LevelOf(bks, index[ref]).orders) :
           /\ LevelOf(bks, index[ref]).orders[i].order_reference = ref
           /\ NodeOf(bks, index, ref) = LevelOf(bks, index[ref]).orders[i]
<1> DEFINE queue == LevelOf(bks, index[ref]).orders
<1>1. Queued(queue, index[ref], index, next, listed)
  BY DEF Consistent
<1>2. PICK i \in 1..Len(queue) : queue[i].order_reference = ref
  BY <1>1 DEF Queued
<1>3. NodeOf(bks, index, ref) = queue[i]
  BY <1>2, NodeIs
<1> QED BY <1>2, <1>3

\* Erasing an order leaves the nodes of the others as they are.
LEMMA ErasedShown ==
  ASSUME Rests, NEW ref \in DOMAIN order_index, NEW other \in DOMAIN order_index, other # ref
  PROVE  NodeOf(Erased(ref), Drop(order_index, ref), other) = NodeOf(books, order_index, other)
<1> DEFINE entry == order_index[ref]
           level == LevelOf(books, entry)
           i == Position(ref)
           queue2 == RemoveAt(level.orders, i)
           level2 == [aggregate_shares |-> Wrap(level.aggregate_shares
                                                  - Order(ref).remaining_shares),
                      orders |-> queue2]
           index2 == Drop(order_index, ref)
<1>1. /\ entry \in AllEntries /\ i \in 1..Len(level.orders)
      /\ Queued(level.orders, entry, order_index, next_fifo_sequence, directories)
      /\ level.orders[i].order_reference = ref
      /\ Order(ref).remaining_shares \in Int /\ level.aggregate_shares \in Int
  BY Located DEF Node, Quantity
<1>2. /\ queue2 \in Seq(Node)
      /\ Len(queue2) = Len(level.orders) - 1
      /\ \A j \in 1..(Len(level.orders) - 1) :
           queue2[j] = IF j < i THEN level.orders[j] ELSE level.orders[j + 1]
  <2>1. level.orders \in Seq(Node)
    BY <1>1 DEF Queued
  <2> QED BY <1>1, <2>1, RemoveAtProperties
<1>3. level2 \in Level
  BY <1>1, <1>2, WrapIsQuantity DEF Level
<1>4. /\ Consistent(books, order_index, next_fifo_sequence, directories)
      /\ Consistent(Erased(ref), index2, next_fifo_sequence, directories)
      /\ books \in Books /\ order_index[other] \in AllEntries
  BY EraseKeeps DEF Rests, Consistent
<1>5. /\ Erased(ref) = SetLevel(books, entry, level2)
      /\ other \in DOMAIN index2 /\ index2[other] = order_index[other]
  BY DEF Erased, Drop
<1> HIDE DEF level2, index2, queue2
<1>6. CASE order_index[other] # entry
  <2>1. LevelOf(Erased(ref), index2[other]) = LevelOf(books, order_index[other])
    BY <1>1, <1>3, <1>4, <1>5, <1>6, SetLevelAt
  <2> QED BY <2>1, <1>5 DEF NodeOf, index2
<1>7. CASE order_index[other] = entry
  <2>1. LevelOf(Erased(ref), index2[other]).orders = queue2
    BY <1>1, <1>3, <1>4, <1>5, <1>7, SetLevelAt DEF level2
  <2>2. PICK k \in 1..Len(level.orders) :
          /\ level.orders[k].order_reference = other
          /\ NodeOf(books, order_index, other) = level.orders[k]
    BY <1>4, <1>7, NodeThere
  <2>3. k # i /\ Len(level.orders) \in Nat
    BY <1>1, <2>2 DEF Queued
  <2>4. \E j \in 1..Len(queue2) : queue2[j] = level.orders[k]
    <3>1. CASE k < i
      BY <3>1, <1>1, <1>2, <2>3
    <3>2. CASE k > i
      <4>1. /\ k - 1 \in 1..Len(queue2) /\ ~(k - 1 < i) /\ (k - 1) + 1 = k
            /\ k - 1 \in 1..(Len(level.orders) - 1)
        BY <3>2, <1>1, <1>2, <2>3
      <4>2. queue2[k - 1] = level.orders[k]
        BY <4>1, <1>2
      <4> QED BY <4>1, <4>2
    <3> QED BY <3>1, <3>2, <2>3, <1>1
  <2>5. PICK j \in 1..Len(queue2) : queue2[j] = level.orders[k]
    BY <2>4
  <2>6. NodeOf(Erased(ref), index2, other) = queue2[j]
    BY <2>1, <2>2, <2>5, <1>4, <1>5, NodeIs
  <2> QED BY <2>2, <2>5, <2>6 DEF index2
<1> QED BY <1>6, <1>7 DEF index2

\* Lowering an order in place leaves the nodes of the others as they are.
LEMMA LoweredShown ==
  ASSUME Rests, NEW ref \in DOMAIN order_index, NEW shares \in Quantity \ {0},
         shares <= Order(ref).remaining_shares, shares # Order(ref).remaining_shares
  PROVE  /\ NodeOf(Lowered(ref, shares), order_index, ref)
               = [Order(ref) EXCEPT !.remaining_shares = @ - shares]
         /\ \A other \in DOMAIN order_index \ {ref} :
              NodeOf(Lowered(ref, shares), order_index, other) = NodeOf(books, order_index, other)
<1> DEFINE entry == order_index[ref]
           level == LevelOf(books, entry)
           i == Position(ref)
           node2 == [Order(ref) EXCEPT !.remaining_shares = @ - shares]
           queue2 == [level.orders EXCEPT ![i].remaining_shares = @ - shares]
           level2 == [aggregate_shares |-> Wrap(level.aggregate_shares - shares),
                      orders |-> queue2]
<1>1. /\ entry \in AllEntries /\ i \in 1..Len(level.orders)
      /\ Queued(level.orders, entry, order_index, next_fifo_sequence, directories)
      /\ Order(ref) = level.orders[i] /\ Order(ref) \in Node
      /\ Order(ref).order_reference = ref
      /\ level.aggregate_shares \in Int
  BY Located DEF Quantity
<1>2. node2 \in Node /\ node2.order_reference = ref
  BY <1>1, FactualAssumption DEF Node, Quantity, FactualAssumption
<1>3. queue2 = [level.orders EXCEPT ![i] = node2]
  BY <1>1
<1> HIDE DEF node2, queue2
<1>4. level.orders \in Seq(Node)
  BY <1>1 DEF Queued
<1>5. /\ queue2 \in Seq(Node) /\ Len(queue2) = Len(level.orders)
      /\ queue2[i] = node2
      /\ \A j \in 1..Len(level.orders) : j # i => queue2[j] = level.orders[j]
  BY <1>1, <1>2, <1>3, <1>4, ExceptSeq
<1>6. level2 \in Level
  <2>1. shares \in Int
    BY DEF Quantity
  <2>2. Wrap(level.aggregate_shares - shares) \in Quantity
    BY <1>1, <2>1, WrapIsQuantity
  <2> QED BY <1>5, <2>2 DEF Level
<1>7. /\ Lowered(ref, shares) = SetLevel(books, entry, level2)
      /\ IndexWithout(ref, shares) = order_index
  BY DEF Lowered, IndexWithout, queue2
<1>8. /\ Consistent(books, order_index, next_fifo_sequence, directories)
      /\ Consistent(Lowered(ref, shares), order_index, next_fifo_sequence, directories)
      /\ books \in Books
  BY <1>7, LowerKeeps DEF Rests, Consistent
<1> HIDE DEF level2
<1>9. LevelOf(Lowered(ref, shares), entry).orders = queue2
  BY <1>1, <1>6, <1>7, <1>8, SetLevelAt DEF level2
<1>10. NodeOf(Lowered(ref, shares), order_index, ref) = node2
  BY <1>1, <1>2, <1>5, <1>8, <1>9, NodeIs
<1>11. ASSUME NEW other \in DOMAIN order_index \ {ref}
       PROVE  NodeOf(Lowered(ref, shares), order_index, other)
                = NodeOf(books, order_index, other)
  <2>1. CASE order_index[other] # entry
    <3>1. order_index[other] \in AllEntries
      BY <1>8 DEF Consistent
    <3>2. LevelOf(Lowered(ref, shares), order_index[other]) = LevelOf(books, order_index[other])
      BY <3>1, <1>1, <1>6, <1>7, <1>8, <2>1, SetLevelAt
    <3> QED BY <3>2 DEF NodeOf
  <2>2. CASE order_index[other] = entry
    <3>1. PICK k \in 1..Len(level.orders) :
            /\ level.orders[k].order_reference = other
            /\ NodeOf(books, order_index, other) = level.orders[k]
      BY <1>8, <2>2, NodeThere
    <3>2. k # i
      BY <3>1, <1>1
    <3>3. k \in 1..Len(queue2) /\ queue2[k] = level.orders[k]
      BY <3>2, <1>5
    <3>4. NodeOf(Lowered(ref, shares), order_index, other) = queue2[k]
      BY <2>2, <3>1, <3>3, <1>8, <1>9, NodeIs
    <3> QED BY <3>1, <3>3, <3>4
  <2> QED BY <2>1, <2>2
<1> QED BY <1>10, <1>11 DEF node2

\* Appending an order leaves the nodes of the others as they are.
LEMMA AppendedShown ==
  ASSUME NEW bks, NEW index, NEW next \in Int, NEW listed,
         Consistent(bks, index, next, listed),
         NEW entry \in AllEntries, NEW node \in Node,
         node.order_reference \notin DOMAIN index, node.remaining_shares # 0,
         node.fifo_sequence = next,
         node.stock_locate \in DOMAIN listed, listed[node.stock_locate] = entry.symbol
  PROVE  LET bks2 == Appended(bks, entry, node)
             index2 == Put(index, node.order_reference, entry)
         IN  /\ NodeOf(bks2, index2, node.order_reference) = node
             /\ \A other \in DOMAIN index :
                  NodeOf(bks2, index2, other) = NodeOf(bks, index, other)
<1> DEFINE level == LevelOf(bks, entry)
           ref == node.order_reference
           queue2 == Append(level.orders, node)
           level2 == [aggregate_shares |-> Wrap(level.aggregate_shares + node.remaining_shares),
                      orders |-> queue2]
           bks2 == Appended(bks, entry, node)
           index2 == Put(index, ref, entry)
<1>1. /\ bks \in Books /\ level.orders \in Seq(Node)
      /\ level.aggregate_shares \in Int /\ node.remaining_shares \in Int
  <2>1. bks \in Books
    BY DEF Consistent
  <2>2. level.orders \in Seq(Node) /\ level.aggregate_shares \in Quantity
    BY <2>1, LevelTyped
  <2> QED BY <2>1, <2>2 DEF Quantity, Node
<1>2. /\ queue2 \in Seq(Node) /\ Len(queue2) = Len(level.orders) + 1
      /\ queue2[Len(level.orders) + 1] = node /\ Len(level.orders) \in Nat
      /\ \A i \in 1..Len(level.orders) : queue2[i] = level.orders[i]
  BY <1>1
<1>3. level2 \in Level
  BY <1>1, <1>2, WrapIsQuantity DEF Level
<1>4. bks2 = SetLevel(bks, entry, level2)
  BY DEF Appended
<1>5. /\ DOMAIN index2 = DOMAIN index \cup {ref} /\ index2[ref] = entry
      /\ \A other \in DOMAIN index : index2[other] = index[other]
  BY DEF Put
<1>6. Consistent(bks2, index2, next + 1, listed)
  BY AppendKeeps
<1> HIDE DEF level2, bks2, index2, queue2
<1>7. LevelOf(bks2, entry).orders = queue2
  BY <1>1, <1>3, <1>4, SetLevelAt DEF level2
<1>8. NodeOf(bks2, index2, ref) = node
  <2>1. Len(level.orders) + 1 \in 1..Len(queue2)
    BY <1>2
  <2> QED BY <2>1, <1>2, <1>5, <1>6, <1>7, NodeIs
<1>9. ASSUME NEW other \in DOMAIN index
      PROVE  NodeOf(bks2, index2, other) = NodeOf(bks, index, other)
  <2>1. CASE index[other] # entry
    <3>1. index[other] \in AllEntries
      BY DEF Consistent
    <3>2. LevelOf(bks2, index2[other]) = LevelOf(bks, index[other])
      BY <3>1, <1>1, <1>3, <1>4, <1>5, <2>1, SetLevelAt
    <3> QED BY <3>2 DEF NodeOf
  <2>2. CASE index[other] = entry
    <3>1. PICK k \in 1..Len(level.orders) :
            /\ level.orders[k].order_reference = other
            /\ NodeOf(bks, index, other) = level.orders[k]
      BY <2>2, NodeThere
    <3>2. k \in 1..Len(queue2) /\ queue2[k] = level.orders[k]
      BY <1>2
    <3>3. NodeOf(bks2, index2, other) = queue2[k]
      BY <2>2, <3>1, <3>2, <1>5, <1>6, <1>7, NodeIs
    <3> QED BY <3>1, <3>2, <3>3
  <2> QED BY <2>1, <2>2
<1> QED BY <1>8, <1>9 DEF bks2, index2

\* What Displayed is shown, in the proof's terms.
LEMMA ShownIsDisplayed ==
  /\ Displays!Quiet <=> /\ last_book_mutation' = None
                        /\ Shown(books, order_index)' = Shown(books, order_index)
                        /\ UNCHANGED next_fifo_sequence
  /\ UNCHANGED Displays!book <=> /\ Shown(books, order_index)' = Shown(books, order_index)
                                 /\ UNCHANGED <<next_fifo_sequence, last_book_mutation>>
BY DEF Displays!Quiet, Displays!book, Shown, View, NodeOf, Order, Position

\* A message that is refused, or about anything but displayed orders, is quiet.
LEMMA QuietMessage ==
  ASSUME UNCHANGED displayed, last_book_mutation' = None
  PROVE  Displays!Quiet
BY ShownIsDisplayed DEF displayed, Shown

\* An add shows one more order.
LEMMA AddShows ==
  ASSUME BookInv, NEW m \in Feed, m.type \in {"A", "F"}, AddError(m) = "ok", apply_add(m)
  PROVE  Displays!Arrive(m.type, m.ref, m.symbol, m.side, m.price, m.shares)
<1> DEFINE entry == [symbol |-> m.symbol, side |-> m.side, price |-> m.price]
           node == [order_reference |-> m.ref, stock_locate |-> m.locate,
                    remaining_shares |-> m.shares, fifo_sequence |-> next_fifo_sequence]
           order == [symbol |-> m.symbol, side |-> m.side, price |-> m.price,
                     shares |-> m.shares, arrival |-> next_fifo_sequence]
<1>1. /\ books' = Appended(books, entry, node)
      /\ order_index' = Put(order_index, m.ref, entry)
      /\ next_fifo_sequence' = next_fifo_sequence + 1
      /\ last_book_mutation' =
           [message_type |-> m.type, symbol |-> m.symbol, side |-> m.side,
            order_reference |-> m.ref, new_order_reference |-> None,
            event_quantity |-> m.shares, display_price |-> m.price]
  BY DEF apply_add, Succeed
<1>2. /\ LocateError(m.locate, m.symbol) = "ok" /\ m.shares # 0
      /\ m.ref \notin DOMAIN order_index
  BY DEF AddError
<1>3. /\ m.locate \in DOMAIN directories /\ directories[m.locate] = m.symbol
      /\ m.locate \in Locate /\ m.symbol \in Symbol
  BY <1>2, LocateChecked
<1>4. /\ m.ref \in OrderReference /\ m.side \in Side /\ m.price \in Price
      /\ m.shares \in Quantity
  BY FeedAssumption, FactualAssumption DEF FeedAssumption, FactualAssumption, Quantity
<1>5. /\ next_fifo_sequence \in 1..kMax
      /\ Consistent(books, order_index, next_fifo_sequence, directories)
  BY DEF BookInv, Rests
<1>6. entry \in AllEntries /\ node \in Node
  BY <1>3, <1>4, <1>5 DEF AllEntries, Node
<1>7. /\ node.order_reference = m.ref /\ node.remaining_shares = m.shares
      /\ node.fifo_sequence = next_fifo_sequence /\ node.stock_locate = m.locate
      /\ entry.symbol = m.symbol /\ View(entry, node) = order
  BY DEF View
<1> HIDE DEF entry, node
<1>8. /\ NodeOf(books', order_index', m.ref) = node
      /\ \A other \in DOMAIN order_index :
           NodeOf(books', order_index', other) = NodeOf(books, order_index, other)
  BY <1>1, <1>2, <1>3, <1>5, <1>6, <1>7, AppendedShown
<1>9. /\ DOMAIN order_index' = DOMAIN order_index \cup {m.ref}
      /\ order_index'[m.ref] = entry
      /\ \A other \in DOMAIN order_index : order_index'[other] = order_index[other]
  BY <1>1, <1>2 DEF Put
<1>10. Shown(books', order_index') =
         [other \in DOMAIN order_index \cup {m.ref} |->
            IF other = m.ref THEN order ELSE Shown(books, order_index)[other]]
  BY <1>2, <1>7, <1>8, <1>9 DEF Shown
<1>11. DOMAIN Shown(books, order_index) = DOMAIN order_index
  BY DEF Shown
<1> HIDE DEF order
<1>12. /\ m.ref \notin DOMAIN Shown(books, order_index)
       /\ Shown(books', order_index') =
            [other \in DOMAIN Shown(books, order_index) \cup {m.ref} |->
               IF other = m.ref THEN order ELSE Shown(books, order_index)[other]]
  BY <1>2, <1>10, <1>11
<1> QED BY <1>1, <1>12 DEF order, Displays!Arrive, Displays!Report, Displays!With, Shown, View,
           NodeOf, Order, Position

\* An execution or a cancel shows fewer shares, or one order less.
LEMMA LowerShows ==
  ASSUME BookInv, NEW type, NEW ref \in DOMAIN order_index, NEW shares \in Quantity \ {0},
         shares <= Order(ref).remaining_shares,
         books' = Lowered(ref, shares), order_index' = IndexWithout(ref, shares),
         last_book_mutation' = Mutation(type, ref, None, shares, order_index[ref].price),
         UNCHANGED next_fifo_sequence
  PROVE  Displays!Shrink(type, ref, shares)
<1> DEFINE shown == Shown(books, order_index)
           entry == order_index[ref]
<1>1. /\ Rests /\ Order(ref) \in Node /\ NodeOf(books, order_index, ref) = Order(ref)
      /\ shares \in Int
  <2>1. Rests /\ shares \in Int
    BY DEF BookInv, Quantity
  <2>2. Order(ref) \in Node
    BY <2>1, Located
  <2> QED BY <2>1, <2>2 DEF NodeOf, Order, Position
<1>2. /\ DOMAIN shown = DOMAIN order_index
      /\ shown[ref] = View(entry, Order(ref))
      /\ shown[ref].shares = Order(ref).remaining_shares
      /\ shown[ref].symbol = entry.symbol /\ shown[ref].side = entry.side
      /\ shown[ref].price = entry.price
  BY <1>1 DEF Shown, View
<1>3. CASE shares = Order(ref).remaining_shares
  <2>1. books' = Erased(ref) /\ order_index' = Drop(order_index, ref)
    BY <1>3 DEF Lowered, IndexWithout
  <2>2. \A other \in DOMAIN order_index \ {ref} :
          NodeOf(books', order_index', other) = NodeOf(books, order_index, other)
    BY <1>1, <2>1, ErasedShown
  <2>3. Shown(books', order_index') = [other \in DOMAIN order_index \ {ref} |-> shown[other]]
    BY <2>1, <2>2 DEF Shown, Drop
  <2> QED BY <1>2, <1>3, <2>3
         DEF Displays!Shrink, Displays!Report, Displays!Without, Mutation, Shown, View, NodeOf,
             Order, Position
<1>4. CASE shares # Order(ref).remaining_shares
  <2>1. order_index' = order_index
    BY <1>4 DEF IndexWithout
  <2>2. /\ NodeOf(books', order_index, ref)
             = [Order(ref) EXCEPT !.remaining_shares = @ - shares]
        /\ \A other \in DOMAIN order_index \ {ref} :
             NodeOf(books', order_index, other) = NodeOf(books, order_index, other)
    BY <1>1, <1>4, LoweredShown
  <2>3. View(entry, NodeOf(books', order_index, ref))
          = [shown[ref] EXCEPT !.shares = @ - shares]
    BY <1>1, <1>2, <2>2 DEF View, Node
  <2>4. Shown(books', order_index') = [shown EXCEPT ![ref].shares = @ - shares]
    BY <2>1, <2>2, <2>3 DEF Shown
  <2> QED BY <1>2, <1>4, <2>4
         DEF Displays!Shrink, Displays!Report, Mutation, Shown, View, NodeOf, Order, Position
<1> QED BY <1>3, <1>4

\* A delete shows one order less.
LEMMA DeleteShows ==
  ASSUME BookInv, NEW m \in Feed, DeleteError(m) = "ok", apply_delete(m)
  PROVE  m.ref \in OrderReference /\ Displays!Leave(m.ref)
<1> DEFINE ref == m.ref
           shown == Shown(books, order_index)
           entry == order_index[ref]
<1>1. /\ books' = Erased(ref) /\ order_index' = Drop(order_index, ref)
      /\ last_book_mutation' = Mutation("D", ref, None, Order(ref).remaining_shares, entry.price)
      /\ UNCHANGED next_fifo_sequence
  BY DEF apply_delete, Succeed
<1>2. ref \in DOMAIN order_index
  BY DEF DeleteError, OrderError
<1>3. /\ Rests /\ ref \in OrderReference
      /\ NodeOf(books, order_index, ref) = Order(ref)
  BY <1>2, Located DEF BookInv, NodeOf, Order, Position
<1>4. /\ DOMAIN shown = DOMAIN order_index
      /\ shown[ref].shares = Order(ref).remaining_shares
      /\ shown[ref].symbol = entry.symbol /\ shown[ref].side = entry.side
      /\ shown[ref].price = entry.price
  BY <1>2, <1>3 DEF Shown, View
<1>5. \A other \in DOMAIN order_index \ {ref} :
        NodeOf(books', order_index', other) = NodeOf(books, order_index, other)
  BY <1>1, <1>2, <1>3, ErasedShown
<1>6. Shown(books', order_index') = [other \in DOMAIN order_index \ {ref} |-> shown[other]]
  BY <1>1, <1>5 DEF Shown, Drop
<1> QED BY <1>1, <1>2, <1>3, <1>4, <1>6
       DEF Displays!Leave, Displays!Report, Displays!Without, Mutation, Shown, View, NodeOf,
           Order, Position

\* A replace shows the order gone and another behind all.
LEMMA ReplaceShows ==
  ASSUME BookInv, NEW m \in Feed, m.type = "U", ReplaceError(m) = "ok", apply_replace(m)
  PROVE  m.ref \in OrderReference /\ Displays!Replace(m.ref, m.new_ref, m.price, m.shares)
<1> DEFINE ref == m.ref
           entry == order_index[ref]
           target == [entry EXCEPT !.price = m.price]
           node == [order_reference |-> m.new_ref, stock_locate |-> Order(ref).stock_locate,
                    remaining_shares |-> m.shares, fifo_sequence |-> next_fifo_sequence]
           index == Drop(order_index, ref)
           shown == Shown(books, order_index)
           order == [shown[ref] EXCEPT !.price = m.price, !.shares = m.shares,
                                       !.arrival = next_fifo_sequence]
<1>1. /\ books' = Appended(Erased(ref), target, node)
      /\ order_index' = Put(index, m.new_ref, target)
      /\ next_fifo_sequence' = next_fifo_sequence + 1
      /\ last_book_mutation' = Mutation("U", ref, m.new_ref, m.shares, m.price)
  BY DEF apply_replace, Succeed
<1>2. /\ OrderError(ref, m.locate) = "ok" /\ m.shares # 0
      /\ m.new_ref \notin DOMAIN order_index
  BY DEF ReplaceError
<1>3. ref \in DOMAIN order_index
  BY <1>2 DEF OrderError
<1>4. m.new_ref \in OrderReference /\ m.price \in Price /\ m.shares \in Quantity
  BY FeedAssumption, FactualAssumption DEF FeedAssumption, FactualAssumption, Quantity
<1>5. next_fifo_sequence \in 1..kMax /\ Rests
  BY DEF BookInv, Rests
<1>6. /\ entry \in AllEntries /\ Order(ref) \in Node /\ ref \in OrderReference
      /\ Order(ref).stock_locate \in DOMAIN directories
      /\ directories[Order(ref).stock_locate] = entry.symbol
  BY <1>3, <1>5, Located DEF Queued
<1>7. /\ target \in AllEntries /\ target.symbol = entry.symbol /\ target.side = entry.side
      /\ target.price = m.price
  BY <1>4, <1>6 DEF AllEntries
<1>8. node \in Node
  BY <1>4, <1>5, <1>6 DEF Node
<1>9. Consistent(Erased(ref), index, next_fifo_sequence, directories)
  BY <1>3, <1>5, EraseKeeps
<1>10. /\ DOMAIN index = DOMAIN order_index \ {ref}
       /\ \A other \in DOMAIN index : index[other] = order_index[other]
  BY DEF Drop
<1>11. /\ node.order_reference = m.new_ref /\ node.remaining_shares = m.shares
       /\ node.fifo_sequence = next_fifo_sequence
       /\ node.stock_locate = Order(ref).stock_locate
  OBVIOUS
<1>12. /\ DOMAIN shown = DOMAIN order_index
       /\ shown[ref].symbol = entry.symbol /\ shown[ref].side = entry.side
       /\ View(target, node) = order
  <2>1. /\ DOMAIN shown = DOMAIN order_index
        /\ shown[ref] = View(entry, NodeOf(books, order_index, ref))
    BY <1>3 DEF Shown
  <2>2. order = [View(entry, NodeOf(books, order_index, ref)) EXCEPT
                   !.price = m.price, !.shares = m.shares, !.arrival = next_fifo_sequence]
    BY <2>1
  <2> HIDE DEF order
  <2>3. order = [symbol |-> entry.symbol, side |-> entry.side, price |-> m.price,
                 shares |-> m.shares, arrival |-> next_fifo_sequence]
    BY <2>2 DEF View
  <2>4. View(target, node) = order
    BY <2>3, <1>7, <1>11 DEF View
  <2> QED BY <2>1, <2>4 DEF View
<1> HIDE DEF target, node, index
<1>13. /\ NodeOf(books', order_index', m.new_ref) = node
       /\ \A other \in DOMAIN index :
            NodeOf(books', order_index', other) = NodeOf(Erased(ref), index, other)
  BY <1>1, <1>2, <1>5, <1>6, <1>7, <1>8, <1>9, <1>10, <1>11, AppendedShown
<1>14. \A other \in DOMAIN index :
         NodeOf(books', order_index', other) = NodeOf(books, order_index, other)
  BY <1>3, <1>5, <1>10, <1>13, ErasedShown DEF index
<1>15. /\ DOMAIN order_index' = DOMAIN index \cup {m.new_ref}
       /\ order_index'[m.new_ref] = target
       /\ \A other \in DOMAIN index : order_index'[other] = order_index[other]
  BY <1>1, <1>2, <1>10 DEF Put
<1>16. Shown(books', order_index') =
         [other \in DOMAIN index \cup {m.new_ref} |->
            IF other = m.new_ref THEN order ELSE shown[other]]
  BY <1>2, <1>10, <1>12, <1>13, <1>14, <1>15 DEF Shown
<1> DEFINE without == [other \in DOMAIN shown \ {ref} |-> shown[other]]
<1>17. Shown(books', order_index') =
         [other \in DOMAIN without \cup {m.new_ref} |->
            IF other = m.new_ref THEN order ELSE without[other]]
  BY <1>2, <1>10, <1>12, <1>16
<1>18. last_book_mutation' =
         [message_type |-> "U", symbol |-> order.symbol, side |-> order.side,
          order_reference |-> ref, new_order_reference |-> m.new_ref,
          event_quantity |-> m.shares, display_price |-> order.price]
  BY <1>1, <1>3, <1>12 DEF Mutation, Shown, View
<1>19. /\ ref \in DOMAIN shown /\ m.new_ref \notin DOMAIN shown
  BY <1>2, <1>3, <1>12
<1> HIDE DEF order, without
<1>20. Displays!Report("U", order, ref, m.new_ref, m.shares)
  BY <1>18 DEF Displays!Report
<1> QED BY <1>1, <1>6, <1>17, <1>19, <1>20
       DEF order, without, Displays!Replace, Displays!With, Displays!Without, Shown, View, NodeOf,
           Order, Position

\* Each message is a step of Displayed.
LEMMA MessageShows ==
  ASSUME BookInv, NEW m \in Feed, Apply(m)
  PROVE  Displays!Next
<1> USE DEF Apply, AboutStock, AboutMarket
<1>1. m.type \in {"S", "R", "A", "F", "E", "C", "X", "D", "U", "P", "Q", "B"}
                   \cup AboutStock \cup AboutMarket
  BY FactualAssumption DEF FactualAssumption
<1>2. ASSUME NEW category, Fail(category) PROVE Displays!Next
  BY <1>2, QuietMessage DEF Fail, facts, Displays!Next
<1>3. CASE m.type \in {"S", "R", "P", "Q", "B"} \cup AboutStock \cup AboutMarket
  <2>1. UNCHANGED displayed /\ last_book_mutation' = None
    BY <1>3 DEF apply_system_event, apply_directory, apply_trade, apply_broken_trade,
       apply_reference, Fail, Succeed, facts
  <2> QED BY <2>1, QuietMessage DEF Displays!Next
<1>4. m.type \in {"A", "F", "E", "C", "X", "U"} => m.shares \in Shares
  BY FeedAssumption DEF FeedAssumption
<1>5. CASE m.type \in {"A", "F"}
  <2>1. apply_add(m)
    BY <1>5
  <2>2. CASE Fail(AddError(m))
    BY <2>2, <1>2
  <2>3. CASE AddError(m) = "ok"
    <3>1. Displays!Arrive(m.type, m.ref, m.symbol, m.side, m.price, m.shares)
      BY <1>5, <2>1, <2>3, AddShows
    <3>2. /\ m.ref \in OrderReference /\ m.side \in {"Buy", "Sell"} /\ m.price \in Price
          /\ m.shares \in 0..kMax
      BY <1>5, FeedAssumption, FactualAssumption DEF FeedAssumption, FactualAssumption, Side
    <3>3. m.shares # 0 /\ LocateError(m.locate, m.symbol) = "ok"
      BY <2>3 DEF AddError
    <3>4. m.symbol \in Symbol
      BY <3>3, LocateChecked
    <3>5. m.shares \in 1..kMax
      BY <3>2, <3>3, FactualAssumption DEF FactualAssumption
    <3> QED BY <1>5, <3>1, <3>2, <3>4, <3>5 DEF Displays!Next
  <2> QED BY <2>1, <2>2, <2>3 DEF apply_add
<1>6. ASSUME m.type \in {"E", "C", "X"}, SharesError(m.ref, m.locate, m.shares) = "ok",
             books' = Lowered(m.ref, m.shares), order_index' = IndexWithout(m.ref, m.shares),
             last_book_mutation' =
               Mutation(m.type, m.ref, None, m.shares, order_index[m.ref].price),
             UNCHANGED next_fifo_sequence
      PROVE  Displays!Next
  <2>1. /\ m.ref \in DOMAIN order_index /\ m.shares \in Quantity \ {0}
        /\ m.shares <= Order(m.ref).remaining_shares
    BY <1>4, <1>6, SharesChecked
  <2>2. Displays!Shrink(m.type, m.ref, m.shares)
    BY <1>6, <2>1, LowerShows
  <2>3. m.ref \in OrderReference /\ m.shares \in 1..kMax
    BY <2>1, FactualAssumption DEF BookInv, Rests, Consistent, Quantity, FactualAssumption
  <2> QED BY <1>6, <2>2, <2>3 DEF Displays!Next
<1>7. CASE m.type \in {"E", "C"}
  <2>1. CASE Fail(ExecutionError(m))
    BY <2>1, <1>2
  <2>2. CASE /\ ExecutionError(m) = "ok"
             /\ books' = Lowered(m.ref, m.shares) /\ order_index' = IndexWithout(m.ref, m.shares)
             /\ last_book_mutation' =
                  Mutation(m.type, m.ref, None, m.shares, order_index[m.ref].price)
             /\ UNCHANGED next_fifo_sequence
    <3>1. SharesError(m.ref, m.locate, m.shares) = "ok"
      BY <2>2 DEF ExecutionError
    <3> QED BY <1>7, <2>2, <3>1, <1>6
  <2> QED BY <1>7, <2>1, <2>2 DEF apply_execution, Succeed
<1>8. CASE m.type = "X"
  <2>1. CASE Fail(CancelError(m))
    BY <2>1, <1>2
  <2>2. CASE /\ CancelError(m) = "ok"
             /\ books' = Lowered(m.ref, m.shares) /\ order_index' = IndexWithout(m.ref, m.shares)
             /\ last_book_mutation' =
                  Mutation(m.type, m.ref, None, m.shares, order_index[m.ref].price)
             /\ UNCHANGED next_fifo_sequence
    <3>1. SharesError(m.ref, m.locate, m.shares) = "ok"
      BY <2>2 DEF CancelError
    <3> QED BY <1>8, <2>2, <3>1, <1>6
  <2> QED BY <1>8, <2>1, <2>2 DEF apply_cancel, Succeed
<1>9. CASE m.type = "D"
  <2>1. apply_delete(m)
    BY <1>9
  <2>2. CASE Fail(DeleteError(m))
    BY <2>2, <1>2
  <2>3. CASE DeleteError(m) = "ok"
    BY <2>1, <2>3, DeleteShows DEF Displays!Next
  <2> QED BY <2>1, <2>2, <2>3 DEF apply_delete
<1>10. CASE m.type = "U"
  <2>1. apply_replace(m)
    BY <1>10
  <2>2. CASE Fail(ReplaceError(m))
    BY <2>2, <1>2
  <2>3. CASE ReplaceError(m) = "ok"
    <3>1. m.ref \in OrderReference /\ Displays!Replace(m.ref, m.new_ref, m.price, m.shares)
      BY <1>10, <2>1, <2>3, ReplaceShows
    <3>2. m.new_ref \in OrderReference /\ m.price \in Price /\ m.shares \in 0..kMax
      BY <1>10, FeedAssumption, FactualAssumption DEF FeedAssumption, FactualAssumption
    <3>3. m.shares # 0
      BY <2>3 DEF ReplaceError
    <3>4. m.shares \in 1..kMax
      BY <3>2, <3>3, FactualAssumption DEF FactualAssumption
    <3> QED BY <3>1, <3>2, <3>4 DEF Displays!Next
  <2> QED BY <2>1, <2>2, <2>3 DEF apply_replace
<1> QED BY <1>1, <1>3, <1>5, <1>7, <1>8, <1>9, <1>10

\* Every message moves the displayed orders exactly as the captured mutation
\* says, or leaves them alone and captures none (factual_book.cpp, the handlers
\* and last_book_mutation_): who follows the mutations alone, as the exporter
\* and the queue trackers do, follows the book.
THEOREM DisplayedIsImplemented == Spec => ImplementsDisplayed
<1>1. Init => Displays!Init
  <2> SUFFICES ASSUME Init PROVE Displays!Init
    OBVIOUS
  <2>1. DOMAIN order_index = {} /\ next_fifo_sequence = 1 /\ last_book_mutation = None
    BY DEF Init
  <2> QED BY <2>1 DEF Displays!Init
<1>2. BookInv /\ [Next]_vars => [Displays!Next]_(Displays!book)
  <2> SUFFICES ASSUME BookInv, [Next]_vars PROVE [Displays!Next]_(Displays!book)
    OBVIOUS
  <2>1. CASE UNCHANGED vars
    <3>1. UNCHANGED Displays!book
      BY <2>1, ShownIsDisplayed DEF vars, facts, displayed, Shown
    <3> QED BY <3>1
  <2>2. CASE Next
    <3>1. PICK m \in Feed : Apply(m)
      BY <2>2 DEF Next
    <3> QED BY <3>1, MessageShows
  <2> QED BY <2>1, <2>2
<1> QED BY <1>1, <1>2, BookInvariant, PTL DEF Spec, ImplementsDisplayed, Displays!Spec

----------------------------------------------------------------------------
(* Sums of shares: levels and books *)

SharesIn(queue) == SumFunction([i \in DOMAIN queue |-> queue[i].remaining_shares])

\* The cached aggregates are the sums of their queues.
Summed(bks) ==
  bks \in Books /\ \A e \in AllEntries :
    LevelOf(bks, e).aggregate_shares = SharesIn(LevelOf(bks, e).orders)

\* All the shares displayed.
Total(bks) == SumFunction([e \in AllEntries |-> LevelOf(bks, e).aggregate_shares])

\* There are finitely many levels a feed can name.
LEMMA EntriesFinite == IsFiniteSet(AllEntries)
<1> DEFINE Triples == (Symbol \X Side) \X Price
           f == [t \in Triples |-> [symbol |-> t[1][1], side |-> t[1][2], price |-> t[2]]]
<1>1. IsFiniteSet(Symbol) /\ IsFiniteSet(Price)
  BY FactualAssumption DEF FactualAssumption
<1>2. IsFiniteSet(Side)
  <2>1. IsFiniteSet({"Buy"})
    BY FS_Singleton
  <2>2. IsFiniteSet({"Buy"} \cup {"Sell"})
    BY <2>1, FS_AddElement
  <2> QED BY <2>2 DEF Side
<1>3. IsFiniteSet(Triples)
  BY <1>1, <1>2, FS_Product
<1>4. f \in Surjection(Triples, AllEntries)
  <2>1. \A t \in Triples : f[t] \in AllEntries
    BY DEF AllEntries
  <2>2. ASSUME NEW e \in AllEntries PROVE \E t \in Triples : f[t] = e
    <3>1. /\ e.symbol \in Symbol /\ e.side \in Side /\ e.price \in Price
          /\ e = [symbol |-> e.symbol, side |-> e.side, price |-> e.price]
      BY DEF AllEntries
    <3>2. <<<<e.symbol, e.side>>, e.price>> \in Triples
      BY <3>1
    <3>3. f[<<<<e.symbol, e.side>>, e.price>>] = e
      BY <3>1, <3>2
    <3> QED BY <3>2, <3>3
  <2> QED BY <2>1, <2>2 DEF Surjection
<1> QED BY <1>3, <1>4, FS_Surjection

LEMMA QueueAddable ==
  ASSUME NEW queue \in Seq(Node)
  PROVE  /\ Addable([i \in DOMAIN queue |-> queue[i].remaining_shares], 1..Len(queue))
         /\ \A i \in 1..Len(queue) :
              queue[i].remaining_shares \in Nat /\ queue[i].remaining_shares <= SharesIn(queue)
         /\ SharesIn(queue) \in Nat
<1> DEFINE f == [i \in DOMAIN queue |-> queue[i].remaining_shares]
<1>1. DOMAIN f = 1..Len(queue) /\ Len(queue) \in Nat
  OBVIOUS
<1>2. ASSUME NEW i \in 1..Len(queue) PROVE f[i] \in Nat /\ f[i] = queue[i].remaining_shares
  <2>1. queue[i] \in Node
    BY ElementOfSeq
  <2> QED BY <2>1 DEF Node, Quantity
<1>3. IsFiniteSet(1..Len(queue))
  BY <1>1, FS_Interval
<1> HIDE DEF f
<1>4. Addable(f, 1..Len(queue))
  BY <1>1, <1>2, <1>3 DEF Addable
<1>5. SumFunction(f) \in Nat /\ \A i \in 1..Len(queue) : f[i] <= SumFunction(f)
  BY <1>2, <1>4, SumNat
<1> QED BY <1>2, <1>4, <1>5 DEF f, SharesIn

\* The shares of a queue, a node unlinked.
LEMMA SharesUnlinked ==
  ASSUME NEW queue \in Seq(Node), NEW i \in 1..Len(queue)
  PROVE  SharesIn(RemoveAt(queue, i)) = SharesIn(queue) - queue[i].remaining_shares
<1> DEFINE n == Len(queue)
           queue2 == RemoveAt(queue, i)
           f == [j \in DOMAIN queue |-> queue[j].remaining_shares]
           g == [j \in DOMAIN queue2 |-> queue2[j].remaining_shares]
<1>1. n \in Nat /\ DOMAIN queue = 1..n
  OBVIOUS
<1>2. /\ queue2 \in Seq(Node) /\ Len(queue2) = n - 1
      /\ \A j \in 1..(n - 1) : queue2[j] = IF j < i THEN queue[j] ELSE queue[j + 1]
  BY RemoveAtProperties
<1>3. DOMAIN queue2 = 1..(n - 1)
  BY <1>2
<1>4. Addable(f, 1..n) /\ Addable(g, 1..(n - 1))
  BY <1>2, QueueAddable
<1>5. \A j \in 1..(n - 1) : g[j] = IF j < i THEN f[j] ELSE f[j + 1]
  BY <1>1, <1>2, <1>3
<1>6. f[i] = queue[i].remaining_shares
  BY <1>1
<1> HIDE DEF f, g, n, queue2
<1>7. SumFunction(g) = SumFunction(f) - f[i]
  BY <1>1, <1>4, <1>5, SumUnlinked DEF n
<1> QED BY <1>6, <1>7 DEF f, g, queue2, SharesIn

\* The shares of a queue, one node lowered.
LEMMA SharesLowered ==
  ASSUME NEW queue \in Seq(Node), NEW i \in 1..Len(queue), NEW shares \in Quantity
  PROVE  SharesIn([queue EXCEPT ![i].remaining_shares = shares])
           = SharesIn(queue) + shares - queue[i].remaining_shares
<1> DEFINE n == Len(queue)
           node == [queue[i] EXCEPT !.remaining_shares = shares]
           queue2 == [queue EXCEPT ![i] = node]
           f == [j \in DOMAIN queue |-> queue[j].remaining_shares]
           g == [j \in DOMAIN queue2 |-> queue2[j].remaining_shares]
<1>1. n \in Nat /\ DOMAIN queue = 1..n
  OBVIOUS
<1>2. queue[i] \in Node
  BY ElementOfSeq
<1>3. node \in Node /\ node.remaining_shares = shares
  BY <1>2 DEF Node
<1> HIDE DEF node
<1>4. queue2 \in Seq(Node) /\ Len(queue2) = n /\ queue2[i] = node
      /\ \A j \in 1..n : j # i => queue2[j] = queue[j]
  BY <1>3, ExceptSeq
<1>5. DOMAIN queue2 = 1..n
  BY <1>4
<1>6. Addable(f, 1..n) /\ Addable(g, 1..n)
  BY <1>4, QueueAddable
<1>7. (\A j \in (1..n) \ {i} : g[j] = f[j]) /\ g[i] = shares /\ f[i] = queue[i].remaining_shares
  BY <1>1, <1>3, <1>4, <1>5
<1> HIDE DEF f, g, n, queue2
<1>8. SumFunction(g) = SumFunction(f) + g[i] - f[i]
  BY <1>6, <1>7, SumChange DEF n
<1> QED BY <1>7, <1>8 DEF f, g, queue2, node, SharesIn

\* The shares of a queue, a node appended.
LEMMA SharesAppended ==
  ASSUME NEW queue \in Seq(Node), NEW node \in Node
  PROVE  SharesIn(Append(queue, node)) = SharesIn(queue) + node.remaining_shares
<1> DEFINE n == Len(queue)
           queue2 == Append(queue, node)
           f == [j \in DOMAIN queue |-> queue[j].remaining_shares]
           g == [j \in DOMAIN queue2 |-> queue2[j].remaining_shares]
<1>1. n \in Nat /\ DOMAIN queue = 1..n
  OBVIOUS
<1>2. /\ queue2 \in Seq(Node) /\ Len(queue2) = n + 1 /\ queue2[n + 1] = node
      /\ \A j \in 1..n : queue2[j] = queue[j]
  OBVIOUS
<1>3. DOMAIN queue2 = 1..(n + 1)
  BY <1>2
<1>4. Addable(f, 1..n) /\ Addable(g, 1..(n + 1))
  BY <1>2, QueueAddable
<1>5. (\A j \in 1..n : g[j] = f[j]) /\ g[n + 1] = node.remaining_shares
  BY <1>1, <1>2, <1>3
<1> DEFINE m == n + 1
<1>6. m \in Nat /\ m # 0 /\ m - 1 = n
  BY <1>1
<1> HIDE DEF f, g, n, queue2, m
<1>7. SumFunction(g) = SumFunction(f) + g[m]
  <2>1. Addable(g, 1..m) /\ Addable(f, 1..(m - 1))
    BY <1>4, <1>6 DEF m
  <2>2. \A j \in 1..(m - 1) : f[j] = g[j]
    BY <1>5, <1>6
  <2> QED BY <1>6, <2>1, <2>2, SumLast
<1> QED BY <1>5, <1>7 DEF f, g, m, queue2, SharesIn

\* One level changes, and with it the total.
LEMMA LevelCounted ==
  ASSUME NEW bks, Summed(bks), NEW entry \in AllEntries, NEW level \in Level,
         level.aggregate_shares = SharesIn(level.orders)
  PROVE  /\ Summed(SetLevel(bks, entry, level))
         /\ Total(SetLevel(bks, entry, level))
              = Total(bks) + level.aggregate_shares - LevelOf(bks, entry).aggregate_shares
<1> DEFINE bks2 == SetLevel(bks, entry, level)
           f == [e \in AllEntries |-> LevelOf(bks, e).aggregate_shares]
           g == [e \in AllEntries |-> LevelOf(bks2, e).aggregate_shares]
<1>1. bks \in Books
  BY DEF Summed
<1>2. /\ bks2 \in Books /\ LevelOf(bks2, entry) = level
      /\ \A other \in AllEntries : other # entry => LevelOf(bks2, other) = LevelOf(bks, other)
  BY <1>1, SetLevelAt
<1> HIDE DEF bks2
<1>3. Summed(bks2)
  BY <1>2 DEF Summed
<1>4. \A e \in AllEntries : f[e] \in Int /\ g[e] \in Int
  BY <1>1, <1>2, LevelTyped DEF Quantity
<1>5. DOMAIN f = AllEntries /\ DOMAIN g = AllEntries
  OBVIOUS
<1>6. (\A e \in AllEntries \ {entry} : g[e] = f[e]) /\ g[entry] = level.aggregate_shares
      /\ f[entry] = LevelOf(bks, entry).aggregate_shares
  BY <1>2
<1> HIDE DEF f, g
<1>7. Addable(f, AllEntries) /\ Addable(g, AllEntries)
  BY <1>4, <1>5, EntriesFinite DEF Addable
<1>8. SumFunction(g) = SumFunction(f) + g[entry] - f[entry]
  BY <1>6, <1>7, SumChange
<1> QED BY <1>3, <1>6, <1>8 DEF Total, f, g, bks2

LEMMA TotalNat == ASSUME NEW bks, Summed(bks) PROVE Total(bks) \in Nat
<1> DEFINE f == [e \in AllEntries |-> LevelOf(bks, e).aggregate_shares]
<1>1. \A e \in AllEntries : f[e] \in Nat
  BY LevelTyped DEF Summed, Quantity
<1>2. DOMAIN f = AllEntries
  OBVIOUS
<1> HIDE DEF f
<1>3. Addable(f, AllEntries)
  BY <1>1, <1>2, EntriesFinite DEF Addable
<1>4. SumFunction(f) \in Nat
  BY <1>1, <1>3, SumNat
<1> QED BY <1>4 DEF f, Total

\* Unsigned arithmetic that does not wrap.
LEMMA WrapKeeps == \A n \in Quantity : Wrap(n) = n
BY FactualAssumption DEF FactualAssumption, Wrap, Quantity

\* An order and its level, where the books are counted.
LEMMA OrderCounted ==
  ASSUME Rests, Summed(books), NEW ref \in DOMAIN order_index
  PROVE  LET level == LevelOf(books, order_index[ref])
         IN  /\ order_index[ref] \in AllEntries /\ level.orders \in Seq(Node)
             /\ Position(ref) \in 1..Len(level.orders)
             /\ Order(ref) = level.orders[Position(ref)]
             /\ Order(ref).remaining_shares \in Quantity
             /\ level.aggregate_shares \in Quantity
             /\ level.aggregate_shares = SharesIn(level.orders)
             /\ Order(ref).remaining_shares <= level.aggregate_shares
             /\ Erased(ref) = SetLevel(books, order_index[ref],
                  [aggregate_shares |->
                     Wrap(level.aggregate_shares - Order(ref).remaining_shares),
                   orders |-> RemoveAt(level.orders, Position(ref))])
<1> DEFINE level == LevelOf(books, order_index[ref])
           queue == level.orders
<1>1. /\ order_index[ref] \in AllEntries
      /\ Queued(queue, order_index[ref], order_index, next_fifo_sequence, directories)
      /\ Position(ref) \in 1..Len(queue)
      /\ Order(ref) = queue[Position(ref)]
      /\ Order(ref).remaining_shares \in Quantity
      /\ level.aggregate_shares \in Quantity
  BY Located DEF Node
<1>2. queue \in Seq(Node) /\ level.aggregate_shares = SharesIn(queue)
  BY <1>1 DEF Queued, Summed
<1>3. queue[Position(ref)].remaining_shares <= SharesIn(queue)
  BY <1>1, <1>2, QueueAddable
<1>4. Order(ref).remaining_shares <= level.aggregate_shares
  BY <1>1, <1>2, <1>3
<1> QED BY <1>1, <1>2, <1>4 DEF Erased

\* An order that is erased takes its shares with it.
LEMMA ErasedCounted ==
  ASSUME Rests, Summed(books), NEW ref \in DOMAIN order_index
  PROVE  /\ Summed(Erased(ref))
         /\ Total(Erased(ref)) = Total(books) - Order(ref).remaining_shares
         /\ \A e \in AllEntries :
              LevelOf(Erased(ref), e).aggregate_shares =
                LevelOf(books, e).aggregate_shares
                  - (IF e = order_index[ref] THEN Order(ref).remaining_shares ELSE 0)
<1> DEFINE entry == order_index[ref]
           level == LevelOf(books, entry)
           queue == level.orders
           i == Position(ref)
           shares == Order(ref).remaining_shares
           left == level.aggregate_shares - shares
           level2 == [aggregate_shares |-> Wrap(left), orders |-> RemoveAt(queue, i)]
<1>1. /\ entry \in AllEntries /\ queue \in Seq(Node) /\ i \in 1..Len(queue)
      /\ shares = queue[i].remaining_shares /\ shares \in Quantity
      /\ level.aggregate_shares \in Quantity
      /\ level.aggregate_shares = SharesIn(queue) /\ shares <= level.aggregate_shares
      /\ Erased(ref) = SetLevel(books, entry, level2)
  BY OrderCounted
<1> HIDE DEF entry, shares, i
<1>2. left \in Quantity /\ left = level.aggregate_shares - shares
  BY <1>1, QuantityLeft
<1>3. Wrap(left) = left
  BY <1>2, WrapKeeps
<1>4. RemoveAt(queue, i) \in Seq(Node)
  BY <1>1, RemoveAtProperties
<1>5. SharesIn(RemoveAt(queue, i)) = SharesIn(queue) - queue[i].remaining_shares
  BY <1>1, SharesUnlinked
<1>6. level2 \in Level /\ level2.aggregate_shares = left
      /\ level2.aggregate_shares = SharesIn(level2.orders)
  BY <1>1, <1>2, <1>3, <1>4, <1>5 DEF Level
<1> HIDE DEF level2
<1>7. /\ Summed(SetLevel(books, entry, level2))
      /\ Total(SetLevel(books, entry, level2)) = Total(books) + left - level.aggregate_shares
  BY <1>1, <1>6, LevelCounted
<1>8. Total(books) + left - level.aggregate_shares = Total(books) - shares
  BY <1>1, <1>2, TotalNat DEF Quantity
<1>9. ASSUME NEW e \in AllEntries
      PROVE  LevelOf(Erased(ref), e).aggregate_shares =
               LevelOf(books, e).aggregate_shares - (IF e = entry THEN shares ELSE 0)
  <2>1. books \in Books
    BY DEF Summed
  <2>2. LevelOf(books, e).aggregate_shares \in Int
    BY <2>1, LevelTyped DEF Quantity
  <2>3. CASE e = entry
    <3>1. LevelOf(Erased(ref), e) = level2
      BY <1>1, <1>6, <2>1, <2>3, SetLevelAt
    <3> QED BY <1>2, <1>6, <2>3, <3>1
  <2>4. CASE e # entry
    <3>1. LevelOf(Erased(ref), e) = LevelOf(books, e)
      BY <1>1, <1>6, <2>1, <2>4, SetLevelAt
    <3> QED BY <2>2, <2>4, <3>1
  <2> QED BY <2>3, <2>4
<1> QED BY <1>1, <1>7, <1>8, <1>9 DEF entry, shares

\* So do the shares that leave one.
LEMMA LoweredCounted ==
  ASSUME Rests, Summed(books), NEW ref \in DOMAIN order_index,
         NEW shares \in Quantity, shares <= Order(ref).remaining_shares
  PROVE  /\ Summed(Lowered(ref, shares))
         /\ Total(Lowered(ref, shares)) = Total(books) - shares
<1>1. CASE shares = Order(ref).remaining_shares
  BY <1>1, ErasedCounted DEF Lowered
<1>2. CASE shares # Order(ref).remaining_shares
  <2> DEFINE entry == order_index[ref]
             level == LevelOf(books, entry)
             queue == level.orders
             i == Position(ref)
             rest == queue[i].remaining_shares - shares
             left == level.aggregate_shares - shares
             level2 == [aggregate_shares |-> Wrap(left),
                        orders |-> [queue EXCEPT ![i].remaining_shares = rest]]
  <2>1. /\ entry \in AllEntries /\ queue \in Seq(Node) /\ i \in 1..Len(queue)
        /\ Order(ref) = queue[i] /\ queue[i].remaining_shares \in Quantity
        /\ level.aggregate_shares \in Quantity
        /\ level.aggregate_shares = SharesIn(queue)
        /\ queue[i].remaining_shares <= level.aggregate_shares
        /\ shares <= queue[i].remaining_shares
    BY OrderCounted
  <2>2. Lowered(ref, shares) = SetLevel(books, entry, level2)
    <3>1. [queue EXCEPT ![i].remaining_shares = @ - shares]
            = [queue EXCEPT ![i].remaining_shares = rest]
      BY <2>1
    <3> QED BY <1>2, <3>1 DEF Lowered
  <2> HIDE DEF entry, i
  <2>3. rest \in Quantity /\ left \in Quantity
    <3>1. shares <= level.aggregate_shares
      BY <2>1 DEF Quantity
    <3> QED BY <2>1, <3>1, QuantityLeft
  <2>4. Wrap(left) = left
    BY <2>3, WrapKeeps
  <2>5. SharesIn([queue EXCEPT ![i].remaining_shares = rest])
          = SharesIn(queue) + rest - queue[i].remaining_shares
    BY <2>1, <2>3, SharesLowered
  <2>6. SharesIn(queue) + rest - queue[i].remaining_shares = left
    BY <2>1, <2>3 DEF Quantity
  <2>7. [queue EXCEPT ![i].remaining_shares = rest] \in Seq(Node)
    <3> DEFINE node == [queue[i] EXCEPT !.remaining_shares = rest]
    <3>1. queue[i] \in Node
      BY <2>1, ElementOfSeq
    <3>2. node \in Node
      BY <2>3, <3>1 DEF Node
    <3> HIDE DEF node
    <3>3. [queue EXCEPT ![i] = node] \in Seq(Node)
      BY <2>1, <3>2, ExceptSeq
    <3> QED BY <3>3 DEF node
  <2>8. level2 \in Level /\ level2.aggregate_shares = left
        /\ level2.aggregate_shares = SharesIn(level2.orders)
    BY <2>3, <2>4, <2>5, <2>6, <2>7 DEF Level
  <2> HIDE DEF level2
  <2>9. /\ Summed(SetLevel(books, entry, level2))
        /\ Total(SetLevel(books, entry, level2)) = Total(books) + left - level.aggregate_shares
    BY <2>1, <2>8, LevelCounted
  <2>10. Total(books) + left - level.aggregate_shares = Total(books) - shares
    BY <2>1, <2>3, TotalNat DEF Quantity
  <2> QED BY <2>2, <2>9, <2>10
<1> QED BY <1>1, <1>2

\* An order that arrives brings its shares.
LEMMA AppendedCounted ==
  ASSUME NEW bks, Summed(bks), NEW entry \in AllEntries, NEW node \in Node,
         can_add(LevelOf(bks, entry).aggregate_shares, node.remaining_shares)
  PROVE  /\ Summed(Appended(bks, entry, node))
         /\ Total(Appended(bks, entry, node)) = Total(bks) + node.remaining_shares
<1> DEFINE level == LevelOf(bks, entry)
           queue == level.orders
           shares == node.remaining_shares
           sum == level.aggregate_shares + shares
           level2 == [aggregate_shares |-> Wrap(sum), orders |-> Append(queue, node)]
<1>1. /\ level.aggregate_shares \in Quantity /\ queue \in Seq(Node)
      /\ level.aggregate_shares = SharesIn(queue)
  BY LevelTyped DEF Summed
<1>2. shares \in Quantity
  BY DEF Node
<1>3. sum \in Quantity
  BY <1>1, <1>2, FactualAssumption DEF can_add, Quantity, FactualAssumption
<1>4. Wrap(sum) = sum
  BY <1>3, WrapKeeps
<1>5. SharesIn(Append(queue, node)) = SharesIn(queue) + shares /\ Append(queue, node) \in Seq(Node)
  BY <1>1, SharesAppended
<1>6. level2 \in Level /\ level2.aggregate_shares = sum
      /\ level2.aggregate_shares = SharesIn(level2.orders)
  BY <1>1, <1>3, <1>4, <1>5 DEF Level
<1>7. Appended(bks, entry, node) = SetLevel(bks, entry, level2)
  BY DEF Appended
<1> HIDE DEF level2
<1>8. /\ Summed(SetLevel(bks, entry, level2))
      /\ Total(SetLevel(bks, entry, level2)) = Total(bks) + sum - level.aggregate_shares
  BY <1>6, LevelCounted
<1>9. Total(bks) + sum - level.aggregate_shares = Total(bks) + shares
  BY <1>1, <1>2, TotalNat DEF Quantity
<1> QED BY <1>7, <1>8, <1>9

----------------------------------------------------------------------------
(* Shares are conserved *)

Conserved(vols, total) ==
  vols["displayed_add"] = total + vols["displayed_cancel"] + vols["displayed_execute"]

\* Every message keeps the aggregates, and the shares displayed accounted for.
LEMMA MessageConserves ==
  ASSUME BookInv, Summed(books), Conserved(volumes, Total(books)), NEW m \in Feed, Apply(m)
  PROVE  Summed(books') /\ Conserved(volumes', Total(books'))
<1> USE DEF Apply, AboutStock, AboutMarket
<1>1. m.type \in {"S", "R", "A", "F", "E", "C", "X", "D", "U", "P", "Q", "B"}
                   \cup AboutStock \cup AboutMarket
  BY FactualAssumption DEF FactualAssumption
<1>2. /\ volumes \in [Counter -> Quantity] /\ Rests
      /\ Total(books) \in Nat
  BY TotalNat DEF BookInv
<1>3. /\ volumes["displayed_add"] \in Int /\ volumes["displayed_cancel"] \in Int
      /\ volumes["displayed_execute"] \in Int
      /\ \A c \in {"displayed_add", "displayed_cancel", "displayed_execute"} : c \in DOMAIN volumes
  BY <1>2 DEF Counter, Quantity
<1>4. ASSUME UNCHANGED <<books, volumes>>
      PROVE  Summed(books') /\ Conserved(volumes', Total(books'))
  BY <1>4
<1>5. ASSUME NEW category, Fail(category) PROVE UNCHANGED <<books, volumes>>
  BY <1>5 DEF Fail, facts, displayed
<1>6. m.type \in {"A", "F", "E", "C", "X", "U", "P", "Q"} => m.shares \in Quantity
  BY FeedAssumption, FactualAssumption DEF FeedAssumption, FactualAssumption, Quantity
<1>7. CASE m.type \in {"S", "R"} \cup AboutStock \cup AboutMarket
  <2>1. UNCHANGED <<books, volumes>>
    BY <1>5, <1>7 DEF apply_system_event, apply_directory, apply_reference, displayed
  <2> QED BY <1>4, <2>1
<1>8. CASE m.type \in {"P", "Q", "B"}
  <2>1. CASE UNCHANGED <<books, volumes>>
    BY <1>4, <2>1
  <2>2. CASE /\ UNCHANGED books
             /\ \A c \in {"displayed_add", "displayed_cancel", "displayed_execute"} :
                  volumes'[c] = volumes[c]
    BY <2>2 DEF Conserved
  <2>3. ASSUME apply_trade(m), TradeError(m) = "ok"
        PROVE  /\ UNCHANGED books
               /\ volumes' = [volumes EXCEPT !["printable_trade"] = @ + m.shares]
    BY <2>3 DEF apply_trade, Fail, displayed
  <2>4. ASSUME apply_broken_trade(m), BrokenError(m) = "ok"
        PROVE  /\ UNCHANGED books
               /\ volumes' = [volumes EXCEPT
                                !["broken_trade"] = @ + trades[trade_index[m.match]].shares]
    BY <2>4 DEF apply_broken_trade, Fail, displayed
  <2>5. CASE m.type \in {"P", "Q"}
    BY <1>3, <1>5, <2>1, <2>2, <2>3, <2>5 DEF apply_trade
  <2>6. CASE m.type = "B"
    BY <1>3, <1>5, <2>1, <2>2, <2>4, <2>6 DEF apply_broken_trade
  <2> QED BY <1>8, <2>5, <2>6
<1>9. CASE m.type \in {"A", "F"}
  <2>1. CASE Fail(AddError(m))
    BY <1>4, <1>5, <2>1
  <2>2. CASE AddError(m) = "ok" /\ apply_add(m)
    <3> DEFINE entry == [symbol |-> m.symbol, side |-> m.side, price |-> m.price]
               node == [order_reference |-> m.ref, stock_locate |-> m.locate,
                        remaining_shares |-> m.shares, fifo_sequence |-> next_fifo_sequence]
    <3>1. /\ books' = Appended(books, entry, node)
          /\ volumes' = [volumes EXCEPT !["displayed_add"] = @ + m.shares]
      BY <2>2 DEF apply_add
    <3>2. /\ LocateError(m.locate, m.symbol) = "ok"
          /\ can_add(LevelOf(books, entry).aggregate_shares, m.shares)
      BY <2>2 DEF AddError
    <3>3. m.locate \in Locate /\ m.symbol \in Symbol
      BY <3>2, LocateChecked
    <3>4. /\ m.ref \in OrderReference /\ m.side \in Side /\ m.price \in Price
          /\ next_fifo_sequence \in 1..kMax
      BY <1>2, <1>9, FeedAssumption DEF FeedAssumption, Rests
    <3>5. entry \in AllEntries /\ node \in Node /\ node.remaining_shares = m.shares
      BY <1>6, <1>9, <3>3, <3>4 DEF AllEntries, Node
    <3> HIDE DEF entry, node
    <3>6. /\ Summed(Appended(books, entry, node))
          /\ Total(Appended(books, entry, node)) = Total(books) + m.shares
      BY <3>2, <3>5, AppendedCounted
    <3>7. m.shares \in Int
      BY <1>6, <1>9 DEF Quantity
    <3>8. /\ volumes'["displayed_add"] = volumes["displayed_add"] + m.shares
          /\ volumes'["displayed_cancel"] = volumes["displayed_cancel"]
          /\ volumes'["displayed_execute"] = volumes["displayed_execute"]
      BY <1>3, <3>1
    <3> QED BY <1>2, <1>3, <3>1, <3>6, <3>7, <3>8 DEF Conserved
  <2> QED BY <1>9, <2>1, <2>2 DEF apply_add
<1>10. ASSUME m.type \in {"E", "C", "X"}, SharesError(m.ref, m.locate, m.shares) = "ok",
              books' = Lowered(m.ref, m.shares),
              NEW c \in {"displayed_cancel", "displayed_execute"},
              volumes'[c] = volumes[c] + m.shares,
              \A d \in {"displayed_add", "displayed_cancel", "displayed_execute"} :
                d # c => volumes'[d] = volumes[d]
       PROVE  Summed(books') /\ Conserved(volumes', Total(books'))
  <2>1. m.shares \in Shares
    BY <1>10, FeedAssumption DEF FeedAssumption
  <2>2. /\ m.ref \in DOMAIN order_index /\ m.shares \in Quantity
        /\ m.shares <= Order(m.ref).remaining_shares
    BY <1>10, <2>1, SharesChecked
  <2>3. /\ Summed(Lowered(m.ref, m.shares))
        /\ Total(Lowered(m.ref, m.shares)) = Total(books) - m.shares
    BY <1>2, <2>2, LoweredCounted
  <2>4. m.shares \in Int
    BY <2>2 DEF Quantity
  <2> QED BY <1>2, <1>3, <1>10, <2>3, <2>4 DEF Conserved
<1>11. CASE m.type \in {"E", "C"}
  <2>1. CASE Fail(ExecutionError(m))
    BY <1>4, <1>5, <2>1
  <2>2. CASE ExecutionError(m) = "ok" /\ apply_execution(m)
    <3>1. SharesError(m.ref, m.locate, m.shares) = "ok"
      BY <2>2 DEF ExecutionError
    <3>2. /\ books' = Lowered(m.ref, m.shares)
          /\ volumes' = [volumes EXCEPT !["displayed_execute"] = @ + m.shares,
                                        ![TradeCounter(m.printable)] = @ + m.shares]
      BY <2>2 DEF apply_execution
    <3>3. TradeCounter(m.printable)
            \notin {"displayed_add", "displayed_cancel", "displayed_execute"}
      BY DEF TradeCounter
    <3>4. /\ volumes'["displayed_execute"] = volumes["displayed_execute"] + m.shares
          /\ volumes'["displayed_cancel"] = volumes["displayed_cancel"]
          /\ volumes'["displayed_add"] = volumes["displayed_add"]
      BY <1>3, <3>2, <3>3
    <3> QED BY <1>10, <1>11, <3>1, <3>2, <3>4
  <2> QED BY <1>11, <2>1, <2>2 DEF apply_execution
<1>12. CASE m.type = "X"
  <2>1. CASE Fail(CancelError(m))
    BY <1>4, <1>5, <2>1
  <2>2. CASE CancelError(m) = "ok" /\ apply_cancel(m)
    <3>1. SharesError(m.ref, m.locate, m.shares) = "ok"
      BY <2>2 DEF CancelError
    <3>2. /\ books' = Lowered(m.ref, m.shares)
          /\ volumes' = [volumes EXCEPT !["displayed_cancel"] = @ + m.shares]
      BY <2>2 DEF apply_cancel
    <3>3. /\ volumes'["displayed_cancel"] = volumes["displayed_cancel"] + m.shares
          /\ volumes'["displayed_execute"] = volumes["displayed_execute"]
          /\ volumes'["displayed_add"] = volumes["displayed_add"]
      BY <1>3, <3>2
    <3> QED BY <1>10, <1>12, <3>1, <3>2, <3>3
  <2> QED BY <1>12, <2>1, <2>2 DEF apply_cancel
<1>13. CASE m.type = "D"
  <2>1. CASE Fail(DeleteError(m))
    BY <1>4, <1>5, <2>1
  <2>2. CASE DeleteError(m) = "ok" /\ apply_delete(m)
    <3>1. m.ref \in DOMAIN order_index
      BY <2>2 DEF DeleteError, OrderError
    <3>2. /\ books' = Erased(m.ref)
          /\ volumes' = [volumes EXCEPT !["displayed_cancel"] = @ + Order(m.ref).remaining_shares]
      BY <2>2 DEF apply_delete
    <3>3. Order(m.ref).remaining_shares \in Int
      BY <1>2, <3>1, Located DEF Node, Quantity
    <3>4. /\ Summed(Erased(m.ref))
          /\ Total(Erased(m.ref)) = Total(books) - Order(m.ref).remaining_shares
      BY <1>2, <3>1, ErasedCounted
    <3>5. /\ volumes'["displayed_cancel"]
               = volumes["displayed_cancel"] + Order(m.ref).remaining_shares
          /\ volumes'["displayed_execute"] = volumes["displayed_execute"]
          /\ volumes'["displayed_add"] = volumes["displayed_add"]
      BY <1>3, <3>2
    <3> QED BY <1>2, <1>3, <3>2, <3>3, <3>4, <3>5 DEF Conserved
  <2> QED BY <1>13, <2>1, <2>2 DEF apply_delete
<1>14. CASE m.type = "U"
  <2>1. CASE Fail(ReplaceError(m))
    BY <1>4, <1>5, <2>1
  <2>2. CASE ReplaceError(m) = "ok" /\ apply_replace(m)
    <3> DEFINE entry == order_index[m.ref]
               target == [entry EXCEPT !.price = m.price]
               node == [order_reference |-> m.new_ref, stock_locate |-> Order(m.ref).stock_locate,
                        remaining_shares |-> m.shares, fifo_sequence |-> next_fifo_sequence]
               removed == Order(m.ref).remaining_shares
               own == IF m.price = entry.price THEN removed ELSE 0
    <3>1. /\ books' = Appended(Erased(m.ref), target, node)
          /\ volumes' = ReplaceVolumes(removed, m.shares)
      BY <2>2 DEF apply_replace
    <3>2. /\ OrderError(m.ref, m.locate) = "ok"
          /\ can_add(LevelOf(books, target).aggregate_shares - own, m.shares)
      BY <2>2 DEF ReplaceError
    <3>3. m.ref \in DOMAIN order_index
      BY <3>2 DEF OrderError
    <3>4. /\ m.new_ref \in OrderReference /\ m.price \in Price /\ m.shares \in Quantity
          /\ next_fifo_sequence \in 1..kMax
      BY <1>2, <1>6, <1>14, FeedAssumption DEF FeedAssumption, Rests
    <3>5. entry \in AllEntries /\ Order(m.ref) \in Node
      BY <1>2, <3>3, Located
    <3>6. target \in AllEntries /\ (target = entry <=> m.price = entry.price)
      BY <3>4, <3>5 DEF AllEntries
    <3>7. node \in Node /\ node.remaining_shares = m.shares /\ removed \in Int
      BY <3>4, <3>5 DEF Node, Quantity
    <3> HIDE DEF node, target, entry, removed
    <3>8. /\ Summed(Erased(m.ref)) /\ Total(Erased(m.ref)) = Total(books) - removed
          /\ LevelOf(Erased(m.ref), target).aggregate_shares
               = LevelOf(books, target).aggregate_shares - own
      BY <1>2, <3>3, <3>6, ErasedCounted DEF removed, entry
    <3>9. /\ Summed(Appended(Erased(m.ref), target, node))
          /\ Total(Appended(Erased(m.ref), target, node)) = Total(Erased(m.ref)) + m.shares
      BY <3>2, <3>6, <3>7, <3>8, AppendedCounted
    <3>10. /\ volumes'["displayed_cancel"] = volumes["displayed_cancel"] + removed
           /\ volumes'["displayed_execute"] = volumes["displayed_execute"]
           /\ volumes'["displayed_add"] = volumes["displayed_add"] + m.shares
      BY <1>3, <3>1 DEF ReplaceVolumes
    <3>11. m.shares \in Int
      BY <3>4 DEF Quantity
    <3> QED BY <1>2, <1>3, <3>1, <3>7, <3>8, <3>9, <3>10, <3>11 DEF Conserved
  <2> QED BY <1>14, <2>1, <2>2 DEF apply_replace
<1> QED BY <1>1, <1>7, <1>8, <1>9, <1>11, <1>12, <1>13, <1>14

CountInv == BookInv /\ Summed(books) /\ Conserved(volumes, Total(books))

LEMMA CountInvariant == Spec => []CountInv
<1>1. Init => CountInv
  <2> SUFFICES ASSUME Init PROVE CountInv
    OBVIOUS
  <2>1. BookInv /\ books \in Books
    BY BookInvInit DEF BookInv, Rests, Consistent
  <2>2. ASSUME NEW e \in AllEntries
        PROVE  LevelOf(books, e).aggregate_shares = 0 /\ LevelOf(books, e).orders = <<>>
    BY DEF Init, LevelOf, NoLevel, AllEntries
  <2>3. SharesIn(<<>>) = 0
    <3>1. DOMAIN [i \in DOMAIN <<>> |-> <<>>[i].remaining_shares] = {}
      OBVIOUS
    <3> QED BY <3>1, SumEmpty DEF SharesIn
  <2>4. Summed(books)
    BY <2>1, <2>2, <2>3 DEF Summed
  <2>5. Total(books) = 0
    <3> DEFINE f == [e \in AllEntries |-> LevelOf(books, e).aggregate_shares]
    <3>1. \A e \in AllEntries : f[e] = 0
      BY <2>2
    <3>2. DOMAIN f = AllEntries
      OBVIOUS
    <3> HIDE DEF f
    <3>3. Addable(f, AllEntries)
      BY <3>1, <3>2, EntriesFinite DEF Addable
    <3>4. SumFunction(f) = 0
      BY <3>1, <3>3, SumZero
    <3> QED BY <3>4 DEF f, Total
  <2>6. Conserved(volumes, 0)
    BY DEF Init, Conserved, Counter
  <2> QED BY <2>1, <2>4, <2>5, <2>6 DEF CountInv
<1>2. CountInv /\ [Next]_vars => CountInv'
  <2> SUFFICES ASSUME CountInv, [Next]_vars PROVE CountInv'
    OBVIOUS
  <2>1. BookInv'
    BY BookInvStep DEF CountInv
  <2>2. CASE UNCHANGED vars
    <3>1. UNCHANGED <<books, volumes>>
      BY <2>2 DEF vars, facts, displayed
    <3> QED BY <2>1, <3>1 DEF CountInv
  <2>3. CASE Next
    <3>1. PICK m \in Feed : Apply(m)
      BY <2>3 DEF Next
    <3>2. Summed(books') /\ Conserved(volumes', Total(books'))
      BY <3>1, MessageConserves DEF CountInv
    <3> QED BY <2>1, <3>2 DEF CountInv
  <2> QED BY <2>2, <2>3
<1> QED BY <1>1, <1>2, PTL DEF Spec

\* After every message, whatever was refused before, the levels, the index and
\* the cached aggregates of the book agree, and no counter has passed its limit:
\* what FactualState::check_invariants walks the book for can never be untrue.
THEOREM CheckInvariantsHolds == Spec => []InvariantsHold
<1>1. CountInv => AggregatesAreSums
  <2> SUFFICES ASSUME CountInv, NEW e \in AllEntries
               PROVE  LevelOf(books, e).aggregate_shares = QueuedShares(LevelOf(books, e))
    BY DEF AggregatesAreSums
  <2> QED BY DEF CountInv, Summed, QueuedShares, SharesIn
<1>2. TypeOK /\ BookSound /\ AggregatesAreSums => InvariantsHold
  BY DEF InvariantsHold
<1> QED BY <1>1, <1>2, CountInvariant, FactualTypeCorrect, IndexAndQueuesAgree, PTL

\* Whatever the feed adds, executes, cancels, deletes and replaces
\* (factual_book.cpp, volumes_), every share ever displayed is still resting,
\* was cancelled or was executed: none is lost and none counted twice.
THEOREM SharesAreConserved == Spec => []VolumeConservation
<1>1. CountInv => VolumeConservation
  <2> SUFFICES ASSUME CountInv PROVE VolumeConservation
    OBVIOUS
  <2>1. [e \in AllEntries |-> QueuedShares(LevelOf(books, e))]
          = [e \in AllEntries |-> LevelOf(books, e).aggregate_shares]
    BY DEF CountInv, Summed, QueuedShares, SharesIn
  <2> QED BY <2>1 DEF CountInv, Conserved, Total, VolumeConservation
<1> QED BY <1>1, CountInvariant, PTL

----------------------------------------------------------------------------
(* The trade volumes are those of the ledger *)

\* The shares of some of the records of a ledger.
SharesAt(list, at) == SumFunction([i \in at |-> list[i].shares])
Printable(list) == {i \in DOMAIN list : list[i].printable}
NonPrintable(list) == {i \in DOMAIN list : ~list[i].printable}
Broken(list) == {i \in DOMAIN list : list[i].broken}

LEMMA RecordsAddable ==
  ASSUME NEW list \in Seq(TradeRecord), NEW at \in SUBSET (1..Len(list))
  PROVE  Addable([i \in at |-> list[i].shares], at) /\ SharesAt(list, at) \in Int
<1> DEFINE f == [i \in at |-> list[i].shares]
<1>1. ASSUME NEW i \in at PROVE f[i] \in Int
  <2>1. list[i] \in TradeRecord
    BY ElementOfSeq
  <2> QED BY <2>1 DEF TradeRecord, Quantity
<1>2. DOMAIN f = at
  OBVIOUS
<1>3. IsFiniteSet(at)
  <2>1. Len(list) \in Nat
    OBVIOUS
  <2>2. IsFiniteSet(1..Len(list))
    BY <2>1, FS_Interval
  <2> QED BY <2>2, FS_Subset
<1> HIDE DEF f
<1>4. Addable(f, at)
  BY <1>1, <1>2, <1>3 DEF Addable
<1>5. SumFunction(f) \in Int
  BY <1>4, SumInt
<1> QED BY <1>4, <1>5 DEF f, SharesAt

\* A record that is appended adds its shares where it is chosen.
LEMMA ChosenRecord ==
  ASSUME NEW list \in Seq(TradeRecord), NEW record \in TradeRecord,
         NEW at \in SUBSET (1..Len(list)), NEW at2, NEW chosen \in BOOLEAN,
         \A i : i \in at2 <=> i \in at \/ (i = Len(list) + 1 /\ chosen)
  PROVE  SharesAt(Append(list, record), at2)
           = SharesAt(list, at) + (IF chosen THEN record.shares ELSE 0)
<1> DEFINE n == Len(list) + 1
           list2 == Append(list, record)
           f == [i \in at |-> list[i].shares]
           g == [i \in at2 |-> list2[i].shares]
<1>1. /\ list2 \in Seq(TradeRecord) /\ Len(list2) = n /\ list2[n] = record
      /\ \A i \in 1..Len(list) : list2[i] = list[i]
      /\ n \notin 1..Len(list) /\ 1..Len(list) \subseteq 1..n /\ n \in 1..n
  OBVIOUS
<1>2. at2 \in SUBSET (1..Len(list2))
  BY <1>1
<1>3. Addable(f, at) /\ Addable(g, at2) /\ SumFunction(f) \in Int
  BY <1>1, <1>2, RecordsAddable DEF SharesAt
<1>4. (\A i \in at : g[i] = f[i]) /\ (chosen => g[n] = record.shares)
  BY <1>1
<1>5. n \notin at
  BY <1>1
<1>6. \A i : i \in at2 <=> i \in at \/ (i = n /\ chosen)
  OBVIOUS
<1>7. SharesAt(list2, at2) = SumFunction(g) /\ SharesAt(list, at) = SumFunction(f)
  BY DEF SharesAt
<1> HIDE DEF f, g, n
<1>8. CASE chosen
  <2>1. \A i : i \in at2 <=> i \in at \/ i = n
    BY <1>6, <1>8
  <2>2. \A i \in at : g[i] = f[i]
    BY <1>4
  <2> HIDE DEF list2
  <2>3. SumFunction(g) = SumFunction(f) + g[n]
    <3> DEFINE D == at
               E == at2
    <3>1. /\ Addable(f, D) /\ Addable(g, E) /\ n \notin D
          /\ \A y : y \in E <=> y \in D \/ y = n
          /\ \A y \in D : g[y] = f[y]
      BY <1>3, <1>5, <2>1, <2>2
    <3> HIDE DEF D, E
    <3> QED BY ONLY <3>1, SumMore
  <2> QED BY <1>4, <1>7, <1>8, <2>3 DEF list2
<1>9. CASE ~chosen
  <2>1. at2 = at
    BY <1>6, <1>9
  <2> HIDE DEF list2
  <2>2. SumFunction(g) = SumFunction(f)
    BY <1>3, <1>4, <2>1, SumSame
  <2> QED BY <1>3, <1>7, <1>9, <2>2 DEF list2
<1> QED BY <1>8, <1>9

\* A trade that is recorded adds its shares to one volume.
LEMMA RecordAdds ==
  ASSUME NEW list \in Seq(TradeRecord), NEW record \in TradeRecord, record.broken = FALSE
  PROVE  LET list2 == Append(list, record)
         IN  /\ SharesAt(list2, Printable(list2)) = SharesAt(list, Printable(list))
                  + (IF record.printable THEN record.shares ELSE 0)
             /\ SharesAt(list2, NonPrintable(list2)) = SharesAt(list, NonPrintable(list))
                  + (IF ~record.printable THEN record.shares ELSE 0)
             /\ SharesAt(list2, Broken(list2)) = SharesAt(list, Broken(list))
<1> DEFINE n == Len(list) + 1
           list2 == Append(list, record)
<1>1. /\ Len(list2) = n /\ list2[n] = record /\ DOMAIN list = 1..Len(list)
      /\ \A i \in 1..Len(list) : list2[i] = list[i]
      /\ \A i : i \in DOMAIN list2 <=> i \in 1..Len(list) \/ i = n
      /\ n \notin 1..Len(list)
  OBVIOUS
<1>2. record.printable \in BOOLEAN /\ record.shares \in Int
  BY DEF TradeRecord, Quantity
<1> HIDE DEF list2, n
<1>3. SharesAt(list2, Printable(list2)) = SharesAt(list, Printable(list))
        + (IF record.printable THEN record.shares ELSE 0)
  <2>1. \A i : i \in Printable(list2) <=> i \in Printable(list) \/ (i = n /\ record.printable)
    BY <1>1 DEF Printable
  <2>2. Printable(list) \in SUBSET (1..Len(list))
    BY <1>1 DEF Printable
  <2> QED BY <1>2, <2>1, <2>2, ChosenRecord DEF n, list2
<1>4. SharesAt(list2, NonPrintable(list2)) = SharesAt(list, NonPrintable(list))
        + (IF ~record.printable THEN record.shares ELSE 0)
  <2> DEFINE chosen == ~record.printable
  <2>1. \A i : i \in NonPrintable(list2) <=> i \in NonPrintable(list) \/ (i = n /\ chosen)
    BY <1>1 DEF NonPrintable
  <2>2. NonPrintable(list) \in SUBSET (1..Len(list)) /\ chosen \in BOOLEAN
    BY <1>1 DEF NonPrintable
  <2> HIDE DEF chosen
  <2>3. SharesAt(list2, NonPrintable(list2)) = SharesAt(list, NonPrintable(list))
          + (IF chosen THEN record.shares ELSE 0)
    BY <2>1, <2>2, ChosenRecord DEF n, list2
  <2> QED BY <2>3 DEF chosen
<1>5. SharesAt(list2, Broken(list2)) = SharesAt(list, Broken(list))
  <2>1. \A i : i \in Broken(list2) <=> i \in Broken(list) \/ (i = n /\ FALSE)
    BY <1>1 DEF Broken
  <2>2. Broken(list) \in SUBSET (1..Len(list)) /\ FALSE \in BOOLEAN
    BY <1>1 DEF Broken
  <2>3. SharesAt(list2, Broken(list2))
          = SharesAt(list, Broken(list)) + (IF FALSE THEN record.shares ELSE 0)
    BY <2>1, <2>2, ChosenRecord DEF n, list2
  <2>4. SharesAt(list, Broken(list)) \in Int
    BY <2>2, RecordsAddable
  <2> QED BY <2>3, <2>4
<1> QED BY <1>3, <1>4, <1>5 DEF list2

\* A trade that is broken adds its shares to the broken ones alone.
LEMMA BreakAdds ==
  ASSUME NEW list \in Seq(TradeRecord), NEW at \in 1..Len(list), ~list[at].broken
  PROVE  LET list2 == [list EXCEPT ![at].broken = TRUE]
         IN  /\ SharesAt(list2, Printable(list2)) = SharesAt(list, Printable(list))
             /\ SharesAt(list2, NonPrintable(list2)) = SharesAt(list, NonPrintable(list))
             /\ SharesAt(list2, Broken(list2)) = SharesAt(list, Broken(list)) + list[at].shares
<1> DEFINE marked == [list[at] EXCEPT !.broken = TRUE]
           list2 == [list EXCEPT ![at] = marked]
<1>1. list[at] \in TradeRecord
  BY ElementOfSeq
<1>2. /\ marked \in TradeRecord /\ marked.broken /\ marked.shares = list[at].shares
      /\ marked.printable = list[at].printable
  BY <1>1 DEF TradeRecord
<1> HIDE DEF marked
<1>3. /\ list2 \in Seq(TradeRecord) /\ Len(list2) = Len(list) /\ list2[at] = marked
      /\ \A i \in 1..Len(list) : i # at => list2[i] = list[i]
  BY <1>2, ExceptSeq
<1>4. DOMAIN list = 1..Len(list) /\ DOMAIN list2 = 1..Len(list)
  BY <1>3
<1> HIDE DEF list2
<1>5. /\ \A i \in 1..Len(list) : list2[i].shares = list[i].shares
      /\ \A i \in 1..Len(list) : list2[i].printable = list[i].printable
  BY <1>2, <1>3
<1>6. ASSUME NEW s \in SUBSET (1..Len(list)) PROVE SharesAt(list2, s) = SharesAt(list, s)
  <2>1. [i \in s |-> list2[i].shares] = [i \in s |-> list[i].shares]
    BY <1>5
  <2> QED BY <2>1 DEF SharesAt
<1>7. /\ Printable(list2) = Printable(list) /\ NonPrintable(list2) = NonPrintable(list)
      /\ Printable(list) \in SUBSET (1..Len(list)) /\ NonPrintable(list) \in SUBSET (1..Len(list))
  BY <1>4, <1>5 DEF Printable, NonPrintable
<1>8. SharesAt(list2, Broken(list2)) = SharesAt(list, Broken(list)) + list[at].shares
  <2> DEFINE D == Broken(list)
             E == Broken(list2)
             f == [i \in D |-> list[i].shares]
             g == [i \in E |-> list2[i].shares]
  <2>1. /\ D \in SUBSET (1..Len(list)) /\ E \in SUBSET (1..Len(list2)) /\ at \notin D
        /\ \A i : i \in E <=> i \in D \/ i = at
    BY <1>2, <1>3, <1>4 DEF Broken
  <2>2. Addable(f, D) /\ Addable(g, E)
    BY <1>3, <2>1, RecordsAddable
  <2>3. (\A i \in D : g[i] = f[i]) /\ g[at] = list[at].shares
    BY <1>5, <2>1
  <2>4. SharesAt(list2, E) = SumFunction(g) /\ SharesAt(list, D) = SumFunction(f)
    BY DEF SharesAt
  <2> HIDE DEF D, E, f, g
  <2>5. SumFunction(g) = SumFunction(f) + g[at]
    <3> DEFINE x == at
    <3>1. /\ Addable(f, D) /\ Addable(g, E) /\ x \notin D
          /\ \A y : y \in E <=> y \in D \/ y = x
          /\ \A y \in D : g[y] = f[y]
      BY <2>1, <2>2, <2>3
    <3> HIDE DEF x
    <3>2. SumFunction(g) = SumFunction(f) + g[x]
      BY ONLY <3>1, SumMore
    <3> QED BY <3>2 DEF x
  <2> QED BY <2>3, <2>4, <2>5 DEF D, E
<1> QED BY <1>6, <1>7, <1>8 DEF list2, marked

Ledgered(vols, list) ==
  /\ vols["printable_trade"] = SharesAt(list, Printable(list))
  /\ vols["non_printable_trade"] = SharesAt(list, NonPrintable(list))
  /\ vols["broken_trade"] = SharesAt(list, Broken(list))
  /\ vols["displayed_execute"] <= vols["printable_trade"] + vols["non_printable_trade"]

LEMMA LedgeredIs == VolumesMatchLedger <=> Ledgered(volumes, trades)
BY DEF VolumesMatchLedger, Ledgered, LedgerShares, SharesAt, Printable, NonPrintable, Broken

\* Volumes that differ in no trade counter, and a ledger that stays.
LEMMA LedgerStays ==
  ASSUME Ledgered(volumes, trades), UNCHANGED trades,
         \A c \in {"printable_trade", "non_printable_trade", "broken_trade",
                   "displayed_execute"} : volumes'[c] = volumes[c]
  PROVE  Ledgered(volumes', trades')
BY DEF Ledgered

\* A trade recorded with its shares counted once, where it belongs.
LEMMA RecordMatches ==
  ASSUME Ledgered(volumes, trades), trades \in Seq(TradeRecord),
         volumes \in [Counter -> Quantity],
         NEW match \in MatchNumber, NEW locate \in Locate \cup {0}, NEW shares \in Quantity,
         NEW printable \in BOOLEAN, NEW executed \in {0, shares},
         Record(match, locate, shares, printable),
         volumes'["broken_trade"] = volumes["broken_trade"],
         volumes'["displayed_execute"] = volumes["displayed_execute"] + executed,
         volumes'["printable_trade"]
           = volumes["printable_trade"] + (IF printable THEN shares ELSE 0),
         volumes'["non_printable_trade"]
           = volumes["non_printable_trade"] + (IF printable THEN 0 ELSE shares)
  PROVE  Ledgered(volumes', trades')
<1> DEFINE record == [match_number |-> match, stock_locate |-> locate, shares |-> shares,
                      printable |-> printable, broken |-> FALSE]
           list2 == Append(trades, record)
<1>1. /\ record \in TradeRecord /\ record.broken = FALSE /\ record.shares = shares
      /\ record.printable = printable
  BY DEF TradeRecord
<1>2. trades' = list2
  BY DEF Record
<1> HIDE DEF record
<1>3. /\ SharesAt(list2, Printable(list2))
           = SharesAt(trades, Printable(trades)) + (IF printable THEN shares ELSE 0)
      /\ SharesAt(list2, NonPrintable(list2))
           = SharesAt(trades, NonPrintable(trades)) + (IF printable THEN 0 ELSE shares)
      /\ SharesAt(list2, Broken(list2)) = SharesAt(trades, Broken(trades))
  BY <1>1, RecordAdds
<1>4. /\ volumes["printable_trade"] \in Nat /\ volumes["non_printable_trade"] \in Nat
      /\ volumes["displayed_execute"] \in Nat /\ shares \in Nat /\ executed \in Nat
      /\ executed <= shares
  BY DEF Counter, Quantity
<1> HIDE DEF list2
<1>5. volumes'["displayed_execute"] <= volumes'["printable_trade"] + volumes'["non_printable_trade"]
  BY <1>4 DEF Ledgered
<1> QED BY <1>2, <1>3, <1>5 DEF Ledgered

\* Every message leaves the trade volumes those of the ledger.
LEMMA MessageMatchesLedger ==
  ASSUME BookInv, Ledgered(volumes, trades), NEW m \in Feed, Apply(m)
  PROVE  Ledgered(volumes', trades')
<1> USE DEF Apply, AboutStock, AboutMarket
<1>1. m.type \in {"S", "R", "A", "F", "E", "C", "X", "D", "U", "P", "Q", "B"}
                   \cup AboutStock \cup AboutMarket
  BY FactualAssumption DEF FactualAssumption
<1>2. /\ volumes \in [Counter -> Quantity] /\ Rests
      /\ trades \in Seq(TradeRecord)
      /\ \A match \in DOMAIN trade_index : trade_index[match] \in DOMAIN trades
  BY DEF BookInv, LedgerTyped
<1>3. /\ \A c \in {"displayed_add", "displayed_cancel", "displayed_execute",
                   "printable_trade", "non_printable_trade", "broken_trade"} :
           c \in DOMAIN volumes /\ volumes[c] \in Int
  BY <1>2 DEF Counter, Quantity
<1>4. ASSUME NEW category, Fail(category) PROVE Ledgered(volumes', trades')
  BY <1>4, LedgerStays DEF Fail, facts, ledger
<1>5. m.type \in {"E", "C", "P", "Q"} => m.shares \in Quantity /\ m.match \in MatchNumber
  BY FeedAssumption, FactualAssumption DEF FeedAssumption, FactualAssumption, Quantity
<1>6. CASE m.type \in {"S", "R"} \cup AboutStock \cup AboutMarket
  <2>1. UNCHANGED <<volumes, trades>>
    BY <1>6 DEF apply_system_event, apply_directory, apply_reference, Fail, facts, ledger
  <2> QED BY <2>1, LedgerStays
<1>7. CASE m.type \in {"A", "F"}
  <2>1. CASE Fail(AddError(m))
    BY <1>4, <2>1
  <2>2. CASE AddError(m) = "ok" /\ apply_add(m)
    <3>1. /\ UNCHANGED trades
          /\ volumes' = [volumes EXCEPT !["displayed_add"] = @ + m.shares]
      BY <2>2 DEF apply_add, Fail, ledger
    <3> QED BY <1>3, <3>1, LedgerStays
  <2> QED BY <1>7, <2>1, <2>2 DEF apply_add
<1>8. CASE m.type = "X"
  <2>1. CASE Fail(CancelError(m))
    BY <1>4, <2>1
  <2>2. CASE CancelError(m) = "ok" /\ apply_cancel(m)
    <3>1. /\ UNCHANGED trades
          /\ volumes' = [volumes EXCEPT !["displayed_cancel"] = @ + m.shares]
      BY <2>2 DEF apply_cancel, Fail, ledger
    <3> QED BY <1>3, <3>1, LedgerStays
  <2> QED BY <1>8, <2>1, <2>2 DEF apply_cancel
<1>9. CASE m.type = "D"
  <2>1. CASE Fail(DeleteError(m))
    BY <1>4, <2>1
  <2>2. CASE DeleteError(m) = "ok" /\ apply_delete(m)
    <3>1. /\ UNCHANGED trades
          /\ volumes' = [volumes EXCEPT !["displayed_cancel"] = @ + Order(m.ref).remaining_shares]
      BY <2>2 DEF apply_delete, Fail, ledger
    <3> QED BY <1>3, <3>1, LedgerStays
  <2> QED BY <1>9, <2>1, <2>2 DEF apply_delete
<1>10. CASE m.type = "U"
  <2>1. CASE Fail(ReplaceError(m))
    BY <1>4, <2>1
  <2>2. CASE ReplaceError(m) = "ok" /\ apply_replace(m)
    <3>1. /\ UNCHANGED trades
          /\ volumes' = ReplaceVolumes(Order(m.ref).remaining_shares, m.shares)
      BY <2>2 DEF apply_replace, Fail, ledger
    <3> QED BY <1>3, <3>1, LedgerStays DEF ReplaceVolumes
  <2> QED BY <1>10, <2>1, <2>2 DEF apply_replace
<1>11. CASE m.type \in {"E", "C"}
  <2>1. CASE Fail(ExecutionError(m))
    BY <1>4, <2>1
  <2>2. CASE ExecutionError(m) = "ok" /\ apply_execution(m)
    <3>1. m.ref \in DOMAIN order_index
      BY <2>2 DEF ExecutionError, SharesError, OrderError
    <3>2. Order(m.ref).stock_locate \in Locate /\ m.printable \in BOOLEAN
      BY <1>2, <1>11, <3>1, Located, FeedAssumption DEF Node, FeedAssumption
    <3>3. /\ Record(m.match, Order(m.ref).stock_locate, m.shares, m.printable)
          /\ volumes' = [volumes EXCEPT !["displayed_execute"] = @ + m.shares,
                                        ![TradeCounter(m.printable)] = @ + m.shares]
      BY <2>2 DEF apply_execution
    <3>4. m.shares \in Int
      BY <1>5, <1>11 DEF Quantity
    <3>5. /\ volumes'["broken_trade"] = volumes["broken_trade"]
          /\ volumes'["displayed_execute"] = volumes["displayed_execute"] + m.shares
          /\ volumes'["printable_trade"]
               = volumes["printable_trade"] + (IF m.printable THEN m.shares ELSE 0)
          /\ volumes'["non_printable_trade"]
               = volumes["non_printable_trade"] + (IF m.printable THEN 0 ELSE m.shares)
      <4>1. CASE m.printable
        BY <1>3, <3>3, <3>4, <4>1 DEF TradeCounter
      <4>2. CASE ~m.printable
        BY <1>3, <3>3, <3>4, <4>2 DEF TradeCounter
      <4> QED BY <4>1, <4>2
    <3> QED BY <1>2, <1>5, <1>11, <3>2, <3>3, <3>5, RecordMatches
  <2> QED BY <1>11, <2>1, <2>2 DEF apply_execution
<1>12. CASE m.type \in {"P", "Q"}
  <2>1. CASE Fail(TradeError(m))
    BY <1>4, <2>1
  <2>2. CASE TradeError(m) = "ok" /\ apply_trade(m)
    <3>1. m.locate \in Locate
      BY <2>2, LocateChecked DEF TradeError
    <3>2. /\ Record(m.match, m.locate, m.shares, TRUE)
          /\ volumes' = [volumes EXCEPT !["printable_trade"] = @ + m.shares]
      BY <2>2 DEF apply_trade
    <3>3. m.shares \in Int
      BY <1>5, <1>12 DEF Quantity
    <3>4. /\ volumes'["broken_trade"] = volumes["broken_trade"]
          /\ volumes'["displayed_execute"] = volumes["displayed_execute"] + 0
          /\ volumes'["printable_trade"]
               = volumes["printable_trade"] + (IF TRUE THEN m.shares ELSE 0)
          /\ volumes'["non_printable_trade"]
               = volumes["non_printable_trade"] + (IF TRUE THEN 0 ELSE m.shares)
      BY <1>3, <3>2, <3>3
    <3> QED BY <1>2, <1>5, <1>12, <3>1, <3>2, <3>4, RecordMatches
  <2> QED BY <1>12, <2>1, <2>2 DEF apply_trade
<1>13. CASE m.type = "B"
  <2>1. CASE Fail(BrokenError(m))
    BY <1>4, <2>1
  <2>2. CASE BrokenError(m) = "ok" /\ apply_broken_trade(m)
    <3> DEFINE at == trade_index[m.match]
               list2 == [trades EXCEPT ![at].broken = TRUE]
    <3>1. Breakable(m.match)
      BY <2>2 DEF BrokenError
    <3>2. at \in 1..Len(trades) /\ ~trades[at].broken
      BY <1>2, <3>1 DEF Breakable
    <3>3. trades' = list2 /\ volumes' = [volumes EXCEPT !["broken_trade"] = @ + trades[at].shares]
      BY <2>2 DEF apply_broken_trade
    <3>4. /\ volumes'["broken_trade"] = volumes["broken_trade"] + trades[at].shares
          /\ \A c \in {"printable_trade", "non_printable_trade", "displayed_execute"} :
               volumes'[c] = volumes[c]
      BY <1>3, <3>3
    <3> HIDE DEF at
    <3>5. /\ SharesAt(list2, Printable(list2)) = SharesAt(trades, Printable(trades))
          /\ SharesAt(list2, NonPrintable(list2)) = SharesAt(trades, NonPrintable(trades))
          /\ SharesAt(list2, Broken(list2)) = SharesAt(trades, Broken(trades)) + trades[at].shares
      BY <1>2, <3>2, BreakAdds
    <3> HIDE DEF list2
    <3> QED BY <3>3, <3>4, <3>5 DEF Ledgered
  <2> QED BY <1>13, <2>1, <2>2 DEF apply_broken_trade
<1> QED BY <1>1, <1>6, <1>7, <1>8, <1>9, <1>10, <1>11, <1>12, <1>13

\* Whatever trades, executions and breaks the feed carries or repeats
\* (factual_book.cpp, volumes_ and trades_), the printable, non-printable and
\* broken volumes are those of the ledger, each break counted once, and no
\* displayed order was executed beyond the trades.
THEOREM VolumesFollowLedger == Spec => []VolumesMatchLedger
<1>1. Init => Ledgered(volumes, trades)
  <2> SUFFICES ASSUME Init PROVE Ledgered(volumes, trades)
    OBVIOUS
  <2>1. ASSUME NEW at, at = {} PROVE SharesAt(trades, at) = 0
    <3>1. DOMAIN [i \in at |-> trades[i].shares] = {}
      BY <2>1
    <3> QED BY <3>1, SumEmpty DEF SharesAt
  <2>2. Printable(trades) = {} /\ NonPrintable(trades) = {} /\ Broken(trades) = {}
    BY DEF Init, Printable, NonPrintable, Broken
  <2>3. \A c \in Counter : volumes[c] = 0
    BY DEF Init
  <2> QED BY <2>1, <2>2, <2>3 DEF Ledgered, Counter
<1>2. BookInv /\ Ledgered(volumes, trades) /\ [Next]_vars => Ledgered(volumes, trades)'
  <2> SUFFICES ASSUME BookInv, Ledgered(volumes, trades), [Next]_vars
               PROVE  Ledgered(volumes', trades')
    OBVIOUS
  <2>1. CASE UNCHANGED vars
    BY <2>1, LedgerStays DEF vars, facts, ledger
  <2>2. CASE Next
    BY <2>2, MessageMatchesLedger DEF Next
  <2> QED BY <2>1, <2>2
<1> QED BY <1>1, <1>2, BookInvariant, LedgeredIs, PTL DEF Spec
=============================================================================

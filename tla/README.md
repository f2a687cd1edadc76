# LOBForge in TLA+

LOBForge is a deterministic limit-order-book laboratory: a C++20 matching engine,
an ITCH 5.0 decoder and replayer that rebuilds the exchange's displayed book, a
shadow market maker that trades hypothetically beside that book, and Python
research code over the exported events. This directory holds TLA+ models of the
parts with state worth checking, TLC configurations that check them on small
instances, and TLAPS proofs of their central invariants.

Every program of the repository is single threaded and deterministic. The hard
behaviour is elsewhere: long sequences of legal calls over redundant structures
(maps, lists, cached sums and iterators that must agree), 64-bit limits, partial
failure inside a command, local events of the simulator whose confirmations are
under way while facts arrive, and, at the edges, processes that share a pipe or a
directory: the Python dataset builder with its replay child, and several runs given
one output.

## The system

| Component | State | Operations | Interacts with | Hard behaviour |
|---|---|---|---|---|
| Matching engine, `src/order_book.cpp` | `bids_`, `asks_` (price levels with FIFO lists and cached aggregates), `index_`, `next_event_sequence_`, `next_priority_sequence_` | `process` of New, Cancel, Reduce, Replace; GTC, IOC, FOK, post-only; limit and market | called by tests and benchmarks; returns events | price-time priority, validation before mutation, throws at the sequence limit |
| ITCH framing and decoder, `src/itch` | reader offset and record index | `FramedReader::next`, `decode_message` | feeds the replayer and the simulator driver | three tables of literals that must agree (fields, lengths, error offsets), truncation |
| Factual book, `src/replay/factual_book.cpp` | directories, `books_`, `order_index_`, `trades_`, volumes, session phase, last mutation | `apply` of each message type | read by exporter and simulator through `last_book_mutation` and `depth` | all-or-nothing checks, redundant indices, repeated messages |
| Replayer, `src/replay/replayer.cpp`, `apps/lobforge_replay.cpp` | statistics, diagnostics, failure flags | `run` strict or permissive, with a message limit | reader, decoder, factual book, observer | which failures end the run; counters, diagnostics and exit code that agree |
| Shadow simulator, `src/mm/simulator.cpp` | shadow orders, scheduled events, latest markets, stop switch, counters | `before_market`, `after_market`, `finish`, manual orders | factual book (read only), queue trackers, ledger, strategy; driven by `apps/lobforge_mm_sim.cpp` | ties, stale decisions, races of fills with confirmations, stop, close |
| Queue tracker, `src/mm/queue_model.cpp` | orders ahead and their shares | `snapshot`, `on_mutation` | one per exposed shadow order | following the factual queue from mutations alone |
| Strategies, `src/mm/strategies.cpp` | none | `quote` | market snapshot and inventory | suppression rules |
| Accounting ledger, `src/mm/accounting.cpp` | inventory, cash, fees, rebates, profit, FIFO lots | `apply_fill`, valuations | simulator | overflow refused as a whole, partial closes |
| Book-event export, `src/replay/book_event_v1.cpp`, and its validator, `schema.py` | captured mutation, output counter; what the reader saw last | a row per mutation, header and summary; `accept`, `finish` | observer of the replayer; read over a pipe | a stale or missed mutation; a strict reader |
| Dataset build, `ingest.py` | temporary directory, batch buffers, child process | `build_dataset` | a child replay over a pipe, other builders at one output | failure of either process at any step |
| Simulation command, `apps/lobforge_mm_sim.cpp` | chunk, offset, seven artifacts, temporary directory | `main`, `run_bytes` | simulator, file system, other runs at one output | publication by rename, failures and kills between its steps |
| Python splits, labels, features | data frames | transformations | ingest | causality, purge and embargo |
| Protocol loader, audit rendering, models and reporting, tools, benchmarks, fuzzers | none or files | pure functions, I/O | the above | not protocols |

What makes each correct: the engine trades by price, then time, never crosses,
and rejects without effect; the factual book's redundant structures agree and its
mutation tells exactly what moved; the simulator never fills an order the facts
did not, never sees the future, and ends every order once; the ledger's totals
agree with its lots; a replay accounts for every record and its exit code says how
it went; an export is accepted by its reader and loses no move of the book; and
what is published, by a builder or by a simulation, is whole, published once and
of one process.

## Modules

| Module | Models | Kind |
|---|---|---|
| `Auction` | the price-time auction that ADR 0001 promises | abstract specification |
| `OrderBook` | `OrderBook` in `order_book.cpp` | detailed; implements `Auction` |
| `OrderBookProofs` | | theorems; the refinement of `Auction` |
| `Selection` | what is kept of a list, in order | functions |
| `QueueLemmas` | | lemmas on sequences, selections and sums |
| `Displayed` | displayed orders that arrive, shrink and leave, and the mutation that reports it | abstract specification |
| `FactualBook` | `FactualState` in `factual_book.cpp` | detailed; implements `Displayed` |
| `FactualBookProofs` | | theorems; the refinement of `Displayed` |
| `ShadowSimulator` | `ShadowSimulator`, `QueueTracker`, `MarketMakerStrategy` and their driver | built on `Displayed` |
| `ShadowSimulatorProofs` | | theorems |
| `FifoLots` | shares closed one by one, first in first out | abstract specification |
| `AccountingLedger` | `AccountingLedger` in `accounting.cpp` | detailed; implements `FifoLots` |
| `AccountingLedgerProofs` | | theorems |
| `Decoder` | `decoder.cpp`, the lengths of `messages.cpp`, the structs of `messages.hpp` | tables and functions |
| `StreamValidator` | `StreamValidator` in `schema.py` | functions |
| `Replayer` | `Replayer::run`, `FramedReader`, `book_event_v1.cpp` and `main` of `lobforge_replay` | composes `FactualBook`, `Decoder` and `StreamValidator` |
| `ReplayerProofs` | | theorems |
| `DatasetBuild` | `build_dataset` and its replay child | several processes; uses `StreamValidator` |
| `DatasetBuildProofs` | | theorems |
| `MmSimCli` | `main` and `run_bytes` of `lobforge_mm_sim` | several processes |
| `MmSimCliProofs` | | theorems |
| `MC*` | instances for TLC | |

**OrderBook.** `phase` is where `process()` is: idle, matching an accepted order,
or failed after an exception. One command is several steps: validation and the
`Accepted` event, one step per `Trade` of `match()`, and a last one that rests,
expires or completes. Levels, the cached aggregate, the index and both sequence
counters are variables of their own, so a missed update shows as a disagreement.
Replace keeps priority in place or erases and matches afresh, as the code does.

**FactualBook.** One action per handler of `apply()`; each is a disjunction of
its failure, with the category the code's checks reach first, and its success.
`Feed` is the set of messages that the decoder lets through. Every reference message
is checked; of what they store the trading action alone is kept, the one that is
read back.

**ShadowSimulator.** A message is three kinds of step: `before_market` fixes the
horizon; `execute_scheduled` runs each due local event in the scheduler's order
(timestamp, factual sequence, category, local sequence) against the book before
the message; the message itself moves the displayed orders and runs
`after_market` whole: queue trackers, fills, the latest market, the risk stop and
the close. It stands on `Displayed` rather than on `FactualBook`, which is shown
to implement it, so the simulator may use what the factual book promises and
nothing more. `joined`, the arrival number at which an order joined its price, is
the one variable the code does not have: the queue properties need it. The
floating-point formulas of the strategies are any choice among observed levels
within the maximum distance; the money of the ledger appears as an equity that
may breach a limit in any message once something was filled. `submitted_quantity` may
overflow (`kMaxSubmitted`, 2^64 - 1 in the code): the stop then fires inside
`manual_submit`, while the new order is `Submitted`, which `force_cancel_all` does not
count as open. That order still waits for its acknowledgement and is refused when it
would become active, and so is what the same decision submits on the other side. So a
stop ends exposure, not every open order, which is what `BarredNotExposed` says. Feed timestamps
never decrease, an assumption about the exchange.

**AccountingLedger.** `apply_fill` with all its checked operations, including
the partial sums of the realized profit in lot order. The loop over lots is
written as what it closes of each: what older lots leave. The lots that stay are
selected by position (`SelectAt`), a recursive function; `SelectSeq` of the standard
library is a `RECURSIVE` operator, about which the provers can say nothing.

**Decoder.** A payload is its type, its size and the set of its fields whose value
breaks the rule for that field; which bytes they hold does not matter, which field
is reported, how and at which offset does. The fields with their widths, the lengths
and the checks are three tables, as they are in the code; positions and widths are
computed from the first, so a literal that drifts from it shows.

**Replayer.** One step is one record: read, decoded, applied by the whole of
`FactualBook`, exported by the observer, and offered to the validator. The file is
found out as it is read: its next record is any of `Frames`, whatever its timestamp, and
an order may be priced at 0. The replayer and the decoder let both through; the
validator, like `docs/book_event_v1.md`, wants times that do not go back and positive
prices, so a dataset with such a record is refused as a whole. `regular` is a history
variable that says whether the feed did either so far: `StreamAccepted` is that nothing
else is ever refused. Any write to stdout may fail (`lost`), after which nothing more
arrives; `main` tests stdout last, after the errors, so 3 is returned only where there
were none. It does so before the last buffer is written out: when that alone fails and
no diagnostic on stderr, which is tied to stdout, had it written before, the exit code
is 0 although `docs/book_event_v1.md` says that output errors return 3. What is then
missing is the summary at least, and the reader notices.
The map of levels that `depth` walks is written by ranks: the i-th level is the price
with i - 1 better ones.

**DatasetBuild.** Each statement of `build_dataset` that touches the child, the pipe
or the file system is a step, and so is each row the child writes. Faults are a
child that crashes, perhaps inside a line, a full disk, a killed builder and a child
that outlives its termination by ten seconds. The writers' directories are made
before the `try`, so an error there escapes the handlers, as in the code. Removing the
temporary directory (`_cleanup_temp`) may fail or not be tried, in silence: all of it, an
emptied one or nothing stays, and the failure is reported all the same.

**MmSimCli.** Several runs are given one `--output-dir`. Reading a chunk, reading a
fact, each `exists`, the creation of the directory, each artifact, its removal, the
rename and the report are steps of their own; a run may be killed at any of them.
What a fact does is `ShadowSimulator`'s business; here it is good, malformed or
refused. A file says who wrote it and whether it is whole.

## Runs

| Run | Checks | Bounds, and why they are enough |
|---|---|---|
| `matching_engine` | types, no crossing, index, FIFO, levels (aggregates exact, no empty order), what validation promises and matching does (a rest fits, a FOK fills), events account for quantity, refinement of `Auction` | three ids and two prices give queues of two makers, both sides and a replace between levels; aggregates are capped at 3 so two orders reach the limit |
| `matching_engine_exhaustion` | *violated*: a failure leaves the book as it was | event sequences capped so that a command runs out of them |
| `factual_queues` | everything `check_invariants` walks (`InvariantsHold`), share conservation, refinement of `Displayed` | three references, two prices, both sides, all counters capped at 4, so every overflow check fires |
| `factual_records` | volumes against the ledger, index of match numbers, directories one to one with every resting order listed | two symbols claim two locates; two match numbers; every kind of trade, breaks repeated and misdirected |
| `shadow_fills` | tracked queue is the factual one, fills need evidence, positions within limits | three queue models; two messages after the opening orders: an order ahead leaves, another arrives and is executed, a partial fill is followed by a replace; a third price and a free reference for replaces |
| `shadow_lifecycle` | one quote per side; nothing exposed once barred (stopped or closed); confirmations change and count once; ties; every run ends with no order open | two messages at gaps of 0, 1 or 2 ns with latencies of 1 put each message before, at and after each confirmation; ledger limit 1 so that accounting fails, `kMaxSubmitted` 4 so that the submitted total overflows |
| `shadow_online` | *violated*: quoted only when exposed | entry latency 2 |
| `ledger` | totals, lots and money agree, conservative liquidation, refinement of `FifoLots` | three prices, quantities 0 to 3, money capped at 20, turnover at 9: four to nine fills, every limit is met |
| `replay` | counters, failures and exit code, diagnostics' places, decoded payloads are whole, the export is accepted and tracks the book | up to five records: listing, add, add or replace, execution or delete, then a failure; prices 0 to 2, times that stay, go on or go back, writes that fail; both modes, limits 1 and 3; two levels exported; and, as single records, all 23 types with wrong lengths and each pair of bad fields |
| `dataset` | outputs complete, failures publish nothing, stop the replay and leave a directory only where removing may fail, published once, every build ends | two builders; five scripts of a replay (whole, failing after a part, cut off, a bad row, unreadable); batches of 2 in 3 rows leave a remainder; a pipe of one row makes both ends wait |
| `mm_sim` | one author of a directory, exit codes tell the output, every fact applied, leftovers and refusals explained | three runs: one that publishes or works, one refused, one between its looks; inputs with the bad fact inside and at the end; chunks of 2 in 3 facts and of 5 |
| `mm_sim_close` | *violated*: an I/O error returns 3 | one run, one artifact cut off when its stream is closed |

Several properties are conjunctions of named parts that a reader meets one by one in
the modules: `LevelsSound`, `ValidationCoversMatching`, `InvariantsHold`,
`ListingsAgree`, `PositionsBounded`, `BarredNotExposed`, `ConfirmationsSettle`,
`TotalsAgree`, `FailuresEndRun`, `DiagnosticsTellWhere`.

Names of bounds: `kMax*` in each module; `Gaps`, `Feed`, `QueueModels` and `kMaxFacts`
in `ShadowSimulator`; `Frames`, `Probes` (tried only under `--max-messages 1`),
`Limits` and `kMaxRecords` in `Replayer`; `Scripts`, `PipeRows` and `Faults` in
`DatasetBuild`; `Inputs` and `Faults` in `MmSimCli`. `SequenceGaps` lets the caller
skip factual sequences, which the repository's driver never does but `before_market`
handles. `mm_sim` leaves out the fault of `mm_sim_close`: its properties do not
depend on what a file holds. Deadlock is checked in every run: a feed never stops
being readable, and whatever ends (a simulation, a replay, all builders, all runs)
stutters in an action of its own.

**Fairness.** `SimulatorSpec` assumes weak fairness of the whole next-state relation:
the driver is one thread that never waits, its input is finite, and after the last
message it calls `finish`. `EveryOrderEnds` needs no more. `BuildSpec` assumes it of
each builder and of each child, which the operating system runs; kills and crashes
are outside it, so nothing obliges a process to fail. The choices inside a step (a
full disk, a timeout) are nondeterministic and no fairness picks one. The other
modules have no liveness to show: their callers decide when to call.

**Findings.** `matching_engine_exhaustion`: `validate_new` keeps one event
sequence in reserve although an accepted command may take several, so at the
limit `process()` throws after the book changed, while ADR 0001 maps sequence
exhaustion to a rejection that preserves state. `shadow_online`: `update_market`
counts an order that waits for its acknowledgement as a quote that is online,
while `docs/round4_metrics.md` says that it is not. `mm_sim_close`: the artifact
writers return the state of a stream that has not been closed, so what is lost when
the last buffer is written out goes unnoticed and a cut-off artifact is published
with exit code 0, while `docs/mm_sim_cli.md` says that I/O errors return 3.

**The inventory limit.** `activation_risk` checks each order alone against an
inventory that all symbols share, so with several symbols orders that are each within
`max_absolute_inventory` may pass it together. `InventoryWithinLimit` says by how much:
one quantity for each other order that may stand (`OthersBeside`), of which there is one
a symbol and no more than `max_open_orders` allows. The run has one symbol, where the
limit itself holds; the theorem covers any number. The bound is met: with two symbols,
one execution on each takes the inventory to the limit plus one quantity.

## Proofs

Every theorem holds for all values of the constants that satisfy the assumptions
named in the modules; TLC evaluates those assumptions in the runs.

`QueueLemmas` holds what several proofs need. An unlinked node closes its gap and
keeps the order (`RemoveAtProperties` and the like). A sum over a finite set
(`SumFunction`) gains what is added to the set, changes by what changes at one point
and is linear and monotone: `SumMore`, `SumChange`, `SumLinear`, `SumUnlinked`, `SumAtMost`,
`SumCapped`.
`SelectProperties` and `SelectWeight` say what is kept of a list, and that dropping
elements that weigh nothing keeps the weight. All of these are inductions, which the
provers cannot take from the library, whose induction theorems have an operator for a
parameter; `SetInduction` states induction for a set of naturals instead, proved from
their well-foundedness.

`OrderBookProofs` proves that `TypeOK`, `Uncrossed`, `IndexMatchesQueues` and
`FifoByPriority` hold of every reachable state. None is inductive alone. The
invariant `IInv` joins them (`BookInv`) with what holds of the order being matched
between two trades (`TakerInv`): it is well formed, not in the index, and crosses
nothing when it is post-only. Lemmas on the three ways the book changes (`Unlink`,
`Resize`, `Enqueue`) carry the list reasoning; one lemma per action (`NewKeeps` ...
`ExpireKeeps`) uses them, and `Invariance` combines those. On top of it `Promised` says
that aggregates are sums (`SumInv`), that what is to rest fits its level and that a
fill-or-kill order being matched has its quantity before it. Each trade takes from both
sides of that promise alike, so `ValidationCoversMatching` follows with `AggregateIsSum`.
`EventsAccountForQuantity` adds up the events of a command as they are emitted.

Its second half proves that the engine is the auction of ADR 0001: every step of
`OrderBook` is a step of `Auction` or one that it does not see. To `IInv` it adds
`ServeInv`: any two nodes of a queue are in strict priority (`FifoByPriority` compares
neighbours only), no indexed order has nothing left unless an
exception has left `process()`, no order is being matched while the engine is idle,
and a market order has no price. A lemma per way the book changes says what the
auction sees of it (`DropShows`, `SetShows`, `RestShows`), `FrontIsFirst` that the
front of a best level comes before every order of its side, and a lemma per action
which step of the auction it is. That a fill-or-kill order is filled comes from
`ValidationSuffices`. `LevelsSound` follows from `ServeInv` and `AggregatesAreSums`.
`AbsenceAssumption` says that `NoOrder` is no order.

`FactualBookProofs` proves that the directories are one to one, which is inductive
as it stands since both conflict checks precede the two insertions, and
`LedgerIndexed`, for which `LedgerSound` adds that the index stays inside the ledger.
These assume only that a message has one of the handled types. With
`FeedAssumption`, the types of a message's fields, it then proves
of the book itself that types are kept, that index and queues name the same
orders at one place each, that every resting order is listed, and that `FactualBook`
implements `Displayed`. The invariant `BookInv` joins the types of each part with
`Consistent`: what `BookSound` says, strengthened by where each order of the index is
queued. A handler is one of four changes of one queue (add, shrink, remove, remove
and add); a lemma on each says what becomes of index and queues, and another what
`Displayed` sees of it, so that each handler's proof is a citation of both. `CountInv`
adds that cached aggregates are sums and that displayed shares are resting, cancelled or
executed; the same four changes say how the sum over all levels moves, which gives
`InvariantsHold` and `VolumeConservation`. `Ledgered` states each volume as a sum over
the ledger, and a record appended or flagged as broken moves one term of it. Sums over
levels need finitely many symbols and prices: a symbol is eight characters, a price 32
bits (`FactualAssumption`).

`ShadowSimulatorProofs` proves every safety property of the simulator, for any feed,
latencies, limits and queue model, and any number of symbols. `ShadowInv` is what the
properties need of each other. `Settled` relates the orders to the agenda: a
confirmation of an open order is the one its state waits for and the only one, and an
order that waits has one. `OneQuotePerSide` alone is not inductive without the types of
orders and events, and the counts of `EveryOrderCounted` would count an order twice if a
second confirmation could find it open. `Clock` says where the horizon is in each phase
of the driver and that exposed orders became active before it; `BarredNotExposed`
belongs to the invariant because an activation reads the switch and the session. How the
orders change is described once, by three relations: `Asks` (a decision: new orders
wait, resting ones wait for something), `Age` (orders move on or end and wait for
nothing new) and `Met` (a message); one lemma per relation carries `Settled` over it and
one lemma per action shows which of them it is.

Three results stand on top of it. `QueueInv` compares the tracked queue with the one of
the book: an order joins behind everything displayed (`JoinedQueue`), local events move
neither, and each way a message moves the displayed orders (arrive, shrink, leave,
replace) moves both alike (`MovedQueue`). `FillsNeedEvidence` is an action property: no
step but a message lowers what an order has left (`Local`), a message lowers it by `Hit`,
and an empty tracked queue means by `QueueInv` that nothing stands before the order.
`PositionsBounded` rests on `ReachInv`: on either side, the inventory and all that is
still exposed there (`Pledged`, a sum over the symbols) stay within reach. An activation
adds an order that was checked alone, beside at most `OthersBeside` others of at most one
quantity each (`ActivatedReach`); a message fills at most one order (`OneHit`), and what
it adds to the inventory its side gives up of its pledge (`FilledPledge`).
`ConfigAssumption` is what the protocol loader admits.
`OpeningAssumption` gives types to the opening book and asks that finitely many symbols
are listed and that positive differences of quantities are quantities.

`AccountingLedgerProofs` proves `TotalsAgree` from `LedgerInv`: all lots are on one side,
their signed shares weigh the inventory, and their signed costs what cash and realized
profit differ by. A fill closes of each lot what older lots leave (`ClosesFirst`), so
that anything opens only once every lot on the other side is empty; `LeftShares` and
`LeftCost` say what weight the closed shares take with them. `LiquidationIsConservative`
follows from the types by arithmetic. `ImplementsFifoLots` follows from `LedgerInv` too,
step by step: `SpreadAppend` and `SpreadSelect` say what the shares of a longer list are
and that lots left with nothing can be dropped, `LeftSpread` that what the closed parts
of lots leave is what follows the oldest shares, `ClosedGains` that the closed shares
gain, one by one, what the pieces of the lots do, and `KeptPosition` on which side the
lots are afterwards, through closing, splitting and reversing.

`DatasetBuildProofs` proves `PublishedOnce`, `OutputIsComplete` and
`FailureLeavesNoOutput` for any number of builders, any scripts, batch and pipe size, and
any faults. `BuildInv` joins the types with what each builder at work holds (temporary
directory, child) and with `Flow`: for some number of rows taken, the pipe holds the
next ones, what is written and buffered are the events among them, and the validator
has seen a summary only as the last of them.

`ReplayerProofs` proves every property of the replay, first `CountersAddUp` and
`FailuresEndRun`: `Accounted` says what
each counter and flag owes to the records read so far, and `Told` how the exit code,
fixed in the last step, follows from them; neither looks into the book or a payload,
so the proof holds for any decoder and any state machine behind it. A replay's steps
are steps of the factual book or leave it alone, so `CountInv` holds in a replay too,
and `check_invariants` never fails one (`BookNeverFailsCheck`). On it rests `ExportInv`,
for `StreamTracksBook` and `StreamAccepted`: a message that moves the book of a symbol
captures a mutation of that symbol and touches no other book (`MessageMoves`; by
`MutationAssumption` an absent value is none of the values it may be absent of), the
i-th best price exists and the best prices are in order (`BestRanks`, `BestOrdered`), a
level that is there holds shares (`LevelHoldsShares`), and the reader's counters are the
writer's (`Piped`) while what is written arrives; of a regular feed `PricesArrive` and
`PricedShown` say that every exported price is positive.

Its last part is about the decoder. `Layout` lists where the fields of a type lie;
`LayoutPlaced` shows that the reads find them there, and that no two have one name since
their places differ. For each of the 23 types a lemma then compares the lengths and the
offsets of the checks with those places (`TablesAgree`), which leaves of `decode_message`
what `Answers` says. `DecodedWhole` follows, and with `Ordered`, that every diagnostic is
of an earlier record as long as records are read, `DiagnosticsTellWhere`. That only a
field with a rule can break it is part of `ReplayAssumption`.

`MmSimCliProofs` proves five properties for any number of runs at one output, any
input and any faults and kills. `PublishInv` joins the types with where each run is
(`InProgress`: which files exist at each step, and whose they are), what a reported
outcome says of the output (`Reported`) and why a run was refused
(`RefusedForObstacle`); `FeedInv` says how many facts were applied at each offset of
the input, whatever the size of a chunk.

Only model-checked: liveness (that every simulation and every build ends), which the
proof system does not support, and the three runs that expect a violation.

## Not modelled

Rendering: JSON, text reports and audit records, digests, canonical text, the contents
of artifacts and manifests. Of the factual book, what reference messages store and
nothing reads back. Of the simulator, manual orders, which only tests submit, beyond
what the strategy does; markouts and time integrals; the formulas of the strategies.
A feed error ends the simulator process before `finish` and is a matter of `MmSimCli`.
Of `lobforge_replay`, what precedes the replay (usage errors, exit code 2, and an
unreadable input, 3) and death by a closed pipe, which `DatasetBuild` models.
The protocol loader and option parsing are pure functions of text. Research rows,
splits, labels, features, models, evaluation and reporting are transformations of
data frames, most of them in floating point. Tools, benchmarks and fuzz drivers test
the components above.

## Plan

1. The ledger's money composed with the simulator.
2. Python splits (purge and embargo), labels and features (causality) as functions
   against reference definitions.

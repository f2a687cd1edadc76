------------------------------ MODULE Replayer -----------------------------
(***************************************************************************)
(* Replayer::run of src/replay/replayer.cpp over a file of framed messages,  *)
(* with the observer of apps/lobforge_replay.cpp that exports a book event   *)
(* for every message that moved the displayed book, and the validator that   *)
(* reads the export.  A record is read, decoded, applied and exported in one *)
(* step, as the one thread does.  The file is found out as it is read: its   *)
(* next record is any of Frames.  Any write to stdout may fail.  Counts by   *)
(* type, the first timestamp and the text and JSON reports are left out.     *)
(***************************************************************************)
EXTENDS FactualBook, Decoder

Stream == INSTANCE StreamValidator

CONSTANTS
  Frames,       \* bound: records the file may carry
  Probes,       \* bound: records tried only by a run of a single message
  Limits,       \* bound: values of --max-messages, None when it is not given
  ExportDepth,  \* --depth
  Selected,     \* --symbol, all symbols when empty
  kMaxRecords   \* bound: records of the file

\* A frame is a payload, or the reader's failure to find a whole one.
ASSUME ReplayAssumption ==
  /\ ExportDepth \in 1..10
  /\ Limits \subseteq (Nat \ {0}) \cup {None}
  /\ \A frame \in Frames \cup Probes :
       \/ frame.category \in {"IncompleteEnvelope", "TruncatedFrame"}
       \/ /\ frame.category = "ok"
          /\ frame.payload.size \in Nat /\ frame.payload.timestamp \in Nat
          /\ frame.payload.type \in MessageType =>
               frame.payload.bad \subseteq Ruled(frame.payload.type)
          /\ decode_message(frame.payload).category = "ok" => frame.payload.message \in Feed

\* The decoder lets a price of 0 through.
ASSUME PriceAssumption == Price \subseteq Nat

VARIABLES
  mode, max_messages,  \* the options of the run
  phase,               \* "reading", "broken" off by a failure, or "ended"
  offset,              \* of the reader, after the records it returned
  record_index,        \* of the reader
  record,              \* the frame read last and the offset of its envelope
  statistics,          \* statistics_, with the errors and warnings summed up
  last_timestamp,      \* statistics_.last_timestamp, 0 before a record was decoded
  regular,             \* history: the records decoded went on in time and priced above 0
  diagnostics,         \* diagnostics_
  terminal_failure, invariant_failure,
  output_records,      \* events exported
  last_event,          \* symbol -> the event exported last for it
  lost,                \* whether a write to stdout failed: nothing more arrives
  consumer,            \* the validator that reads the export
  refused,             \* whether it refused a row
  exit_code

options == <<mode, max_messages>>
reader == <<offset, record_index>>
feed == <<last_timestamp, regular>>
export == <<output_records, last_event, lost, consumer, refused>>
failures == <<diagnostics, terminal_failure, invariant_failure, phase, exit_code>>
replay_vars == <<vars, options, reader, record, statistics, feed, failures, export>>

Counters == {"seen", "decoded", "applied", "skipped", "failed", "errors", "warnings"}
\* The statistics with some counters incremented.
Counted(names) ==
  [c \in Counters |-> IF c \in names THEN statistics[c] + 1 ELSE statistics[c]]

Framing == {"IncompleteEnvelope", "TruncatedFrame"}

\* A row is written, or lost with all that follow; the validator stops at the first it
\* refuses.
Send(row) ==
  /\ lost' \in {lost, TRUE}
  /\ refused' = (refused \/ (~lost' /\ ~Stream!accepts(consumer, row)))
  /\ consumer' = IF lost' \/ refused' THEN consumer ELSE Stream!accept(consumer, row)

NoRecord == [frame |-> [category |-> "none"], envelope |-> 0]

ReplayInit ==
  /\ Init
  /\ mode \in {"Strict", "Permissive"} /\ max_messages \in Limits
  /\ phase = "reading" /\ offset = 0 /\ record_index = 0 /\ record = NoRecord
  /\ statistics = [c \in Counters |-> 0] /\ last_timestamp = 0 /\ regular = TRUE
  /\ diagnostics = <<>>
  /\ terminal_failure = FALSE /\ invariant_failure = FALSE
  /\ output_records = 0 /\ last_event = <<>>
  /\ lost \in BOOLEAN
  /\ consumer = IF lost THEN Stream!Fresh
                ELSE Stream!accept(Stream!Fresh,
                                   [record_type |-> "header", depth |-> ExportDepth])
  /\ refused = FALSE
  /\ exit_code = None

----------------------------------------------------------------------------
(* Export *)

\* The prices of a side that are better than p.
Ahead(prices, side, p) == {q \in prices : IF side = "Buy" THEN q > p ELSE q < p}
\* The i-th best price.
Best(prices, side, i) ==
  CHOOSE p \in prices : Cardinality(Ahead(prices, side, p)) = i - 1

\* depth: the best levels of a side, as pairs of price and shares.
depth(bks, symbol, side) ==
  LET prices == {p \in Price : bks[symbol][side][p].orders # <<>>}
      best(i) == Best(prices, side, i)
  IN  [i \in 1..Min({ExportDepth, Cardinality(prices)}) |->
        <<best(i), bks[symbol][side][best(i)].aggregate_shares>>]

\* mutant: deletes are not exported
selected_but_deletes(mutation) == mutation # None /\ mutation.message_type # "D"
mutation_selected(mutation) ==
  mutation # None /\ (Selected = {} \/ mutation.symbol \in Selected)

\* mutant: the best prices are locked only when they differ
render_flags_swapped(bids, asks) ==
  LET two_sided == bids # <<>> /\ asks # <<>>
  IN  [two_sided |-> two_sided,
       locked |-> two_sided /\ bids[1][1] > asks[1][1],
       crossed |-> two_sided /\ bids[1][1] >= asks[1][1]]
render_flags(bids, asks) ==
  LET two_sided == bids # <<>> /\ asks # <<>>
  IN  [two_sided |-> two_sided,
       locked |-> two_sided /\ bids[1][1] = asks[1][1],
       crossed |-> two_sided /\ bids[1][1] > asks[1][1]]

render_book_event(mutation, bks, sequence, timestamp) ==
  LET bids == depth(bks, mutation.symbol, "Buy")
      asks == depth(bks, mutation.symbol, "Sell")
      flags == render_flags(bids, asks)
  IN  [record_type |-> "book_event", sequence |-> sequence, source_offset |-> offset,
       timestamp_ns |-> timestamp, message_type |-> mutation.message_type,
       replaces |-> mutation.new_order_reference # None,
       event_qty |-> mutation.event_quantity, display_price4 |-> mutation.display_price,
       two_sided |-> flags.two_sided, locked |-> flags.locked, crossed |-> flags.crossed,
       bids |-> bids, asks |-> asks]

\* The observer, called after a message was applied.
observe(payload) ==
  IF mutation_selected(last_book_mutation')
  THEN LET event == render_book_event(last_book_mutation', books', output_records + 1,
                                      payload.timestamp)
       IN  /\ output_records' = output_records + 1
           /\ last_event' = Put(last_event, last_book_mutation'.symbol, event)
           /\ Send(event)
  ELSE UNCHANGED export

render_summary ==
  [record_type |-> "summary", records_seen |-> statistics.seen,
   records_decoded |-> statistics.decoded, records_applied |-> statistics.applied,
   records_output |-> output_records]

----------------------------------------------------------------------------
(* One record *)

\* record_diagnostic: an error if it is terminal or the mode strict, a warning else;
\* counted are the counters that rise with it.
record_diagnostic(category, at, terminal, counted) ==
  /\ diagnostics' = Append(diagnostics,
                      [category |-> category, offset |-> at, record_index |-> record_index])
  /\ statistics' = Counted(counted \cup
                      {IF terminal \/ mode = "Strict" THEN "errors" ELSE "warnings"})

\* mutant: a truncated file is an error only in strict mode
FailUnlessPermissive(category, at, terminal, counted) ==
  /\ record_diagnostic(category, at, terminal, counted)
  /\ terminal_failure' = (mode = "Strict")
  /\ phase' = IF terminal THEN "broken" ELSE "reading"
  /\ UNCHANGED <<invariant_failure, exit_code>>

\* A record that fails; a terminal failure breaks the loop off.
Failed(category, at, terminal, counted) ==
  /\ record_diagnostic(category, at, terminal, counted)
  /\ terminal_failure' = terminal
  /\ phase' = IF terminal THEN "broken" ELSE "reading"
  /\ UNCHANGED <<invariant_failure, exit_code>>

\* mutant: a framing failure counts as a skipped record
FramingSkipped(frame) ==
  /\ frame.category \in Framing
  /\ Failed(frame.category, offset, TRUE, {"seen", "failed", "skipped"})
  /\ UNCHANGED <<vars, reader, feed, export>>

\* mutant: a framing failure is retried like any other failure
FramingRetried(frame) ==
  /\ frame.category \in Framing
  /\ Failed(frame.category, offset, mode = "Strict", {"seen", "failed"})
  /\ UNCHANGED <<vars, reader, feed, export>>

\* FramedReader::next has no whole record to return.
framing_fails(frame) ==
  /\ frame.category \in Framing
  /\ Failed(frame.category, offset, TRUE, {"seen", "failed"})
  /\ UNCHANGED <<vars, reader, feed, export>>

\* mutant: the reader counts only what it could decode
ReturnedUncounted(payload) ==
  /\ offset' = offset + 2 + payload.size
  /\ record_index' = IF decode_message(payload).category = "ok" THEN record_index + 1
                     ELSE record_index
\* FramedReader::next returned the record.
Returned(payload) ==
  offset' = offset + 2 + payload.size /\ record_index' = record_index + 1

Skipped == {"seen", "failed", "skipped"}

decoding_fails(frame) ==
  LET error == decode_message(frame.payload)
  IN  /\ frame.category = "ok" /\ error.category # "ok"
      /\ Failed(error.category, offset + 2 + error.offset, mode = "Strict", Skipped)
      /\ Returned(frame.payload)
      /\ UNCHANGED <<vars, feed, export>>

\* What the exchange promises of a record: it is no earlier than the one before, and the
\* price of an order is positive.
Regular(payload) ==
  /\ payload.timestamp >= last_timestamp
  /\ payload.message.type \in {"A", "F", "U"} => payload.message.price > 0

decoded_message(frame) ==
  /\ frame.category = "ok" /\ decode_message(frame.payload).category = "ok"
  /\ last_timestamp' = frame.payload.timestamp
  /\ regular' = (regular /\ Regular(frame.payload))
  /\ Apply(frame.payload.message)
  /\ Returned(frame.payload)
  /\ IF result' = "ok"
     THEN /\ statistics' = Counted({"seen", "decoded", "applied"})
          /\ observe(frame.payload)
          /\ UNCHANGED failures
     ELSE /\ Failed(result', offset + 2, mode = "Strict", Skipped \cup {"decoded"})
          /\ UNCHANGED export

next_record(frame) ==
  /\ phase = "reading"
  /\ max_messages # None => statistics.seen < max_messages
  /\ record' = [frame |-> frame, envelope |-> offset]
  /\ framing_fails(frame) \/ decoding_fails(frame) \/ decoded_message(frame)
  /\ UNCHANGED options

\* FactualState::check_invariants walks the books, the index and the ledger.
check_invariants ==
  BookSound /\ AggregatesAreSums /\ OrdersAreListed /\ LedgerIndexed /\ DirectoriesAgree

\* mutant: the process returns the number of errors
ExitWithErrors(invariant_failed, failed, output_failed) == statistics.errors
ExitWith(invariant_failed, failed, output_failed) ==
  IF invariant_failed THEN 5 ELSE IF failed THEN 4 ELSE IF output_failed THEN 3 ELSE 0

\* The file or the limit is reached, or a failure broke the loop off.  main asks stdout
\* whether a write failed before its last buffer is written out, except that a diagnostic
\* on stderr, which is tied to stdout, has that written first.
finish_run ==
  /\ phase \in {"reading", "broken"}
  /\ phase' = "ended"
  /\ invariant_failure' = ~check_invariants
  /\ terminal_failure' = (terminal_failure \/ ~check_invariants)
  /\ IF check_invariants THEN UNCHANGED <<statistics, diagnostics>>
     ELSE record_diagnostic("InvariantViolation", offset, TRUE, {})
  /\ Send(render_summary)
  /\ \E output_failed \in BOOLEAN :
       /\ output_failed => lost'
       /\ lost' /\ diagnostics' # <<>> => output_failed
       /\ exit_code' = ExitWith(invariant_failure', terminal_failure', output_failed)
  /\ UNCHANGED <<vars, options, reader, record, feed, output_records, last_event>>

Finished == phase = "ended" /\ UNCHANGED replay_vars

Readable == IF max_messages = 1 THEN Frames \cup Probes ELSE Frames

ReplayNext ==
  \/ \E frame \in Readable : statistics.seen < kMaxRecords /\ next_record(frame)
  \/ finish_run
  \/ Finished

ReplaySpec == ReplayInit /\ [][ReplayNext]_replay_vars

----------------------------------------------------------------------------
(* Properties *)

\* The record read last could not be framed: no reading goes past it.
CutShort == record.frame.category \in Framing

\* Every record seen was applied or failed; what failed was skipped, except the
\* record that could not be framed; and each failure left one diagnostic,
\* counted once as an error or a warning (replayer.cpp, run).
CountersAddUp ==
  /\ statistics.seen = statistics.applied + statistics.failed
  /\ statistics.failed = statistics.skipped + (IF CutShort THEN 1 ELSE 0)
  /\ Len(diagnostics) = statistics.errors + statistics.warnings
  /\ Len(diagnostics) = statistics.failed + (IF invariant_failure THEN 1 ELSE 0)
  /\ output_records <= statistics.applied
  /\ statistics.applied <= statistics.decoded /\ statistics.decoded <= statistics.seen

\* The exit code is 4 or 5 exactly when an error was counted, in a strict run exactly when
\* there is a diagnostic; 3 is for a run without errors whose output failed, and 0 over a
\* failed output only for one without a diagnostic (replayer.cpp, run; the exit codes of
\* main in lobforge_replay.cpp).
ExitTellsErrors ==
  phase = "ended" =>
    /\ exit_code \in {4, 5} <=> statistics.errors # 0
    /\ mode = "Strict" => (exit_code \in {4, 5} <=> diagnostics # <<>>)
    /\ exit_code = 3 => lost
    /\ exit_code = 0 => ~lost \/ diagnostics = <<>>

\* Nothing is read after a failure that ends the run: any in strict mode, a
\* record that could not be framed in both.
NothingAfterTerminal ==
  /\ mode = "Strict" => Len(diagnostics) <= (IF invariant_failure THEN 2 ELSE 1)
  /\ CutShort \/ (mode = "Strict" /\ diagnostics # <<>>) => phase # "reading"

\* A failure that ends the run ends it at once, and is told by the exit code.
FailuresEndRun == NothingAfterTerminal /\ ExitTellsErrors

\* Diagnostics name records and offsets in the order of the file, each within
\* what the reader has returned or at the record it could not return. Two may share
\* an offset: a record of no bytes ends where the next, cut short, begins.
DiagnosticsInFileOrder ==
  \A i \in DOMAIN diagnostics :
    /\ diagnostics[i].record_index <= record_index /\ diagnostics[i].offset <= offset
    /\ diagnostics[i].record_index = record_index => diagnostics[i].category \in Framing
    /\ i > 1 => /\ diagnostics[i - 1].record_index < diagnostics[i].record_index
                /\ diagnostics[i - 1].offset <= diagnostics[i].offset

LastRecordDecoded ==
  /\ record.frame.category = "ok"
  /\ decode_message(record.frame.payload).category = "ok"

\* What was decoded had the length its fields take up together and no field that
\* breaks its rule: the table of lengths, the reads and the checks agree.
DecodedWhole ==
  LastRecordDecoded =>
    /\ record.frame.payload.size = Width(record.frame.payload.type)
    /\ record.frame.payload.bad = {}

\* A field that the decoder refused is reported at the first byte of a field, no later
\* than the first byte of one that breaks its rule: the offsets are literals in
\* decoder.cpp. (What the book refuses is reported at the payload.)
DiagnosticsPointAtFields ==
  \A i \in DOMAIN diagnostics :
    /\ i = Len(diagnostics) /\ record.frame.category = "ok" /\ ~LastRecordDecoded
    /\ diagnostics[i].record_index = record_index - 1
    /\ diagnostics[i].category \in {"InvalidField", "InvalidEnum"}
    => LET payload == record.frame.payload
           named == diagnostics[i].offset - (record.envelope + 2)
       IN  /\ named \in {StartOf(payload.type, f.name) : f \in Range(Fields(payload.type))}
           /\ \E name \in payload.bad : named <= StartOf(payload.type, name)

\* A diagnostic leads to the record that failed and to the field that it refused.
DiagnosticsTellWhere == DiagnosticsInFileOrder /\ DiagnosticsPointAtFields

\* The Python reader refuses a row only after the feed went back in time or priced an
\* order at 0, and finds the stream whole only if all of it arrived: always when the
\* feed was regular and no write failed (schema.py checks what book_event_v1.cpp writes).
StreamAccepted ==
  /\ refused => ~regular
  /\ Stream!finish(consumer) => phase = "ended" /\ ~lost /\ ~refused
  /\ phase = "ended" /\ regular /\ ~lost => Stream!finish(consumer)

\* The depth exported last for a symbol is the depth of its book now: no move of
\* the displayed book goes unreported, in either mode and whatever was refused.
StreamTracksBook ==
  \A s \in Symbol : Selected = {} \/ s \in Selected =>
    IF s \in DOMAIN last_event
    THEN /\ last_event[s].bids = depth(books, s, "Buy")
         /\ last_event[s].asks = depth(books, s, "Sell")
    ELSE depth(books, s, "Buy") = <<>> /\ depth(books, s, "Sell") = <<>>
=============================================================================

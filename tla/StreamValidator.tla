-------------------------- MODULE StreamValidator --------------------------
(***************************************************************************)
(* StreamValidator of python/src/lobforge_research/schema.py: what a reader  *)
(* accepts as a book-event stream, row by row.  A row is a header, a book    *)
(* event or a summary; keys, dates, digests and the fields that follow from  *)
(* the message type alone are left out.                                      *)
(***************************************************************************)
EXTENDS Integers, Sequences

Fresh ==
  [header |-> FALSE, summary |-> FALSE, depth |-> 0, event_count |-> 0,
   last_sequence |-> 0, last_source_offset |-> -1, last_timestamp_ns |-> -1]

\* _depth: at most so many levels, each a pair of price and quantity, best first.
ValidDepth(levels, depth, side) ==
  /\ Len(levels) <= depth
  /\ \A i \in DOMAIN levels :
       /\ levels[i][1] >= 1 /\ levels[i][2] >= 1
       /\ i > 1 => IF side = "Buy" THEN levels[i - 1][1] > levels[i][1]
                   ELSE levels[i - 1][1] < levels[i][1]

FlagsAgree(row) ==
  LET two_sided == row.bids # <<>> /\ row.asks # <<>>
  IN  /\ row.two_sided = two_sided
      /\ row.locked = (two_sided /\ row.bids[1][1] = row.asks[1][1])
      /\ row.crossed = (two_sided /\ row.bids[1][1] > row.asks[1][1])

accepts_header(v, row) == ~v.header /\ v.event_count = 0 /\ row.depth \in 1..10

accepts_book_event(v, row) ==
  /\ v.header
  /\ row.sequence = v.last_sequence + 1
  /\ row.source_offset > v.last_source_offset
  /\ row.timestamp_ns >= v.last_timestamp_ns
  /\ row.event_qty >= 1 /\ row.display_price4 >= 1
  /\ (row.message_type = "U") = row.replaces
  /\ ValidDepth(row.bids, v.depth, "Buy") /\ ValidDepth(row.asks, v.depth, "Sell")
  /\ FlagsAgree(row)

accepts_summary(v, row) ==
  /\ v.header
  /\ row.records_output = v.event_count
  /\ row.records_decoded <= row.records_seen
  /\ row.records_applied <= row.records_decoded

accepts(v, row) ==
  /\ ~v.summary
  /\ CASE row.record_type = "header" -> accepts_header(v, row)
       [] row.record_type = "book_event" -> accepts_book_event(v, row)
       [] row.record_type = "summary" -> accepts_summary(v, row)

\* accept: the validator after a row it accepts.
accept(v, row) ==
  CASE row.record_type = "header" -> [v EXCEPT !.header = TRUE, !.depth = row.depth]
    [] row.record_type = "book_event" ->
         [v EXCEPT !.event_count = @ + 1, !.last_sequence = row.sequence,
                   !.last_source_offset = row.source_offset,
                   !.last_timestamp_ns = row.timestamp_ns]
    [] row.record_type = "summary" -> [v EXCEPT !.summary = TRUE]

finish(v) == v.header /\ v.summary
=============================================================================

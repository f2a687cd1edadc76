--------------------------- MODULE MCDatasetBuild --------------------------
(* DatasetBuild with replays that succeed, fail strictly after a part of the  *)
(* rows, are cut off, write a row the validator refuses or cannot read.       *)
EXTENDS DatasetBuild, TLC

Header == [record_type |-> "header", depth |-> 1]
Event(i, price) ==
  [record_type |-> "book_event", sequence |-> i, source_offset |-> i, timestamp_ns |-> i,
   message_type |-> "A", replaces |-> FALSE, event_qty |-> 1, display_price4 |-> price,
   bids |-> <<>>, asks |-> <<>>, two_sided |-> FALSE, locked |-> FALSE, crossed |-> FALSE]
Summary(n) ==
  [record_type |-> "summary", records_seen |-> n, records_decoded |-> n,
   records_applied |-> n, records_output |-> n]

Script(rows, reports, code) == [rows |-> rows, reports |-> reports, code |-> code]
Whole == Script(<<Header, Event(1, 1), Event(2, 1), Event(3, 1), Summary(3)>>, 0, 0)
StrictFailure == Script(<<Header, Event(1, 1), Summary(1)>>, 2, 4)
CutOff == Script(<<Header, Event(1, 1), Event(2, 1)>>, 0, 0)
BadRow == Script(<<Header, Event(1, 1), Event(2, 0), Event(3, 1), Summary(3)>>, 0, 0)
Unreadable == Script(<<>>, 1, 3)
BuildScripts == {Whole, StrictFailure, CutOff, BadRow, Unreadable}
=============================================================================

--------------------------- MODULE ReplayerProofs ---------------------------
(***************************************************************************)
(* Theorems about the replayer: its counters and its diagnostics account for *)
(* every record, a failure that ends a run ends it at once and is told by   *)
(* the exit code, the exported stream follows the book and is accepted by   *)
(* its reader, the book never fails its check, the decoder's tables agree    *)
(* and diagnostics lead to the record and the field that failed.             *)
(***************************************************************************)
EXTENDS Replayer, FactualBookProofs

\* What makes CountersAddUp and NothingAfterTerminal inductive: the counters are
\* numbers, and the book is checked only as the run ends.
Accounted ==
  /\ statistics \in [Counters -> Nat]
  /\ \E D : diagnostics \in Seq(D)
  /\ output_records \in Nat
  /\ invariant_failure \in BOOLEAN
  /\ invariant_failure => phase = "ended"
  /\ CountersAddUp
  /\ NothingAfterTerminal

\* How many times a counter rises.
Rise(name, counted) == IF name \in counted THEN 1 ELSE 0

\* Counted raises the counters it is given by one, and no other.
LEMMA CountedRaises ==
  ASSUME statistics \in [Counters -> Nat], NEW counted, statistics' = Counted(counted)
  PROVE  /\ statistics' \in [Counters -> Nat]
         /\ \A c \in Counters : statistics'[c] = statistics[c] + Rise(c, counted)
BY DEF Counted, Rise

\* A diagnostic lengthens the list by one and is counted as one error or warning.
LEMMA DiagnosticCounted ==
  ASSUME statistics \in [Counters -> Nat], NEW D, diagnostics \in Seq(D),
         NEW counted \in SUBSET (Counters \ {"errors", "warnings"}),
         NEW category, NEW at, NEW terminal,
         record_diagnostic(category, at, terminal, counted)
  PROVE  /\ \E E : diagnostics' \in Seq(E)
         /\ Len(diagnostics') = Len(diagnostics) + 1
         /\ statistics' \in [Counters -> Nat]
         /\ \A c \in Counters \ {"errors", "warnings"} :
              statistics'[c] = statistics[c] + Rise(c, counted)
         /\ statistics'["errors"] + statistics'["warnings"]
              = statistics["errors"] + statistics["warnings"] + 1
<1> DEFINE entry == [category |-> category, offset |-> at, record_index |-> record_index]
           grade == IF terminal \/ mode = "Strict" THEN "errors" ELSE "warnings"
<1>1. diagnostics' = Append(diagnostics, entry) /\ statistics' = Counted(counted \cup {grade})
  BY DEF record_diagnostic
<1>2. grade \in {"errors", "warnings"}
  OBVIOUS
<1> HIDE DEF entry, grade
<1>3. diagnostics \in Seq(D \cup {entry}) /\ entry \in D \cup {entry}
  BY SeqMonotonic
<1>4. diagnostics' \in Seq(D \cup {entry}) /\ Len(diagnostics') = Len(diagnostics) + 1
  BY <1>1, <1>3, AppendProperties
<1>5. /\ statistics' \in [Counters -> Nat]
      /\ \A c \in Counters : statistics'[c] = statistics[c] + Rise(c, counted \cup {grade})
  BY <1>1, CountedRaises
<1>6. \A c \in Counters \ {"errors", "warnings"} :
        Rise(c, counted \cup {grade}) = Rise(c, counted)
  BY <1>2 DEF Rise
<1>7. Rise("errors", counted \cup {grade}) + Rise("warnings", counted \cup {grade}) = 1
  BY <1>2 DEF Rise
<1>8. /\ statistics'["errors"] = statistics["errors"] + Rise("errors", counted \cup {grade})
      /\ statistics'["warnings"] = statistics["warnings"] + Rise("warnings", counted \cup {grade})
      /\ statistics["errors"] \in Nat /\ statistics["warnings"] \in Nat
      /\ Rise("errors", counted \cup {grade}) \in Nat
      /\ Rise("warnings", counted \cup {grade}) \in Nat
  BY <1>5 DEF Counters, Rise
<1>9. statistics'["errors"] + statistics'["warnings"]
        = statistics["errors"] + statistics["warnings"] + 1
  BY <1>7, <1>8
<1>10. \A c \in Counters \ {"errors", "warnings"} :
         statistics'[c] = statistics[c] + Rise(c, counted)
  BY <1>5, <1>6
<1> QED BY <1>4, <1>5, <1>9, <1>10

\* A failed record: every way a record fails ends like this.
LEMMA FailureAccounted ==
  ASSUME Accounted, phase = "reading", UNCHANGED <<options, output_records>>,
         NEW category, NEW at, NEW terminal \in BOOLEAN, NEW counted,
         counted \in {{"seen", "failed"}, {"seen", "failed", "skipped"},
                      {"seen", "failed", "skipped", "decoded"}},
         "skipped" \in counted <=> ~CutShort',
         Failed(category, at, terminal, counted),
         mode = "Strict" => terminal, CutShort' => terminal
  PROVE  Accounted'
<1>1. PICK D : diagnostics \in Seq(D)
  BY DEF Accounted
<1>2. counted \in SUBSET (Counters \ {"errors", "warnings"})
  BY DEF Counters
<1>3. /\ \E E : diagnostics' \in Seq(E)
      /\ Len(diagnostics') = Len(diagnostics) + 1
      /\ statistics' \in [Counters -> Nat]
      /\ \A c \in Counters \ {"errors", "warnings"} :
           statistics'[c] = statistics[c] + Rise(c, counted)
      /\ statistics'["errors"] + statistics'["warnings"]
           = statistics["errors"] + statistics["warnings"] + 1
  BY <1>1, <1>2, DiagnosticCounted DEF Failed, Accounted
<1>4. /\ statistics'["seen"] = statistics["seen"] + 1
      /\ statistics'["failed"] = statistics["failed"] + 1
      /\ statistics'["skipped"] = statistics["skipped"] + (IF CutShort' THEN 0 ELSE 1)
      /\ statistics'["applied"] = statistics["applied"]
      /\ statistics'["decoded"] \in {statistics["decoded"], statistics["decoded"] + 1}
  <2>1. /\ Rise("seen", counted) = 1 /\ Rise("failed", counted) = 1
        /\ Rise("skipped", counted) = (IF CutShort' THEN 0 ELSE 1)
        /\ Rise("applied", counted) = 0 /\ Rise("decoded", counted) \in {0, 1}
    BY DEF Rise
  <2>2. /\ \A c \in {"seen", "failed", "skipped", "applied", "decoded"} :
             statistics'[c] = statistics[c] + Rise(c, counted) /\ statistics[c] \in Nat
    BY <1>3 DEF Accounted, Counters
  <2> QED BY <2>1, <2>2
<1>5. /\ ~invariant_failure /\ ~invariant_failure'
      /\ terminal => phase' = "broken"
      /\ ~terminal => phase' = "reading"
  BY DEF Failed, Accounted
<1>6. ~CutShort /\ (mode = "Strict" => diagnostics = <<>>)
  BY DEF Accounted, NothingAfterTerminal
<1>7. /\ \A c \in {"seen", "failed", "skipped", "applied", "decoded", "errors", "warnings"} :
           statistics[c] \in Nat
      /\ output_records \in Nat /\ output_records' = output_records
      /\ Len(diagnostics) \in Nat
  BY <1>1, LenProperties DEF Accounted, Counters
<1>8. CountersAddUp'
  <2>1. /\ statistics["seen"] = statistics["applied"] + statistics["failed"]
        /\ statistics["failed"] = statistics["skipped"]
        /\ Len(diagnostics) = statistics["errors"] + statistics["warnings"]
        /\ Len(diagnostics) = statistics["failed"]
        /\ output_records <= statistics["applied"]
        /\ statistics["applied"] <= statistics["decoded"]
        /\ statistics["decoded"] <= statistics["seen"]
    BY <1>5, <1>6, <1>7 DEF Accounted, CountersAddUp
  <2>2. statistics'["seen"] = statistics'["applied"] + statistics'["failed"]
    BY <1>4, <1>7, <2>1
  <2>3. /\ output_records' <= statistics'["applied"]
        /\ statistics'["applied"] <= statistics'["decoded"]
        /\ statistics'["decoded"] <= statistics'["seen"]
    <3>1. /\ statistics["applied"] \in Nat /\ statistics["decoded"] \in Nat
          /\ statistics["seen"] \in Nat /\ output_records \in Nat
      BY <1>7
    <3> QED BY <1>4, <1>7, <2>1, <3>1
  <2>4. statistics'["failed"] = statistics'["skipped"] + (IF CutShort' THEN 1 ELSE 0)
    BY <1>4, <1>7, <2>1
  <2>5. /\ Len(diagnostics') = statistics'["errors"] + statistics'["warnings"]
        /\ Len(diagnostics') = statistics'["failed"]
    BY <1>3, <1>4, <1>7, <2>1
  <2> QED BY <1>5, <2>2, <2>3, <2>4, <2>5 DEF CountersAddUp
<1>9. NothingAfterTerminal'
  BY <1>3, <1>5, <1>6, <1>7, EmptySeq DEF NothingAfterTerminal, options
<1>10. output_records' \in Nat /\ invariant_failure' \in BOOLEAN
  BY <1>7 DEF Failed, Accounted
<1> QED BY <1>3, <1>5, <1>8, <1>9, <1>10 DEF Accounted

\* A record that is applied.
LEMMA SuccessAccounted ==
  ASSUME Accounted, phase = "reading", ~CutShort', UNCHANGED <<options, failures>>,
         statistics' = Counted({"seen", "decoded", "applied"}),
         output_records' \in {output_records, output_records + 1}
  PROVE  Accounted'
<1>1. /\ statistics' \in [Counters -> Nat]
      /\ \A c \in Counters :
           statistics'[c] = statistics[c] + Rise(c, {"seen", "decoded", "applied"})
  BY CountedRaises DEF Accounted
<1>2. /\ statistics'["seen"] = statistics["seen"] + 1
      /\ statistics'["decoded"] = statistics["decoded"] + 1
      /\ statistics'["applied"] = statistics["applied"] + 1
      /\ \A c \in {"failed", "skipped", "errors", "warnings"} : statistics'[c] = statistics[c]
      /\ \A c \in {"seen", "failed", "skipped", "applied", "decoded", "errors", "warnings"} :
           statistics[c] \in Nat
  BY <1>1 DEF Accounted, Counters, Rise
<1>3. ~CutShort /\ UNCHANGED <<mode, diagnostics, invariant_failure, phase>>
  BY DEF Accounted, NothingAfterTerminal, options, failures
<1>4. CountersAddUp'
  <2>1. /\ statistics["seen"] = statistics["applied"] + statistics["failed"]
        /\ statistics["failed"] = statistics["skipped"]
        /\ output_records \in Nat /\ output_records <= statistics["applied"]
        /\ statistics["applied"] <= statistics["decoded"]
        /\ statistics["decoded"] <= statistics["seen"]
    BY <1>2, <1>3 DEF Accounted, CountersAddUp
  <2>2. /\ statistics'["seen"] = statistics'["applied"] + statistics'["failed"]
        /\ statistics'["failed"] = statistics'["skipped"]
        /\ output_records' <= statistics'["applied"]
        /\ statistics'["applied"] <= statistics'["decoded"]
        /\ statistics'["decoded"] <= statistics'["seen"]
    BY <1>2, <2>1
  <2>3. /\ Len(diagnostics') = statistics'["errors"] + statistics'["warnings"]
        /\ Len(diagnostics') = statistics'["failed"] + (IF invariant_failure' THEN 1 ELSE 0)
    BY <1>2, <1>3 DEF Accounted, CountersAddUp
  <2>4. statistics'["failed"] = statistics'["skipped"] + (IF CutShort' THEN 1 ELSE 0)
    BY <1>2, <2>2
  <2> QED BY <2>2, <2>3, <2>4 DEF CountersAddUp
<1>5. NothingAfterTerminal'
  BY <1>3 DEF Accounted, NothingAfterTerminal
<1> QED BY <1>1, <1>3, <1>4, <1>5 DEF Accounted

\* A record fails in the reader, in the decoder or in the book, or is applied.
LEMMA RecordAccounted ==
  ASSUME Accounted, NEW frame, next_record(frame)
  PROVE  Accounted'
<1>1. phase = "reading" /\ UNCHANGED options /\ (CutShort' <=> frame.category \in Framing)
  BY DEF next_record, CutShort
<1>2. CASE framing_fails(frame)
  <2>1. /\ Failed(frame.category, offset, TRUE, {"seen", "failed"})
        /\ CutShort' /\ UNCHANGED output_records
    BY <1>1, <1>2 DEF framing_fails, export
  <2> QED BY <1>1, <2>1, FailureAccounted
<1>3. CASE decoding_fails(frame)
  <2>1. /\ \E category, at : Failed(category, at, mode = "Strict", Skipped)
        /\ ~CutShort' /\ UNCHANGED output_records
    BY <1>1, <1>3 DEF decoding_fails, export, Framing
  <2> QED BY <1>1, <2>1, FailureAccounted DEF Skipped
<1>4. CASE decoded_message(frame)
  <2>1. ~CutShort'
    BY <1>1, <1>4 DEF decoded_message, Framing
  <2>2. CASE result' = "ok"
    <3>1. /\ statistics' = Counted({"seen", "decoded", "applied"}) /\ UNCHANGED failures
          /\ output_records' \in {output_records, output_records + 1}
      BY <1>4, <2>2 DEF decoded_message, observe, export
    <3> QED BY <1>1, <2>1, <3>1, SuccessAccounted
  <2>3. CASE result' # "ok"
    <3>1. /\ Failed(result', offset + 2, mode = "Strict", Skipped \cup {"decoded"})
          /\ UNCHANGED output_records
      BY <1>4, <2>3 DEF decoded_message, export
    <3>2. Skipped \cup {"decoded"} = {"seen", "failed", "skipped", "decoded"}
      BY DEF Skipped
    <3> QED BY <1>1, <2>1, <3>1, <3>2, FailureAccounted
  <2> QED BY <2>2, <2>3
<1> QED BY <1>2, <1>3, <1>4 DEF next_record

\* The end of a run adds at most the diagnostic of the book's own check.
LEMMA EndAccounted ==
  ASSUME Accounted, finish_run
  PROVE  Accounted'
<1>1. PICK D : diagnostics \in Seq(D)
  BY DEF Accounted
<1>2. /\ phase' = "ended" /\ phase \in {"reading", "broken"} /\ ~invariant_failure
      /\ UNCHANGED <<mode, record, output_records>>
      /\ invariant_failure' \in BOOLEAN /\ invariant_failure' = ~check_invariants
  BY DEF finish_run, Accounted, options
<1>3. (CutShort' <=> CutShort) /\ Len(diagnostics) \in Nat
  BY <1>1, <1>2, LenProperties DEF CutShort
<1>4. CASE check_invariants
  <2>1. UNCHANGED <<statistics, diagnostics>> /\ ~invariant_failure'
    BY <1>2, <1>4 DEF finish_run
  <2> QED BY <1>2, <1>3, <2>1 DEF Accounted, CountersAddUp, NothingAfterTerminal
<1>5. CASE ~check_invariants
  <2>1. record_diagnostic("InvariantViolation", offset, TRUE, {}) /\ invariant_failure'
    BY <1>2, <1>5 DEF finish_run
  <2>2. /\ \E E : diagnostics' \in Seq(E)
        /\ Len(diagnostics') = Len(diagnostics) + 1
        /\ statistics' \in [Counters -> Nat]
        /\ \A c \in Counters \ {"errors", "warnings"} :
             statistics'[c] = statistics[c] + Rise(c, {})
        /\ statistics'["errors"] + statistics'["warnings"]
             = statistics["errors"] + statistics["warnings"] + 1
    BY <1>1, <2>1, DiagnosticCounted DEF Accounted
  <2>3. \A c \in {"seen", "failed", "skipped", "applied", "decoded"} :
          statistics'[c] = statistics[c] /\ statistics[c] \in Nat
    <3>1. \A c : Rise(c, {}) = 0
      BY DEF Rise
    <3>2. \A c \in {"seen", "failed", "skipped", "applied", "decoded"} :
            c \in Counters \ {"errors", "warnings"} /\ statistics[c] \in Nat
      BY DEF Accounted, Counters
    <3>3. \A c \in Counters \ {"errors", "warnings"} : statistics'[c] = statistics[c] + 0
      BY <2>2, <3>1
    <3> QED BY <3>2, <3>3
  <2>4. CountersAddUp'
    <3>1. Len(diagnostics') = statistics'["errors"] + statistics'["warnings"]
      BY <2>2 DEF Accounted, CountersAddUp
    <3>2. Len(diagnostics') = statistics'["failed"] + (IF invariant_failure' THEN 1 ELSE 0)
      BY <1>2, <2>1, <2>2, <2>3 DEF Accounted, CountersAddUp
    <3>3. /\ statistics'["seen"] = statistics'["applied"] + statistics'["failed"]
          /\ statistics'["failed"] = statistics'["skipped"] + (IF CutShort' THEN 1 ELSE 0)
          /\ output_records' <= statistics'["applied"]
          /\ statistics'["applied"] <= statistics'["decoded"]
          /\ statistics'["decoded"] <= statistics'["seen"]
      BY <1>2, <1>3, <2>3 DEF Accounted, CountersAddUp
    <3> QED BY <3>1, <3>2, <3>3 DEF CountersAddUp
  <2>5. NothingAfterTerminal'
    BY <1>2, <1>3, <2>1, <2>2 DEF Accounted, NothingAfterTerminal
  <2> QED BY <1>2, <2>1, <2>2, <2>4, <2>5 DEF Accounted
<1> QED BY <1>4, <1>5

\* Whatever the file, every record is accounted for at every step of the run.
THEOREM AccountedInvariant == ReplaySpec => []Accounted
<1>1. ASSUME ReplayInit PROVE Accounted
  <2>1. /\ statistics = [c \in Counters |-> 0] /\ diagnostics = <<>>
        /\ output_records = 0 /\ invariant_failure = FALSE /\ ~CutShort
    BY <1>1 DEF ReplayInit, NoRecord, CutShort, Framing
  <2>2. statistics \in [Counters -> Nat] /\ \A c \in Counters : statistics[c] = 0
    BY <2>1
  <2>3. <<>> \in Seq({}) /\ Len(<<>>) = 0
    BY EmptySeq
  <2>4. CountersAddUp
    BY <2>1, <2>2, <2>3 DEF CountersAddUp, Counters
  <2>5. NothingAfterTerminal
    BY <2>1, <2>3 DEF NothingAfterTerminal
  <2>6. \E D : diagnostics \in Seq(D)
    BY <2>1, <2>3
  <2> QED BY <2>1, <2>2, <2>4, <2>5, <2>6 DEF Accounted
<1>2. Accounted /\ [ReplayNext]_replay_vars => Accounted'
  <2> SUFFICES ASSUME Accounted, [ReplayNext]_replay_vars PROVE Accounted'
    OBVIOUS
  <2>1. CASE UNCHANGED replay_vars
    BY <2>1 DEF replay_vars, options, failures, export, Accounted, CountersAddUp,
               NothingAfterTerminal, CutShort
  <2>2. CASE ReplayNext
    BY <2>1, <2>2, RecordAccounted, EndAccounted DEF ReplayNext, Finished
  <2> QED BY <2>1, <2>2
<1> QED BY <1>1, <1>2, PTL DEF ReplaySpec

\* Seen, applied, failed and skipped records, errors, warnings, diagnostics and
\* exported events agree for every file, limit, mode and selection of symbols.
THEOREM CountersAlwaysAddUp == ReplaySpec => []CountersAddUp
<1>1. Accounted => CountersAddUp
  BY DEF Accounted
<1> QED BY <1>1, AccountedInvariant, PTL

\* What makes ExitTellsErrors inductive: the failures that end a run are its errors.
Told ==
  /\ phase \in {"reading", "broken", "ended"}
  /\ phase = "reading" => ~terminal_failure /\ statistics["errors"] = 0
  /\ phase = "broken" => terminal_failure /\ statistics["errors"] > 0
  /\ ExitTellsErrors

\* A diagnostic is an error if it is terminal or the mode strict.
LEMMA ErrorCounted ==
  ASSUME statistics \in [Counters -> Nat],
         NEW counted \in SUBSET (Counters \ {"errors", "warnings"}),
         NEW category, NEW at, NEW terminal,
         record_diagnostic(category, at, terminal, counted)
  PROVE  /\ terminal \/ mode = "Strict" => statistics'["errors"] = statistics["errors"] + 1
         /\ ~(terminal \/ mode = "Strict") => statistics'["errors"] = statistics["errors"]
<1> DEFINE grade == IF terminal \/ mode = "Strict" THEN "errors" ELSE "warnings"
<1>1. statistics' = Counted(counted \cup {grade})
  BY DEF record_diagnostic
<1>2. statistics'["errors"] = statistics["errors"] + Rise("errors", counted \cup {grade})
  BY <1>1, CountedRaises DEF Counters
<1>3. /\ terminal \/ mode = "Strict" => Rise("errors", counted \cup {grade}) = 1
      /\ ~(terminal \/ mode = "Strict") => Rise("errors", counted \cup {grade}) = 0
  BY DEF Rise
<1>4. statistics["errors"] \in Nat
  BY DEF Counters
<1> QED BY <1>2, <1>3, <1>4

\* A failed record is an error if and only if it breaks the loop off.
LEMMA FailureTold ==
  ASSUME Accounted, Told, phase = "reading",
         NEW category, NEW at, NEW terminal \in BOOLEAN,
         NEW counted \in SUBSET (Counters \ {"errors", "warnings"}),
         Failed(category, at, terminal, counted), mode = "Strict" => terminal
  PROVE  Told'
<1>1. /\ terminal => statistics'["errors"] = 1
      /\ ~terminal => statistics'["errors"] = 0
  BY ErrorCounted DEF Failed, Accounted, Told
<1>2. /\ terminal_failure' = terminal
      /\ phase' = IF terminal THEN "broken" ELSE "reading"
  BY DEF Failed
<1> QED BY <1>1, <1>2 DEF Told, ExitTellsErrors

\* A record breaks the loop off with an error, or leaves no error behind.
LEMMA RecordTold ==
  ASSUME Accounted, Told, NEW frame, next_record(frame)
  PROVE  Told'
<1>1. phase = "reading" /\ UNCHANGED options
  BY DEF next_record
<1>2. CASE framing_fails(frame)
  <2>1. /\ Failed(frame.category, offset, TRUE, {"seen", "failed"})
        /\ {"seen", "failed"} \in SUBSET (Counters \ {"errors", "warnings"})
    BY <1>2 DEF framing_fails, Counters
  <2> QED BY <1>1, <2>1, FailureTold
<1>3. CASE decoding_fails(frame)
  <2>1. /\ \E category, at : Failed(category, at, mode = "Strict", Skipped)
        /\ Skipped \in SUBSET (Counters \ {"errors", "warnings"})
    BY <1>3 DEF decoding_fails, Skipped, Counters
  <2> QED BY <1>1, <2>1, FailureTold
<1>4. CASE decoded_message(frame)
  <2>1. CASE result' = "ok"
    <3>1. /\ statistics' = Counted({"seen", "decoded", "applied"}) /\ UNCHANGED failures
      BY <1>4, <2>1 DEF decoded_message
    <3>2. statistics'["errors"] = statistics["errors"] + Rise("errors", {"seen", "decoded", "applied"})
      BY <3>1, CountedRaises DEF Accounted, Counters
    <3>3. Rise("errors", {"seen", "decoded", "applied"}) = 0
      BY DEF Rise
    <3> QED BY <1>1, <3>1, <3>2, <3>3 DEF Told, ExitTellsErrors, failures
  <2>2. CASE result' # "ok"
    <3>1. /\ Failed(result', offset + 2, mode = "Strict", Skipped \cup {"decoded"})
          /\ Skipped \cup {"decoded"} \in SUBSET (Counters \ {"errors", "warnings"})
      BY <1>4, <2>2 DEF decoded_message, Skipped, Counters
    <3> QED BY <1>1, <3>1, FailureTold
  <2> QED BY <2>1, <2>2
<1> QED BY <1>2, <1>3, <1>4 DEF next_record

\* The exit code is taken from what broke the loop off and from the book's check.
LEMMA EndTold ==
  ASSUME Accounted, Told, finish_run
  PROVE  Told'
<1>1. PICK D : diagnostics \in Seq(D)
  BY DEF Accounted
<1>2. /\ phase \in {"reading", "broken"} /\ phase' = "ended" /\ mode' = mode
      /\ invariant_failure' = ~check_invariants
      /\ terminal_failure' = (terminal_failure \/ ~check_invariants)
  BY DEF finish_run, options
<1>6. PICK output_failed \in BOOLEAN :
        /\ output_failed => lost'
        /\ lost' /\ diagnostics' # <<>> => output_failed
        /\ exit_code' = IF invariant_failure' THEN 5 ELSE IF terminal_failure' THEN 4
                        ELSE IF output_failed THEN 3 ELSE 0
  BY DEF finish_run, ExitWith
<1>3. /\ statistics["errors"] \in Nat /\ statistics["warnings"] \in Nat
      /\ Len(diagnostics) = statistics["errors"] + statistics["warnings"]
      /\ mode = "Strict" /\ phase = "reading" => diagnostics = <<>>
  BY DEF Accounted, Counters, CountersAddUp, NothingAfterTerminal
<1>4. CASE check_invariants
  <2>1. UNCHANGED <<statistics, diagnostics>> /\ ~invariant_failure'
    BY <1>2, <1>4 DEF finish_run
  <2>2. phase = "broken" => statistics["errors"] > 0 /\ diagnostics # <<>> /\ terminal_failure
    BY <1>3, EmptySeq DEF Told
  <2>3. phase = "reading" => statistics["errors"] = 0 /\ ~terminal_failure
    BY DEF Told
  <2>4. ExitTellsErrors'
    <3>1. /\ terminal_failure' <=> phase = "broken"
          /\ statistics'["errors"] = 0 <=> phase = "reading"
          /\ mode' = "Strict" => (diagnostics' = <<>> <=> phase = "reading")
      <4>1. CASE phase = "reading"
        <5>1. terminal_failure' = FALSE
          BY <1>2, <1>4, <2>3, <4>1
        <5> QED BY <1>2, <1>3, <2>1, <2>3, <4>1, <5>1
      <4>2. CASE phase = "broken"
        <5>1. terminal_failure' = TRUE
          BY <1>2, <2>2, <4>2
        <5> QED BY <1>2, <1>3, <2>1, <2>2, <4>2, <5>1
      <4> QED BY <1>2, <4>1, <4>2
    <3>2. /\ exit_code' \in {4, 5} <=> phase = "broken"
          /\ exit_code' = 3 => lost'
          /\ exit_code' = 0 => ~lost' \/ diagnostics' = <<>>
      BY <1>6, <2>1, <3>1
    <3> QED BY <1>2, <3>1, <3>2 DEF ExitTellsErrors
  <2> QED BY <1>2, <2>4 DEF Told
<1>5. CASE ~check_invariants
  <2>1. record_diagnostic("InvariantViolation", offset, TRUE, {}) /\ exit_code' = 5
    BY <1>2, <1>5, <1>6 DEF finish_run
  <2>2. statistics'["errors"] > 0
    <3>1. {} \in SUBSET (Counters \ {"errors", "warnings"})
      OBVIOUS
    <3>2. statistics'["errors"] = statistics["errors"] + 1
      BY <2>1, <3>1, ErrorCounted DEF Accounted
    <3> QED BY <1>3, <3>2
  <2>3. diagnostics' # <<>>
    <3>1. \E E : diagnostics' \in Seq(E) /\ Len(diagnostics') = Len(diagnostics) + 1
      BY <1>1, <2>1, DiagnosticCounted DEF Accounted
    <3>2. Len(diagnostics) \in Nat
      BY <1>1, LenProperties
    <3> QED BY <3>1, <3>2, EmptySeq
  <2> QED BY <1>2, <2>1, <2>2, <2>3 DEF Told, ExitTellsErrors
<1> QED BY <1>4, <1>5

\* A failure that ends a run ends it at once and is told by the exit code, and a failed
\* output is told of by 3 unless the run had errors or nothing to say on stderr, for every
\* file, mode, limit and book and wherever a write fails.
THEOREM FailuresAlwaysEndRun == ReplaySpec => []FailuresEndRun
<1>1. ReplayInit => Told
  BY DEF ReplayInit, Told, ExitTellsErrors, Counters
<1>2. Accounted /\ Told /\ [ReplayNext]_replay_vars => Told'
  <2> SUFFICES ASSUME Accounted, Told, [ReplayNext]_replay_vars PROVE Told'
    OBVIOUS
  <2>1. CASE UNCHANGED replay_vars
    BY <2>1 DEF replay_vars, options, failures, export, Told, ExitTellsErrors
  <2>2. CASE ReplayNext
    BY <2>1, <2>2, RecordTold, EndTold DEF ReplayNext, Finished
  <2> QED BY <2>1, <2>2
<1>3. Accounted /\ Told => FailuresEndRun
  BY DEF Accounted, Told, FailuresEndRun
<1> QED BY <1>1, <1>2, <1>3, AccountedInvariant, PTL DEF ReplaySpec
----------------------------------------------------------------------------
(* The best prices of a side *)

LEMMA LeastNatural ==
  ASSUME NEW B \in SUBSET Nat, B # {}
  PROVE  \E m \in B : \A k \in B : m <= k
<1> DEFINE R == OpToRel(<, Nat)
<1>1. IsWellFoundedOn(R, Nat)
  BY NatLessThanWellFounded
<1>2. PICK m \in B : \A k \in B : ~ (<<k, m>> \in R)
  <2> HIDE DEF R
  <2>1. B \subseteq Nat
    OBVIOUS
  <2> QED BY <1>1, <2>1, WFMin
<1>3. ASSUME NEW k \in B PROVE m <= k
  <2>1. k < m => <<k, m>> \in R
    BY DEF OpToRel
  <2>2. k \in Nat /\ m \in Nat
    OBVIOUS
  <2> HIDE DEF R
  <2> QED BY <1>2, <2>1, <2>2
<1> QED BY <1>3

Rank(prices, side, p) == Cardinality(Ahead(prices, side, p))

\* A price has fewer prices ahead of it than one it is ahead of.
LEMMA RankRises ==
  ASSUME NEW prices \in SUBSET Nat, IsFiniteSet(prices), NEW side, NEW p \in prices
  PROVE  /\ Rank(prices, side, p) \in Nat /\ IsFiniteSet(Ahead(prices, side, p))
         /\ \A q \in Ahead(prices, side, p) : Rank(prices, side, q) < Rank(prices, side, p)
<1>1. ASSUME NEW r \in prices
      PROVE  Rank(prices, side, r) \in Nat /\ IsFiniteSet(Ahead(prices, side, r))
  <2>1. Ahead(prices, side, r) \in SUBSET prices
    BY DEF Ahead
  <2> QED BY <2>1, FS_Subset, FS_CardinalityType DEF Rank
<1>2. ASSUME NEW q \in Ahead(prices, side, p)
      PROVE  Rank(prices, side, q) < Rank(prices, side, p)
  <2>1. q \in prices /\ q \notin Ahead(prices, side, q)
    BY DEF Ahead
  <2>2. Ahead(prices, side, q) \in SUBSET Ahead(prices, side, p)
    <3> SUFFICES ASSUME NEW r \in Ahead(prices, side, q) PROVE r \in Ahead(prices, side, p)
      OBVIOUS
    <3>1. /\ r \in prices /\ r \in Nat /\ q \in Nat /\ p \in Nat
          /\ IF side = "Buy" THEN q > p ELSE q < p
          /\ IF side = "Buy" THEN r > q ELSE r < q
      BY <2>1 DEF Ahead
    <3>2. IF side = "Buy" THEN r > p ELSE r < p
      BY <3>1
    <3> QED BY <3>1, <3>2 DEF Ahead
  <2>3. /\ Rank(prices, side, q) <= Rank(prices, side, p)
        /\ Rank(prices, side, q) # Rank(prices, side, p)
    BY <1>1, <2>1, <2>2, FS_Subset DEF Rank
  <2>4. Rank(prices, side, q) \in Nat /\ Rank(prices, side, p) \in Nat
    BY <1>1, <2>1
  <2> QED BY <2>3, <2>4
<1> QED BY <1>1, <1>2

\* Of any two prices one is ahead of the other.
LEMMA RankTells ==
  ASSUME NEW prices \in SUBSET Nat, IsFiniteSet(prices), NEW side,
         NEW p \in prices, NEW q \in prices,
         Rank(prices, side, p) <= Rank(prices, side, q), p # q
  PROVE  p \in Ahead(prices, side, q)
<1>1. p \in Ahead(prices, side, q) \/ q \in Ahead(prices, side, p)
  BY DEF Ahead
<1>2. /\ Rank(prices, side, p) \in Nat /\ Rank(prices, side, q) \in Nat
      /\ q \in Ahead(prices, side, p) => Rank(prices, side, q) < Rank(prices, side, p)
  BY RankRises
<1> QED BY <1>1, <1>2

\* At most k prices have a rank below k.
LEMMA FewBelow ==
  ASSUME NEW prices \in SUBSET Nat, IsFiniteSet(prices), NEW side, NEW k \in Nat,
         NEW few \in SUBSET prices, \A p \in few : Rank(prices, side, p) < k
  PROVE  Cardinality(few) <= k
<1> DEFINE f == [p \in few |-> Rank(prices, side, p)]
<1>1. \A p \in few : Rank(prices, side, p) \in 0..(k - 1)
  BY RankRises
<1>2. \A p, q \in few : Rank(prices, side, p) = Rank(prices, side, q) => p = q
  <2> SUFFICES ASSUME NEW p \in few, NEW q \in few, p # q,
                      Rank(prices, side, p) = Rank(prices, side, q)
               PROVE  FALSE
    OBVIOUS
  <2>1. Rank(prices, side, p) \in Nat /\ Rank(prices, side, q) \in Nat
    BY RankRises
  <2>2. p \in Ahead(prices, side, q)
    BY <2>1, RankTells
  <2>3. Rank(prices, side, p) < Rank(prices, side, q)
    BY <2>2, RankRises
  <2> QED BY <2>1, <2>3
<1>3. f \in Injection(few, 0..(k - 1))
  BY <1>1, <1>2 DEF Injection, IsInjective
<1>4. IsFiniteSet(0..(k - 1)) /\ Cardinality(0..(k - 1)) = k
  BY FS_Interval
<1> QED BY <1>3, <1>4, FS_Injection

\* There is an i-th best price for every i up to their number.
LEMMA BestRanks ==
  ASSUME NEW prices \in SUBSET Nat, IsFiniteSet(prices), NEW side,
         NEW i \in 1..Cardinality(prices)
  PROVE  Best(prices, side, i) \in prices /\ Rank(prices, side, Best(prices, side, i)) = i - 1
<1> DEFINE k == i - 1
           T == {p \in prices : Rank(prices, side, p) >= k}
           R == {Rank(prices, side, p) : p \in T}
<1>1. Cardinality(prices) \in Nat /\ k \in Nat /\ k < Cardinality(prices)
  BY FS_CardinalityType
<1>2. \A p \in prices : Rank(prices, side, p) \in Nat
  BY RankRises
<1>3. T # {}
  <2> SUFFICES ASSUME T = {} PROVE FALSE
    OBVIOUS
  <2>1. \A p \in prices : Rank(prices, side, p) < k
    BY <1>1, <1>2
  <2>2. Cardinality(prices) <= k
    BY <1>1, <2>1, FewBelow
  <2> QED BY <1>1, <2>2
<1>4. R \in SUBSET Nat /\ R # {}
  BY <1>2, <1>3
<1>5. PICK r \in R : \A other \in R : r <= other
  BY <1>4, LeastNatural
<1>6. PICK p \in T : Rank(prices, side, p) = r
  OBVIOUS
<1>7. p \in prices /\ r \in Nat /\ r >= k
  BY <1>2, <1>6
<1>8. ASSUME NEW q \in Ahead(prices, side, p) PROVE q \in prices /\ Rank(prices, side, q) < k
  <2>1. q \in prices /\ Rank(prices, side, q) < r
    BY <1>6, <1>7, RankRises DEF Ahead
  <2>2. Rank(prices, side, q) \in Nat
    BY <1>2, <2>1
  <2>3. q \notin T
    BY <1>5, <1>7, <2>1, <2>2
  <2> QED BY <1>1, <2>1, <2>2, <2>3
<1>9. Ahead(prices, side, p) \in SUBSET prices
  BY <1>8
<1>10. r <= k
  <2> HIDE DEF k
  <2>1. Cardinality(Ahead(prices, side, p)) <= k
    BY <1>1, <1>8, <1>9, FewBelow
  <2> QED BY <1>6, <2>1 DEF Rank
<1>11. Cardinality(Ahead(prices, side, p)) = i - 1
  BY <1>1, <1>6, <1>7, <1>10 DEF Rank
<1> QED BY <1>7, <1>11 DEF Best, Rank

\* The best prices are in order.
LEMMA BestOrdered ==
  ASSUME NEW prices \in SUBSET Nat, IsFiniteSet(prices), NEW side,
         NEW i \in 1..Cardinality(prices), NEW j \in 1..Cardinality(prices), i < j
  PROVE  Best(prices, side, i) \in Ahead(prices, side, Best(prices, side, j))
<1> DEFINE p == Best(prices, side, i)
           q == Best(prices, side, j)
<1>1. /\ p \in prices /\ Rank(prices, side, p) = i - 1
      /\ q \in prices /\ Rank(prices, side, q) = j - 1
  BY BestRanks
<1>2. i \in Int /\ j \in Int
  OBVIOUS
<1> HIDE DEF p, q
<1>3. p # q /\ Rank(prices, side, p) <= Rank(prices, side, q)
  BY <1>1, <1>2
<1>4. p \in Ahead(prices, side, q)
  BY <1>1, <1>3, RankTells
<1> QED BY <1>4 DEF p, q
----------------------------------------------------------------------------
(* What a message moves is what it captures. *)

\* The book of one symbol changes with a level of that symbol alone.
LEMMA OtherSymbols ==
  ASSUME NEW bks, NEW entry, NEW level, NEW s \in DOMAIN bks, s # entry.symbol
  PROVE  s \in DOMAIN SetLevel(bks, entry, level) /\ SetLevel(bks, entry, level)[s] = bks[s]
BY DEF SetLevel

\* The displayed book moved, and the mutation says for which symbol.
Moved ==
  /\ result' = "ok"
  /\ last_book_mutation' \in BookMutation
  /\ last_book_mutation'.message_type = "U" <=> last_book_mutation'.new_order_reference # None
  /\ \A s \in Symbol : s # last_book_mutation'.symbol => books'[s] = books[s]

Unmoved == UNCHANGED books /\ last_book_mutation' = None

LEMMA AddMoves ==
  ASSUME BookInv, NEW m \in Feed, m.type \in {"A", "F"}, AddError(m) = "ok", apply_add(m),
         ~Unmoved
  PROVE  Moved
<1> DEFINE entry == [symbol |-> m.symbol, side |-> m.side, price |-> m.price]
<1>1. \E node : books' = Appended(books, entry, node)
  BY DEF apply_add
<1>2. /\ result' = "ok"
      /\ last_book_mutation' = [message_type |-> m.type, symbol |-> m.symbol, side |-> m.side,
                 order_reference |-> m.ref, new_order_reference |-> None,
                 event_quantity |-> m.shares, display_price |-> m.price]
  BY DEF apply_add, Succeed
<1>3. LocateError(m.locate, m.symbol) = "ok" /\ m.shares # 0
  BY DEF AddError
<1>4. m.symbol \in Symbol
  BY <1>3, LocateChecked
<1>5. /\ m.ref \in OrderReference /\ m.side \in Side /\ m.price \in Price
      /\ m.shares \in 1..kMax
  <2>1. /\ m.ref \in OrderReference /\ m.side \in Side /\ m.price \in Price
        /\ m.shares \in Shares
    BY FeedAssumption DEF FeedAssumption
  <2>2. m.shares \in 0..kMax
    BY <2>1, FactualAssumption DEF FactualAssumption
  <2> QED BY <1>3, <2>1, <2>2
<1>6. last_book_mutation' \in BookMutation
  BY <1>2, <1>4, <1>5 DEF BookMutation
<1>7. books \in Books
  BY DEF BookInv, Rests, Consistent
<1>8. \A s \in Symbol : s # m.symbol => books'[s] = books[s]
  BY <1>1, <1>7, OtherSymbols DEF Appended, Books
<1> QED BY <1>2, <1>6, <1>8 DEF Moved

\* What is captured of an order that shrinks or leaves.
LEMMA MutationTyped ==
  ASSUME BookInv, NEW ref \in DOMAIN order_index, NEW shares \in Quantity \ {0},
         NEW type \in {"E", "C", "X", "D"}, NEW price \in Price,
         last_book_mutation' = Mutation(type, ref, None, shares, price)
  PROVE  /\ last_book_mutation' \in BookMutation
         /\ last_book_mutation'.symbol = order_index[ref].symbol
         /\ last_book_mutation'.message_type # "U"
         /\ last_book_mutation'.new_order_reference = None
<1>1. order_index[ref] \in AllEntries /\ ref \in OrderReference
  BY Located DEF BookInv
<1> QED BY <1>1 DEF Mutation, BookMutation, AllEntries, Quantity

LEMMA ShrinkMoves ==
  ASSUME BookInv, NEW ref \in DOMAIN order_index, NEW shares \in Quantity \ {0},
         NEW type \in {"E", "C", "X", "D"}, result' = "ok",
         books' \in {Lowered(ref, shares), Erased(ref)},
         last_book_mutation' = Mutation(type, ref, None, shares, order_index[ref].price)
  PROVE  Moved
<1>1. order_index[ref] \in AllEntries
  BY Located DEF BookInv
<1>2. /\ last_book_mutation' \in BookMutation
      /\ last_book_mutation'.symbol = order_index[ref].symbol
      /\ last_book_mutation'.message_type # "U"
      /\ last_book_mutation'.new_order_reference = None
  BY <1>1, MutationTyped DEF AllEntries
<1>3. DOMAIN books = Symbol
  BY DEF BookInv, Rests, Consistent, Books
<1>4. \E level : books' = SetLevel(books, order_index[ref], level)
  BY DEF Lowered, Erased
<1>5. \A s \in Symbol : s # order_index[ref].symbol => books'[s] = books[s]
  BY <1>3, <1>4, OtherSymbols
<1> QED BY <1>2, <1>5 DEF Moved

LEMMA ReplaceMoves ==
  ASSUME BookInv, NEW m \in Feed, m.type = "U", ReplaceError(m) = "ok", apply_replace(m),
         ~Unmoved
  PROVE  Moved
<1> DEFINE target == [order_index[m.ref] EXCEPT !.price = m.price]
<1>1. \E node : books' = Appended(Erased(m.ref), target, node)
  BY DEF apply_replace
<1>2. result' = "ok" /\ last_book_mutation' = Mutation("U", m.ref, m.new_ref, m.shares, m.price)
  BY DEF apply_replace, Succeed
<1>3. OrderError(m.ref, m.locate) = "ok" /\ m.shares # 0
  BY DEF ReplaceError
<1>4. m.ref \in DOMAIN order_index
  BY <1>3 DEF OrderError
<1>5. order_index[m.ref] \in AllEntries /\ m.ref \in OrderReference
  BY <1>4, Located DEF BookInv
<1>6. m.new_ref \in OrderReference /\ m.price \in Price /\ m.shares \in 1..kMax
  <2>1. m.new_ref \in OrderReference /\ m.price \in Price /\ m.shares \in Shares
    BY FeedAssumption DEF FeedAssumption
  <2>2. m.shares \in 0..kMax
    BY <2>1, FactualAssumption DEF FactualAssumption
  <2> QED BY <1>3, <2>1, <2>2
<1>7. /\ last_book_mutation' \in BookMutation
      /\ last_book_mutation'.symbol = order_index[m.ref].symbol
      /\ last_book_mutation'.message_type = "U"
      /\ last_book_mutation'.new_order_reference = m.new_ref
  BY <1>2, <1>5, <1>6 DEF Mutation, BookMutation, AllEntries
<1>8. m.new_ref # None
  BY <1>6, MutationAssumption DEF MutationAssumption
<1>9. target.symbol = order_index[m.ref].symbol
  BY <1>5 DEF AllEntries
<1>10. DOMAIN books = Symbol
  BY DEF BookInv, Rests, Consistent, Books
<1>11. ASSUME NEW s \in Symbol, s # order_index[m.ref].symbol PROVE books'[s] = books[s]
  <2> HIDE DEF target
  <2>1. s \in DOMAIN Erased(m.ref) /\ Erased(m.ref)[s] = books[s]
    BY <1>10, <1>11, OtherSymbols DEF Erased
  <2>2. books'[s] = Erased(m.ref)[s]
    BY <1>1, <1>9, <1>11, <2>1, OtherSymbols DEF Appended
  <2> QED BY <2>1, <2>2
<1> QED BY <1>2, <1>7, <1>8, <1>11 DEF Moved

\* A message leaves the displayed books alone and captures nothing, or changes the
\* book of the symbol it captures and no other.
LEMMA MessageMoves ==
  ASSUME BookInv, NEW m \in Feed, Apply(m)
  PROVE  Unmoved \/ Moved
<1> SUFFICES ASSUME ~Unmoved PROVE Moved
  OBVIOUS
<1> USE DEF Apply, AboutStock, AboutMarket
<1>1. m.type \in {"S", "R", "A", "F", "E", "C", "X", "D", "U", "P", "Q", "B"}
                   \cup AboutStock \cup AboutMarket
  BY FactualAssumption DEF FactualAssumption
<1>2. ASSUME NEW category PROVE ~Fail(category)
  BY DEF Fail, facts, displayed, Unmoved
<1>3. CASE m.type \in {"S", "R", "P", "Q", "B"} \cup AboutStock \cup AboutMarket
  BY <1>3 DEF apply_system_event, apply_directory, apply_trade, apply_broken_trade,
     apply_reference, Fail, Succeed, facts, displayed, Unmoved
<1>4. m.type \in {"E", "C", "X"} => m.shares \in Shares
  BY FeedAssumption DEF FeedAssumption
<1>5. CASE m.type \in {"A", "F"}
  <2>1. apply_add(m)
    BY <1>5
  <2>2. AddError(m) = "ok"
    BY <2>1, <1>2 DEF apply_add
  <2> QED BY <1>5, <2>1, <2>2, AddMoves
<1>6. CASE m.type \in {"E", "C"}
  <2>1. apply_execution(m)
    BY <1>6
  <2>2. /\ ExecutionError(m) = "ok" /\ result' = "ok" /\ books' = Lowered(m.ref, m.shares)
        /\ last_book_mutation' = Mutation(m.type, m.ref, None, m.shares, order_index[m.ref].price)
    BY <2>1, <1>2 DEF apply_execution, Succeed
  <2>3. SharesError(m.ref, m.locate, m.shares) = "ok"
    BY <2>2 DEF ExecutionError
  <2>4. m.ref \in DOMAIN order_index /\ m.shares \in Quantity \ {0}
    BY <1>4, <1>6, <2>3, SharesChecked
  <2> QED BY <1>6, <2>2, <2>4, ShrinkMoves
<1>7. CASE m.type = "X"
  <2>1. apply_cancel(m)
    BY <1>7
  <2>2. /\ CancelError(m) = "ok" /\ result' = "ok" /\ books' = Lowered(m.ref, m.shares)
        /\ last_book_mutation' = Mutation("X", m.ref, None, m.shares, order_index[m.ref].price)
    BY <2>1, <1>2 DEF apply_cancel, Succeed
  <2>3. SharesError(m.ref, m.locate, m.shares) = "ok"
    BY <2>2 DEF CancelError
  <2>4. m.ref \in DOMAIN order_index /\ m.shares \in Quantity \ {0}
    BY <1>4, <1>7, <2>3, SharesChecked
  <2> QED BY <2>2, <2>4, ShrinkMoves
<1>8. CASE m.type = "D"
  <2>1. apply_delete(m)
    BY <1>8
  <2>2. /\ DeleteError(m) = "ok" /\ result' = "ok" /\ books' = Erased(m.ref)
        /\ last_book_mutation' = Mutation("D", m.ref, None, Order(m.ref).remaining_shares,
                                          order_index[m.ref].price)
    BY <2>1, <1>2 DEF apply_delete, Succeed
  <2>3. m.ref \in DOMAIN order_index
    BY <2>2 DEF DeleteError, OrderError
  <2>4. Order(m.ref).remaining_shares \in Quantity \ {0}
    <3>1. /\ Position(m.ref) \in 1..Len(LevelOf(books, order_index[m.ref]).orders)
          /\ Order(m.ref) = LevelOf(books, order_index[m.ref]).orders[Position(m.ref)]
          /\ Order(m.ref) \in Node
          /\ Queued(LevelOf(books, order_index[m.ref]).orders, order_index[m.ref],
                    order_index, next_fifo_sequence, directories)
      BY <2>3, Located DEF BookInv
    <3>2. Order(m.ref).remaining_shares # 0
      BY <3>1 DEF Queued
    <3>3. Order(m.ref).remaining_shares \in Quantity
      BY <3>1 DEF Node
    <3> QED BY <3>2, <3>3
  <2> QED BY <2>2, <2>3, <2>4, ShrinkMoves
<1>9. CASE m.type = "U"
  <2>1. apply_replace(m)
    BY <1>9
  <2>2. ReplaceError(m) = "ok"
    BY <2>1, <1>2 DEF apply_replace
  <2> QED BY <1>9, <2>1, <2>2, ReplaceMoves
<1> QED BY <1>1, <1>3, <1>5, <1>6, <1>7, <1>8, <1>9
\* No order of an index is priced at 0.
Priced(index) == \A ref \in DOMAIN index : index[ref].price > 0

\* A message that brings no price of 0 leaves none in the index and captures none.
LEMMA PricesArrive ==
  ASSUME BookInv, NEW m \in Feed, Apply(m), Priced(order_index),
         m.type \in {"A", "F", "U"} => m.price > 0
  PROVE  Priced(order_index') /\ (Moved => last_book_mutation'.display_price > 0)
<1> USE DEF Apply, AboutStock, AboutMarket
<1>1. m.type \in {"S", "R", "A", "F", "E", "C", "X", "D", "U", "P", "Q", "B"}
                   \cup AboutStock \cup AboutMarket
  BY FactualAssumption DEF FactualAssumption
<1>2. ASSUME UNCHANGED order_index, last_book_mutation' = None
      PROVE  Priced(order_index') /\ (Moved => last_book_mutation'.display_price > 0)
  BY <1>2, MutationAssumption DEF Priced, Moved, MutationAssumption
<1>3. ASSUME NEW category, Fail(category)
      PROVE  Priced(order_index') /\ (Moved => last_book_mutation'.display_price > 0)
  BY <1>2, <1>3 DEF Fail, facts, displayed
<1>4. CASE m.type \in {"S", "R", "P", "Q", "B"} \cup AboutStock \cup AboutMarket
  BY <1>2, <1>4 DEF apply_system_event, apply_directory, apply_trade, apply_broken_trade,
     apply_reference, Fail, Succeed, facts, displayed
<1>5. CASE m.type \in {"A", "F"}
  <2>1. apply_add(m)
    BY <1>5
  <2>2. CASE AddError(m) = "ok"
    <3> DEFINE entry == [symbol |-> m.symbol, side |-> m.side, price |-> m.price]
    <3>1. /\ order_index' = Put(order_index, m.ref, entry)
          /\ last_book_mutation'.display_price = m.price
      BY <1>3, <2>1, <2>2 DEF apply_add, Succeed
    <3>2. entry.price = m.price /\ m.price > 0
      BY <1>5
    <3> HIDE DEF entry
    <3> QED BY <3>1, <3>2 DEF Put, Priced
  <2> QED BY <1>3, <2>1, <2>2 DEF apply_add
<1>6. ASSUME m.ref \in DOMAIN order_index, NEW type, NEW new_ref, NEW shares, NEW index,
             \A ref \in DOMAIN index : ref \in DOMAIN order_index /\ index[ref] = order_index[ref],
             order_index' = index,
             last_book_mutation' = Mutation(type, m.ref, new_ref, shares, order_index[m.ref].price)
      PROVE  Priced(order_index') /\ (Moved => last_book_mutation'.display_price > 0)
  <2>1. last_book_mutation'.display_price = order_index[m.ref].price
    BY <1>6 DEF Mutation
  <2> QED BY <1>6, <2>1 DEF Priced
<1>7. \A shares : \A ref \in DOMAIN IndexWithout(m.ref, shares) :
        ref \in DOMAIN order_index /\ IndexWithout(m.ref, shares)[ref] = order_index[ref]
  BY DEF IndexWithout, Drop
<1>8. CASE m.type \in {"E", "C"}
  <2>1. apply_execution(m)
    BY <1>8
  <2>2. CASE ExecutionError(m) = "ok"
    <3>1. m.ref \in DOMAIN order_index
      BY <2>2 DEF ExecutionError, SharesError, OrderError
    <3>2. /\ order_index' = IndexWithout(m.ref, m.shares)
          /\ last_book_mutation' = Mutation(m.type, m.ref, None, m.shares, order_index[m.ref].price)
      BY <2>1, <2>2 DEF apply_execution, Succeed
    <3> QED BY <1>6, <1>7, <3>1, <3>2
  <2> QED BY <1>3, <2>1, <2>2 DEF apply_execution
<1>9. CASE m.type = "X"
  <2>1. apply_cancel(m)
    BY <1>9
  <2>2. CASE CancelError(m) = "ok"
    <3>1. m.ref \in DOMAIN order_index
      BY <2>2 DEF CancelError, SharesError, OrderError
    <3>2. /\ order_index' = IndexWithout(m.ref, m.shares)
          /\ last_book_mutation' = Mutation("X", m.ref, None, m.shares, order_index[m.ref].price)
      BY <2>1, <2>2 DEF apply_cancel, Succeed
    <3> QED BY <1>6, <1>7, <3>1, <3>2
  <2> QED BY <1>3, <2>1, <2>2 DEF apply_cancel
<1>10. CASE m.type = "D"
  <2>1. apply_delete(m)
    BY <1>10
  <2>2. CASE DeleteError(m) = "ok"
    <3>1. m.ref \in DOMAIN order_index
      BY <2>2 DEF DeleteError, OrderError
    <3>2. /\ order_index' = Drop(order_index, m.ref)
          /\ last_book_mutation' = Mutation("D", m.ref, None, Order(m.ref).remaining_shares,
                                            order_index[m.ref].price)
      BY <2>1, <2>2 DEF apply_delete, Succeed
    <3>3. \A ref \in DOMAIN Drop(order_index, m.ref) :
            ref \in DOMAIN order_index /\ Drop(order_index, m.ref)[ref] = order_index[ref]
      BY DEF Drop
    <3> QED BY <1>6, <3>1, <3>2, <3>3
  <2> QED BY <1>3, <2>1, <2>2 DEF apply_delete
<1>11. CASE m.type = "U"
  <2>1. apply_replace(m)
    BY <1>11
  <2>2. CASE ReplaceError(m) = "ok"
    <3> DEFINE target == [order_index[m.ref] EXCEPT !.price = m.price]
    <3>1. m.ref \in DOMAIN order_index
      BY <2>2 DEF ReplaceError, OrderError
    <3>2. /\ order_index' = Put(Drop(order_index, m.ref), m.new_ref, target)
          /\ last_book_mutation' = Mutation("U", m.ref, m.new_ref, m.shares, m.price)
      BY <2>1, <2>2 DEF apply_replace, Succeed
    <3>3. order_index[m.ref] \in AllEntries
      BY <3>1, Located DEF BookInv
    <3>4. target.price = m.price /\ m.price > 0
      BY <1>11, <3>3 DEF AllEntries
    <3>5. last_book_mutation'.display_price = m.price
      BY <3>2 DEF Mutation
    <3> HIDE DEF target
    <3>6. Priced(order_index')
      BY <3>2, <3>4 DEF Priced, Put, Drop
    <3> QED BY <3>4, <3>5, <3>6
  <2> QED BY <1>3, <2>1, <2>2 DEF apply_replace
<1> QED BY <1>1, <1>4, <1>5, <1>8, <1>9, <1>10, <1>11
----------------------------------------------------------------------------
(* The depth of a side *)

\* Books whose levels add up and hold no empty node.
Whole(bks) ==
  /\ Summed(bks)
  /\ \E index, next, listed : Consistent(bks, index, next, listed)

Prices(bks, symbol, side) == {p \in Price : bks[symbol][side][p].orders # <<>>}
Levels(bks, symbol, side) == Min({ExportDepth, Cardinality(Prices(bks, symbol, side))})

LEMMA LevelsBounded ==
  ASSUME NEW bks, NEW symbol, NEW side
  PROVE  /\ Prices(bks, symbol, side) \in SUBSET Nat
         /\ IsFiniteSet(Prices(bks, symbol, side))
         /\ Levels(bks, symbol, side) \in Nat
         /\ Levels(bks, symbol, side) <= ExportDepth
         /\ Levels(bks, symbol, side) <= Cardinality(Prices(bks, symbol, side))
<1> DEFINE prices == Prices(bks, symbol, side)
           n == Cardinality(prices)
<1>1. prices \in SUBSET Price
  BY DEF Prices
<1>2. prices \in SUBSET Nat /\ IsFiniteSet(prices)
  BY <1>1, PriceAssumption, FactualAssumption, FS_Subset DEF PriceAssumption, FactualAssumption
<1>3. n \in Nat /\ ExportDepth \in Nat
  BY <1>2, FS_CardinalityType, ReplayAssumption DEF ReplayAssumption
<1> HIDE DEF n
<1>4. /\ Min({ExportDepth, n}) \in {ExportDepth, n}
      /\ Min({ExportDepth, n}) <= ExportDepth /\ Min({ExportDepth, n}) <= n
  <2>1. \E x \in {ExportDepth, n} : \A y \in {ExportDepth, n} : x <= y
    <3>1. ExportDepth <= n \/ n <= ExportDepth
      BY <1>3
    <3> QED BY <1>3, <3>1
  <2> QED BY <2>1 DEF Min
<1>5. Levels(bks, symbol, side) = Min({ExportDepth, n})
  BY DEF Levels, n
<1> QED BY <1>2, <1>3, <1>4, <1>5 DEF n

\* The depth of a side is that of the symbol's book, and of nothing else.
LEMMA DepthOfSymbol ==
  ASSUME NEW bks, NEW bks2, NEW symbol, NEW side, bks2[symbol] = bks[symbol]
  PROVE  depth(bks2, symbol, side) = depth(bks, symbol, side)
BY DEF depth

LEMMA DepthIs ==
  ASSUME NEW bks, NEW symbol, NEW side
  PROVE  /\ DOMAIN depth(bks, symbol, side) = 1..Levels(bks, symbol, side)
         /\ depth(bks, symbol, side) =
              [i \in 1..Levels(bks, symbol, side) |->
                <<Best(Prices(bks, symbol, side), side, i),
                  bks[symbol][side][Best(Prices(bks, symbol, side), side, i)].aggregate_shares>>]
BY DEF depth, Prices, Levels

\* A level that is there holds shares.
LEMMA LevelHoldsShares ==
  ASSUME NEW bks, Whole(bks), NEW symbol \in Symbol, NEW side \in Side,
         NEW p \in Prices(bks, symbol, side)
  PROVE  bks[symbol][side][p].aggregate_shares \in Nat \ {0}
<1> DEFINE entry == [symbol |-> symbol, side |-> side, price |-> p]
           queue == LevelOf(bks, entry).orders
<1>1. /\ entry \in AllEntries /\ bks[symbol][side][p] = LevelOf(bks, entry)
      /\ queue # <<>>
  BY DEF AllEntries, LevelOf, Prices
<1> HIDE DEF entry
<1>2. /\ queue \in Seq(Node)
      /\ \A i \in 1..Len(queue) : queue[i].remaining_shares # 0
  BY <1>1 DEF Whole, Consistent, Queued
<1>3. 1 \in 1..Len(queue)
  BY <1>1, <1>2, EmptySeq
<1>4. /\ SharesIn(queue) \in Nat
      /\ queue[1].remaining_shares \in Nat /\ queue[1].remaining_shares <= SharesIn(queue)
  BY <1>2, <1>3, QueueAddable
<1>5. LevelOf(bks, entry).aggregate_shares = SharesIn(queue)
  BY <1>1 DEF Whole, Summed
<1>6. queue[1].remaining_shares # 0
  BY <1>2, <1>3
<1> QED BY <1>1, <1>4, <1>5, <1>6

\* A book whose index knows no price of 0 shows none.
LEMMA PricedShown ==
  ASSUME NEW bks, NEW index, NEW next, NEW listed, Consistent(bks, index, next, listed),
         Priced(index), NEW symbol \in Symbol, NEW side \in Side
  PROVE  Prices(bks, symbol, side) \in SUBSET (Nat \ {0})
<1> SUFFICES ASSUME NEW p \in Prices(bks, symbol, side) PROVE p \in Nat \ {0}
  OBVIOUS
<1> DEFINE entry == [symbol |-> symbol, side |-> side, price |-> p]
           queue == LevelOf(bks, entry).orders
<1>1. /\ p \in Price /\ entry \in AllEntries /\ entry.price = p
      /\ queue = bks[symbol][side][p].orders /\ queue # <<>>
  BY DEF Prices, AllEntries, LevelOf
<1> HIDE DEF entry
<1>2. Queued(queue, entry, index, next, listed)
  BY <1>1 DEF Consistent
<1> HIDE DEF queue
<1>3. queue \in Seq(Node)
  BY <1>2 DEF Queued
<1>4. 1 \in 1..Len(queue)
  BY <1>1, <1>3, EmptySeq, LenProperties
<1>5. queue[1].order_reference \in DOMAIN index /\ index[queue[1].order_reference] = entry
  BY <1>2, <1>4 DEF Queued
<1>6. entry.price > 0
  BY <1>5 DEF Priced
<1>7. p \in Nat
  BY <1>1, PriceAssumption DEF PriceAssumption
<1> QED BY <1>1, <1>6, <1>7

\* The reader accepts the depth of a side that shows no price of 0.
LEMMA DepthAccepted ==
  ASSUME NEW bks, Whole(bks), NEW symbol \in Symbol, NEW side \in Side,
         Prices(bks, symbol, side) \in SUBSET (Nat \ {0})
  PROVE  Stream!ValidDepth(depth(bks, symbol, side), ExportDepth, side)
<1> DEFINE levels == depth(bks, symbol, side)
           prices == Prices(bks, symbol, side)
           n == Levels(bks, symbol, side)
<1>1. /\ prices \in SUBSET (Nat \ {0}) /\ prices \in SUBSET Nat /\ IsFiniteSet(prices)
      /\ n \in Nat /\ n <= ExportDepth /\ n <= Cardinality(prices)
      /\ Cardinality(prices) \in Nat
  BY LevelsBounded, FS_CardinalityType
<1> DEFINE price(i) == Best(prices, side, i)
           shares(i) == bks[symbol][side][price(i)].aggregate_shares
<1>2. levels = [i \in 1..n |-> <<price(i), shares(i)>>]
  BY DepthIs
<1>3. ASSUME NEW i \in 1..n
      PROVE  /\ price(i) \in prices /\ price(i) \in Nat \ {0} /\ shares(i) \in Nat \ {0}
             /\ levels[i] = <<price(i), shares(i)>>
  <2>1. i \in 1..Cardinality(prices)
    <3> HIDE DEF prices, n
    <3> QED BY <1>1
  <2>2. price(i) \in prices
    <3> HIDE DEF prices
    <3> QED BY <1>1, <2>1, BestRanks
  <2>3. shares(i) \in Nat \ {0}
    BY <2>2, LevelHoldsShares
  <2> HIDE DEF levels, prices, n, price, shares
  <2> QED BY <1>1, <1>2, <2>2, <2>3
<1> HIDE DEF levels, prices, n, shares
<1>4. Len(levels) = n /\ DOMAIN levels = 1..n
  <2> HIDE DEF price
  <2>1. levels \in [1..n -> Nat \X Nat]
    BY <1>2, <1>3
  <2>2. levels \in Seq(Nat \X Nat)
    BY <1>1, <2>1, SeqDef
  <2>3. DOMAIN levels = 1..Len(levels) /\ Len(levels) \in Nat
    BY <2>2, LenProperties
  <2>4. DOMAIN levels = 1..n
    BY <2>1
  <2>5. Len(levels) = n
    <3> DEFINE m == Len(levels)
    <3>1. m \in Nat /\ n \in Nat /\ 1..m = 1..n
      BY <1>1, <2>3, <2>4
    <3> HIDE DEF m
    <3>2. Cardinality(1..m) = m /\ Cardinality(1..n) = n
      BY <3>1, FS_Interval
    <3> QED BY <3>1, <3>2 DEF m
  <2> QED BY <2>4, <2>5
<1>5. ASSUME NEW i \in 1..n, i > 1
      PROVE  IF side = "Buy" THEN levels[i - 1][1] > levels[i][1]
             ELSE levels[i - 1][1] < levels[i][1]
  <2>1. i - 1 \in 1..n /\ i - 1 < i /\ i \in 1..Cardinality(prices)
        /\ i - 1 \in 1..Cardinality(prices)
    BY <1>1, <1>5
  <2>2. price(i - 1) \in Ahead(prices, side, price(i))
    BY <1>1, <2>1, BestOrdered
  <2> HIDE DEF price
  <2>3. IF side = "Buy" THEN price(i - 1) > price(i) ELSE price(i - 1) < price(i)
    BY <2>2 DEF Ahead
  <2>4. levels[i - 1][1] = price(i - 1) /\ levels[i][1] = price(i)
    BY <1>3, <2>1
  <2> QED BY <2>3, <2>4
<1>6. \A i \in 1..n : levels[i][1] >= 1 /\ levels[i][2] >= 1
  <2> HIDE DEF price
  <2> QED BY <1>3
<1>7. Stream!ValidDepth(levels, ExportDepth, side)
  BY <1>1, <1>4, <1>5, <1>6 DEF Stream!ValidDepth
<1> QED BY <1>7 DEF levels

\* Nothing is displayed at the start.
LEMMA NothingDisplayed ==
  ASSUME Init, NEW symbol \in Symbol, NEW side \in Side
  PROVE  depth(books, symbol, side) = <<>>
<1>1. Prices(books, symbol, side) = {}
  BY DEF Init, Prices, NoLevel
<1>2. Cardinality(Prices(books, symbol, side)) = 0
  BY <1>1, FS_EmptySet
<1>3. Levels(books, symbol, side) = 0
  BY <1>2, LevelsBounded
<1>4. DOMAIN depth(books, symbol, side) = {}
  BY <1>3, DepthIs
<1> QED BY <1>4, DepthIs
----------------------------------------------------------------------------
(* The export and its reader *)

Consumer ==
  [header : BOOLEAN, summary : BOOLEAN, depth : Nat, event_count : Nat,
   last_sequence : Nat, last_source_offset : Int, last_timestamp_ns : Int]

\* What the reader has taken, against the writer.
Piped ==
  /\ consumer \in Consumer /\ lost \in BOOLEAN
  /\ consumer.summary => phase = "ended" /\ ~lost /\ ~refused
  /\ regular => ~refused
  /\ regular /\ ~lost =>
       /\ consumer.header /\ consumer.depth = ExportDepth
       /\ consumer.event_count = output_records /\ consumer.last_sequence = output_records
       /\ consumer.last_source_offset < offset
       /\ consumer.last_timestamp_ns <= last_timestamp
       /\ phase = "ended" => consumer.summary

\* The invariant of the export.
ExportInv ==
  /\ offset \in Nat /\ output_records \in Nat /\ last_timestamp \in Nat
  /\ phase \in {"reading", "broken", "ended"}
  /\ Piped
  /\ regular => Priced(order_index)
  /\ StreamTracksBook

\* The reader accepts an event of a message that moved the book of a regular feed.
LEMMA EventAccepted ==
  ASSUME ExportInv, phase = "reading", regular, ~lost,
         NEW bks, Whole(bks), NEW mutation \in BookMutation,
         mutation.message_type = "U" <=> mutation.new_order_reference # None,
         mutation.display_price > 0,
         \A side \in Side : Prices(bks, mutation.symbol, side) \in SUBSET (Nat \ {0}),
         NEW timestamp \in Nat, timestamp >= last_timestamp
  PROVE  Stream!accepts(consumer,
           render_book_event(mutation, bks, output_records + 1, timestamp))
<1> DEFINE bids == depth(bks, mutation.symbol, "Buy")
           asks == depth(bks, mutation.symbol, "Sell")
           row == render_book_event(mutation, bks, output_records + 1, timestamp)
<1>1. Stream!ValidDepth(bids, ExportDepth, "Buy") /\ Stream!ValidDepth(asks, ExportDepth, "Sell")
  BY DepthAccepted DEF BookMutation, Side
<1>2. mutation.event_quantity >= 1 /\ mutation.display_price >= 1
  <2>1. mutation.event_quantity \in 1..kMax /\ mutation.display_price \in Price
    BY DEF BookMutation
  <2>2. mutation.display_price \in Nat
    BY <2>1, PriceAssumption DEF PriceAssumption
  <2> QED BY <2>1, <2>2
<1>3. /\ row.record_type = "book_event" /\ row.sequence = output_records + 1
      /\ row.source_offset = offset /\ row.timestamp_ns = timestamp
      /\ row.message_type = mutation.message_type
      /\ row.replaces = (mutation.new_order_reference # None)
      /\ row.event_qty = mutation.event_quantity /\ row.display_price4 = mutation.display_price
      /\ row.bids = bids /\ row.asks = asks
  BY DEF render_book_event
<1>4. Stream!FlagsAgree(row)
  <2>1. /\ row.two_sided = render_flags(bids, asks).two_sided
        /\ row.locked = render_flags(bids, asks).locked
        /\ row.crossed = render_flags(bids, asks).crossed
    BY DEF render_book_event
  <2> HIDE DEF bids, asks, row
  <2> QED BY <1>3, <2>1 DEF Stream!FlagsAgree, render_flags
<1> HIDE DEF bids, asks, row
<1>5. timestamp >= consumer.last_timestamp_ns
  <2>1. consumer.last_timestamp_ns \in Int /\ consumer.last_timestamp_ns <= last_timestamp
        /\ last_timestamp \in Nat
    BY DEF ExportInv, Piped, Consumer
  <2> QED BY <2>1
<1>6. Stream!accepts_book_event(consumer, row)
  BY <1>1, <1>2, <1>3, <1>4, <1>5 DEF Stream!accepts_book_event, ExportInv, Piped, Consumer
<1>7. ~consumer.summary
  BY DEF ExportInv, Piped
<1> QED BY <1>3, <1>6, <1>7 DEF Stream!accepts, row

\* The reader after an event, whether it arrived or not.
LEMMA EventTaken ==
  ASSUME ExportInv, phase = "reading", UNCHANGED phase,
         NEW row, row.record_type = "book_event",
         regular' => regular, regular' /\ ~lost => Stream!accepts(consumer, row),
         row.sequence = output_records + 1, row.source_offset = offset,
         row.timestamp_ns \in Nat, last_timestamp' = row.timestamp_ns,
         output_records' = output_records + 1, Send(row), offset' \in Nat, offset' > offset
  PROVE  Piped' /\ output_records' \in Nat
<1>1. /\ lost' \in BOOLEAN /\ (lost => lost') /\ ~consumer.summary
      /\ consumer \in Consumer /\ output_records \in Nat /\ offset \in Nat
      /\ regular => ~refused
  BY DEF Send, ExportInv, Piped
<1>2. regular' => ~refused'
  BY <1>1 DEF Send
<1>3. CASE lost' \/ refused'
  <2>1. consumer' = consumer
    BY <1>3 DEF Send
  <2> QED BY <1>1, <1>2, <1>3, <2>1 DEF Piped, Consumer
<1>4. CASE ~lost' /\ ~refused'
  <2>1. consumer' = Stream!accept(consumer, row)
    BY <1>4 DEF Send
  <2>2. consumer' = [consumer EXCEPT !.event_count = @ + 1, !.last_sequence = row.sequence,
                                     !.last_source_offset = row.source_offset,
                                     !.last_timestamp_ns = row.timestamp_ns]
    BY <2>1 DEF Stream!accept
  <2>3. /\ consumer' \in Consumer
        /\ consumer'.header = consumer.header /\ consumer'.depth = consumer.depth
        /\ consumer'.summary = consumer.summary
        /\ consumer'.event_count = consumer.event_count + 1
        /\ consumer'.last_sequence = row.sequence
        /\ consumer'.last_source_offset = row.source_offset
        /\ consumer'.last_timestamp_ns = row.timestamp_ns
    <3>1. /\ row.sequence \in Nat /\ row.source_offset \in Int /\ row.timestamp_ns \in Int
          /\ consumer.event_count + 1 \in Nat
      BY <1>1 DEF Consumer
    <3> QED BY <1>1, <2>2, <3>1 DEF Consumer
  <2>4. ASSUME regular'
        PROVE  /\ consumer.header /\ consumer.depth = ExportDepth
               /\ consumer.event_count = output_records
    BY <1>1, <1>4, <2>4 DEF ExportInv, Piped
  <2>5. consumer'.last_timestamp_ns <= last_timestamp'
    BY <2>3
  <2> QED BY <1>1, <1>2, <1>4, <2>3, <2>4, <2>5 DEF Piped
<1> QED BY <1>1, <1>3, <1>4

\* The event of a message that moved the book of its symbol is the last of that symbol;
\* the books and the last events of the other symbols stay.
LEMMA EventTracks ==
  ASSUME StreamTracksBook, Moved, NEW event,
         event.bids = depth(books', last_book_mutation'.symbol, "Buy"),
         event.asks = depth(books', last_book_mutation'.symbol, "Sell"),
         last_event' = IF mutation_selected(last_book_mutation')
                       THEN Put(last_event, last_book_mutation'.symbol, event)
                       ELSE last_event
  PROVE  StreamTracksBook'
<1> DEFINE moved == last_book_mutation'.symbol
<1>1. last_book_mutation' # None
  BY MutationAssumption DEF Moved, MutationAssumption
<1>2. SUFFICES ASSUME NEW s \in Symbol, Selected = {} \/ s \in Selected
      PROVE  IF s \in DOMAIN last_event'
             THEN /\ last_event'[s].bids = depth(books', s, "Buy")
                  /\ last_event'[s].asks = depth(books', s, "Sell")
             ELSE depth(books', s, "Buy") = <<>> /\ depth(books', s, "Sell") = <<>>
  BY DEF StreamTracksBook
<1>3. CASE s = moved
  <2>1. last_event' = Put(last_event, s, event)
    BY <1>1, <1>2, <1>3 DEF mutation_selected
  <2>2. s \in DOMAIN last_event' /\ last_event'[s] = event
    BY <2>1 DEF Put
  <2> QED BY <1>3, <2>2
<1>4. CASE s # moved
  <2>1. books'[s] = books[s]
    BY <1>4 DEF Moved
  <2>2. \A side : depth(books', s, side) = depth(books, s, side)
    BY <2>1, DepthOfSymbol
  <2>3. /\ s \in DOMAIN last_event' <=> s \in DOMAIN last_event
        /\ s \in DOMAIN last_event => last_event'[s] = last_event[s]
    BY <1>4 DEF Put
  <2> QED BY <1>2, <2>2, <2>3 DEF StreamTracksBook
<1> QED BY <1>3, <1>4

\* A record that leaves the books and the export alone.
LEMMA QuietExport ==
  ASSUME ExportInv, phase = "reading", UNCHANGED <<books, export>>,
         offset' \in Nat, offset' >= offset, phase' \in {"reading", "broken"},
         last_timestamp' \in Nat,
         regular' => regular /\ last_timestamp' >= last_timestamp /\ Priced(order_index')
  PROVE  ExportInv'
<1>1. UNCHANGED <<output_records, last_event, lost, consumer, refused>>
  BY DEF export
<1>2. /\ consumer \in Consumer /\ last_timestamp \in Nat /\ offset \in Nat
      /\ consumer.last_source_offset \in Int /\ consumer.last_timestamp_ns \in Int
  BY DEF ExportInv, Piped, Consumer
<1>3. regular' /\ ~lost' =>
        /\ consumer.last_source_offset < offset'
        /\ consumer.last_timestamp_ns <= last_timestamp'
  BY <1>1, <1>2 DEF ExportInv, Piped
<1>4. Piped'
  BY <1>1, <1>3 DEF ExportInv, Piped
<1>5. StreamTracksBook'
  BY <1>1, ZenonT(30) DEF ExportInv, StreamTracksBook, depth
<1> QED BY <1>1, <1>4, <1>5 DEF ExportInv

\* What may be read: a failure of the reader, or a payload with a size and a time.
LEMMA FrameRead ==
  ASSUME NEW frame \in Readable
  PROVE  \/ frame.category \in Framing
         \/ /\ frame.category = "ok"
            /\ frame.payload.size \in Nat /\ frame.payload.timestamp \in Nat
            /\ decode_message(frame.payload).category = "ok" => frame.payload.message \in Feed
<1>1. frame \in Frames \cup Probes
  BY DEF Readable
<1> QED BY <1>1, ReplayAssumption DEF ReplayAssumption, Framing

\* A replay applies messages of the feed, one at a time: it is a run of the book.
LEMMA ReplayAppliesFeed == [ReplayNext]_replay_vars => [Next]_vars
<1> SUFFICES ASSUME [ReplayNext]_replay_vars PROVE [Next]_vars
  OBVIOUS
<1>1. CASE UNCHANGED replay_vars
  BY <1>1 DEF replay_vars
<1>2. CASE finish_run
  BY <1>2 DEF finish_run
<1>3. CASE Finished
  BY <1>3 DEF Finished, replay_vars
<1>4. ASSUME NEW frame \in Readable, next_record(frame) PROVE [Next]_vars
  <2>1. CASE framing_fails(frame)
    BY <2>1 DEF framing_fails
  <2>2. CASE decoding_fails(frame)
    BY <2>2 DEF decoding_fails
  <2>3. CASE decoded_message(frame)
    <3>1. /\ frame.category = "ok" /\ decode_message(frame.payload).category = "ok"
          /\ Apply(frame.payload.message)
      BY <2>3 DEF decoded_message
    <3>2. frame.payload.message \in Feed
      BY <3>1, FrameRead DEF Framing
    <3> QED BY <3>1, <3>2 DEF Next
  <2> QED BY <1>4, <2>1, <2>2, <2>3 DEF next_record
<1> QED BY <1>1, <1>2, <1>3, <1>4 DEF ReplayNext

LEMMA ReplayKeepsBooks == ReplaySpec => Spec
<1>1. ReplayInit => Init
  BY DEF ReplayInit
<1> QED BY <1>1, ReplayAppliesFeed, PTL DEF ReplaySpec, Spec

\* A message that was applied is exported if it moved the book of a selected symbol.
LEMMA AppliedExports ==
  ASSUME ExportInv, CountInv, CountInv', phase = "reading", UNCHANGED phase,
         NEW payload, payload.timestamp \in Nat, last_timestamp' = payload.timestamp,
         regular' => /\ regular /\ payload.timestamp >= last_timestamp
                     /\ Priced(order_index') /\ last_book_mutation'.display_price > 0,
         Moved, observe(payload), offset' \in Nat, offset' > offset
  PROVE  ExportInv'
<1> DEFINE event == render_book_event(last_book_mutation', books', output_records + 1,
                                      payload.timestamp)
<1>1. Whole(books') /\ Consistent(books', order_index', next_fifo_sequence', directories')
  BY DEF CountInv, BookInv, Rests, Whole
<1>2. /\ event.bids = depth(books', last_book_mutation'.symbol, "Buy")
      /\ event.asks = depth(books', last_book_mutation'.symbol, "Sell")
      /\ event.record_type = "book_event" /\ event.sequence = output_records + 1
      /\ event.source_offset = offset /\ event.timestamp_ns = payload.timestamp
  BY DEF render_book_event
<1>3. last_timestamp' \in Nat /\ phase' \in {"reading", "broken", "ended"}
  OBVIOUS
<1>4. CASE mutation_selected(last_book_mutation')
  <2>1. /\ output_records' = output_records + 1 /\ Send(event)
        /\ last_event' = Put(last_event, last_book_mutation'.symbol, event)
    BY <1>4 DEF observe
  <2>2. ASSUME regular', ~lost PROVE Stream!accepts(consumer, event)
    <3>1. last_book_mutation'.symbol \in Symbol
      BY DEF Moved, BookMutation
    <3>2. \A side \in Side :
            Prices(books', last_book_mutation'.symbol, side) \in SUBSET (Nat \ {0})
      BY <1>1, <2>2, <3>1, PricedShown
    <3> HIDE DEF event
    <3>3. regular /\ payload.timestamp >= last_timestamp /\ last_book_mutation'.display_price > 0
      BY <2>2
    <3> QED BY <1>1, <2>2, <3>2, <3>3, EventAccepted DEF Moved, event
  <2> HIDE DEF event
  <2>3. Piped' /\ output_records' \in Nat
    <3>1. regular' => regular
      OBVIOUS
    <3>2. event.timestamp_ns \in Nat /\ last_timestamp' = event.timestamp_ns
      BY <1>2
    <3> QED BY ONLY ExportInv, phase = "reading", UNCHANGED phase, offset' \in Nat,
                    offset' > offset, <1>2, <2>1, <2>2, <3>1, <3>2, EventTaken
  <2>4. StreamTracksBook'
    BY <1>2, <1>4, <2>1, EventTracks DEF ExportInv
  <2> QED BY <1>3, <2>3, <2>4 DEF ExportInv
<1>5. CASE ~mutation_selected(last_book_mutation')
  <2>1. UNCHANGED <<output_records, last_event, lost, consumer, refused>>
    BY <1>5 DEF observe, export
  <2> HIDE DEF event
  <2>2. StreamTracksBook'
    BY <1>2, <1>5, <2>1, EventTracks DEF ExportInv
  <2>3. /\ consumer \in Consumer /\ last_timestamp \in Nat /\ offset \in Nat
        /\ consumer.last_source_offset \in Int /\ consumer.last_timestamp_ns \in Int
    BY DEF ExportInv, Piped, Consumer
  <2>4. regular' /\ ~lost' =>
          /\ consumer.last_source_offset < offset'
          /\ consumer.last_timestamp_ns <= last_timestamp'
    BY <2>1, <2>3 DEF ExportInv, Piped
  <2>5. Piped'
    BY <2>1, <2>4 DEF ExportInv, Piped
  <2> QED BY <1>3, <2>1, <2>2, <2>5 DEF ExportInv
<1> QED BY <1>4, <1>5

LEMMA RecordExports ==
  ASSUME ExportInv, CountInv, CountInv', NEW frame \in Readable, next_record(frame)
  PROVE  ExportInv'
<1>1. phase = "reading" /\ offset \in Nat /\ last_timestamp \in Nat
  BY DEF next_record, ExportInv
<1>2. ASSUME NEW category, NEW at, NEW terminal, NEW counted,
             Failed(category, at, terminal, counted)
      PROVE  phase' \in {"reading", "broken"}
  BY <1>2 DEF Failed
<1>3. ASSUME UNCHANGED <<order_index, feed>>
      PROVE  /\ last_timestamp' \in Nat
             /\ regular' => /\ regular /\ last_timestamp' >= last_timestamp
                            /\ Priced(order_index')
  BY <1>1, <1>3 DEF feed, ExportInv
<1>4. CASE framing_fails(frame)
  <2>1. UNCHANGED <<books, order_index, feed, export, offset>> /\ phase' \in {"reading", "broken"}
    BY <1>2, <1>4 DEF framing_fails, reader, vars, facts, displayed
  <2>2. offset' \in Nat /\ offset' >= offset
    BY <1>1, <2>1
  <2> QED BY <1>1, <1>3, <2>1, <2>2, QuietExport
<1>5. ASSUME frame.category = "ok", Returned(frame.payload)
      PROVE  offset' \in Nat /\ offset' > offset /\ offset' >= offset
  <2>1. frame.payload.size \in Nat
    BY <1>5, FrameRead DEF Framing
  <2>2. offset' = offset + 2 + frame.payload.size
    BY <1>5 DEF Returned
  <2> QED BY <1>1, <2>1, <2>2
<1>6. CASE decoding_fails(frame)
  <2>1. UNCHANGED <<books, order_index, feed, export>> /\ phase' \in {"reading", "broken"}
    BY <1>2, <1>6 DEF decoding_fails, vars, facts, displayed
  <2>2. offset' \in Nat /\ offset' >= offset
    BY <1>5, <1>6 DEF decoding_fails
  <2> QED BY <1>1, <1>3, <2>1, <2>2, QuietExport
<1>7. CASE decoded_message(frame)
  <2>1. /\ frame.category = "ok" /\ decode_message(frame.payload).category = "ok"
        /\ Apply(frame.payload.message) /\ Returned(frame.payload)
        /\ last_timestamp' = frame.payload.timestamp
        /\ regular' = (regular /\ Regular(frame.payload))
    BY <1>7 DEF decoded_message
  <2>2. frame.payload.message \in Feed /\ frame.payload.timestamp \in Nat
    BY <2>1, FrameRead DEF Framing
  <2>3. Unmoved \/ Moved
    BY <2>1, <2>2, MessageMoves DEF CountInv
  <2>4. offset' \in Nat /\ offset' > offset /\ offset' >= offset
    BY <1>5, <2>1
  <2>5. ASSUME regular'
        PROVE  /\ regular /\ frame.payload.timestamp >= last_timestamp
               /\ Priced(order_index') /\ (Moved => last_book_mutation'.display_price > 0)
    <3>1. regular /\ Regular(frame.payload)
      BY <2>1, <2>5
    <3>2. /\ Priced(order_index) /\ BookInv
          /\ frame.payload.message.type \in {"A", "F", "U"} => frame.payload.message.price > 0
      BY <3>1 DEF ExportInv, CountInv, Regular
    <3>3. Priced(order_index') /\ (Moved => last_book_mutation'.display_price > 0)
      BY <2>1, <2>2, <3>2, PricesArrive
    <3> QED BY <3>1, <3>3 DEF Regular
  <2>6. CASE Moved
    <3>1. observe(frame.payload) /\ UNCHANGED phase
      BY <1>7, <2>6 DEF decoded_message, Moved, failures
    <3> QED BY <1>1, <2>1, <2>2, <2>4, <2>5, <2>6, <3>1, AppliedExports
  <2>7. CASE Unmoved
    <3>1. ~mutation_selected(last_book_mutation')
      BY <2>7 DEF Unmoved, mutation_selected
    <3>2. UNCHANGED export /\ phase' \in {"reading", "broken"}
      BY <1>1, <1>2, <1>7, <3>1 DEF decoded_message, observe, failures
    <3> QED BY <1>1, <2>1, <2>2, <2>4, <2>5, <2>7, <3>2, QuietExport DEF Unmoved
  <2> QED BY <2>3, <2>6, <2>7
<1> QED BY <1>4, <1>6, <1>7 DEF next_record

\* The summary closes the stream, and the reader accepts it if all before it arrived.
LEMMA SummaryAccepted ==
  ASSUME ExportInv, Accounted, finish_run
  PROVE  ExportInv'
<1> DEFINE row == render_summary
<1>1. /\ phase' = "ended" /\ phase \in {"reading", "broken"} /\ Send(row)
      /\ UNCHANGED <<offset, last_timestamp, regular, order_index, output_records, last_event,
                     books>>
  BY DEF finish_run, reader, feed, vars, facts, displayed
<1>2. /\ row.record_type = "summary" /\ row.records_output = output_records
      /\ row.records_decoded <= row.records_seen
      /\ row.records_applied <= row.records_decoded
  BY DEF render_summary, Accounted, CountersAddUp
<1> HIDE DEF row
<1>3. /\ lost' \in BOOLEAN /\ (lost => lost') /\ ~consumer.summary /\ consumer \in Consumer
      /\ regular => ~refused
  <2>1. lost \in BOOLEAN /\ ~consumer.summary /\ consumer \in Consumer /\ (regular => ~refused)
    BY <1>1 DEF ExportInv, Piped
  <2>2. lost' \in {lost, TRUE}
    BY <1>1 DEF Send
  <2> QED BY <2>1, <2>2
<1>4. ASSUME regular, ~lost PROVE Stream!accepts(consumer, row)
  BY <1>1, <1>2, <1>4 DEF Stream!accepts, Stream!accepts_summary, ExportInv, Piped
<1>5. regular' => ~refused'
  BY <1>1, <1>3, <1>4 DEF Send
<1>6. Piped'
  <2>1. CASE lost' \/ refused'
    <3>1. consumer' = consumer
      BY <1>1, <2>1 DEF Send
    <3> QED BY <1>3, <1>5, <2>1, <3>1 DEF Piped
  <2>2. CASE ~lost' /\ ~refused'
    <3>1. consumer' = [consumer EXCEPT !.summary = TRUE]
      BY <1>1, <1>2, <2>2 DEF Send, Stream!accept
    <3>2. /\ consumer' \in Consumer /\ consumer'.summary
          /\ consumer'.header = consumer.header /\ consumer'.depth = consumer.depth
          /\ consumer'.event_count = consumer.event_count
          /\ consumer'.last_sequence = consumer.last_sequence
          /\ consumer'.last_source_offset = consumer.last_source_offset
          /\ consumer'.last_timestamp_ns = consumer.last_timestamp_ns
      BY <1>3, <3>1 DEF Consumer
    <3> QED BY <1>1, <1>3, <1>5, <2>2, <3>2 DEF ExportInv, Piped
  <2> QED BY <1>3, <2>1, <2>2
<1>7. StreamTracksBook'
  BY <1>1, ZenonT(30) DEF ExportInv, StreamTracksBook, depth
<1>8. regular' => Priced(order_index')
  BY <1>1 DEF ExportInv
<1> QED BY <1>1, <1>6, <1>7, <1>8 DEF ExportInv

LEMMA ExportStarts == ASSUME ReplayInit PROVE ExportInv
<1>1. /\ Init /\ phase = "reading" /\ offset = 0 /\ output_records = 0 /\ last_event = <<>>
      /\ ~refused /\ last_timestamp = 0 /\ lost \in BOOLEAN
      /\ consumer = IF lost THEN Stream!Fresh
                    ELSE Stream!accept(Stream!Fresh,
                                       [record_type |-> "header", depth |-> ExportDepth])
  BY DEF ReplayInit
<1>2. ExportDepth \in Nat
  BY ReplayAssumption DEF ReplayAssumption
<1>3. Stream!Fresh =
        [header |-> FALSE, summary |-> FALSE, depth |-> 0, event_count |-> 0,
         last_sequence |-> 0, last_source_offset |-> -1, last_timestamp_ns |-> -1]
  BY DEF Stream!Fresh
<1>4. Piped
  <2>1. CASE lost
    <3>1. consumer \in Consumer /\ ~consumer.summary
      BY <1>1, <1>3, <2>1 DEF Consumer
    <3> QED BY <1>1, <2>1, <3>1 DEF Piped
  <2>2. CASE ~lost
    <3>1. consumer = [Stream!Fresh EXCEPT !.header = TRUE, !.depth = ExportDepth]
      BY <1>1, <2>2 DEF Stream!accept
    <3>2. consumer = [header |-> TRUE, summary |-> FALSE, depth |-> ExportDepth, event_count |-> 0,
                      last_sequence |-> 0, last_source_offset |-> -1, last_timestamp_ns |-> -1]
      BY <1>3, <3>1
    <3>3. consumer \in Consumer
      BY <1>2, <3>2 DEF Consumer
    <3>4. /\ consumer.header /\ consumer.depth = ExportDepth /\ ~consumer.summary
          /\ consumer.event_count = 0 /\ consumer.last_sequence = 0
          /\ consumer.last_source_offset = -1 /\ consumer.last_timestamp_ns = -1
      BY <3>2
    <3> QED BY <1>1, <2>2, <3>3, <3>4 DEF Piped
  <2> QED BY <1>1, <2>1, <2>2
<1>5. StreamTracksBook
  BY <1>1, NothingDisplayed DEF StreamTracksBook, Side
<1>6. Priced(order_index)
  BY <1>1 DEF Init, Priced
<1> QED BY <1>1, <1>4, <1>5, <1>6 DEF ExportInv

LEMMA ExportInvariant == ReplaySpec => []ExportInv
<1>1. ExportInv /\ CountInv /\ CountInv' /\ Accounted /\ [ReplayNext]_replay_vars => ExportInv'
  <2> SUFFICES ASSUME ExportInv, CountInv, CountInv', Accounted, [ReplayNext]_replay_vars
               PROVE  ExportInv'
    OBVIOUS
  <2>1. CASE UNCHANGED replay_vars
    <3>1. UNCHANGED <<books, order_index, offset, phase, last_timestamp, regular,
                      output_records, last_event, lost, consumer, refused>>
      BY <2>1 DEF replay_vars, vars, facts, displayed, reader, feed, failures, export
    <3>2. Piped'
      BY <3>1 DEF ExportInv, Piped, Consumer
    <3>3. StreamTracksBook'
      BY <3>1 DEF ExportInv, StreamTracksBook, depth
    <3>4. regular' => Priced(order_index')
      BY <3>1 DEF ExportInv
    <3> QED BY <3>1, <3>2, <3>3, <3>4 DEF ExportInv
  <2>2. CASE finish_run
    BY <2>2, SummaryAccepted
  <2>3. CASE \E frame \in Readable : next_record(frame)
    BY <2>3, RecordExports
  <2> QED BY <2>1, <2>2, <2>3 DEF ReplayNext, Finished
<1>2. ReplayInit => ExportInv
  BY ExportStarts
<1> QED BY <1>1, <1>2, ReplayKeepsBooks, CountInvariant, AccountedInvariant, PTL DEF ReplaySpec

\* The depth exported last for a symbol is the depth of its book, whatever was refused or
\* not selected between (book_event_v1.cpp, replayer.cpp): who reads only the stream
\* knows the displayed book.
THEOREM StreamAlwaysTracksBook == ReplaySpec => []StreamTracksBook
<1>1. ExportInv => StreamTracksBook
  BY DEF ExportInv
<1> QED BY <1>1, ExportInvariant, PTL

\* For every file, the Python reader refuses a row only after the feed went back in time or
\* priced an order at 0, and takes the stream for whole only if all of it arrived: always
\* when the feed was regular and no write failed (schema.py against book_event_v1.cpp).
THEOREM StreamAlwaysAccepted == ReplaySpec => []StreamAccepted
<1>1. ExportInv => StreamAccepted
  BY DEF ExportInv, Piped, StreamAccepted, Stream!finish
<1> QED BY <1>1, ExportInvariant, PTL

\* No run ends with the exit code of a broken invariant: whatever the file holds,
\* check_invariants finds the book sound (replayer.cpp, run).
THEOREM BookNeverFailsCheck == ReplaySpec => [](check_invariants /\ ~invariant_failure)
<1>1. check_invariants /\ ~invariant_failure /\ [ReplayNext]_replay_vars => ~invariant_failure'
  <2> SUFFICES ASSUME check_invariants, ~invariant_failure, [ReplayNext]_replay_vars
               PROVE  ~invariant_failure'
    OBVIOUS
  <2>1. CASE UNCHANGED replay_vars \/ Finished
    BY <2>1 DEF Finished, replay_vars, failures
  <2>2. CASE finish_run
    BY <2>2 DEF finish_run
  <2>3. ASSUME NEW frame, next_record(frame) PROVE ~invariant_failure'
    BY <2>3 DEF next_record, framing_fails, decoding_fails, decoded_message, Failed, failures
  <2> QED BY <2>1, <2>2, <2>3 DEF ReplayNext
<1>2. ReplayInit => ~invariant_failure
  BY DEF ReplayInit
<1>3. InvariantsHold /\ BookSound /\ LedgerIndexed /\ ListingsAgree => check_invariants
  BY DEF InvariantsHold, ListingsAgree, check_invariants
<1> QED BY <1>1, <1>2, <1>3, ReplayKeepsBooks, CheckInvariantsHolds, IndexAndQueuesAgree,
           LedgerOneToOne, ListingsAlwaysAgree, PTL DEF ReplaySpec

----------------------------------------------------------------------------
(* The tables of the decoder *)

Names(type) == {field.name : field \in Range(Fields(type))}

\* The fields of a message lie one after the other at the places given.
Layout(type, place, width) ==
  LET fields == Fields(type)
      last == Len(fields)
  IN  /\ type \in MessageType /\ last \in Nat /\ last >= 4 /\ DOMAIN fields = 1..last
      /\ \A n \in 1..last : fields[n].size \in Nat \ {0}
      /\ place[fields[1].name] = 0
      /\ \A n \in 1..(last - 1) :
           place[fields[n + 1].name] = place[fields[n].name] + fields[n].size
      /\ width = place[fields[last].name] + fields[last].size

\* The reads find each field at its place.
Placed(type, place, width) ==
  /\ Width(type) = width /\ End[type][Len(CommonHeader)] <= width
  /\ \A name \in Names(type) : StartOf(type, name) = place[name] /\ place[name] \in 0..width

\* The length of a message is the width of its fields.
LengthAgrees(type) ==
  /\ expected_payload_length[type] = Width(type) /\ Width(type) \in Nat
  /\ "timestamp" \in Names(type) /\ StartOf(type, "timestamp") = 5
  /\ 5 <= Width(type) /\ End[type][Len(CommonHeader)] <= Width(type)

\* A check points at a field, no later than any field that it looks at.
PointsAtField(type, check) ==
  /\ check.category \in {"InvalidField", "InvalidEnum"}
  /\ check.offset \in 0..Width(type)
  /\ \E name \in Names(type) : StartOf(type, name) = check.offset
  /\ \A name \in check.names : check.offset <= StartOf(type, name)
ChecksAgree(type) ==
  /\ DOMAIN Checks[type] \subseteq Nat
  /\ \A i \in DOMAIN Checks[type] : PointsAtField(type, Checks[type][i])

\* The three tables of the decoder agree on a type.
Agrees(type) == LengthAgrees(type) /\ ChecksAgree(type)

\* The types of the three parts.
ReferenceTypes == {"S", "R", "H", "Y", "L", "V", "W", "K", "J", "h"}
OrderTypesRead == {"A", "F", "E", "C", "X", "D", "U"}
TradeTypes == {"P", "Q", "B", "I", "N", "O"}

LEMMA BodyDomains ==
  /\ DOMAIN ReferenceBody = ReferenceTypes
  /\ DOMAIN OrderBody = OrderTypesRead
  /\ DOMAIN TradeBody = TradeTypes
<1>1. DOMAIN ReferenceBody = ReferenceTypes
  BY DEF ReferenceBody, ReferenceTypes
<1>2. DOMAIN OrderBody = OrderTypesRead
  BY DEF OrderBody, OrderTypesRead
<1>3. DOMAIN TradeBody = TradeTypes
  BY DEF TradeBody, TradeTypes
<1> QED BY <1>1, <1>2, <1>3

LEMMA CheckDomains ==
  /\ DOMAIN ReferenceChecks = ReferenceTypes
  /\ DOMAIN OrderChecks = OrderTypesRead
  /\ DOMAIN TradeChecks = TradeTypes
<1>1. DOMAIN ReferenceChecks = ReferenceTypes
  BY DEF ReferenceChecks, ReferenceTypes
<1>2. DOMAIN OrderChecks = OrderTypesRead
  BY DEF OrderChecks, OrderTypesRead
<1>3. DOMAIN TradeChecks = TradeTypes
  BY DEF TradeChecks, TradeTypes
<1> QED BY <1>1, <1>2, <1>3

LEMMA PartsDisjoint ==
  /\ \A type \in OrderTypesRead : type \notin ReferenceTypes
  /\ \A type \in TradeTypes : type \notin ReferenceTypes /\ type \notin OrderTypesRead
BY DEF ReferenceTypes, OrderTypesRead, TradeTypes

\* A joined table holds what its first part with the type holds.
LEMMA JoinedValue ==
  ASSUME NEW f, NEW g, NEW h, NEW x
  PROVE  /\ x \in DOMAIN f \/ x \in DOMAIN g \/ x \in DOMAIN h => x \in DOMAIN Joined(f, g, h)
         /\ x \in DOMAIN f => Joined(f, g, h)[x] = f[x]
         /\ x \notin DOMAIN f /\ x \in DOMAIN g => Joined(f, g, h)[x] = g[x]
         /\ x \notin DOMAIN f /\ x \notin DOMAIN g /\ x \in DOMAIN h => Joined(f, g, h)[x] = h[x]
BY DEF Joined

\* A type is in one part of the tables.
LEMMA ReferenceTables ==
  \A type \in DOMAIN ReferenceBody :
    /\ type \in MessageType
    /\ Body[type] = ReferenceBody[type] /\ Checks[type] = ReferenceChecks[type]
<1> TAKE type \in DOMAIN ReferenceBody
<1>1. type \in DOMAIN ReferenceChecks
  BY BodyDomains, CheckDomains
<1> QED BY <1>1, JoinedValue DEF MessageType, Body, Checks

LEMMA OrderTables ==
  \A type \in DOMAIN OrderBody :
    /\ type \in MessageType
    /\ Body[type] = OrderBody[type] /\ Checks[type] = OrderChecks[type]
<1> TAKE type \in DOMAIN OrderBody
<1>1. /\ type \in DOMAIN OrderChecks
      /\ type \notin DOMAIN ReferenceBody /\ type \notin DOMAIN ReferenceChecks
  BY BodyDomains, CheckDomains, PartsDisjoint
<1> QED BY <1>1, JoinedValue DEF MessageType, Body, Checks

LEMMA TradeTables ==
  \A type \in DOMAIN TradeBody :
    /\ type \in MessageType
    /\ Body[type] = TradeBody[type] /\ Checks[type] = TradeChecks[type]
<1> TAKE type \in DOMAIN TradeBody
<1>1. /\ type \in DOMAIN TradeChecks
      /\ type \notin DOMAIN ReferenceBody /\ type \notin DOMAIN ReferenceChecks
      /\ type \notin DOMAIN OrderBody /\ type \notin DOMAIN OrderChecks
  BY BodyDomains, CheckDomains, PartsDisjoint
<1> QED BY <1>1, JoinedValue DEF MessageType, Body, Checks

\* Each read moves the reader by the width of its field.
LEMMA ReadsAddUp ==
  ASSUME NEW type, NEW place, NEW width, Layout(type, place, width)
  PROVE  /\ End[type][0] = 0
         /\ \A n \in 1..Len(Fields(type)) :
              End[type][n] = End[type][n - 1] + Fields(type)[n].size
<1> DEFINE fields == Fields(type)
           last == Len(fields)
           Sizes(n) == [i \in 1..n |-> fields[i].size]
<1>1. /\ last \in Nat /\ \A i \in 1..last : fields[i].size \in Nat
      /\ End[type] = [n \in 0..last |-> SumFunction(Sizes(n))]
  BY DEF Layout, End
<1>2. End[type][0] = 0
  BY <1>1, SumEmpty
<1>3. ASSUME NEW n \in 1..last PROVE End[type][n] = End[type][n - 1] + fields[n].size
  <2> HIDE DEF last, fields
  <2>0. n \in Nat /\ n # 0 /\ n - 1 \in Nat /\ \A i \in 1..n : i \in 1..last
    BY <1>1
  <2>1. /\ Addable(Sizes(n), 1..n) /\ Addable(Sizes(n - 1), 1..(n - 1))
        /\ \A j \in 1..(n - 1) : Sizes(n - 1)[j] = Sizes(n)[j]
        /\ Sizes(n)[n] = fields[n].size
    <3>1. IsFiniteSet(1..n) /\ IsFiniteSet(1..(n - 1))
      BY <2>0, FS_Interval
    <3>2. /\ DOMAIN Sizes(n) = 1..n /\ \A i \in 1..n : Sizes(n)[i] \in Int
          /\ DOMAIN Sizes(n - 1) = 1..(n - 1) /\ \A i \in 1..(n - 1) : Sizes(n - 1)[i] \in Int
      BY <1>1, <2>0
    <3> QED BY <2>0, <3>1, <3>2 DEF Addable
  <2> HIDE DEF Sizes
  <2>2. SumFunction(Sizes(n)) = SumFunction(Sizes(n - 1)) + fields[n].size
    BY <2>0, <2>1, SumLast
  <2> QED BY <1>1, <2>0, <2>2
<1> QED BY <1>2, <1>3

\* Fields that lie one after the other are read at their places, and no two have the same
\* name, since their places differ.
LEMMA LayoutPlaced ==
  ASSUME NEW type, NEW place, NEW width, Layout(type, place, width)
  PROVE  Placed(type, place, width)
<1> DEFINE fields == Fields(type)
           last == Len(fields)
           at(n) == place[fields[n].name]
           end == End[type]
<1>1. /\ last \in Nat \ {0} /\ last >= 4 /\ DOMAIN fields = 1..last
      /\ \A n \in 1..last : fields[n].size \in Nat \ {0}
      /\ at(1) = 0 /\ width = at(last) + fields[last].size
      /\ \A n \in 1..(last - 1) : at(n + 1) = at(n) + fields[n].size
  BY DEF Layout
<1>2. /\ end[0] = 0
      /\ \A n \in 1..last : end[n] = end[n - 1] + fields[n].size
  BY ReadsAddUp
<1> HIDE DEF at, fields, last, end
<1>3. \A n \in Nat : n < last => at(n + 1) = end[n] /\ end[n] \in Nat
  <2> DEFINE T == {n \in Nat : n < last => at(n + 1) = end[n] /\ end[n] \in Nat}
  <2>1. 0 \in T
    BY <1>1, <1>2
  <2>2. ASSUME NEW n \in Nat, n \in T PROVE n + 1 \in T
    <3> SUFFICES ASSUME n + 1 < last
                 PROVE  at(n + 1 + 1) = end[n + 1] /\ end[n + 1] \in Nat
      OBVIOUS
    <3>1. n + 1 \in 1..(last - 1) /\ n + 1 \in 1..last /\ (n + 1) - 1 = n /\ n < last
      BY <1>1
    <3>2. /\ at(n + 1 + 1) = at(n + 1) + fields[n + 1].size
          /\ end[n + 1] = end[n] + fields[n + 1].size
          /\ fields[n + 1].size \in Nat
      BY <1>1, <1>2, <3>1
    <3> QED BY <2>2, <3>1, <3>2
  <2> HIDE DEF T
  <2>3. Nat \subseteq T
    BY <2>1, <2>2, SetInduction
  <2> QED BY <2>3 DEF T
\* Places rise, so that no two fields have the same name.
<1>4. \A n \in Nat : n <= last => \A i \in 1..last : i <= n => at(i) + fields[i].size <= end[n]
  <2> DEFINE T == {n \in Nat : n <= last => \A i \in 1..last : i <= n =>
                                 at(i) + fields[i].size <= end[n]}
  <2>1. 0 \in T
    BY <1>1
  <2>2. ASSUME NEW n \in Nat, n \in T PROVE n + 1 \in T
    <3> SUFFICES ASSUME n + 1 <= last, NEW i \in 1..last, i <= n + 1
                 PROVE  at(i) + fields[i].size <= end[n + 1]
      OBVIOUS
    <3>1. /\ n + 1 \in 1..last /\ (n + 1) - 1 = n /\ n < last /\ i - 1 \in Nat /\ i - 1 < last
          /\ (i - 1) + 1 = i
      BY <1>1
    <3>2. end[n + 1] = end[n] + fields[n + 1].size /\ at(n + 1) = end[n]
      BY <1>2, <1>3, <3>1
    <3>3. /\ at(i) \in Nat /\ fields[i].size \in Nat
          /\ end[n] \in Nat /\ fields[n + 1].size \in Nat
      BY <1>1, <1>3, <3>1
    <3>4. CASE i = n + 1
      BY <3>2, <3>3, <3>4
    <3>5. CASE i <= n
      <4>1. at(i) + fields[i].size <= end[n]
        BY <1>1, <2>2, <3>1, <3>5
      <4> QED BY <3>2, <3>3, <4>1
    <3> QED BY <3>4, <3>5
  <2> HIDE DEF T
  <2>3. Nat \subseteq T
    BY <2>1, <2>2, SetInduction
  <2> QED BY <2>3 DEF T
<1>5. end[last] = width /\ width \in Nat
  <2>1. last \in 1..last /\ last - 1 \in Nat /\ last - 1 < last /\ (last - 1) + 1 = last
    BY <1>1
  <2>2. /\ end[last] = end[last - 1] + fields[last].size
        /\ at(last) = end[last - 1] /\ end[last - 1] \in Nat /\ fields[last].size \in Nat
    BY <1>1, <1>2, <1>3, <2>1
  <2> QED BY <1>1, <2>2
<1>6. ASSUME NEW n \in 1..last PROVE StartOf(type, fields[n].name) = at(n) /\ at(n) \in 0..width
  <2> DEFINE i == CHOOSE i \in 1..last : fields[i].name = fields[n].name
  <2>1. i \in 1..last /\ fields[i].name = fields[n].name
    OBVIOUS
  <2> HIDE DEF i
  <2>2. at(i) = at(n)
    BY <2>1 DEF at
  <2>3. ASSUME NEW j \in 1..last
        PROVE  j - 1 \in Nat /\ j - 1 <= last /\ at(j) = end[j - 1] /\ at(j) \in Nat
    <3>1. j - 1 \in Nat /\ j - 1 < last /\ (j - 1) + 1 = j
      BY <1>1
    <3> QED BY <1>1, <1>3, <3>1
  <2>4. ASSUME NEW j \in 1..last, NEW k \in 1..last, j < k PROVE at(j) < at(k)
    <3>1. j <= k - 1 /\ k - 1 <= last /\ k - 1 \in Nat /\ at(k) = end[k - 1] /\ at(j) \in Nat
      BY <1>1, <2>3, <2>4, SMTT(30)
    <3>2. at(j) + fields[j].size <= end[k - 1]
      BY <1>4, <3>1
    <3>3. fields[j].size \in Nat \ {0} /\ at(k) \in Nat
      BY <1>1, <2>3
    <3> QED BY <3>1, <3>2, <3>3
  <2>5. i = n
    <3>1. i < n \/ n < i \/ i = n
      BY <1>1, <2>1
    <3> QED BY <2>1, <2>2, <2>3, <2>4, <3>1
  <2>6. StartOf(type, fields[n].name) = end[n - 1]
    BY <1>1, <2>5 DEF StartOf, fields, end, i
  <2>7. at(n) <= width
    <3>1. n <= last /\ last \in Nat /\ fields[n].size \in Nat
      BY <1>1
    <3>2. at(n) + fields[n].size <= end[last]
      BY <1>4, <3>1
    <3> QED BY <1>5, <2>3, <3>1, <3>2
  <2> QED BY <1>5, <2>3, <2>6, <2>7
<1>7. \A name \in Names(type) : StartOf(type, name) = place[name] /\ place[name] \in 0..width
  BY <1>1, <1>6 DEF Names, Range, at, fields
<1>8. end[4] <= width
  <2>1. 4 \in 1..last /\ 4 \in Nat /\ 4 <= last
    BY <1>1
  <2>2. /\ end[4] = end[3] + fields[4].size /\ 3 < last
        /\ fields[4].size \in Nat /\ end[3] \in Nat
    BY <1>1, <1>2, <1>3
  <2>3. CASE last = 4
    BY <1>5, <2>3
  <2>4. CASE last > 4
    <3>1. 4 < last /\ 5 \in 1..last /\ at(5) = end[4]
      BY <1>1, <1>3, <2>4
    <3> QED BY <1>6, <3>1
  <2> QED BY <1>1, <2>3, <2>4
<1>9. Len(CommonHeader) = 4
  BY DEF CommonHeader
<1> QED BY <1>5, <1>7, <1>8, <1>9 DEF Placed, Width, end, last, fields

\* The tables on each type, in the order of messages.hpp. The places are worked out here
\* from the widths; decoder.cpp has those that it reports as literals.
LEMMA AgreesS == Agrees("S")
<1> DEFINE place ==
      [type |-> 0, stock_locate |-> 1, tracking_number |-> 3, timestamp |-> 5,
       event_code |-> 11]
<1>1. /\ "S" \in MessageType
      /\ Body["S"] = ReferenceBody["S"] /\ Checks["S"] = ReferenceChecks["S"]
  BY ReferenceTables DEF ReferenceBody
<1>2. Layout("S", place, 12)
  BY <1>1 DEF Layout, Fields, ReferenceBody, CommonHeader, Flag, Field
<1>3. Names("S") = DOMAIN place
  BY <1>1 DEF Names, Range, Fields, ReferenceBody, CommonHeader, Flag, Field
<1>4. Placed("S", place, 12)
  BY <1>2, LayoutPlaced
<1>5. LengthAgrees("S")
  BY <1>3, <1>4 DEF LengthAgrees, Placed, expected_payload_length
<1> QED
  BY <1>1, <1>3, <1>4, <1>5
  DEF Agrees, ChecksAgree, PointsAtField, Placed, ReferenceChecks, NoLocate, InvalidEnum,
      InvalidField, Check

LEMMA AgreesR == Agrees("R")
<1> DEFINE place ==
      [type |-> 0, stock_locate |-> 1, tracking_number |-> 3, timestamp |-> 5, stock |-> 11,
       market_category |-> 19, financial_status |-> 20, round_lot_size |-> 21,
       round_lots_only |-> 25, issue_classification |-> 26, issue_sub_type |-> 27,
       authenticity |-> 29, short_sale_threshold_indicator |-> 30, ipo_flag |-> 31,
       luld_reference_price_tier |-> 32, etp_flag |-> 33, etp_leverage_factor |-> 34,
       inverse_indicator |-> 38]
<1>1. /\ "R" \in MessageType
      /\ Body["R"] = ReferenceBody["R"] /\ Checks["R"] = ReferenceChecks["R"]
  BY ReferenceTables DEF ReferenceBody
<1>2. Layout("R", place, 39)
  BY <1>1 DEF Layout, Fields, ReferenceBody, CommonHeader, Flag, Field, Stock, Value4
<1>3. Names("R") = DOMAIN place
  BY <1>1 DEF Names, Range, Fields, ReferenceBody, CommonHeader, Flag, Field, Stock, Value4
<1>4. Placed("R", place, 39)
  BY <1>2, LayoutPlaced
<1>5. LengthAgrees("R")
  BY <1>3, <1>4 DEF LengthAgrees, Placed, expected_payload_length
<1>6. DOMAIN Checks["R"] = 1..3
  BY <1>1 DEF ReferenceChecks
<1>7. PointsAtField("R", Checks["R"][1])
  BY <1>1, <1>3, <1>4, SMTT(30) DEF PointsAtField, Placed, ReferenceChecks, InvalidField, Check
<1>8. PointsAtField("R", Checks["R"][2])
  BY <1>1, <1>3, <1>4, SMTT(30) DEF PointsAtField, Placed, ReferenceChecks, InvalidEnum, Check
<1>9. PointsAtField("R", Checks["R"][3])
  BY <1>1, <1>3, <1>4, SMTT(30) DEF PointsAtField, Placed, ReferenceChecks, InvalidEnum, Check
<1> QED
  BY <1>5, <1>6, <1>7, <1>8, <1>9
  DEF Agrees, ChecksAgree

LEMMA AgreesH == Agrees("H")
<1> DEFINE place ==
      [type |-> 0, stock_locate |-> 1, tracking_number |-> 3, timestamp |-> 5, stock |-> 11,
       trading_state |-> 19, reserved |-> 20, reason |-> 21]
<1>1. /\ "H" \in MessageType
      /\ Body["H"] = ReferenceBody["H"] /\ Checks["H"] = ReferenceChecks["H"]
  BY ReferenceTables DEF ReferenceBody
<1>2. Layout("H", place, 25)
  BY <1>1 DEF Layout, Fields, ReferenceBody, CommonHeader, Flag, Field, Stock
<1>3. Names("H") = DOMAIN place
  BY <1>1 DEF Names, Range, Fields, ReferenceBody, CommonHeader, Flag, Field, Stock
<1>4. Placed("H", place, 25)
  BY <1>2, LayoutPlaced
<1>5. LengthAgrees("H")
  BY <1>3, <1>4 DEF LengthAgrees, Placed, expected_payload_length
<1> QED
  BY <1>1, <1>3, <1>4, <1>5
  DEF Agrees, ChecksAgree, PointsAtField, Placed, ReferenceChecks, InvalidField,
      InvalidEnum, Check

LEMMA AgreesY == Agrees("Y")
<1> DEFINE place ==
      [type |-> 0, stock_locate |-> 1, tracking_number |-> 3, timestamp |-> 5, stock |-> 11,
       action |-> 19]
<1>1. /\ "Y" \in MessageType
      /\ Body["Y"] = ReferenceBody["Y"] /\ Checks["Y"] = ReferenceChecks["Y"]
  BY ReferenceTables DEF ReferenceBody
<1>2. Layout("Y", place, 20)
  BY <1>1 DEF Layout, Fields, ReferenceBody, CommonHeader, Flag, Field, Stock
<1>3. Names("Y") = DOMAIN place
  BY <1>1 DEF Names, Range, Fields, ReferenceBody, CommonHeader, Flag, Field, Stock
<1>4. Placed("Y", place, 20)
  BY <1>2, LayoutPlaced
<1>5. LengthAgrees("Y")
  BY <1>3, <1>4 DEF LengthAgrees, Placed, expected_payload_length
<1> QED
  BY <1>1, <1>3, <1>4, <1>5
  DEF Agrees, ChecksAgree, PointsAtField, Placed, ReferenceChecks, StockText, InvalidEnum,
      InvalidField, Check

LEMMA AgreesL == Agrees("L")
<1> DEFINE place ==
      [type |-> 0, stock_locate |-> 1, tracking_number |-> 3, timestamp |-> 5, mpid |-> 11,
       stock |-> 15, primary_market_maker |-> 23, market_maker_mode |-> 24,
       market_participant_state |-> 25]
<1>1. /\ "L" \in MessageType
      /\ Body["L"] = ReferenceBody["L"] /\ Checks["L"] = ReferenceChecks["L"]
  BY ReferenceTables DEF ReferenceBody
<1>2. Layout("L", place, 26)
  BY <1>1 DEF Layout, Fields, ReferenceBody, CommonHeader, Flag, Field, Stock
<1>3. Names("L") = DOMAIN place
  BY <1>1 DEF Names, Range, Fields, ReferenceBody, CommonHeader, Flag, Field, Stock
<1>4. Placed("L", place, 26)
  BY <1>2, LayoutPlaced
<1>5. LengthAgrees("L")
  BY <1>3, <1>4 DEF LengthAgrees, Placed, expected_payload_length
<1> QED
  BY <1>1, <1>3, <1>4, <1>5
  DEF Agrees, ChecksAgree, PointsAtField, Placed, ReferenceChecks, InvalidField,
      InvalidEnum, Check

LEMMA AgreesV == Agrees("V")
<1> DEFINE place ==
      [type |-> 0, stock_locate |-> 1, tracking_number |-> 3, timestamp |-> 5,
       level_1 |-> 11, level_2 |-> 19, level_3 |-> 27]
<1>1. /\ "V" \in MessageType
      /\ Body["V"] = ReferenceBody["V"] /\ Checks["V"] = ReferenceChecks["V"]
  BY ReferenceTables DEF ReferenceBody
<1>2. Layout("V", place, 35)
  BY <1>1 DEF Layout, Fields, ReferenceBody, CommonHeader, Flag, Field, Value8
<1>3. Names("V") = DOMAIN place
  BY <1>1 DEF Names, Range, Fields, ReferenceBody, CommonHeader, Flag, Field, Value8
<1>4. Placed("V", place, 35)
  BY <1>2, LayoutPlaced
<1>5. LengthAgrees("V")
  BY <1>3, <1>4 DEF LengthAgrees, Placed, expected_payload_length
<1> QED
  BY <1>1, <1>3, <1>4, <1>5
  DEF Agrees, ChecksAgree, PointsAtField, Placed, ReferenceChecks, NoLocate, InvalidField,
      Check

LEMMA AgreesW == Agrees("W")
<1> DEFINE place ==
      [type |-> 0, stock_locate |-> 1, tracking_number |-> 3, timestamp |-> 5,
       breached_level |-> 11]
<1>1. /\ "W" \in MessageType
      /\ Body["W"] = ReferenceBody["W"] /\ Checks["W"] = ReferenceChecks["W"]
  BY ReferenceTables DEF ReferenceBody
<1>2. Layout("W", place, 12)
  BY <1>1 DEF Layout, Fields, ReferenceBody, CommonHeader, Flag, Field
<1>3. Names("W") = DOMAIN place
  BY <1>1 DEF Names, Range, Fields, ReferenceBody, CommonHeader, Flag, Field
<1>4. Placed("W", place, 12)
  BY <1>2, LayoutPlaced
<1>5. LengthAgrees("W")
  BY <1>3, <1>4 DEF LengthAgrees, Placed, expected_payload_length
<1> QED
  BY <1>1, <1>3, <1>4, <1>5
  DEF Agrees, ChecksAgree, PointsAtField, Placed, ReferenceChecks, NoLocate, InvalidEnum,
      InvalidField, Check

LEMMA AgreesK == Agrees("K")
<1> DEFINE place ==
      [type |-> 0, stock_locate |-> 1, tracking_number |-> 3, timestamp |-> 5, stock |-> 11,
       ipo_quotation_release_time |-> 19, ipo_quotation_release_qualifier |-> 23,
       ipo_price |-> 24]
<1>1. /\ "K" \in MessageType
      /\ Body["K"] = ReferenceBody["K"] /\ Checks["K"] = ReferenceChecks["K"]
  BY ReferenceTables DEF ReferenceBody
<1>2. Layout("K", place, 28)
  BY <1>1 DEF Layout, Fields, ReferenceBody, CommonHeader, Flag, Field, Stock, Value4
<1>3. Names("K") = DOMAIN place
  BY <1>1 DEF Names, Range, Fields, ReferenceBody, CommonHeader, Flag, Field, Stock, Value4
<1>4. Placed("K", place, 28)
  BY <1>2, LayoutPlaced
<1>5. LengthAgrees("K")
  BY <1>3, <1>4 DEF LengthAgrees, Placed, expected_payload_length
<1> QED
  BY <1>1, <1>3, <1>4, <1>5
  DEF Agrees, ChecksAgree, PointsAtField, Placed, ReferenceChecks, InvalidField,
      InvalidEnum, Check

LEMMA AgreesJ == Agrees("J")
<1> DEFINE place ==
      [type |-> 0, stock_locate |-> 1, tracking_number |-> 3, timestamp |-> 5, stock |-> 11,
       auction_collar_reference_price |-> 19, upper_auction_collar_price |-> 23,
       lower_auction_collar_price |-> 27, auction_collar_extension |-> 31]
<1>1. /\ "J" \in MessageType
      /\ Body["J"] = ReferenceBody["J"] /\ Checks["J"] = ReferenceChecks["J"]
  BY ReferenceTables DEF ReferenceBody
<1>2. Layout("J", place, 35)
  BY <1>1 DEF Layout, Fields, ReferenceBody, CommonHeader, Flag, Field, Stock, Value4
<1>3. Names("J") = DOMAIN place
  BY <1>1 DEF Names, Range, Fields, ReferenceBody, CommonHeader, Flag, Field, Stock, Value4
<1>4. Placed("J", place, 35)
  BY <1>2, LayoutPlaced
<1>5. LengthAgrees("J")
  BY <1>3, <1>4 DEF LengthAgrees, Placed, expected_payload_length
<1> QED
  BY <1>1, <1>3, <1>4, <1>5
  DEF Agrees, ChecksAgree, PointsAtField, Placed, ReferenceChecks, InvalidField, Check

LEMMA AgreesHalt == Agrees("h")
<1> DEFINE place ==
      [type |-> 0, stock_locate |-> 1, tracking_number |-> 3, timestamp |-> 5, stock |-> 11,
       market_code |-> 19, operational_halt_action |-> 20]
<1>1. /\ "h" \in MessageType
      /\ Body["h"] = ReferenceBody["h"] /\ Checks["h"] = ReferenceChecks["h"]
  BY ReferenceTables DEF ReferenceBody
<1>2. Layout("h", place, 21)
  BY <1>1 DEF Layout, Fields, ReferenceBody, CommonHeader, Flag, Field, Stock
<1>3. Names("h") = DOMAIN place
  BY <1>1 DEF Names, Range, Fields, ReferenceBody, CommonHeader, Flag, Field, Stock
<1>4. Placed("h", place, 21)
  BY <1>2, LayoutPlaced
<1>5. LengthAgrees("h")
  BY <1>3, <1>4 DEF LengthAgrees, Placed, expected_payload_length
<1> QED
  BY <1>1, <1>3, <1>4, <1>5
  DEF Agrees, ChecksAgree, PointsAtField, Placed, ReferenceChecks, StockText, InvalidEnum,
      InvalidField, Check

LEMMA AgreesA == Agrees("A")
<1> DEFINE place ==
      [type |-> 0, stock_locate |-> 1, tracking_number |-> 3, timestamp |-> 5,
       order_reference |-> 11, side |-> 19, shares |-> 20, stock |-> 24, price |-> 32]
<1>1. /\ "A" \in MessageType
      /\ Body["A"] = OrderBody["A"] /\ Checks["A"] = OrderChecks["A"]
  BY OrderTables DEF OrderBody
<1>2. Layout("A", place, 36)
  BY <1>1 DEF Layout, Fields, OrderBody, CommonHeader, Flag, Field, Reference, Side1, Shares4,
              Stock, Price4
<1>3. Names("A") = DOMAIN place
  BY <1>1 DEF Names, Range, Fields, OrderBody, CommonHeader, Flag, Field, Reference, Side1,
              Shares4, Stock, Price4
<1>4. Placed("A", place, 36)
  BY <1>2, LayoutPlaced
<1>5. LengthAgrees("A")
  BY <1>3, <1>4 DEF LengthAgrees, Placed, expected_payload_length
<1> QED
  BY <1>1, <1>3, <1>4, <1>5
  DEF Agrees, ChecksAgree, PointsAtField, Placed, OrderChecks, OrderShares, InvalidField,
      InvalidEnum, Check

LEMMA AgreesF == Agrees("F")
<1> DEFINE place ==
      [type |-> 0, stock_locate |-> 1, tracking_number |-> 3, timestamp |-> 5,
       order_reference |-> 11, side |-> 19, shares |-> 20, stock |-> 24, price |-> 32,
       attribution |-> 36]
<1>1. /\ "F" \in MessageType
      /\ Body["F"] = OrderBody["F"] /\ Checks["F"] = OrderChecks["F"]
  BY OrderTables DEF OrderBody
<1>2. Layout("F", place, 40)
  BY <1>1 DEF Layout, Fields, OrderBody, CommonHeader, Flag, Field, Reference, Side1, Shares4,
              Stock, Price4
<1>3. Names("F") = DOMAIN place
  BY <1>1 DEF Names, Range, Fields, OrderBody, CommonHeader, Flag, Field, Reference, Side1,
              Shares4, Stock, Price4
<1>4. Placed("F", place, 40)
  BY <1>2, LayoutPlaced
<1>5. LengthAgrees("F")
  BY <1>3, <1>4 DEF LengthAgrees, Placed, expected_payload_length
<1> QED
  BY <1>1, <1>3, <1>4, <1>5
  DEF Agrees, ChecksAgree, PointsAtField, Placed, OrderChecks, OrderShares, InvalidField,
      InvalidEnum, Check

LEMMA AgreesE == Agrees("E")
<1> DEFINE place ==
      [type |-> 0, stock_locate |-> 1, tracking_number |-> 3, timestamp |-> 5,
       order_reference |-> 11, shares |-> 19, match_number |-> 23]
<1>1. /\ "E" \in MessageType
      /\ Body["E"] = OrderBody["E"] /\ Checks["E"] = OrderChecks["E"]
  BY OrderTables DEF OrderBody
<1>2. Layout("E", place, 31)
  BY <1>1 DEF Layout, Fields, OrderBody, CommonHeader, Flag, Field, Reference, Shares4, Match
<1>3. Names("E") = DOMAIN place
  BY <1>1
  DEF Names, Range, Fields, OrderBody, CommonHeader, Flag, Field, Reference, Shares4, Match
<1>4. Placed("E", place, 31)
  BY <1>2, LayoutPlaced
<1>5. LengthAgrees("E")
  BY <1>3, <1>4 DEF LengthAgrees, Placed, expected_payload_length
<1> QED
  BY <1>1, <1>3, <1>4, <1>5
  DEF Agrees, ChecksAgree, PointsAtField, Placed, OrderChecks, OrderShares, InvalidField,
      Check

LEMMA AgreesC == Agrees("C")
<1> DEFINE place ==
      [type |-> 0, stock_locate |-> 1, tracking_number |-> 3, timestamp |-> 5,
       order_reference |-> 11, shares |-> 19, match_number |-> 23, printable |-> 31,
       price |-> 32]
<1>1. /\ "C" \in MessageType
      /\ Body["C"] = OrderBody["C"] /\ Checks["C"] = OrderChecks["C"]
  BY OrderTables DEF OrderBody
<1>2. Layout("C", place, 36)
  BY <1>1 DEF Layout, Fields, OrderBody, CommonHeader, Flag, Field, Reference, Shares4, Match,
              Price4
<1>3. Names("C") = DOMAIN place
  BY <1>1 DEF Names, Range, Fields, OrderBody, CommonHeader, Flag, Field, Reference, Shares4,
              Match, Price4
<1>4. Placed("C", place, 36)
  BY <1>2, LayoutPlaced
<1>5. LengthAgrees("C")
  BY <1>3, <1>4 DEF LengthAgrees, Placed, expected_payload_length
<1> QED
  BY <1>1, <1>3, <1>4, <1>5
  DEF Agrees, ChecksAgree, PointsAtField, Placed, OrderChecks, OrderShares, InvalidField,
      InvalidEnum, Check

LEMMA AgreesX == Agrees("X")
<1> DEFINE place ==
      [type |-> 0, stock_locate |-> 1, tracking_number |-> 3, timestamp |-> 5,
       order_reference |-> 11, shares |-> 19]
<1>1. /\ "X" \in MessageType
      /\ Body["X"] = OrderBody["X"] /\ Checks["X"] = OrderChecks["X"]
  BY OrderTables DEF OrderBody
<1>2. Layout("X", place, 23)
  BY <1>1 DEF Layout, Fields, OrderBody, CommonHeader, Flag, Field, Reference, Shares4
<1>3. Names("X") = DOMAIN place
  BY <1>1 DEF Names, Range, Fields, OrderBody, CommonHeader, Flag, Field, Reference, Shares4
<1>4. Placed("X", place, 23)
  BY <1>2, LayoutPlaced
<1>5. LengthAgrees("X")
  BY <1>3, <1>4 DEF LengthAgrees, Placed, expected_payload_length
<1> QED
  BY <1>1, <1>3, <1>4, <1>5
  DEF Agrees, ChecksAgree, PointsAtField, Placed, OrderChecks, OrderShares, InvalidField,
      Check

LEMMA AgreesD == Agrees("D")
<1> DEFINE place ==
      [type |-> 0, stock_locate |-> 1, tracking_number |-> 3, timestamp |-> 5,
       order_reference |-> 11]
<1>1. /\ "D" \in MessageType
      /\ Body["D"] = OrderBody["D"] /\ Checks["D"] = OrderChecks["D"]
  BY OrderTables DEF OrderBody
<1>2. Layout("D", place, 19)
  BY <1>1 DEF Layout, Fields, OrderBody, CommonHeader, Flag, Field, Reference
<1>3. Names("D") = DOMAIN place
  BY <1>1 DEF Names, Range, Fields, OrderBody, CommonHeader, Flag, Field, Reference
<1>4. Placed("D", place, 19)
  BY <1>2, LayoutPlaced
<1>5. LengthAgrees("D")
  BY <1>3, <1>4 DEF LengthAgrees, Placed, expected_payload_length
<1> QED
  BY <1>1, <1>3, <1>4, <1>5
  DEF Agrees, ChecksAgree, PointsAtField, Placed, OrderChecks, InvalidField, Check

LEMMA AgreesU == Agrees("U")
<1> DEFINE place ==
      [type |-> 0, stock_locate |-> 1, tracking_number |-> 3, timestamp |-> 5,
       order_reference |-> 11, new_order_reference |-> 19, shares |-> 27, price |-> 31]
<1>1. /\ "U" \in MessageType
      /\ Body["U"] = OrderBody["U"] /\ Checks["U"] = OrderChecks["U"]
  BY OrderTables DEF OrderBody
<1>2. Layout("U", place, 35)
  BY <1>1 DEF Layout, Fields, OrderBody, CommonHeader, Flag, Field, Reference, Value8, Shares4,
              Price4
<1>3. Names("U") = DOMAIN place
  BY <1>1 DEF Names, Range, Fields, OrderBody, CommonHeader, Flag, Field, Reference, Value8,
              Shares4, Price4
<1>4. Placed("U", place, 35)
  BY <1>2, LayoutPlaced
<1>5. LengthAgrees("U")
  BY <1>3, <1>4 DEF LengthAgrees, Placed, expected_payload_length
<1> QED
  BY <1>1, <1>3, <1>4, <1>5
  DEF Agrees, ChecksAgree, PointsAtField, Placed, OrderChecks, OrderShares, InvalidField,
      Check

LEMMA AgreesP == Agrees("P")
<1> DEFINE place ==
      [type |-> 0, stock_locate |-> 1, tracking_number |-> 3, timestamp |-> 5,
       order_reference |-> 11, side |-> 19, shares |-> 20, stock |-> 24, price |-> 32,
       match_number |-> 36]
<1>1. /\ "P" \in MessageType
      /\ Body["P"] = TradeBody["P"] /\ Checks["P"] = TradeChecks["P"]
  BY TradeTables DEF TradeBody
<1>2. Layout("P", place, 44)
  BY <1>1 DEF Layout, Fields, TradeBody, CommonHeader, Flag, Field, Reference, Side1, Shares4,
              Stock, Price4, Match
<1>3. Names("P") = DOMAIN place
  BY <1>1 DEF Names, Range, Fields, TradeBody, CommonHeader, Flag, Field, Reference, Side1,
              Shares4, Stock, Price4, Match
<1>4. Placed("P", place, 44)
  BY <1>2, LayoutPlaced
<1>5. LengthAgrees("P")
  BY <1>3, <1>4 DEF LengthAgrees, Placed, expected_payload_length
<1> QED
  BY <1>1, <1>3, <1>4, <1>5
  DEF Agrees, ChecksAgree, PointsAtField, Placed, TradeChecks, InvalidField, InvalidEnum,
      Check

LEMMA AgreesQ == Agrees("Q")
<1> DEFINE place ==
      [type |-> 0, stock_locate |-> 1, tracking_number |-> 3, timestamp |-> 5,
       shares |-> 11, stock |-> 19, cross_price |-> 27, match_number |-> 31,
       cross_type |-> 39]
<1>1. /\ "Q" \in MessageType
      /\ Body["Q"] = TradeBody["Q"] /\ Checks["Q"] = TradeChecks["Q"]
  BY TradeTables DEF TradeBody
<1>2. Layout("Q", place, 40)
  BY <1>1 DEF Layout, Fields, TradeBody, CommonHeader, Flag, Field, Value8, Stock, Value4, Match
<1>3. Names("Q") = DOMAIN place
  BY <1>1 DEF Names, Range, Fields, TradeBody, CommonHeader, Flag, Field, Value8, Stock, Value4,
              Match
<1>4. Placed("Q", place, 40)
  BY <1>2, LayoutPlaced
<1>5. LengthAgrees("Q")
  BY <1>3, <1>4 DEF LengthAgrees, Placed, expected_payload_length
<1> QED
  BY <1>1, <1>3, <1>4, <1>5
  DEF Agrees, ChecksAgree, PointsAtField, Placed, TradeChecks, InvalidField, InvalidEnum,
      Check

LEMMA AgreesB == Agrees("B")
<1> DEFINE place ==
      [type |-> 0, stock_locate |-> 1, tracking_number |-> 3, timestamp |-> 5,
       match_number |-> 11]
<1>1. /\ "B" \in MessageType
      /\ Body["B"] = TradeBody["B"] /\ Checks["B"] = TradeChecks["B"]
  BY TradeTables DEF TradeBody
<1>2. Layout("B", place, 19)
  BY <1>1 DEF Layout, Fields, TradeBody, CommonHeader, Flag, Field, Match
<1>3. Names("B") = DOMAIN place
  BY <1>1 DEF Names, Range, Fields, TradeBody, CommonHeader, Flag, Field, Match
<1>4. Placed("B", place, 19)
  BY <1>2, LayoutPlaced
<1>5. LengthAgrees("B")
  BY <1>3, <1>4 DEF LengthAgrees, Placed, expected_payload_length
<1> QED
  BY <1>1, <1>3, <1>4, <1>5
  DEF Agrees, ChecksAgree, PointsAtField, Placed, TradeChecks

LEMMA AgreesI == Agrees("I")
<1> DEFINE place ==
      [type |-> 0, stock_locate |-> 1, tracking_number |-> 3, timestamp |-> 5,
       paired_shares |-> 11, imbalance_shares |-> 19, imbalance_direction |-> 27,
       stock |-> 28, far_price |-> 36, near_price |-> 40, current_reference_price |-> 44,
       cross_type |-> 48, price_variation_indicator |-> 49]
<1>1. /\ "I" \in MessageType
      /\ Body["I"] = TradeBody["I"] /\ Checks["I"] = TradeChecks["I"]
  BY TradeTables DEF TradeBody
<1>2. Layout("I", place, 50)
  BY <1>1 DEF Layout, Fields, TradeBody, CommonHeader, Flag, Field, Value8, Stock, Value4
<1>3. Names("I") = DOMAIN place
  BY <1>1 DEF Names, Range, Fields, TradeBody, CommonHeader, Flag, Field, Value8, Stock, Value4
<1>4. Placed("I", place, 50)
  BY <1>2, LayoutPlaced
<1>5. LengthAgrees("I")
  BY <1>3, <1>4 DEF LengthAgrees, Placed, expected_payload_length
<1> QED
  BY <1>1, <1>3, <1>4, <1>5
  DEF Agrees, ChecksAgree, PointsAtField, Placed, TradeChecks, InvalidField, InvalidEnum,
      Check

LEMMA AgreesN == Agrees("N")
<1> DEFINE place ==
      [type |-> 0, stock_locate |-> 1, tracking_number |-> 3, timestamp |-> 5, stock |-> 11,
       interest_flag |-> 19]
<1>1. /\ "N" \in MessageType
      /\ Body["N"] = TradeBody["N"] /\ Checks["N"] = TradeChecks["N"]
  BY TradeTables DEF TradeBody
<1>2. Layout("N", place, 20)
  BY <1>1 DEF Layout, Fields, TradeBody, CommonHeader, Flag, Field, Stock
<1>3. Names("N") = DOMAIN place
  BY <1>1 DEF Names, Range, Fields, TradeBody, CommonHeader, Flag, Field, Stock
<1>4. Placed("N", place, 20)
  BY <1>2, LayoutPlaced
<1>5. LengthAgrees("N")
  BY <1>3, <1>4 DEF LengthAgrees, Placed, expected_payload_length
<1> QED
  BY <1>1, <1>3, <1>4, <1>5
  DEF Agrees, ChecksAgree, PointsAtField, Placed, TradeChecks, StockText, InvalidEnum,
      InvalidField, Check

LEMMA AgreesO == Agrees("O")
<1> DEFINE place ==
      [type |-> 0, stock_locate |-> 1, tracking_number |-> 3, timestamp |-> 5, stock |-> 11,
       open_eligibility_status |-> 19, minimum_allowable_price |-> 20,
       maximum_allowable_price |-> 24, near_execution_price |-> 28,
       near_execution_time |-> 32, lower_price_range_collar |-> 40,
       upper_price_range_collar |-> 44]
<1>1. /\ "O" \in MessageType
      /\ Body["O"] = TradeBody["O"] /\ Checks["O"] = TradeChecks["O"]
  BY TradeTables DEF TradeBody
<1>2. Layout("O", place, 48)
  BY <1>1 DEF Layout, Fields, TradeBody, CommonHeader, Flag, Field, Stock, Value4, Value8
<1>3. Names("O") = DOMAIN place
  BY <1>1 DEF Names, Range, Fields, TradeBody, CommonHeader, Flag, Field, Stock, Value4, Value8
<1>4. Placed("O", place, 48)
  BY <1>2, LayoutPlaced
<1>5. LengthAgrees("O")
  BY <1>3, <1>4 DEF LengthAgrees, Placed, expected_payload_length
<1> QED
  BY <1>1, <1>3, <1>4, <1>5
  DEF Agrees, ChecksAgree, PointsAtField, Placed, TradeChecks, StockText, InvalidField,
      InvalidEnum, Check

\* The three tables agree on every type.
LEMMA TablesAgree == \A type \in MessageType : Agrees(type)
<1>1. \A type \in MessageType :
        type \in DOMAIN ReferenceBody \cup DOMAIN OrderBody \cup DOMAIN TradeBody
  BY DEF MessageType, Body, Joined
<1>2. \A type \in DOMAIN ReferenceBody : Agrees(type)
  BY AgreesS, AgreesR, AgreesH, AgreesY, AgreesL, AgreesV, AgreesW, AgreesK, AgreesJ,
     AgreesHalt
  DEF ReferenceBody
<1>3. \A type \in DOMAIN OrderBody : Agrees(type)
  BY AgreesA, AgreesF, AgreesE, AgreesC, AgreesX, AgreesD, AgreesU DEF OrderBody
<1>4. \A type \in DOMAIN TradeBody : Agrees(type)
  BY AgreesP, AgreesQ, AgreesB, AgreesI, AgreesN, AgreesO DEF TradeBody
<1> QED BY <1>1, <1>2, <1>3, <1>4

\* A check that fails is reported.
LEMMA CheckReported ==
  ASSUME NEW p, p.type \in MessageType, p.size = Width(p.type), ~ "timestamp" \in p.bad,
         NEW i \in DOMAIN Checks[p.type], Checks[p.type][i].names \cap p.bad # {}
  PROVE  \E j \in DOMAIN Checks[p.type] :
           /\ Checks[p.type][j].names \cap p.bad # {}
           /\ decode(p) = Error(Checks[p.type][j].category, Checks[p.type][j].offset)
<1> DEFINE failing == {j \in DOMAIN Checks[p.type] : Checks[p.type][j].names \cap p.bad # {}}
<1>1. DOMAIN Checks[p.type] \subseteq Nat
  BY TablesAgree DEF Agrees, ChecksAgree
<1>2. Min(failing) \in failing
  <2>1. failing \in SUBSET Nat /\ failing # {}
    BY <1>1
  <2> HIDE DEF failing
  <2> QED BY <2>1, LeastNatural DEF Min
<1>3. ~ (p.size < Width(p.type))
  BY TablesAgree DEF Agrees, LengthAgrees
<1> QED BY <1>2, <1>3 DEF decode

\* What decode_message says of a payload whose fields may break their rules.
Answers(p, error) ==
  /\ error.offset \in 0..p.size
  /\ error.category = "ok" => p.size = Width(p.type) /\ p.bad = {}
  /\ error.category \in {"InvalidField", "InvalidEnum"} =>
       /\ \E name \in Names(p.type) : StartOf(p.type, name) = error.offset
       /\ \E name \in p.bad : error.offset <= StartOf(p.type, name)

LEMMA DecoderAnswers ==
  ASSUME NEW p, p.size \in Nat, p.type \in MessageType => p.bad \subseteq Ruled(p.type)
  PROVE  Answers(p, decode_message(p))
<1>1. CASE p.size = 0 \/ p.type \notin MessageType \/ p.size # expected_payload_length[p.type]
  <2>1. /\ decode_message(p).offset = 0
        /\ decode_message(p).category \in {"EmptyPayload", "UnknownMessageType", "LengthMismatch"}
    BY <1>1 DEF decode_message, Error
  <2> QED BY <2>1 DEF Answers
<1>2. CASE p.size # 0 /\ p.type \in MessageType /\ p.size = expected_payload_length[p.type]
  <2>1. Agrees(p.type) /\ decode_message(p) = decode(p)
    BY <1>2, TablesAgree DEF decode_message
  <2>2. /\ p.size = Width(p.type) /\ p.size >= End[p.type][Len(CommonHeader)]
        /\ ~ (p.size < Width(p.type))
    BY <1>2, <2>1 DEF Agrees, LengthAgrees
  <2>3. CASE "timestamp" \in p.bad
    <3>1. decode(p) = Error("InvalidField", 5)
      BY <2>2, <2>3 DEF decode
    <3> QED BY <2>1, <2>2, <2>3, <3>1 DEF Answers, Agrees, LengthAgrees, Error
  <2>4. CASE /\ ~ "timestamp" \in p.bad
             /\ \E i \in DOMAIN Checks[p.type] : Checks[p.type][i].names \cap p.bad # {}
    <3>1. PICK j \in DOMAIN Checks[p.type] :
            /\ Checks[p.type][j].names \cap p.bad # {}
            /\ decode(p) = Error(Checks[p.type][j].category, Checks[p.type][j].offset)
      BY <1>2, <2>2, <2>4, CheckReported
    <3> QED BY <2>1, <2>2, <3>1 DEF Answers, Agrees, ChecksAgree, PointsAtField, Error
  <2>5. CASE /\ ~ "timestamp" \in p.bad
             /\ \A i \in DOMAIN Checks[p.type] : Checks[p.type][i].names \cap p.bad = {}
    <3>1. decode(p) = Decoded
      BY <2>2, <2>5 DEF decode
    <3>2. p.bad = {}
      BY <1>2, <2>5 DEF Ruled
    <3> QED BY <2>1, <2>2, <3>1, <3>2 DEF Answers, Decoded, Error
  <2> QED BY <2>3, <2>4, <2>5
<1> QED BY <1>1, <1>2
----------------------------------------------------------------------------
(* Where diagnostics point *)

\* What the decoder answered to the payload that was read last.
RecordAnswered ==
  record.frame.category = "ok" =>
    Answers(record.frame.payload, decode_message(record.frame.payload))

LEMMA FrameAnswered ==
  ASSUME NEW frame \in Readable, frame.category = "ok"
  PROVE  /\ frame.payload.size \in Nat
         /\ Answers(frame.payload, decode_message(frame.payload))
<1>1. frame \in Frames \cup Probes
  BY DEF Readable
<1>2. /\ frame.payload.size \in Nat
      /\ frame.payload.type \in MessageType =>
           frame.payload.bad \subseteq Ruled(frame.payload.type)
  BY <1>1, ReplayAssumption DEF ReplayAssumption
<1> QED BY <1>2, DecoderAnswers

LEMMA RecordInvariant == ReplaySpec => []RecordAnswered
<1>1. ReplayInit => RecordAnswered
  BY DEF ReplayInit, NoRecord, RecordAnswered
<1>2. RecordAnswered /\ [ReplayNext]_replay_vars => RecordAnswered'
  <2> SUFFICES ASSUME RecordAnswered, [ReplayNext]_replay_vars PROVE RecordAnswered'
    OBVIOUS
  <2>1. CASE UNCHANGED record
    BY <2>1 DEF RecordAnswered
  <2>2. ASSUME NEW frame \in Readable, next_record(frame) PROVE RecordAnswered'
    <3>1. record'.frame = frame
      BY <2>2 DEF next_record
    <3> QED BY <3>1, FrameAnswered DEF RecordAnswered
  <2> QED BY <2>1, <2>2 DEF ReplayNext, finish_run, Finished, replay_vars
<1> QED BY <1>1, <1>2, PTL DEF ReplaySpec

\* What the replayer decodes has the length of its fields together and no field that
\* breaks its rule, for every type and whatever the file holds (decoder.cpp, messages.cpp).
THEOREM PayloadsDecodedWhole == ReplaySpec => []DecodedWhole
<1>1. RecordAnswered => DecodedWhole
  BY DEF RecordAnswered, Answers, DecodedWhole, LastRecordDecoded
<1> QED BY <1>1, RecordInvariant, PTL

\* What makes DiagnosticsInFileOrder inductive: while records are read, every diagnostic
\* is of a record that was returned.
Ordered ==
  /\ offset \in Nat /\ record_index \in Nat
  /\ \A i \in DOMAIN diagnostics :
       diagnostics[i].offset \in Nat /\ diagnostics[i].record_index \in Nat
  /\ phase = "reading" => \A i \in DOMAIN diagnostics : diagnostics[i].record_index < record_index
  /\ DiagnosticsInFileOrder

LEMMA DiagnosticAppended ==
  ASSUME NEW D, diagnostics \in Seq(D), NEW category, NEW at, NEW terminal, NEW counted,
         record_diagnostic(category, at, terminal, counted)
  PROVE  /\ Len(diagnostics) \in Nat /\ DOMAIN diagnostics = 1..Len(diagnostics)
         /\ Len(diagnostics') = Len(diagnostics) + 1
         /\ DOMAIN diagnostics' = 1..(Len(diagnostics) + 1)
         /\ \A i \in 1..Len(diagnostics) : diagnostics'[i] = diagnostics[i]
         /\ diagnostics'[Len(diagnostics) + 1]
              = [category |-> category, offset |-> at, record_index |-> record_index]
<1> DEFINE entry == [category |-> category, offset |-> at, record_index |-> record_index]
<1>1. diagnostics' = Append(diagnostics, entry)
  BY DEF record_diagnostic
<1> HIDE DEF entry
<1>2. diagnostics \in Seq(D \cup {entry}) /\ entry \in D \cup {entry}
  BY SeqMonotonic
<1>3. /\ diagnostics' \in Seq(D \cup {entry}) /\ Len(diagnostics') = Len(diagnostics) + 1
      /\ \A i \in 1..Len(diagnostics) : diagnostics'[i] = diagnostics[i]
      /\ diagnostics'[Len(diagnostics) + 1] = entry
  BY <1>1, <1>2, AppendProperties
<1>4. /\ Len(diagnostics) \in Nat /\ DOMAIN diagnostics = 1..Len(diagnostics)
      /\ DOMAIN diagnostics' = 1..Len(diagnostics')
  BY <1>3, LenProperties
<1> QED BY <1>3, <1>4 DEF entry

\* A failure is reported behind those before it: a record that could not be framed at
\* the reader's own place, another within the record that was returned.
LEMMA FailureOrdered ==
  ASSUME Ordered, phase = "reading", NEW D, diagnostics \in Seq(D),
         NEW category, NEW at \in Nat, NEW terminal, NEW counted,
         Failed(category, at, terminal, counted),
         offset <= at, offset' \in Nat, at <= offset', record_index' \in Nat,
         \/ record_index' = record_index + 1
         \/ record_index' = record_index /\ category \in Framing /\ terminal
  PROVE  Ordered'
<1> DEFINE n == Len(diagnostics)
<1>1. /\ record_diagnostic(category, at, terminal, counted)
      /\ terminal => phase' # "reading"
  BY DEF Failed
<1>2. /\ n \in Nat /\ DOMAIN diagnostics = 1..n /\ DOMAIN diagnostics' = 1..(n + 1)
      /\ \A i \in 1..n : diagnostics'[i] = diagnostics[i]
      /\ diagnostics'[n + 1]
           = [category |-> category, offset |-> at, record_index |-> record_index]
  BY <1>1, DiagnosticAppended
<1>3. \A i \in 1..n :
        /\ diagnostics[i].offset \in Nat /\ diagnostics[i].offset <= offset
        /\ diagnostics[i].record_index \in Nat /\ diagnostics[i].record_index < record_index
  BY <1>2 DEF Ordered, DiagnosticsInFileOrder
<1>4. offset \in Nat /\ record_index \in Nat
  BY DEF Ordered
<1> HIDE DEF n
<1>5. \A i \in 1..(n + 1) :
        /\ diagnostics'[i].offset \in Nat /\ diagnostics'[i].offset <= offset'
        /\ diagnostics'[i].record_index \in Nat /\ diagnostics'[i].record_index <= record_index
  <2> SUFFICES ASSUME NEW i \in 1..(n + 1)
               PROVE  /\ diagnostics'[i].offset \in Nat /\ diagnostics'[i].offset <= offset'
                      /\ diagnostics'[i].record_index \in Nat
                      /\ diagnostics'[i].record_index <= record_index
    OBVIOUS
  <2>1. CASE i \in 1..n
    BY <1>2, <1>3, <1>4, <2>1
  <2>2. CASE i = n + 1
    BY <1>2, <1>4, <2>2
  <2> QED BY <1>2, <2>1, <2>2
<1>6. DiagnosticsInFileOrder'
  <2> SUFFICES ASSUME NEW i \in 1..(n + 1)
               PROVE  /\ diagnostics'[i].record_index <= record_index'
                      /\ diagnostics'[i].offset <= offset'
                      /\ diagnostics'[i].record_index = record_index' =>
                           diagnostics'[i].category \in Framing
                      /\ i > 1 =>
                           /\ diagnostics'[i - 1].record_index < diagnostics'[i].record_index
                           /\ diagnostics'[i - 1].offset <= diagnostics'[i].offset
    BY <1>2 DEF DiagnosticsInFileOrder
  <2>1. CASE i \in 1..n
    <3>1. i > 1 => /\ i - 1 \in 1..n
                   /\ diagnostics[i - 1].record_index < diagnostics[i].record_index
                   /\ diagnostics[i - 1].offset <= diagnostics[i].offset
      <4>1. i \in DOMAIN diagnostics /\ (i > 1 => i - 1 \in 1..n)
        BY <1>2, <2>1
      <4> QED BY <4>1 DEF Ordered, DiagnosticsInFileOrder
    <3> QED BY <1>2, <1>3, <1>4, <1>5, <2>1, <3>1, SMTT(30)
  <2>2. CASE i = n + 1
    <3>1. i > 1 => i - 1 \in 1..n /\ i - 1 = n
      BY <1>2, <2>2
    <3> QED BY <1>2, <1>3, <1>4, <2>2, <3>1
  <2> QED BY <1>2, <2>1, <2>2
<1>7. phase' = "reading" => \A i \in 1..(n + 1) : diagnostics'[i].record_index < record_index'
  BY <1>1, <1>2, <1>4, <1>5
<1> QED BY <1>2, <1>5, <1>6, <1>7 DEF Ordered

\* A record that was decoded and applied leaves the diagnostics as they are.
LEMMA SuccessOrdered ==
  ASSUME Ordered, phase = "reading", UNCHANGED failures, offset' \in Nat, offset <= offset',
         record_index' = record_index + 1
  PROVE  Ordered'
<1>1. /\ UNCHANGED diagnostics /\ offset \in Nat /\ record_index \in Nat
      /\ \A i \in DOMAIN diagnostics :
           /\ diagnostics[i].offset \in Nat /\ diagnostics[i].offset <= offset
           /\ diagnostics[i].record_index \in Nat /\ diagnostics[i].record_index < record_index
  BY DEF Ordered, DiagnosticsInFileOrder, failures
<1>2. \A i \in DOMAIN diagnostics :
        diagnostics[i].offset <= offset' /\ diagnostics[i].record_index < record_index'
  BY <1>1
<1>3. DiagnosticsInFileOrder'
  BY <1>1, <1>2 DEF Ordered, DiagnosticsInFileOrder
<1> QED BY <1>1, <1>2, <1>3 DEF Ordered

\* A record keeps the diagnostics in the order of the file and, if the decoder refused it,
\* adds one that points at a field.
LEMMA RecordReported ==
  ASSUME Ordered, Accounted, DiagnosticsPointAtFields, NEW frame \in Readable,
         next_record(frame)
  PROVE  Ordered' /\ DiagnosticsPointAtFields'
<1>1. /\ phase = "reading" /\ record'.frame = frame /\ record'.envelope = offset
      /\ offset \in Nat /\ record_index \in Nat
  BY DEF next_record, Ordered
<1>2. PICK D : diagnostics \in Seq(D)
  BY DEF Accounted
<1>3. CASE framing_fails(frame)
  <2>1. /\ Failed(frame.category, offset, TRUE, {"seen", "failed"})
        /\ offset' = offset /\ record_index' = record_index /\ frame.category \in Framing
    BY <1>3 DEF framing_fails, reader
  <2>2. Ordered'
    <3>1. offset <= offset /\ offset' \in Nat /\ offset <= offset' /\ record_index' \in Nat
      BY <1>1, <2>1
    <3> QED BY ONLY <1>1, <1>2, <2>1, <3>1, Ordered, FailureOrdered
  <2>3. record'.frame.category # "ok"
    BY <1>1, <2>1 DEF Framing
  <2> QED BY <2>2, <2>3 DEF DiagnosticsPointAtFields
<1>4. CASE decoding_fails(frame)
  <2> DEFINE payload == frame.payload
             error == decode_message(payload)
             at == offset + 2 + error.offset
  <2>1. /\ frame.category = "ok" /\ Failed(error.category, at, mode = "Strict", Skipped)
        /\ offset' = offset + 2 + payload.size /\ record_index' = record_index + 1
    BY <1>4 DEF decoding_fails, Returned
  <2>2. payload.size \in Nat /\ Answers(payload, error)
    BY <2>1, FrameAnswered
  <2>3. error.offset \in 0..payload.size
    BY <2>2 DEF Answers
  <2> HIDE DEF error
  <2>4. at \in Nat /\ offset <= at /\ offset' \in Nat /\ at <= offset' /\ record_index' \in Nat
    BY <1>1, <2>1, <2>2, <2>3
  <2>5. Ordered'
    <3> HIDE DEF at
    <3> QED BY <1>1, <1>2, <2>1, <2>4, FailureOrdered
  <2>6. /\ Len(diagnostics) \in Nat /\ Len(diagnostics') = Len(diagnostics) + 1
        /\ diagnostics'[Len(diagnostics) + 1]
             = [category |-> error.category, offset |-> at, record_index |-> record_index]
    <3>1. record_diagnostic(error.category, at, mode = "Strict", Skipped)
      BY <2>1 DEF Failed
    <3> HIDE DEF at
    <3> QED BY <1>2, <3>1, DiagnosticAppended
  <2>7. at - (offset + 2) = error.offset
    BY <1>1, <2>2, <2>3
  <2>8. error.category \in {"InvalidField", "InvalidEnum"} =>
          /\ error.offset \in {StartOf(payload.type, f.name) : f \in Range(Fields(payload.type))}
          /\ \E name \in payload.bad : error.offset <= StartOf(payload.type, name)
    BY <2>2 DEF Answers, Names
  <2>9. DiagnosticsPointAtFields'
    <3> SUFFICES ASSUME NEW i \in DOMAIN diagnostics', i = Len(diagnostics'),
                        diagnostics'[i].category \in {"InvalidField", "InvalidEnum"}
                 PROVE  LET named == diagnostics'[i].offset - (record'.envelope + 2)
                        IN  /\ named \in {StartOf(payload.type, f.name) :
                                            f \in Range(Fields(payload.type))}
                            /\ \E name \in payload.bad : named <= StartOf(payload.type, name)
      BY <1>1 DEF DiagnosticsPointAtFields
    <3>1. /\ diagnostics'[i].category = error.category
          /\ diagnostics'[i].offset - (record'.envelope + 2) = error.offset
      BY <1>1, <2>6, <2>7
    <3> QED BY <2>8, <3>1
  <2> QED BY <2>5, <2>9
<1>5. CASE decoded_message(frame)
  <2>1. /\ frame.category = "ok" /\ decode_message(frame.payload).category = "ok"
        /\ offset' = offset + 2 + frame.payload.size /\ record_index' = record_index + 1
    BY <1>5 DEF decoded_message, Returned
  <2>2. frame.payload.size \in Nat
    BY <2>1, FrameAnswered
  <2>3. /\ offset + 2 \in Nat /\ offset <= offset + 2 /\ offset' \in Nat /\ offset + 2 <= offset'
        /\ offset <= offset' /\ record_index' \in Nat
    BY <1>1, <2>1, <2>2
  <2>4. ASSUME result' = "ok" PROVE Ordered'
    <3>1. UNCHANGED failures
      BY <1>5, <2>4 DEF decoded_message
    <3> QED BY ONLY <1>1, <2>1, <2>3, <3>1, Ordered, SuccessOrdered
  <2>5. ASSUME result' # "ok" PROVE Ordered'
    <3>1. Failed(result', offset + 2, mode = "Strict", Skipped \cup {"decoded"})
      BY <1>5, <2>5 DEF decoded_message
    <3> DEFINE at == offset + 2
    <3>2. at \in Nat /\ offset <= at /\ at <= offset'
      BY <2>3
    <3> HIDE DEF at
    <3> QED BY ONLY <1>1, <1>2, <2>1, <2>3, <3>1, <3>2, Ordered, FailureOrdered DEF at
  <2>6. LastRecordDecoded'
    BY <1>1, <2>1 DEF LastRecordDecoded
  <2>7. DiagnosticsPointAtFields'
    BY <2>6 DEF DiagnosticsPointAtFields
  <2> QED BY <2>4, <2>5, <2>7
<1> QED BY <1>3, <1>4, <1>5 DEF next_record

\* A diagnostic leads to the record that failed, in the order of the file, and to a field
\* no later than the one that broke its rule, for every file (replayer.cpp, decoder.cpp).
THEOREM DiagnosticsAlwaysTellWhere == ReplaySpec => []DiagnosticsTellWhere
<1> DEFINE Inv == Ordered /\ DiagnosticsPointAtFields
<1>1. ReplayInit => Inv
  BY DEF ReplayInit, NoRecord, Ordered, DiagnosticsInFileOrder, DiagnosticsPointAtFields
<1>2. Inv /\ Accounted /\ check_invariants /\ [ReplayNext]_replay_vars => Inv'
  <2> SUFFICES ASSUME Inv, Accounted, check_invariants, [ReplayNext]_replay_vars PROVE Inv'
    OBVIOUS
  <2>1. ASSUME UNCHANGED <<offset, record_index, record, diagnostics>>,
               phase' = phase \/ phase' # "reading"
        PROVE  Inv'
    BY <2>1 DEF Ordered, DiagnosticsInFileOrder, DiagnosticsPointAtFields, LastRecordDecoded
  <2>2. CASE UNCHANGED replay_vars \/ Finished
    BY <2>1, <2>2 DEF Finished, replay_vars, reader, failures
  <2>3. CASE finish_run
    BY <2>1, <2>3 DEF finish_run, reader
  <2>4. ASSUME NEW frame \in Readable, next_record(frame) PROVE Inv'
    BY <2>4, RecordReported
  <2> QED BY <2>2, <2>3, <2>4 DEF ReplayNext
<1>3. Inv => DiagnosticsTellWhere
  BY DEF Ordered, DiagnosticsTellWhere
<1> QED BY <1>1, <1>2, <1>3, AccountedInvariant, BookNeverFailsCheck, PTL DEF ReplaySpec
=============================================================================

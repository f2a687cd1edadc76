------------------------- MODULE DatasetBuildProofs -------------------------
(***************************************************************************)
(* What build_dataset promises of its output, for any number of builders,    *)
(* whatever their replays do and wherever they fail, are killed or crash.    *)
(***************************************************************************)
EXTENDS DatasetBuild, QueueLemmas

\* An output that is there is never replaced, extended or removed: the rename of
\* ingest.py is the only step that makes one, and refuses when there is one.
THEOREM NeverPublishedTwice == BuildSpec => PublishedOnce
<1>1. ASSUME [BuildNext]_build_vars, output # None PROVE UNCHANGED output
  BY <1>1 DEF BuildNext, build_vars, AllEnded, Parent, Kill, Child, ChildCrashes, Prepare,
     CreateTemp, MakeWriters, Spawn, Read, EndOfStream, Judge, FinishWriting, Publish,
     may_rename, Terminate, Reap, _cleanup_temp, ChildWrites, ChildExits, ChildDies
<1> QED BY <1>1, PTL DEF BuildSpec, PublishedOnce

----------------------------------------------------------------------------
(* The validator *)

LEMMA FreshValidator == "summary" \in DOMAIN Stream!Fresh /\ ~Stream!Fresh.summary
BY DEF Stream!Fresh

\* Nothing is accepted after a summary: a validator that has seen one has just
\* accepted it.
LEMMA AcceptedSummary ==
  ASSUME NEW v, "summary" \in DOMAIN v, NEW row \in Rows, Stream!accepts(v, row)
  PROVE  /\ "summary" \in DOMAIN Stream!accept(v, row)
         /\ Stream!accept(v, row).summary => row.record_type = "summary"
<1>1. row.record_type \in {"header", "book_event", "summary"}
  BY BuildAssumption
<1>2. ~v.summary
  BY DEF Stream!accepts
<1>3. CASE row.record_type = "header"
  <2>1. Stream!accept(v, row) = [v EXCEPT !.header = TRUE, !.depth = row.depth]
    BY <1>3 DEF Stream!accept
  <2> QED BY <1>2, <2>1
<1>4. CASE row.record_type = "book_event"
  <2>1. Stream!accept(v, row)
          = [v EXCEPT !.event_count = @ + 1, !.last_sequence = row.sequence,
                      !.last_source_offset = row.source_offset,
                      !.last_timestamp_ns = row.timestamp_ns]
    BY <1>4 DEF Stream!accept
  <2> QED BY <1>2, <2>1
<1>5. CASE row.record_type = "summary"
  <2>1. Stream!accept(v, row) = [v EXCEPT !.summary = TRUE]
    BY <1>5 DEF Stream!accept
  <2> QED BY <1>5, <2>1
<1> QED BY <1>1, <1>3, <1>4, <1>5

----------------------------------------------------------------------------
(* The inductive invariant *)

Early == {"start", "create", "setup", "spawn"}
Streaming == {"reading", "waited", "finishing"}
Replay ==
  [state : {"none", "running", "exited"}, script : Scripts \cup {None}, sent : Nat,
   code : Int \cup {None}, terminated : BOOLEAN]
Files == [rows : Seq(Rows), manifest : BOOLEAN]

\* An exit code other than that of a signal comes after the last row.
ReplayOK(ch) ==
  /\ ch \in Replay
  /\ ch.state # "none" => ch.script \in Scripts /\ ch.sent \in 0..Len(ch.script.rows)
  /\ ch.state = "exited" /\ ch.code # -1 =>
       ch.sent = Len(ch.script.rows) /\ ch.code = ch.script.code

\* k rows have been taken, and what the pipe holds are the next ones, with a torn
\* line after them only where the replay has crashed.
PipeHolds(p, ch, k) ==
  /\ p \in Seq(Rows \cup {Torn})
  /\ Len(p) >= ch.sent - k
  /\ \A i \in 1..Len(p) : p[i] = IF i <= ch.sent - k THEN ch.script.rows[k + i] ELSE Torn
  /\ Len(p) # ch.sent - k => ch.state = "exited" /\ ch.code = -1

\* Their events are in the files or the buffer; the summary is the last of them.
TakenSoFar(t, buf, v, ch, k) ==
  /\ t.rows \o buf = SelectUpTo(ch.script.rows, EventRows(ch.script))[k]
  /\ v.summary => k \in 1..Len(ch.script.rows) /\ ch.script.rows[k].record_type = "summary"

Flow(t, buf, v, ch, p) ==
  /\ ch.state # "none" /\ t \in Files /\ buf \in Seq(Rows)
  /\ \E k \in 0..ch.sent : PipeHolds(p, ch, k) /\ TakenSoFar(t, buf, v, ch, k)

Complete(ch) ==
  /\ ch.state = "exited" /\ ch.code = 0 /\ ch.script.code = 0
  /\ ch.sent = Len(ch.script.rows)
  /\ ch.script.rows[Len(ch.script.rows)].record_type = "summary"

BuilderOK(place, t, buf, v, ch, p) ==
  /\ "summary" \in DOMAIN v /\ ReplayOK(ch)
  /\ place \in {"start", "create"} => t = None
  /\ place \in Early => ch = NoChild /\ buf = <<>> /\ v = Stream!Fresh /\ p = <<>>
  /\ place \in {"setup", "spawn"} => t = [rows |-> <<>>, manifest |-> FALSE]
  /\ place \in Streaming => Flow(t, buf, v, ch, p)
  /\ place \in {"waited", "finishing"} => ch.state = "exited" /\ p = <<>>
  /\ place = "finishing" => ch.code = 0 /\ v.summary
  /\ place = "publishing" =>
       t \in Files /\ t.rows = Events(ch.script) /\ t.manifest /\ Complete(ch)
  /\ place \in {"cleaning", "failed"} => ch.state # "running"
  /\ place = "failed" => t = None \/ "removal" \in Faults
  /\ place = "published" => t = None

BuilderInv(b) == BuilderOK(pc[b], temp[b], buffer[b], validator[b], child[b], pipe[b])

OutputInv ==
  /\ output # None =>
       /\ output.by \in Builder /\ pc[output.by] = "published"
       /\ Complete(child[output.by])
       /\ output.rows = Events(child[output.by].script) /\ output.manifest
  /\ \A b \in Builder : pc[b] = "published" => output # None /\ output.by = b

Domains ==
  /\ DOMAIN pc = Builder /\ DOMAIN temp = Builder /\ DOMAIN buffer = Builder
  /\ DOMAIN validator = Builder /\ DOMAIN child = Builder /\ DOMAIN pipe = Builder

BuildInv == Domains /\ (\A b \in Builder : BuilderInv(b)) /\ OutputInv

LEMMA BuildInvGives == ASSUME BuildInv PROVE OutputIsComplete /\ FailureLeavesNoOutput
<1>1. OutputIsComplete
  BY DEF BuildInv, OutputInv, OutputIsComplete, Complete, Sent
<1>2. FailureLeavesNoOutput
  BY DEF BuildInv, OutputInv, BuilderInv, BuilderOK, FailureLeavesNoOutput
<1> QED BY <1>1, <1>2

LEMMA NoReplayOK == ReplayOK(NoChild)
BY DEF ReplayOK, Replay, NoChild

LEMMA InitBuildInv == ASSUME BuildInit PROVE BuildInv
<1>1. Domains
  BY DEF BuildInit, Domains
<1>2. ASSUME NEW b \in Builder PROVE BuilderInv(b)
  <2>1. /\ pc[b] = "start" /\ temp[b] = None /\ buffer[b] = <<>> /\ validator[b] = Stream!Fresh
        /\ child[b] = NoChild /\ pipe[b] = <<>>
    BY DEF BuildInit
  <2> QED BY <2>1, NoReplayOK, FreshValidator DEF BuilderInv, BuilderOK, Early, Streaming
<1>3. OutputInv
  BY DEF BuildInit, OutputInv
<1> QED BY <1>1, <1>2, <1>3 DEF BuildInv

----------------------------------------------------------------------------
(* The actions of one builder *)

Elsewhere(b) ==
  \A c \in Builder \ {b} :
    /\ pc'[c] = pc[c] /\ temp'[c] = temp[c] /\ buffer'[c] = buffer[c]
    /\ validator'[c] = validator[c] /\ child'[c] = child[c] /\ pipe'[c] = pipe[c]

\* A step of builder b or of its replay that does not publish.
Local(b) ==
  /\ Domains' /\ Elsewhere(b) /\ UNCHANGED output
  /\ pc'[b] = "published" <=> pc[b] = "published"
  /\ pc[b] = "published" /\ child[b].state # "running" => child'[b] = child[b]

LEMMA LocalKeeps ==
  ASSUME BuildInv, NEW b \in Builder, Local(b), BuilderInv(b)'
  PROVE  BuildInv'
<1>1. ASSUME NEW c \in Builder PROVE BuilderInv(c)'
  <2>1. CASE c = b
    BY <2>1
  <2>2. CASE c # b
    BY <2>2 DEF BuildInv, BuilderInv, Local, Elsewhere
  <2> QED BY <2>1, <2>2
<1>2. OutputInv'
  <2>1. ASSUME output # None
        PROVE  /\ output.by \in Builder /\ pc'[output.by] = "published"
               /\ child'[output.by] = child[output.by]
    BY <2>1 DEF BuildInv, OutputInv, Local, Elsewhere, Complete
  <2>2. \A c \in Builder : pc'[c] = "published" => pc[c] = "published"
    BY DEF Local, Elsewhere
  <2> QED BY <2>1, <2>2 DEF BuildInv, OutputInv, Local
<1> QED BY <1>1, <1>2 DEF BuildInv, Local

LEMMA BeforeReplayKeeps ==
  ASSUME BuildInv, NEW b \in Builder,
         Prepare(b) \/ CreateTemp(b) \/ MakeWriters(b) \/ EndOfStream(b) \/ Judge(b)
         \/ Terminate(b) \/ Reap(b) \/ _cleanup_temp(b) \/ Kill(b)
  PROVE  Local(b) /\ BuilderInv(b)'
<1>0. Domains /\ BuilderInv(b)
  BY DEF BuildInv
<1>1. CASE Prepare(b)
  <2>1. Local(b)
    BY <1>0, <1>1 DEF Prepare, Goto, Raise, Local, Domains, Elsewhere
  <2>2. /\ pc'[b] \in {"failed", "create"} /\ pc[b] = "start"
        /\ UNCHANGED <<temp, buffer, validator, child, pipe>>
    BY <1>0, <1>1 DEF Prepare, Goto, Raise, Domains
  <2>3. BuilderInv(b)'
    BY <1>0, <2>2 DEF BuilderInv, BuilderOK, Early, Streaming, NoChild
  <2> QED BY <2>1, <2>3
<1>2. CASE CreateTemp(b)
  <2>1. Local(b)
    BY <1>0, <1>2 DEF CreateTemp, Goto, Raise, Local, Domains, Elsewhere
  <2>2. /\ pc[b] = "create" /\ UNCHANGED <<buffer, validator, child, pipe>>
        /\ \/ pc'[b] = "failed" /\ temp' = temp
           \/ pc'[b] = "setup" /\ temp'[b] = [rows |-> <<>>, manifest |-> FALSE]
    BY <1>0, <1>2 DEF CreateTemp, Goto, Raise, Domains
  <2>3. BuilderInv(b)'
    BY <1>0, <2>2 DEF BuilderInv, BuilderOK, Early, Streaming, NoChild
  <2> QED BY <2>1, <2>3
<1>3. CASE MakeWriters(b)
  <2>1. Local(b)
    BY <1>0, <1>3 DEF MakeWriters, Goto, Local, Domains, Elsewhere
  <2>2. /\ pc'[b] \in {"escaped", "spawn"} /\ pc[b] = "setup"
        /\ UNCHANGED <<temp, buffer, validator, child, pipe>>
    BY <1>0, <1>3 DEF MakeWriters, Goto, Domains
  <2>3. BuilderInv(b)'
    BY <1>0, <2>2 DEF BuilderInv, BuilderOK, Early, Streaming, NoChild
  <2> QED BY <2>1, <2>3
<1>4. CASE EndOfStream(b)
  <2>1. Local(b)
    BY <1>0, <1>4 DEF EndOfStream, Goto, Local, Domains, Elsewhere
  <2>2. /\ pc'[b] = "waited" /\ pc[b] = "reading" /\ pipe[b] = <<>> /\ child[b].state = "exited"
        /\ UNCHANGED <<temp, buffer, validator, child, pipe>>
    BY <1>0, <1>4 DEF EndOfStream, Goto, Domains
  <2>3. BuilderInv(b)'
    BY <1>0, <2>2 DEF BuilderInv, BuilderOK, Early, Streaming
  <2> QED BY <2>1, <2>3
<1>5. CASE Judge(b)
  <2>1. Local(b)
    BY <1>0, <1>5 DEF Judge, Goto, Raise, Local, Domains, Elsewhere
  <2>2. /\ pc[b] = "waited" /\ UNCHANGED <<temp, buffer, validator, child, pipe>>
        /\ \/ pc'[b] = "failing"
           \/ pc'[b] = "finishing" /\ child[b].code = 0 /\ Stream!finish(validator[b])
    BY <1>0, <1>5 DEF Judge, Goto, Raise, Domains, finish
  <2>3. BuilderInv(b)'
    BY <1>0, <2>2 DEF BuilderInv, BuilderOK, Early, Streaming, Stream!finish
  <2> QED BY <2>1, <2>3
<1>6. CASE Terminate(b)
  <2>1. Local(b)
    BY <1>0, <1>6 DEF Terminate, Goto, Local, Domains, Elsewhere
  <2>2. /\ pc[b] = "failing" /\ UNCHANGED <<temp, buffer, validator, pipe>>
        /\ \/ pc'[b] = "reaping" /\ child'[b] = [child[b] EXCEPT !.terminated = TRUE]
           \/ pc'[b] = "cleaning" /\ child' = child /\ child[b].state # "running"
    BY <1>0, <1>6 DEF Terminate, Goto, Domains
  <2>3. ReplayOK(child'[b])
    BY <1>0, <2>2 DEF BuilderInv, BuilderOK, ReplayOK, Replay
  <2>4. BuilderInv(b)'
    BY <1>0, <2>2, <2>3 DEF BuilderInv, BuilderOK, Early, Streaming
  <2> QED BY <2>1, <2>4
<1>7. CASE Reap(b)
  <2>1. Local(b)
    BY <1>0, <1>7 DEF Reap, Goto, Local, Domains, Elsewhere
  <2>2. /\ UNCHANGED <<temp, buffer, validator, child, pipe>>
        /\ pc'[b] = "escaped" \/ (pc'[b] = "cleaning" /\ child[b].state = "exited")
    BY <1>0, <1>7 DEF Reap, Goto, Domains
  <2>3. BuilderInv(b)'
    BY <1>0, <2>2 DEF BuilderInv, BuilderOK, Early, Streaming
  <2> QED BY <2>1, <2>3
<1>8. CASE _cleanup_temp(b)
  <2>1. Local(b)
    BY <1>0, <1>8 DEF _cleanup_temp, Goto, Local, Domains, Elsewhere
  <2>2. /\ pc[b] = "cleaning" /\ pc'[b] = "failed"
        /\ temp'[b] = None \/ "removal" \in Faults
        /\ UNCHANGED <<buffer, validator, child, pipe>>
    BY <1>0, <1>8 DEF _cleanup_temp, Goto, Domains
  <2>3. BuilderInv(b)'
    BY <1>0, <2>2 DEF BuilderInv, BuilderOK, Early, Streaming
  <2> QED BY <2>1, <2>3
<1>9. CASE Kill(b)
  <2>1. Local(b)
    BY <1>0, <1>9 DEF Kill, Goto, Local, Domains, Elsewhere, Ended
  <2>2. pc'[b] = "killed" /\ UNCHANGED <<temp, buffer, validator, child, pipe>>
    BY <1>0, <1>9 DEF Kill, Goto, Domains
  <2>3. BuilderInv(b)'
    BY <1>0, <2>2 DEF BuilderInv, BuilderOK, Early, Streaming
  <2> QED BY <2>1, <2>3
<1> QED BY <1>1, <1>2, <1>3, <1>4, <1>5, <1>6, <1>7, <1>8, <1>9

LEMMA EventsUpTo ==
  ASSUME NEW script \in Scripts
  PROVE  /\ Len(script.rows) \in Nat /\ script.rows \in Seq(Rows)
         /\ SelectUpTo(script.rows, EventRows(script))[0] = <<>>
         /\ SelectUpTo(script.rows, EventRows(script))[Len(script.rows)] = Events(script)
         /\ \A k \in 1..Len(script.rows) :
              /\ script.rows[k] \in Rows
              /\ SelectUpTo(script.rows, EventRows(script))[k] =
                   IF script.rows[k].record_type = "book_event"
                   THEN Append(SelectUpTo(script.rows, EventRows(script))[k - 1], script.rows[k])
                   ELSE SelectUpTo(script.rows, EventRows(script))[k - 1]
<1> DEFINE rows == script.rows
           kept == EventRows(script)
           f == SelectUpTo(rows, kept)
<1>1. rows \in Seq(Rows)
  BY BuildAssumption
<1>2. DOMAIN rows = 1..Len(rows) /\ Len(rows) \in Nat /\ \A k \in 1..Len(rows) : rows[k] \in Rows
  <2> HIDE DEF rows
  <2> QED BY <1>1, ElementOfSeq, LenProperties
<1>3. Keeps(f, rows, kept)
  <2> HIDE DEF kept, rows
  <2> QED BY <1>1, SelectKeeps
<1>4. \A k \in 1..Len(rows) : k \in kept <=> rows[k].record_type = "book_event"
  BY <1>2 DEF EventRows
<1>5. f[Len(rows)] = Events(script)
  BY DEF Events, SelectAt
<1> HIDE DEF f, kept, rows
<1>6. f[0] = <<>> /\ \A k \in 1..Len(rows) :
        f[k] = IF rows[k].record_type = "book_event" THEN Append(f[k - 1], rows[k]) ELSE f[k - 1]
  BY <1>3, <1>4 DEF Keeps
<1> QED BY <1>1, <1>2, <1>5, <1>6 DEF f, kept, rows

LEMMA SpawnKeeps ==
  ASSUME BuildInv, NEW b \in Builder, Spawn(b)
  PROVE  Local(b) /\ BuilderInv(b)'
<1>0. Domains /\ BuilderInv(b)
  BY DEF BuildInv
<1>1. Local(b)
  BY <1>0 DEF Spawn, Goto, Raise, Local, Domains, Elsewhere
<1>2. /\ pc[b] = "spawn" /\ UNCHANGED <<temp, buffer, validator, pipe>>
      /\ ReplayOK(child[b]) /\ child[b] = NoChild /\ buffer[b] = <<>>
      /\ validator[b] = Stream!Fresh /\ pipe[b] = <<>> /\ temp[b] = [rows |-> <<>>, manifest |-> FALSE]
      /\ "summary" \in DOMAIN validator[b]
  BY <1>0 DEF Spawn, BuilderInv, BuilderOK, Early
<1>3. CASE pc'[b] = "failing" /\ UNCHANGED child
  BY <1>1, <1>2, <1>3 DEF BuilderInv, BuilderOK, Early, Streaming
<1>4. ASSUME NEW script \in Scripts, pc'[b] = "reading",
             child' = [child EXCEPT ![b] = [NoChild EXCEPT !.state = "running", !.script = script]]
      PROVE  BuilderInv(b)'
  <2> DEFINE ch == [NoChild EXCEPT !.state = "running", !.script = script]
  <2>1. child'[b] = ch
    BY <1>0, <1>4 DEF Domains
  <2>2. ch \in Replay /\ ch.state = "running" /\ ch.script = script /\ ch.sent = 0
    BY DEF NoChild, Replay
  <2> HIDE DEF ch
  <2>3. /\ Len(script.rows) \in Nat
        /\ SelectUpTo(script.rows, EventRows(script))[0] = <<>>
    BY EventsUpTo
  <2>4. ReplayOK(ch)
    BY <2>2, <2>3 DEF ReplayOK
  <2>5. <<>> \in Seq(Rows) /\ <<>> \in Seq(Rows \cup {Torn}) /\ Len(<<>>) = 0 /\ <<>> \o <<>> = <<>>
    OBVIOUS
  <2>6. PipeHolds(<<>>, ch, 0)
    BY <2>2, <2>5 DEF PipeHolds
  <2>7. TakenSoFar(temp[b], <<>>, Stream!Fresh, ch, 0)
    <3>1. temp[b].rows \o <<>> = <<>>
      BY <1>2, <2>5
    <3> QED BY <2>2, <2>3, <3>1, FreshValidator DEF TakenSoFar
  <2>8. Flow(temp[b], <<>>, Stream!Fresh, ch, <<>>)
    <3>1. temp[b] \in Files /\ 0 \in 0..ch.sent
      BY <1>2, <2>2, <2>5 DEF Files
    <3> QED BY <2>2, <2>5, <2>6, <2>7, <3>1 DEF Flow
  <2> QED BY <1>2, <1>4, <2>1, <2>2, <2>4, <2>8 DEF BuilderInv, BuilderOK, Early, Streaming
<1> QED BY <1>0, <1>1, <1>3, <1>4 DEF Spawn, Goto, Raise, Domains

\* A row taken from the pipe goes to the buffer, or with it to the files.
LEMMA RowTaken ==
  ASSUME NEW old \in Seq(Rows), NEW buf \in Seq(Rows), NEW row \in Rows
  PROVE  /\ old \o Append(buf, row) = Append(old \o buf, row)
         /\ (old \o Append(buf, row)) \o <<>> = Append(old \o buf, row)
<1> DEFINE last == <<row>>
<1>1. last \in Seq(Rows) /\ old \o buf \in Seq(Rows)
  BY ConcatProperties
<1>2. Append(buf, row) = buf \o last /\ Append(old \o buf, row) = (old \o buf) \o last
  BY <1>1, AppendIsConcat
<1> HIDE DEF last
<1>3. (old \o buf) \o last = old \o (buf \o last)
  BY <1>1
<1>4. /\ Append(old \o buf, row) \in Seq(Rows)
      /\ Append(old \o buf, row) \o <<>> = Append(old \o buf, row)
  BY <1>1, ConcatEmptySeq
<1> QED BY <1>2, <1>3, <1>4

\* The first line of the pipe is the next row, unless it is torn.
LEMMA NextLine ==
  ASSUME NEW ch, ReplayOK(ch), ch.state # "none", NEW p, NEW k \in 0..ch.sent, PipeHolds(p, ch, k),
         p # <<>>, Head(p) # Torn
  PROVE  /\ k + 1 \in 1..Len(ch.script.rows) /\ k + 1 \in 0..ch.sent
         /\ Head(p) = ch.script.rows[k + 1] /\ Head(p) \in Rows
         /\ PipeHolds(Tail(p), ch, k + 1)
<1> DEFINE rows == ch.script.rows
           q == Tail(p)
           Lines == Rows \cup {Torn}
<1>1. /\ ch.sent \in 0..Len(rows) /\ Len(rows) \in Nat /\ ch.script \in Scripts
      /\ \A i \in 1..Len(rows) : rows[i] \in Rows
  BY EventsUpTo DEF ReplayOK
<1>2. /\ p \in Seq(Lines) /\ Len(p) >= ch.sent - k
      /\ \A i \in 1..Len(p) : p[i] = IF i <= ch.sent - k THEN rows[k + i] ELSE Torn
      /\ Len(p) # ch.sent - k => ch.state = "exited" /\ ch.code = -1
  BY DEF PipeHolds
<1> HIDE DEF rows, Lines
<1>3. /\ Head(p) = p[1] /\ q \in Seq(Lines) /\ Len(q) = Len(p) - 1 /\ Len(p) \in Nat /\ 1 \in 1..Len(p)
      /\ \A i \in 1..Len(q) : q[i] = p[i + 1]
  BY <1>2, HeadTailProperties
<1>4. 1 <= ch.sent - k /\ p[1] = rows[k + 1]
  BY <1>1, <1>2, <1>3
<1> HIDE DEF q
<1>5. ASSUME NEW i \in 1..Len(q)
      PROVE  q[i] = IF i <= ch.sent - (k + 1) THEN rows[(k + 1) + i] ELSE Torn
  <2>1. i + 1 \in 1..Len(p)
    BY <1>3
  <2>2. p[i + 1] = IF i + 1 <= ch.sent - k THEN rows[k + (i + 1)] ELSE Torn
    BY <1>2, <2>1
  <2>3. k + (i + 1) = (k + 1) + i /\ (i + 1 <= ch.sent - k <=> i <= ch.sent - (k + 1))
    BY <1>1, <1>3
  <2> QED BY <1>3, <2>2, <2>3
<1>6. /\ Len(q) >= ch.sent - (k + 1)
      /\ Len(q) # ch.sent - (k + 1) => ch.state = "exited" /\ ch.code = -1
  BY <1>1, <1>2, <1>3
<1>7. PipeHolds(q, ch, k + 1)
  BY <1>3, <1>5, <1>6 DEF PipeHolds, rows, Lines
<1>8. k + 1 \in 1..Len(rows) /\ k + 1 \in 0..ch.sent
  BY <1>1, <1>4
<1> QED BY <1>1, <1>3, <1>4, <1>7, <1>8 DEF q, rows

LEMMA ReadKeeps ==
  ASSUME BuildInv, NEW b \in Builder, Read(b)
  PROVE  Local(b) /\ BuilderInv(b)'
<1> DEFINE row == Head(pipe[b])
           t == temp[b]
           buf == buffer[b]
           v == validator[b]
           ch == child[b]
           p == pipe[b]
<1>0. Domains /\ BuilderInv(b)
  BY DEF BuildInv
<1>1. Local(b)
  BY <1>0 DEF Read, Write, WriteFails, Goto, Raise, Local, Domains, Elsewhere
<1>2. /\ pc[b] = "reading" /\ p # <<>> /\ pipe'[b] = Tail(p) /\ child'[b] = ch
      /\ "summary" \in DOMAIN v /\ ReplayOK(ch) /\ Flow(t, buf, v, ch, p)
  BY <1>0 DEF Read, Domains, BuilderInv, BuilderOK, Streaming
<1>3. CASE pc'[b] = "failing"
  <2>1. "summary" \in DOMAIN validator'[b]
    <3>1. CASE validator' = validator
      BY <1>2, <3>1
    <3>2. CASE validator' # validator
      <4>1. /\ validator' = [validator EXCEPT ![b] = Stream!accept(@, row)]
            /\ row # Torn /\ Stream!accepts(v, row)
        BY <3>2 DEF Read
      <4>2. PICK k \in 0..ch.sent : PipeHolds(p, ch, k)
        BY <1>2 DEF Flow
      <4>3. row \in Rows
        BY <1>2, <4>1, <4>2, NextLine DEF Flow
      <4> QED BY <1>0, <1>2, <4>1, <4>3, AcceptedSummary DEF Domains
    <3> QED BY <3>1, <3>2
  <2> QED BY <1>1, <1>2, <1>3, <2>1 DEF BuilderInv, BuilderOK, Early, Streaming
<1>4. CASE pc'[b] # "failing"
  <2>1. /\ pc'[b] = "reading" /\ row # Torn /\ Stream!accepts(v, row)
        /\ validator'[b] = Stream!accept(v, row)
        /\ \/ row.record_type # "book_event" /\ temp' = temp /\ buffer' = buffer
           \/ row.record_type = "book_event" /\ Write(b, Append(buf, row))
    BY <1>0, <1>2, <1>4 DEF Read, WriteFails, Goto, Raise, Domains
  <2>2. PICK k \in 0..ch.sent : PipeHolds(p, ch, k) /\ TakenSoFar(t, buf, v, ch, k)
    BY <1>2 DEF Flow
  <2> DEFINE rows == ch.script.rows
             f == SelectUpTo(rows, EventRows(ch.script))
             w == Stream!accept(v, row)
             m == k + 1
             u == temp'[b]
             left == buffer'[b]
  <2>3. /\ m \in 1..Len(rows) /\ m \in 0..ch.sent /\ row = rows[m] /\ row \in Rows
        /\ PipeHolds(Tail(p), ch, m)
    BY <1>2, <2>1, <2>2, NextLine DEF Flow
  <2>4. ch.script \in Scripts /\ t \in Files /\ buf \in Seq(Rows) /\ t.rows \o buf = f[k]
    BY <1>2, <2>2 DEF Flow, ReplayOK, TakenSoFar
  <2>5. "summary" \in DOMAIN w /\ (w.summary => row.record_type = "summary")
    BY <1>2, <2>1, <2>3, AcceptedSummary
  <2>6. f[m] = IF row.record_type = "book_event" THEN Append(f[m - 1], row) ELSE f[m - 1]
    BY <2>3, <2>4, EventsUpTo
  <2>7. m - 1 = k
    OBVIOUS
  <2>8. u \in Files /\ left \in Seq(Rows) /\ u.rows \o left = f[m]
    <3>1. CASE row.record_type # "book_event"
      <4>1. u = t /\ left = buf
        BY <2>1, <3>1
      <4> QED BY <2>4, <2>6, <2>7, <3>1, <4>1
    <3>2. CASE row.record_type = "book_event"
      <4>1. Append(buf, row) \in Seq(Rows) /\ <<>> \in Seq(Rows)
        BY <2>3, <2>4
      <4>2. \/ u = t /\ left = Append(buf, row)
            \/ u = [t EXCEPT !.rows = @ \o Append(buf, row)] /\ left = <<>>
        BY <1>0, <2>1, <3>2 DEF Write, Domains
      <4>3. t.rows \in Seq(Rows)
        BY <2>4 DEF Files
      <4>4. t.rows \o Append(buf, row) \in Seq(Rows)
        BY <4>1, <4>3, ConcatProperties
      <4>5. /\ u \in Files /\ left \in Seq(Rows)
            /\ \/ u = t /\ left = Append(buf, row)
               \/ u.rows = t.rows \o Append(buf, row) /\ left = <<>>
        BY <2>4, <4>1, <4>2, <4>4 DEF Files
      <4> HIDE DEF u, left, row, t, buf, f
      <4> DEFINE old == t.rows
                 now == u.rows
      <4>6. /\ old \in Seq(Rows) /\ buf \in Seq(Rows) /\ row \in Rows
            /\ now \in Seq(Rows) /\ left \in Seq(Rows) /\ old \o buf = f[k]
            /\ \/ now = old /\ left = Append(buf, row)
               \/ now = old \o Append(buf, row) /\ left = <<>>
        BY <2>3, <2>4, <4>3, <4>5 DEF Files
      <4> HIDE DEF old, now
      <4>8. now \o left = Append(old \o buf, row)
        <5>1. /\ old \o Append(buf, row) = Append(old \o buf, row)
              /\ (old \o Append(buf, row)) \o <<>> = Append(old \o buf, row)
          BY <4>6, RowTaken
        <5> QED BY <4>6, <5>1
      <4>7. u.rows \o left = Append(f[k], row)
        BY <4>6, <4>8 DEF old, now
      <4> QED BY <2>6, <2>7, <3>2, <4>5, <4>7
    <3> QED BY <3>1, <3>2
  <2> HIDE DEF m, u, left
  <2>9. TakenSoFar(u, left, w, ch, m)
    BY <2>3, <2>5, <2>8 DEF TakenSoFar
  <2>10. Flow(u, left, w, ch, Tail(p))
    BY <1>2, <2>3, <2>8, <2>9 DEF Flow
  <2> QED BY <1>1, <1>2, <2>1, <2>5, <2>10 DEF BuilderInv, BuilderOK, Early, Streaming, u, left
<1> QED BY <1>1, <1>3, <1>4

LEMMA FinishWritingKeeps ==
  ASSUME BuildInv, NEW b \in Builder, FinishWriting(b)
  PROVE  Local(b) /\ BuilderInv(b)'
<1> DEFINE t == temp[b]
           buf == buffer[b]
           v == validator[b]
           ch == child[b]
           p == pipe[b]
           script == ch.script
           N == Len(script.rows)
<1>0. Domains /\ BuilderInv(b)
  BY DEF BuildInv
<1>1. Local(b)
  BY <1>0 DEF FinishWriting, WriteFails, Goto, Raise, Local, Domains, Elsewhere
<1>2. /\ pc[b] = "finishing" /\ UNCHANGED <<validator, child, pipe>>
      /\ "summary" \in DOMAIN v /\ ReplayOK(ch) /\ Flow(t, buf, v, ch, p)
      /\ ch.state = "exited" /\ p = <<>> /\ ch.code = 0 /\ v.summary
  BY <1>0 DEF FinishWriting, BuilderInv, BuilderOK, Streaming
<1>3. CASE pc'[b] = "failing"
  BY <1>1, <1>2, <1>3 DEF BuilderInv, BuilderOK, Early, Streaming
<1>4. CASE pc'[b] # "failing"
  <2> DEFINE u == [rows |-> t.rows \o buf, manifest |-> TRUE]
  <2>1. pc'[b] = "publishing" /\ temp'[b] = u
    BY <1>0, <1>4 DEF FinishWriting, WriteFails, Goto, Raise, Domains
  <2>2. PICK k \in 0..ch.sent : PipeHolds(p, ch, k) /\ TakenSoFar(t, buf, v, ch, k)
    BY <1>2 DEF Flow
  <2>3. ch.sent = N /\ ch.script.code = 0 /\ ch.sent \in Nat /\ script \in Scripts
    BY <1>2 DEF ReplayOK, Replay
  <2>4. k = N
    <3>1. Len(<<>>) = 0
      OBVIOUS
    <3>2. 0 >= ch.sent - k
      BY <1>2, <2>2, <3>1 DEF PipeHolds
    <3> QED BY <2>3, <3>2
  <2>5. t.rows \o buf = Events(script) /\ Complete(ch)
    <3>1. t.rows \o buf = SelectUpTo(script.rows, EventRows(script))[N]
      BY <2>2, <2>4 DEF TakenSoFar
    <3>2. script.rows[N].record_type = "summary"
      BY <1>2, <2>2, <2>4 DEF TakenSoFar
    <3> QED BY <1>2, <2>3, <3>1, <3>2, EventsUpTo DEF Complete
  <2>6. t.rows \o buf \in Seq(Rows)
    <3>1. t.rows \in Seq(Rows) /\ buf \in Seq(Rows)
      BY <1>2 DEF Flow, Files
    <3> HIDE DEF t, buf
    <3> QED BY <3>1, ConcatProperties
  <2>7. u \in Files /\ u.rows = Events(script) /\ u.manifest
    BY <2>5, <2>6 DEF Files
  <2> HIDE DEF u
  <2> QED BY <1>1, <1>2, <2>1, <2>5, <2>7 DEF BuilderInv, BuilderOK, Early, Streaming
<1> QED BY <1>3, <1>4

\* Publishing needs an output that is not there, so nothing else was published.
LEMMA PublishKeeps ==
  ASSUME BuildInv, NEW b \in Builder, Publish(b)
  PROVE  BuildInv'
<1>0. Domains /\ BuilderInv(b) /\ OutputInv
  BY DEF BuildInv
<1>1. Domains' /\ Elsewhere(b)
  BY <1>0 DEF Publish, Goto, Raise, Domains, Elsewhere
<1>2. /\ pc[b] = "publishing" /\ UNCHANGED <<buffer, validator, child, pipe>>
      /\ "summary" \in DOMAIN validator[b] /\ ReplayOK(child[b])
      /\ temp[b] \in Files /\ temp[b].rows = Events(child[b].script) /\ temp[b].manifest
      /\ Complete(child[b])
  BY <1>0 DEF Publish, BuilderInv, BuilderOK
<1>3. ASSUME BuilderInv(b)' PROVE \A c \in Builder : BuilderInv(c)'
  BY <1>1, <1>3 DEF BuildInv, BuilderInv, Elsewhere
<1>4. CASE pc'[b] = "failing" /\ UNCHANGED <<output, temp>>
  <2>1. pc'[b] = "failing" /\ UNCHANGED <<output, temp>>
    BY <1>4
  <2>2. BuilderInv(b)'
    BY <1>2, <2>1 DEF BuilderInv, BuilderOK, Early, Streaming
  <2>3. OutputInv'
    BY <1>0, <1>1, <1>2, <2>1 DEF OutputInv, Elsewhere
  <2> QED BY <1>1, <1>3, <2>2, <2>3 DEF BuildInv
<1>5. CASE /\ output = None /\ pc'[b] = "published" /\ temp'[b] = None
           /\ output' = [by |-> b, rows |-> temp[b].rows, manifest |-> temp[b].manifest]
  <2>1. /\ output = None /\ pc'[b] = "published" /\ temp'[b] = None
        /\ output' = [by |-> b, rows |-> temp[b].rows, manifest |-> temp[b].manifest]
    BY <1>5
  <2>2. BuilderInv(b)'
    BY <1>2, <2>1 DEF BuilderInv, BuilderOK, Early, Streaming
  <2>3. output' \in Dataset
    BY <1>2, <2>1 DEF Files, Dataset
  <2>4. output' # None
    BY <2>3, BuildAssumption
  <2>5. \A c \in Builder : pc'[c] = "published" => c = b
    BY <1>0, <1>1, <2>1 DEF OutputInv, Elsewhere
  <2>6. OutputInv'
    BY <1>2, <2>1, <2>4, <2>5 DEF OutputInv
  <2> QED BY <1>1, <1>3, <2>2, <2>6 DEF BuildInv
<1> QED BY <1>0, <1>4, <1>5 DEF Publish, may_rename, Raise, Goto, Domains

----------------------------------------------------------------------------
(* The actions of the replay process *)

\* A replay that is not running has no step left.
LEMMA ReplayRuns ==
  ASSUME BuildInv, NEW b \in Builder, Child(b) \/ ChildCrashes(b)
  PROVE  /\ child[b].state = "running" /\ UNCHANGED <<output, parent_vars>>
         /\ child[b].script \in Scripts /\ ReplayOK(child[b])
         /\ pc[b] \notin Early \cup {"waited", "finishing", "publishing", "cleaning", "failed"}
         /\ pc[b] = "reading" => Flow(temp[b], buffer[b], validator[b], child[b], pipe[b])
         /\ "summary" \in DOMAIN validator[b]
         /\ pc[b] = "published" => temp[b] = None
<1>0. BuilderInv(b)
  BY DEF BuildInv
<1>1. child[b].state = "running" /\ UNCHANGED <<output, parent_vars>>
  BY DEF Child, ChildWrites, ChildExits, ChildDies, ChildCrashes
<1>2. NoChild.state # "running"
  BY DEF NoChild
<1> QED BY <1>0, <1>1, <1>2 DEF BuilderInv, BuilderOK, Complete, ReplayOK, Early, Streaming

\* Whatever a replay does, it is enough that its builder's flow of rows is kept.
LEMMA ReplayKeeps ==
  ASSUME BuildInv, NEW b \in Builder, Child(b) \/ ChildCrashes(b), Domains', Elsewhere(b),
         ReplayOK(child'[b]),
         pc[b] = "reading" => Flow(temp[b], buffer[b], validator[b], child'[b], pipe'[b])
  PROVE  Local(b) /\ BuilderInv(b)'
<1>1. /\ child[b].state = "running" /\ UNCHANGED <<output, parent_vars>>
      /\ pc[b] \notin Early \cup {"waited", "finishing", "publishing", "cleaning", "failed"}
      /\ "summary" \in DOMAIN validator[b]
      /\ pc[b] = "published" => temp[b] = None
  BY ReplayRuns
<1>2. /\ pc'[b] = pc[b] /\ temp'[b] = temp[b] /\ buffer'[b] = buffer[b]
      /\ validator'[b] = validator[b]
  BY <1>1 DEF parent_vars
<1>3. Local(b)
  BY <1>1, <1>2 DEF Local
<1>4. BuilderInv(b)'
  BY <1>1, <1>2 DEF BuilderInv, BuilderOK, Early, Streaming
<1> QED BY <1>3, <1>4

LEMMA ChildWritesKeeps ==
  ASSUME BuildInv, NEW b \in Builder, ChildWrites(b)
  PROVE  Local(b) /\ BuilderInv(b)'
<1> DEFINE ch == child[b]
           p == pipe[b]
           script == ch.script
           rows == script.rows
           next == ch.sent + 1
           now == [ch EXCEPT !.sent = next]
           q == Append(p, rows[next])
<1>0. Domains
  BY DEF BuildInv
<1>1. /\ ch.state = "running" /\ script \in Scripts /\ ReplayOK(ch)
      /\ pc[b] = "reading" => Flow(temp[b], buffer[b], validator[b], ch, p)
  BY ReplayRuns DEF Child
<1>2. Domains' /\ Elsewhere(b) /\ child'[b] = now /\ pipe'[b] = q /\ ch.sent # Len(rows)
  BY <1>0 DEF ChildWrites, parent_vars, Domains, Elsewhere, Sent
<1>3. /\ Len(rows) \in Nat /\ ch.sent \in Nat /\ next \in 1..Len(rows) /\ next - 1 = ch.sent
      /\ next \in Nat /\ rows[next] \in Rows
  <2>1. ch.sent \in 0..Len(rows)
    BY <1>1 DEF ReplayOK
  <2>2. next \in 1..Len(rows) /\ Len(rows) \in Nat
    BY <1>1, <1>2, <2>1, EventsUpTo
  <2>3. rows[next] \in Rows
    BY <1>1, <2>2, EventsUpTo
  <2> QED BY <2>1, <2>2, <2>3
<1>4. /\ now \in Replay /\ now.state = "running" /\ now.script = script /\ now.sent = next
  BY <1>1, <1>3 DEF ReplayOK, Replay
<1>5. ReplayOK(now)
  BY <1>1, <1>3, <1>4 DEF ReplayOK
<1> HIDE DEF next, now, q, p
<1>6. ASSUME pc[b] = "reading" PROVE Flow(temp[b], buffer[b], validator[b], now, q)
  <2>1. PICK k \in 0..ch.sent :
          PipeHolds(p, ch, k) /\ TakenSoFar(temp[b], buffer[b], validator[b], ch, k)
    BY <1>1, <1>6 DEF Flow
  <2>2. /\ p \in Seq(Rows \cup {Torn}) /\ Len(p) = ch.sent - k
        /\ \A i \in 1..Len(p) : p[i] = IF i <= ch.sent - k THEN rows[k + i] ELSE Torn
    BY <1>1, <2>1 DEF PipeHolds
  <2>3. /\ q \in Seq(Rows \cup {Torn}) /\ Len(q) = Len(p) + 1 /\ q[Len(p) + 1] = rows[next]
        /\ \A i \in 1..Len(p) : q[i] = p[i]
    <3> DEFINE x == rows[next]
               Lines == Rows \cup {Torn}
    <3>1. p \in Seq(Lines) /\ x \in Lines /\ q = Append(p, x)
      BY <1>3, <2>2 DEF q
    <3> SUFFICES /\ q \in Seq(Lines) /\ Len(q) = Len(p) + 1 /\ q[Len(p) + 1] = x
                 /\ \A i \in 1..Len(p) : q[i] = p[i]
      OBVIOUS
    <3> HIDE DEF x, Lines
    <3> QED BY <3>1
  <2>4. Len(q) = next - k /\ k \in 0..next /\ Len(p) \in Nat
    BY <1>3, <2>2, <2>3
  <2>5. ASSUME NEW i \in 1..Len(q) PROVE i <= next - k /\ q[i] = rows[k + i]
    <3>1. CASE i = Len(p) + 1
      <4>1. k + i = next
        BY <1>3, <2>2, <3>1
      <4> QED BY <2>3, <2>4, <3>1, <4>1
    <3>2. CASE i # Len(p) + 1
      <4>1. i \in 1..Len(p) /\ i <= ch.sent - k
        BY <2>2, <2>3, <2>4, <3>2
      <4> QED BY <2>2, <2>3, <2>4, <4>1
    <3> QED BY <3>1, <3>2
  <2>6. PipeHolds(q, now, k)
    BY <1>4, <2>3, <2>4, <2>5 DEF PipeHolds
  <2>7. TakenSoFar(temp[b], buffer[b], validator[b], now, k)
    BY <1>4, <2>1 DEF TakenSoFar
  <2> QED BY <1>1, <1>4, <1>6, <2>4, <2>6, <2>7 DEF Flow
<1> QED BY <1>2, <1>5, <1>6, ReplayKeeps DEF Child

LEMMA ChildEndsKeeps ==
  ASSUME BuildInv, NEW b \in Builder, ChildExits(b) \/ ChildDies(b) \/ ChildCrashes(b)
  PROVE  Local(b) /\ BuilderInv(b)'
<1> DEFINE ch == child[b]
           p == pipe[b]
           q == pipe'[b]
           now == child'[b]
<1>0. Domains
  BY DEF BuildInv
<1>1. /\ ch.state = "running" /\ ch.script \in Scripts /\ ReplayOK(ch)
      /\ pc[b] = "reading" => Flow(temp[b], buffer[b], validator[b], ch, p)
  BY ReplayRuns DEF Child
<1>2. /\ Domains' /\ Elsewhere(b)
      /\ \/ /\ now = [ch EXCEPT !.state = "exited", !.code = ch.script.code]
            /\ ch.sent = Len(ch.script.rows) /\ q = p
         \/ /\ now = [ch EXCEPT !.state = "exited", !.code = -1]
            /\ q = p \/ q = Append(p, Torn)
  <2>1. CASE ChildExits(b)
    BY <1>0, <2>1 DEF ChildExits, parent_vars, Domains, Elsewhere, Sent
  <2>2. CASE ChildDies(b)
    BY <1>0, <2>2 DEF ChildDies, parent_vars, Domains, Elsewhere
  <2>3. CASE ChildCrashes(b)
    BY <1>0, <2>3 DEF ChildCrashes, parent_vars, Domains, Elsewhere
  <2> QED BY <2>1, <2>2, <2>3
<1>3. /\ now \in Replay /\ now.state = "exited" /\ now.script = ch.script /\ now.sent = ch.sent
      /\ \/ now.code = ch.script.code /\ ch.sent = Len(ch.script.rows) /\ q = p
         \/ now.code = -1 /\ (q = p \/ q = Append(p, Torn))
  <2>1. ch.script.code \in Int /\ ch \in Replay
    BY <1>1, BuildAssumption DEF ReplayOK
  <2>2. /\ ch.sent \in Nat /\ ch.terminated \in BOOLEAN /\ ch.script \in Scripts \cup {None}
        /\ -1 \in Int
    BY <2>1 DEF Replay
  <2>3. ASSUME NEW c \in Int, now = [ch EXCEPT !.state = "exited", !.code = c]
        PROVE  /\ now \in Replay /\ now.state = "exited" /\ now.script = ch.script
               /\ now.sent = ch.sent /\ now.code = c
    BY <2>1, <2>2, <2>3 DEF Replay
  <2> HIDE DEF now, q, p
  <2>4. CASE now = [ch EXCEPT !.state = "exited", !.code = ch.script.code]
             /\ ch.sent = Len(ch.script.rows) /\ q = p
    BY <2>1, <2>3, <2>4
  <2>5. CASE now = [ch EXCEPT !.state = "exited", !.code = -1]
             /\ (q = p \/ q = Append(p, Torn))
    BY <2>2, <2>3, <2>5
  <2> QED BY <1>2, <2>4, <2>5
<1>4. ReplayOK(now)
  BY <1>1, <1>3 DEF ReplayOK
<1> HIDE DEF now, p, q
<1>5. ASSUME pc[b] = "reading" PROVE Flow(temp[b], buffer[b], validator[b], now, q)
  <2>1. PICK k \in 0..ch.sent :
          PipeHolds(p, ch, k) /\ TakenSoFar(temp[b], buffer[b], validator[b], ch, k)
    BY <1>1, <1>5 DEF Flow
  <2>2. PipeHolds(q, now, k)
    <3>1. CASE q = p
      <4>1. Len(p) = ch.sent - k
        BY <1>1, <2>1 DEF PipeHolds
      <4> QED BY <1>3, <2>1, <3>1, <4>1 DEF PipeHolds
    <3>2. CASE q # p
      <4>1. q = Append(p, Torn) /\ now.code = -1
        BY <1>3, <3>2
      <4>2. /\ p \in Seq(Rows \cup {Torn}) /\ Len(p) = ch.sent - k /\ Len(p) \in Nat
            /\ \A i \in 1..Len(p) : p[i] = ch.script.rows[k + i]
        BY <1>1, <2>1 DEF PipeHolds
      <4>3. /\ q \in Seq(Rows \cup {Torn}) /\ Len(q) = Len(p) + 1 /\ q[Len(p) + 1] = Torn
            /\ \A i \in 1..Len(p) : q[i] = p[i]
        BY <4>1, <4>2
      <4>4. ASSUME NEW i \in 1..Len(q)
            PROVE  q[i] = IF i <= ch.sent - k THEN ch.script.rows[k + i] ELSE Torn
        <5>1. CASE i = Len(p) + 1
          BY <4>2, <4>3, <5>1
        <5>2. CASE i # Len(p) + 1
          <6>1. i \in 1..Len(p) /\ i <= ch.sent - k
            BY <4>2, <4>3, <5>2
          <6> QED BY <4>2, <4>3, <6>1
        <5> QED BY <5>1, <5>2
      <4>5. Len(q) >= ch.sent - k
        BY <4>2, <4>3
      <4> QED BY <1>3, <4>1, <4>3, <4>4, <4>5 DEF PipeHolds
    <3> QED BY <3>1, <3>2
  <2>3. TakenSoFar(temp[b], buffer[b], validator[b], now, k)
    BY <1>3, <2>1 DEF TakenSoFar
  <2> QED BY <1>1, <1>3, <1>5, <2>1, <2>2, <2>3 DEF Flow
<1> QED BY <1>2, <1>4, <1>5, ReplayKeeps DEF Child, now, q

----------------------------------------------------------------------------
(* The theorems *)

LEMMA BuildInvariance == BuildSpec => []BuildInv
<1>1. ASSUME BuildInv, [BuildNext]_build_vars PROVE BuildInv'
  <2>1. CASE UNCHANGED build_vars
    BY <1>1, <2>1 DEF build_vars, parent_vars, BuildInv, Domains, BuilderInv, OutputInv
  <2>2. CASE AllEnded
    BY <2>1, <2>2 DEF AllEnded
  <2>3. ASSUME NEW b \in Builder, Parent(b) \/ Kill(b) \/ Child(b) \/ ChildCrashes(b)
        PROVE  BuildInv'
    <3>1. CASE Publish(b)
      BY <1>1, <3>1, PublishKeeps
    <3>2. CASE Spawn(b)
      BY <1>1, <3>2, SpawnKeeps, LocalKeeps
    <3>3. CASE Read(b)
      BY <1>1, <3>3, ReadKeeps, LocalKeeps
    <3>4. CASE FinishWriting(b)
      BY <1>1, <3>4, FinishWritingKeeps, LocalKeeps
    <3>5. CASE \/ Prepare(b) \/ CreateTemp(b) \/ MakeWriters(b) \/ EndOfStream(b) \/ Judge(b)
               \/ Terminate(b) \/ Reap(b) \/ _cleanup_temp(b) \/ Kill(b)
      BY <1>1, <3>5, BeforeReplayKeeps, LocalKeeps
    <3>6. CASE ChildWrites(b)
      BY <1>1, <3>6, ChildWritesKeeps, LocalKeeps
    <3>7. CASE ChildExits(b) \/ ChildDies(b) \/ ChildCrashes(b)
      BY <1>1, <3>7, ChildEndsKeeps, LocalKeeps
    <3> QED BY <2>3, <3>1, <3>2, <3>3, <3>4, <3>5, <3>6, <3>7 DEF Parent, Child
  <2> QED BY <1>1, <2>1, <2>2, <2>3 DEF BuildNext
<1> QED BY <1>1, InitBuildInv, PTL DEF BuildSpec

\* What build_dataset publishes is every event of a replay that ended well and
\* wrote its summary last, with the manifest: whatever the batch size, the pipe and
\* the number of builders, nothing torn, cut off or refused is ever published.
THEOREM PublishedIsComplete == BuildSpec => []OutputIsComplete
BY BuildInvariance, BuildInvGives, PTL

\* A build that raised an error leaves no output of its own, and the handlers of
\* ingest.py that ran to their end no running replay and, where removing does not fail,
\* no temporary directory; success means an output of one's own.
THEOREM FailureNeverPublishes == BuildSpec => []FailureLeavesNoOutput
BY BuildInvariance, BuildInvGives, PTL
=============================================================================

---------------------------- MODULE DatasetBuild ---------------------------
(***************************************************************************)
(* build_dataset of python/src/lobforge_research/ingest.py: a builder runs   *)
(* lobforge_replay as a child process, validates the rows it reads from the   *)
(* child's pipe, writes them in batches to a temporary directory and renames *)
(* that to the output once everything is known to be whole.  Several builders *)
(* may be given the same output.  Digests, the research rows, which go       *)
(* through a second writer of the same kind, and the manifest's contents are *)
(* left out.                                                                  *)
(***************************************************************************)
EXTENDS Integers, Selection, Sequences

Stream == INSTANCE StreamValidator

CONSTANTS
  Builder,    \* processes that build into the same output
  Scripts,    \* what a replay may do: rows to stdout, lines to stderr, exit code
  BatchRows,  \* --batch-rows
  PipeRows,   \* rows a pipe holds (bound)
  Faults,     \* bound: the faults that may happen
  None

Rows == UNION {{script.rows[i] : i \in DOMAIN script.rows} : script \in Scripts}
Dataset == [by : Builder, rows : Seq(Rows), manifest : BOOLEAN]

ASSUME BuildAssumption ==
  /\ BatchRows \in Nat \ {0} /\ PipeRows \in Nat \ {0}
  /\ Faults \subseteq {"crash", "disk", "kill", "removal", "timeout"}
  /\ \A script \in Scripts :
       /\ script.code \in Nat /\ script.reports \in Nat
       /\ script.rows \in Seq(Rows)
  /\ \A row \in Rows : row.record_type \in {"header", "book_event", "summary"}
  /\ None \notin Dataset

VARIABLES
  output,     \* the output directory: None, or its builder and rows
  pc,         \* where a builder is
  failure,    \* the error category it ended with
  temp,       \* its temporary directory: None, or the rows and manifest written
  buffer,     \* rows not yet written
  validator,
  child,      \* its replay process
  pipe        \* rows the child wrote and the builder has not read

parent_vars == <<pc, failure, temp, buffer, validator>>
build_vars == <<output, parent_vars, child, pipe>>

Ended == {"published", "failed", "escaped", "killed"}
NoChild == [state |-> "none", script |-> None, sent |-> 0, code |-> None, terminated |-> FALSE]
Torn == [record_type |-> "torn"]  \* a line the child did not finish

BuildInit ==
  /\ output = None
  /\ pc = [b \in Builder |-> "start"]
  /\ failure = [b \in Builder |-> None]
  /\ temp = [b \in Builder |-> None]
  /\ buffer = [b \in Builder |-> <<>>]
  /\ validator = [b \in Builder |-> Stream!Fresh]
  /\ child = [b \in Builder |-> NoChild]
  /\ pipe = [b \in Builder |-> <<>>]

Goto(b, place) == pc' = [pc EXCEPT ![b] = place]
\* An exception: raised before the try block it ends the build, inside it the
\* handlers run first.
Raise(b, place, category) == Goto(b, place) /\ failure' = [failure EXCEPT ![b] = category]

----------------------------------------------------------------------------
(* The builder *)

Prepare(b) ==
  /\ pc[b] = "start"
  /\ \/ Raise(b, "failed", "SOURCE_NOT_FOUND")
     \/ output # None /\ Raise(b, "failed", "OUTPUT_EXISTS")
     \/ output = None /\ Goto(b, "create") /\ UNCHANGED failure
  /\ UNCHANGED <<output, temp, buffer, validator, child, pipe>>

CreateTemp(b) ==
  /\ pc[b] = "create"
  /\ \/ /\ "disk" \in Faults /\ Raise(b, "failed", "OUTPUT_CREATE_FAILED")
        /\ UNCHANGED temp
     \/ /\ temp' = [temp EXCEPT ![b] = [rows |-> <<>>, manifest |-> FALSE]]
        /\ Goto(b, "setup") /\ UNCHANGED failure
  /\ UNCHANGED <<output, buffer, validator, child, pipe>>

\* The writers make their directories before the try block: an error escapes it.
MakeWriters(b) ==
  /\ pc[b] = "setup"
  /\ \/ "disk" \in Faults /\ Goto(b, "escaped")
     \/ Goto(b, "spawn")
  /\ UNCHANGED <<output, failure, temp, buffer, validator, child, pipe>>

Spawn(b) ==
  /\ pc[b] = "spawn"
  /\ \/ /\ "disk" \in Faults /\ Raise(b, "failing", "DATASET_BUILD_FAILED")
        /\ UNCHANGED child
     \/ /\ \E script \in Scripts :
             child' = [child EXCEPT ![b] = [NoChild EXCEPT !.state = "running", !.script = script]]
        /\ Goto(b, "reading") /\ UNCHANGED failure
  /\ UNCHANGED <<output, temp, buffer, validator, pipe>>

BatchOverfull(rows) == Len(rows) > BatchRows   \* mutant: off by one
BatchFull(rows) == Len(rows) >= BatchRows

\* PartitionWriter: append, and _flush when the batch is full.
Write(b, rows) ==
  IF BatchFull(rows)
  THEN /\ temp' = [temp EXCEPT ![b].rows = @ \o rows]
       /\ buffer' = [buffer EXCEPT ![b] = <<>>]
  ELSE buffer' = [buffer EXCEPT ![b] = rows] /\ UNCHANGED temp

\* The writer fails, on a full disk for one.
WriteFails(b) ==
  /\ "disk" \in Faults
  /\ Raise(b, "failing", "DATASET_BUILD_FAILED")
  /\ UNCHANGED <<temp, buffer>>

Read(b) ==
  LET row == Head(pipe[b])
  IN  /\ pc[b] = "reading" /\ pipe[b] # <<>>
      /\ pipe' = [pipe EXCEPT ![b] = Tail(@)]
      /\ IF row = Torn \/ ~Stream!accepts(validator[b], row)
         THEN /\ Raise(b, "failing", "SCHEMA_VIOLATION")
              /\ UNCHANGED <<temp, buffer, validator>>
         ELSE /\ validator' = [validator EXCEPT ![b] = Stream!accept(@, row)]
              /\ IF row.record_type # "book_event" THEN UNCHANGED <<pc, failure, temp, buffer>>
                 ELSE \/ Write(b, Append(buffer[b], row)) /\ UNCHANGED <<pc, failure>>
                      \/ BatchFull(Append(buffer[b], row)) /\ WriteFails(b)
      /\ UNCHANGED <<output, child>>

\* The pipe is empty and the child's end closed.
EndOfStream(b) ==
  /\ pc[b] = "reading" /\ pipe[b] = <<>> /\ child[b].state = "exited"
  /\ Goto(b, "waited")
  /\ UNCHANGED <<output, failure, temp, buffer, validator, child, pipe>>

unfinished(b) == TRUE   \* mutant: the validator is not asked at the end
finish(b) == Stream!finish(validator[b])

\* wait: the exit code, then the validator's last word.
Judge(b) ==
  /\ pc[b] = "waited"
  /\ IF child[b].code # 0 THEN Raise(b, "failing", "REPLAY_FAILED")
     ELSE IF ~finish(b) THEN Raise(b, "failing", "SCHEMA_VIOLATION")
     ELSE Goto(b, "finishing") /\ UNCHANGED failure
  /\ UNCHANGED <<output, temp, buffer, validator, child, pipe>>

\* The writers' last batch, the manifest and the metrics.
FinishWriting(b) ==
  /\ pc[b] = "finishing"
  /\ \/ WriteFails(b)
     \/ /\ temp' = [temp EXCEPT ![b] = [rows |-> @.rows \o buffer[b], manifest |-> TRUE]]
        /\ buffer' = [buffer EXCEPT ![b] = <<>>]
        /\ Goto(b, "publishing") /\ UNCHANGED failure
  /\ UNCHANGED <<output, validator, child, pipe>>

may_overwrite == TRUE   \* mutant: the rename replaces what is there
may_rename == output = None

\* temp_directory.replace(output): a rename does not replace a directory in use.
Publish(b) ==
  /\ pc[b] = "publishing"
  /\ \/ /\ may_rename
        /\ output' = [by |-> b, rows |-> temp[b].rows, manifest |-> temp[b].manifest]
        /\ temp' = [temp EXCEPT ![b] = None]
        /\ Goto(b, "published") /\ UNCHANGED failure
     \/ /\ ~may_rename \/ "disk" \in Faults
        /\ Raise(b, "failing", "DATASET_BUILD_FAILED") /\ UNCHANGED <<output, temp>>
  /\ UNCHANGED <<buffer, validator, child, pipe>>

----------------------------------------------------------------------------
(* The handlers *)

\* mutant: the handler does not stop a running child
LeaveRunning(b) ==
  /\ pc[b] = "failing"
  /\ Goto(b, "cleaning")
  /\ UNCHANGED <<output, failure, temp, buffer, validator, child, pipe>>

Terminate(b) ==
  /\ pc[b] = "failing"
  /\ IF child[b].state = "running"
     THEN child' = [child EXCEPT ![b].terminated = TRUE] /\ Goto(b, "reaping")
     ELSE UNCHANGED child /\ Goto(b, "cleaning")
  /\ UNCHANGED <<output, failure, temp, buffer, validator, pipe>>

\* wait(timeout=10): the child is gone, or TimeoutExpired leaves the handler.
Reap(b) ==
  /\ pc[b] = "reaping"
  /\ \/ child[b].state = "exited" /\ Goto(b, "cleaning")
     \/ "timeout" \in Faults /\ child[b].state = "running" /\ Goto(b, "escaped")
  /\ UNCHANGED <<output, failure, temp, buffer, validator, child, pipe>>

\* The directory is removed; where its path does not resolve or a file refuses to go,
\* all or some of it stays, without a word: the failure is reported all the same.
Emptied == [rows |-> <<>>, manifest |-> FALSE]
_cleanup_temp(b) ==
  /\ pc[b] = "cleaning"
  /\ \E rest \in {None} \cup (IF "removal" \in Faults THEN {temp[b], Emptied} ELSE {}) :
       temp' = [temp EXCEPT ![b] = rest]
  /\ Goto(b, "failed")
  /\ UNCHANGED <<output, failure, buffer, validator, child, pipe>>

\* The builder is killed, or its machine goes down.
Kill(b) ==
  /\ "kill" \in Faults /\ pc[b] \notin Ended
  /\ Goto(b, "killed")
  /\ UNCHANGED <<output, failure, temp, buffer, validator, child, pipe>>

----------------------------------------------------------------------------
(* The replay process: rows, then diagnostics, then the exit code *)

Sent(b) == child[b].sent = Len(child[b].script.rows)

ChildWrites(b) ==
  /\ child[b].state = "running" /\ ~Sent(b)
  /\ pc[b] \notin Ended /\ Len(pipe[b]) < PipeRows
  /\ pipe' = [pipe EXCEPT ![b] = Append(@, child[b].script.rows[child[b].sent + 1])]
  /\ child' = [child EXCEPT ![b].sent = @ + 1]
  /\ UNCHANGED <<output, parent_vars>>

\* mutant: stderr is a pipe nobody reads before the child has ended
stderr_pipe(b) == child[b].script.reports <= PipeRows
\* stderr is a temporary file: it takes whatever the child reports.
stderr_file(b) == TRUE

ChildExits(b) ==
  /\ child[b].state = "running" /\ Sent(b) /\ stderr_file(b)
  /\ child' = [child EXCEPT ![b].state = "exited", ![b].code = child[b].script.code]
  /\ UNCHANGED <<output, parent_vars, pipe>>

\* Killed by the builder, or by writing to a pipe that nobody reads any more.
ChildDies(b) ==
  /\ child[b].state = "running"
  /\ child[b].terminated \/ (pc[b] \in Ended /\ ~Sent(b))
  /\ child' = [child EXCEPT ![b].state = "exited", ![b].code = -1]
  /\ UNCHANGED <<output, parent_vars, pipe>>

\* A crash may leave a line unfinished.
ChildCrashes(b) ==
  /\ "crash" \in Faults /\ child[b].state = "running"
  /\ \/ UNCHANGED pipe
     \/ ~Sent(b) /\ Len(pipe[b]) < PipeRows /\ pipe' = [pipe EXCEPT ![b] = Append(@, Torn)]
  /\ child' = [child EXCEPT ![b].state = "exited", ![b].code = -1]
  /\ UNCHANGED <<output, parent_vars>>

Parent(b) ==
  \/ Prepare(b) \/ CreateTemp(b) \/ MakeWriters(b) \/ Spawn(b)
  \/ Read(b) \/ EndOfStream(b) \/ Judge(b) \/ FinishWriting(b) \/ Publish(b)
  \/ Terminate(b) \/ Reap(b) \/ _cleanup_temp(b)
Child(b) == ChildWrites(b) \/ ChildExits(b) \/ ChildDies(b)

AllEnded ==
  /\ \A b \in Builder : pc[b] \in Ended /\ child[b].state # "running"
  /\ UNCHANGED build_vars

BuildNext == AllEnded \/ \E b \in Builder : Parent(b) \/ Kill(b) \/ Child(b) \/ ChildCrashes(b)

\* The operating system runs both processes; nothing obliges one to fail.
BuildFairness == \A b \in Builder : WF_build_vars(Parent(b)) /\ WF_build_vars(Child(b))
BuildSpec == BuildInit /\ [][BuildNext]_build_vars /\ BuildFairness

----------------------------------------------------------------------------
(* Properties *)

EventRows(script) == {n \in DOMAIN script.rows : script.rows[n].record_type = "book_event"}
Events(script) == SelectAt(script.rows, EventRows(script))

\* What is published is everything a replay that succeeded wrote, with its summary
\* and the manifest ("Build a complete dataset", ingest.py): a replay that failed,
\* crashed, was cut off or wrote a bad row is never published, whoever else builds.
OutputIsComplete ==
  output # None =>
    LET replay == child[output.by]
    IN  /\ replay.state = "exited" /\ replay.code = 0 /\ replay.script.code = 0
        /\ Sent(output.by)
        /\ output.rows = Events(replay.script) /\ output.manifest
        /\ replay.script.rows[Len(replay.script.rows)].record_type = "summary"

\* A builder that raised an error left no output of its own ("or leave no output
\* directory on any failure", ingest.py), be it after it had everything written; where
\* the handlers ran to their end its child is stopped, and a temporary directory is
\* left only where removing may fail. One that reports success left its output.
FailureLeavesNoOutput ==
  \A b \in Builder :
    /\ pc[b] \in {"failed", "escaped"} /\ output # None => output.by # b
    /\ pc[b] = "failed" => /\ child[b].state # "running"
                           /\ temp[b] # None => "removal" \in Faults
    /\ pc[b] = "published" => output # None /\ output.by = b /\ temp[b] = None

\* An output that is there is never replaced, extended or removed, by the same
\* builder or by another one that found no output when it started.
PublishedOnce == [][output # None => UNCHANGED output]_output

\* Every builder comes to an end, although it and its child wait for each other
\* at both ends of a pipe, and stops its child when it gives up.
BuildEnds == \A b \in Builder : <>(pc[b] \in Ended /\ child[b].state # "running")
=============================================================================

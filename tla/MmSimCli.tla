------------------------------ MODULE MmSimCli ------------------------------
(***************************************************************************)
(* apps/lobforge_mm_sim.cpp: a run feeds every fact of its input to the       *)
(* shadow simulator, in chunks, writes seven artifacts to a directory beside *)
(* the output and renames that to the output.  Runs given the same output    *)
(* share nothing but the file system, and may be killed at any step.         *)
(* ShadowSimulator models what a fact does; here a fact is good, malformed   *)
(* (its frame or its fields) or refused (by the book or by an invariant).    *)
(***************************************************************************)
EXTENDS Integers, Sequences

CONSTANTS
  Runs,         \* processes given the same --output-dir
  Inputs,       \* the facts a run may be given
  EventChunks,  \* the --event-chunk it may be given
  Faults,       \* bound: the faults that may happen
  None

ASSUME CliAssumption ==
  /\ EventChunks \subseteq Nat \ {0}
  /\ Faults \subseteq {"config", "shadow", "mkdir", "write", "close", "remove", "rename", "kill"}
  /\ \A input \in Inputs : input \in Seq({"good", "malformed", "refused"})

Artifacts ==
  <<"protocol.json", "shadow_orders.ndjson", "shadow_fills.ndjson", "inventory_events.ndjson",
    "summary.json", "metrics.json", "manifest.json">>
Names == {Artifacts[i] : i \in DOMAIN Artifacts}

\* A directory: who made it, and of each file who wrote it and whether whole.
Directories ==
  [by : Runs, files : [Names -> [by : Runs \cup {None}, whole : BOOLEAN]]]

ASSUME NoneAssumption == None \notin Directories /\ None \notin Runs

VARIABLES
  output,     \* the output directory: None, or who made it and its files
  temporary,  \* the directory <output>.tmp
  pc,         \* where a run is
  result,     \* its exit code, and why
  input,
  chunk,      \* its --event-chunk
  in_chunk,   \* facts of this chunk that were read
  offset,     \* facts that were read
  sequence,   \* facts that were decoded
  facts,      \* the facts the simulator has seen, as positions in the input
  written     \* artifacts it has written

feed_vars == <<input, chunk, in_chunk, offset, sequence, facts>>
cli_vars == <<output, temporary, pc, result, feed_vars, written>>

CliInit ==
  /\ output = None /\ temporary = None
  /\ pc = [r \in Runs |-> "start"]
  /\ result = [r \in Runs |-> None]
  /\ input \in [Runs -> Inputs]
  /\ chunk \in [Runs -> EventChunks]
  /\ in_chunk = [r \in Runs |-> 0]
  /\ offset = [r \in Runs |-> 0]
  /\ sequence = [r \in Runs |-> 0]
  /\ facts = [r \in Runs |-> <<>>]
  /\ written = [r \in Runs |-> 0]

Goto(r, place) == pc' = [pc EXCEPT ![r] = place] /\ UNCHANGED result
Exit(r, code, why) ==
  /\ pc' = [pc EXCEPT ![r] = "exited"]
  /\ result' = [result EXCEPT ![r] = [code |-> code, why |-> why]]
Fault(name) == name \in Faults

----------------------------------------------------------------------------
(* Feeding *)

\* parse_options, load_protocol and read_file.
Start(r) ==
  /\ pc[r] = "start"
  /\ \/ Fault("config") /\ \E code \in {2, 3} : Exit(r, code, "config")
     \/ Goto(r, "feeding")
  /\ UNCHANGED <<output, temporary, feed_vars, written>>

done(r) == offset[r] = Len(input[r])

\* mutant: the fact at which a chunk ends is read and dropped
NextChunkDropping(r) ==
  /\ pc[r] = "feeding" /\ ~done(r) /\ in_chunk[r] = chunk[r]
  /\ in_chunk' = [in_chunk EXCEPT ![r] = 0]
  /\ offset' = [offset EXCEPT ![r] = @ + 1]
  /\ UNCHANGED <<output, temporary, pc, result, input, chunk, sequence, facts, written>>

NextChunk(r) ==
  /\ pc[r] = "feeding" /\ ~done(r) /\ in_chunk[r] = chunk[r]
  /\ in_chunk' = [in_chunk EXCEPT ![r] = 0]
  /\ UNCHANGED <<output, temporary, pc, result, input, chunk, offset, sequence, facts, written>>

more_in_chunk(r) == in_chunk[r] < chunk[r]

\* A frame is read, decoded and applied; what fails ends the run with nothing written.
NextFact(r) ==
  LET fact == input[r][offset[r] + 1]
  IN  /\ pc[r] = "feeding" /\ ~done(r) /\ more_in_chunk(r)
      /\ in_chunk' = [in_chunk EXCEPT ![r] = @ + 1]
      /\ offset' = [offset EXCEPT ![r] = @ + 1]
      /\ IF fact = "malformed"
         THEN Exit(r, 4, fact) /\ UNCHANGED <<sequence, facts>>
         ELSE /\ sequence' = [sequence EXCEPT ![r] = @ + 1]
              /\ facts' = [facts EXCEPT ![r] = Append(@, offset[r] + 1)]
              /\ IF fact = "refused" THEN Exit(r, 4, fact) ELSE UNCHANGED <<pc, result>>
      /\ UNCHANGED <<output, temporary, input, chunk, written>>

Finish(r) ==
  /\ pc[r] = "feeding" /\ done(r)
  /\ \/ Fault("shadow") /\ Exit(r, 5, "shadow")
     \/ Goto(r, "check_output")
  /\ UNCHANGED <<output, temporary, feed_vars, written>>

----------------------------------------------------------------------------
(* Publishing: exists(output) || exists(temporary) || !create_directories *)

CheckOutput(r) ==
  /\ pc[r] = "check_output"
  /\ IF output # None THEN Exit(r, 3, "exists") ELSE Goto(r, "check_temporary")
  /\ UNCHANGED <<output, temporary, feed_vars, written>>

Absent == [by |-> None, whole |-> FALSE]
Directory(r) == [by |-> r, files |-> [name \in Names |-> Absent]]

\* mutant: the directory is tested for by making it
CheckTemporaryMaking(r) ==
  /\ pc[r] = "check_temporary"
  /\ IF temporary # None THEN Exit(r, 3, "exists") /\ UNCHANGED temporary
     ELSE temporary' = Directory(r) /\ Goto(r, "create")
  /\ UNCHANGED <<output, feed_vars, written>>

CheckTemporary(r) ==
  /\ pc[r] = "check_temporary"
  /\ IF temporary # None THEN Exit(r, 3, "exists") ELSE Goto(r, "create")
  /\ UNCHANGED <<output, temporary, feed_vars, written>>

created_or_there == TRUE   \* mutant: the result of create_directories is not looked at
created == temporary = None

CreateDirectories(r) ==
  /\ pc[r] = "create"
  /\ \/ Fault("mkdir") /\ Exit(r, 3, "mkdir") /\ UNCHANGED temporary
     \/ ~created /\ Exit(r, 3, "exists") /\ UNCHANGED temporary
     \/ /\ created
        /\ temporary' = IF temporary = None THEN Directory(r) ELSE temporary
        /\ Goto(r, "writing")
  /\ UNCHANGED <<output, feed_vars, written>>

Put(r, whole) ==
  temporary' = [temporary EXCEPT
    !.files[Artifacts[written[r] + 1]] = [by |-> r, whole |-> whole]]

\* write_text and write_ndjson return the stream's state before it is closed: what
\* fails when the last buffer is written out goes unnoticed.
WriteArtifact(r) ==
  /\ pc[r] = "writing" /\ written[r] < Len(Artifacts)
  /\ IF temporary = None THEN Goto(r, "removing") /\ UNCHANGED <<temporary, written>>
     ELSE \/ /\ Fault("write") /\ Put(r, FALSE)
             /\ Goto(r, "removing") /\ UNCHANGED written
          \/ \E whole \in {TRUE} \cup (IF Fault("close") THEN {FALSE} ELSE {}) :
               /\ Put(r, whole)
               /\ written' = [written EXCEPT ![r] = @ + 1]
               /\ UNCHANGED <<pc, result>>
  /\ UNCHANGED <<output, feed_vars>>

\* mutant: the artifacts are left behind
LeaveAll(r) ==
  /\ pc[r] = "removing"
  /\ Exit(r, 3, "write")
  /\ UNCHANGED <<output, temporary, feed_vars, written>>

RemoveAll(r) ==
  /\ pc[r] = "removing"
  /\ \/ temporary' = None /\ Exit(r, 3, "write")
     \/ Fault("remove") /\ Exit(r, 3, "remove") /\ UNCHANGED temporary
  /\ UNCHANGED <<output, feed_vars, written>>

may_overwrite == TRUE   \* mutant: what is there is replaced
may_rename == output = None

\* A rename does not replace a directory with files: it throws, and the temporary
\* directory stays.
Rename(r) ==
  /\ pc[r] = "writing" /\ written[r] = Len(Artifacts)
  /\ IF may_rename /\ temporary # None
     THEN \/ output' = temporary /\ temporary' = None /\ Goto(r, "reporting")
          \/ Fault("rename") /\ Exit(r, 3, "rename") /\ UNCHANGED <<output, temporary>>
     ELSE Exit(r, 3, "rename") /\ UNCHANGED <<output, temporary>>
  /\ UNCHANGED <<feed_vars, written>>

Report(r) ==
  /\ pc[r] = "reporting"
  /\ Exit(r, 0, "published")
  /\ UNCHANGED <<output, temporary, feed_vars, written>>

Kill(r) ==
  /\ Fault("kill") /\ pc[r] \notin {"exited", "killed"}
  /\ Goto(r, "killed")
  /\ UNCHANGED <<output, temporary, feed_vars, written>>

Run(r) ==
  \/ Start(r) \/ NextChunk(r) \/ NextFact(r) \/ Finish(r)
  \/ CheckOutput(r) \/ CheckTemporary(r) \/ CreateDirectories(r)
  \/ WriteArtifact(r) \/ RemoveAll(r) \/ Rename(r) \/ Report(r)

AllEnded == /\ \A r \in Runs : pc[r] \in {"exited", "killed"}
            /\ UNCHANGED cli_vars

CliNext == AllEnded \/ \E r \in Runs : Run(r) \/ Kill(r)

CliSpec == CliInit /\ [][CliNext]_cli_vars

----------------------------------------------------------------------------
(* Properties *)

Exited(r, code) == pc[r] = "exited" /\ result[r].code = code
Published(r) == output # None /\ output.by = r

\* Two runs never write to one directory, although each looks before it makes the
\* temporary one: whatever is in it, or published from it, is of the run that made it.
OneAuthor ==
  \A directory \in {output, temporary} \ {None} :
    \A name \in Names : directory.files[name].by \in {None, directory.by}

\* Exit code 0 says that the output is this run's, with all its artifacts; a run whose
\* output is there ended so, or was killed before it could say so.
ExitTellsOutput ==
  \A r \in Runs :
    /\ Exited(r, 0) => Published(r) /\ \A name \in Names : output.files[name].by = r
    /\ Published(r) => Exited(r, 0) \/ pc[r] \in {"reporting", "killed"}

\* What is published comes from every fact of the input, in order and each once,
\* whatever the chunk ("without changing event order"), and from no input with a bad
\* fact ("never skips a malformed fact", mm_sim_cli.md).
EveryFactApplied ==
  \A r \in Runs :
    Published(r) => /\ facts[r] = [i \in 1..Len(input[r]) |-> i]
                    /\ \A i \in DOMAIN input[r] : input[r][i] = "good"

\* A run that could not write its artifacts leaves none of them, and a temporary
\* directory that is there is of a run that is at work, was killed, or could neither
\* rename nor remove it.
LeftoversExplained ==
  temporary # None =>
    LET r == temporary.by
    IN  \/ pc[r] \in {"writing", "removing", "killed"}
        \/ pc[r] = "exited" /\ result[r].why \in {"rename", "remove"}

\* A run is refused for another that publishes, is under way, was killed or failed for
\* a reason of its own: runs that start together do not all refuse each other.
RefusedForAnother ==
  (\E r \in Runs : pc[r] = "exited" /\ result[r].why = "exists") =>
    \/ output # None
    \/ \E r \in Runs : pc[r] # "exited" \/ result[r].why \in {"write", "remove", "rename"}

\* "I/O/config/publication errors return 3" (mm_sim_cli.md): a run of which an artifact
\* was not written whole does not exit with 0.
IoErrorsReturnThree ==
  \A r \in Runs :
    Exited(r, 0) => \A name \in Names : output.files[name].whole
=============================================================================

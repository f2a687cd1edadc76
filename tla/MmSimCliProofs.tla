--------------------------- MODULE MmSimCliProofs ---------------------------
(***************************************************************************)
(* Theorems about the simulation command: whatever the number of runs given  *)
(* one output, their inputs and the faults, and at whatever step a run is    *)
(* killed, an output is of one run, whole, told by its exit code and made from *)
(* every fact of its input.                                                  *)
(***************************************************************************)
EXTENDS MmSimCli, SequenceTheorems, TLAPS

Before == {"start", "feeding", "check_output", "check_temporary", "create"}
Working == {"writing", "removing"}
Over == {"exited", "killed"}
Places == Before \cup Working \cup {"reporting"} \cup Over

Typed ==
  /\ output \in Directories \cup {None} /\ temporary \in Directories \cup {None}
  /\ pc \in [Runs -> Places]
  /\ result = [r \in Runs |-> result[r]]
  /\ written \in [Runs -> 0..Len(Artifacts)]
  /\ \A r \in Runs : pc[r] \in Before => written[r] = 0

WholeOf(directory, r) == \A name \in Names : directory.files[name].by = r

\* The temporary directory is of the run that works in it, so one at most works.
InProgress ==
  \A r \in Runs :
    /\ pc[r] \in Working => temporary # None /\ temporary.by = r
    /\ pc[r] = "writing" =>
         \A i \in 1..written[r] : temporary.files[Artifacts[i]].by = r

\* An output is whole, of a run that said so or was killed before it could.
Reported ==
  \A r \in Runs :
    /\ Exited(r, 0) \/ pc[r] = "reporting" => Published(r)
    /\ Published(r) => /\ WholeOf(output, r)
                       /\ Exited(r, 0) \/ pc[r] \in {"reporting", "killed"}

\* What a refused run is refused for.
Obstacle ==
  \/ output # None
  \/ \E r \in Runs : \/ pc[r] \in Working \cup {"killed"}
                     \/ pc[r] = "exited" /\ result[r].why \in {"write", "remove", "rename"}
RefusedForObstacle == (\E r \in Runs : pc[r] = "exited" /\ result[r].why = "exists") => Obstacle

\* What makes the properties of the output inductive.
PublishInv ==
  Typed /\ InProgress /\ OneAuthor /\ Reported /\ LeftoversExplained /\ RefusedForObstacle

----------------------------------------------------------------------------
(* Artifacts and directories *)

\* Every artifact has a name, and two have not the same.
LEMMA ArtifactNames ==
  /\ Len(Artifacts) = 7
  /\ \A i \in 1..7 : Artifacts[i] \in Names
  /\ \A name \in Names : \E i \in 1..7 : name = Artifacts[i]
  /\ \A i, j \in 1..7 : Artifacts[i] = Artifacts[j] => i = j
<1>1. Len(Artifacts) = 7 /\ DOMAIN Artifacts = 1..7
  BY DEF Artifacts
<1>2. /\ Artifacts[1] = "protocol.json" /\ Artifacts[2] = "shadow_orders.ndjson"
      /\ Artifacts[3] = "shadow_fills.ndjson" /\ Artifacts[4] = "inventory_events.ndjson"
      /\ Artifacts[5] = "summary.json" /\ Artifacts[6] = "metrics.json"
      /\ Artifacts[7] = "manifest.json"
  BY DEF Artifacts
<1>3. \A i \in 1..7 : i \in {1, 2, 3, 4, 5, 6, 7}
  OBVIOUS
<1>4. \A i, j \in 1..7 : Artifacts[i] = Artifacts[j] => i = j
  BY <1>2, <1>3
<1> QED BY <1>1, <1>4 DEF Names

\* A new directory has no files and is of the run that made it.
LEMMA NewDirectory ==
  ASSUME NEW r \in Runs
  PROVE  /\ Directory(r) \in Directories /\ Directory(r) # None /\ Directory(r).by = r
         /\ \A name \in Names : Directory(r).files[name].by = None
<1>1. Directory(r) \in Directories
  BY DEF Directory, Directories, Absent
<1> QED BY <1>1, NoneAssumption DEF Directory, Absent

\* A run that writes changes one file of the directory it works in.
LEMMA FilePut ==
  ASSUME Typed, NEW r \in Runs, NEW whole \in BOOLEAN, temporary # None,
         written[r] < 7, Put(r, whole)
  PROVE  /\ temporary' \in Directories /\ temporary' # None /\ temporary'.by = temporary.by
         /\ temporary'.files[Artifacts[written[r] + 1]].by = r
         /\ \A name \in Names : name # Artifacts[written[r] + 1] =>
              temporary'.files[name] = temporary.files[name]
<1> DEFINE name == Artifacts[written[r] + 1]
           file == [by |-> r, whole |-> whole]
<1>1. temporary \in Directories /\ written[r] \in 0..6
  BY ArtifactNames DEF Typed
<1>2. name \in Names
  BY <1>1, ArtifactNames
<1>3. /\ temporary.by \in Runs
      /\ temporary.files \in [Names -> [by : Runs \cup {None}, whole : BOOLEAN]]
      /\ temporary = [by |-> temporary.by, files |-> temporary.files]
  BY <1>1 DEF Directories
<1>4. temporary' = [by |-> temporary.by, files |-> [temporary.files EXCEPT ![name] = file]]
  BY <1>3 DEF Put
<1>5. file \in [by : Runs \cup {None}, whole : BOOLEAN]
  OBVIOUS
<1>6. [temporary.files EXCEPT ![name] = file]
        \in [Names -> [by : Runs \cup {None}, whole : BOOLEAN]]
  BY <1>2, <1>3, <1>5
<1>7. temporary' \in Directories
  BY <1>3, <1>4, <1>6 DEF Directories
<1> QED BY <1>2, <1>3, <1>4, <1>7, NoneAssumption

----------------------------------------------------------------------------
(* Steps of one run *)

\* Only run r moved.
OnlyMoves(r) ==
  \A q \in Runs \ {r} : pc'[q] = pc[q] /\ result'[q] = result[q] /\ written'[q] = written[q]

\* Moving on, or ending, moves one run.
LEMMA Moves ==
  ASSUME Typed, NEW r \in Runs
  PROVE  /\ \A place \in Places : Goto(r, place) =>
              /\ pc' \in [Runs -> Places] /\ pc'[r] = place /\ result' = result
              /\ \A q \in Runs \ {r} : pc'[q] = pc[q]
         /\ \A code, why : Exit(r, code, why) =>
              /\ pc' \in [Runs -> Places] /\ pc'[r] = "exited"
              /\ result'[r].code = code /\ result'[r].why = why
              /\ result' = [q \in Runs |-> result'[q]]
              /\ \A q \in Runs \ {r} : pc'[q] = pc[q] /\ result'[q] = result[q]
<1>1. ASSUME NEW place \in Places, Goto(r, place)
      PROVE  /\ pc' \in [Runs -> Places] /\ pc'[r] = place /\ result' = result
             /\ \A q \in Runs \ {r} : pc'[q] = pc[q]
  BY <1>1 DEF Goto, Typed
<1>2. ASSUME NEW code, NEW why, Exit(r, code, why)
      PROVE  /\ pc' \in [Runs -> Places] /\ pc'[r] = "exited"
             /\ result'[r].code = code /\ result'[r].why = why
             /\ result' = [q \in Runs |-> result'[q]]
             /\ \A q \in Runs \ {r} : pc'[q] = pc[q] /\ result'[q] = result[q]
  <2>1. pc' \in [Runs -> Places] /\ pc'[r] = "exited"
    BY <1>2 DEF Exit, Typed, Places, Over
  <2>2. /\ result' = [q \in Runs |-> result'[q]]
        /\ result'[r] = [code |-> code, why |-> why]
        /\ \A q \in Runs \ {r} : pc'[q] = pc[q] /\ result'[q] = result[q]
    BY <1>2 DEF Exit, Typed
  <2> QED BY <2>1, <2>2
<1> QED BY <1>1, <1>2

\* A run that has not begun to work moves on or ends, and leaves the files alone.
LEMMA QuietKeeps ==
  ASSUME PublishInv, Typed', NEW r \in Runs, OnlyMoves(r),
         UNCHANGED <<output, temporary, written>>,
         pc[r] \in Before, pc'[r] \in Before \cup Over,
         pc'[r] = "exited" =>
           /\ result'[r].code # 0
           /\ result'[r].why = "exists" => output # None \/ temporary # None
  PROVE  PublishInv'
<1>1. /\ pc[r] \notin Working \cup Over \cup {"reporting"}
      /\ pc'[r] \notin Working \cup {"reporting"}
  BY DEF Before, Working, Over
<1>2. InProgress'
  BY <1>1 DEF PublishInv, InProgress, OnlyMoves, Working
<1>3. OneAuthor'
  BY DEF PublishInv, OneAuthor
<1>4. Reported'
  <2>1. ~Published(r) /\ ~Exited(r, 0)' /\ pc'[r] # "reporting"
    BY <1>1 DEF PublishInv, Reported, Exited, Over
  <2>2. \A q \in Runs : Published(q)' <=> Published(q)
    BY DEF Published
  <2>3. \A q \in Runs : WholeOf(output, q)' <=> WholeOf(output, q)
    BY DEF WholeOf
  <2>4. \A q \in Runs \ {r} : (Exited(q, 0)' <=> Exited(q, 0)) /\ pc'[q] = pc[q]
    BY DEF Exited, OnlyMoves
  <2> QED BY <2>1, <2>2, <2>3, <2>4 DEF PublishInv, Reported
<1>5. LeftoversExplained'
  <2> SUFFICES ASSUME temporary # None
               PROVE  \/ pc'[temporary.by] \in {"writing", "removing", "killed"}
                      \/ /\ pc'[temporary.by] = "exited"
                         /\ result'[temporary.by].why \in {"rename", "remove"}
    BY DEF LeftoversExplained
  <2>1. temporary.by \in Runs
    BY DEF PublishInv, Typed, Directories
  <2>2. temporary.by # r
    BY <1>1 DEF PublishInv, LeftoversExplained, Working, Over
  <2> QED BY <2>1, <2>2 DEF PublishInv, LeftoversExplained, OnlyMoves
<1>6. Obstacle => Obstacle'
  BY <1>1 DEF Obstacle, OnlyMoves, Over
<1>7. output # None \/ temporary # None => Obstacle
  <2>1. temporary # None => temporary.by \in Runs
    BY DEF PublishInv, Typed, Directories
  <2> QED BY <2>1 DEF PublishInv, LeftoversExplained, Obstacle, Working
<1>8. RefusedForObstacle'
  BY <1>6, <1>7 DEF PublishInv, RefusedForObstacle, OnlyMoves
<1> QED BY <1>2, <1>3, <1>4, <1>5, <1>8 DEF PublishInv

\* Steps that leave the files alone and do not report.
LEMMA QuietStep ==
  ASSUME PublishInv, NEW r \in Runs, UNCHANGED <<output, temporary, written>>, pc[r] \in Before,
         \/ UNCHANGED <<pc, result>>
         \/ \E place \in Before \cup {"killed"} : Goto(r, place)
         \/ \E code, why : /\ code # 0 /\ Exit(r, code, why)
                           /\ why = "exists" => output # None \/ temporary # None
  PROVE  PublishInv'
<1>1. Typed /\ "killed" \in Places /\ Before \subseteq Places
  BY DEF PublishInv, Places, Over
<1>2. pc[r] \notin Over /\ written[r] = 0
  BY <1>1 DEF Before, Over, Typed
<1>3. CASE UNCHANGED <<pc, result>>
  <2>1. Typed' /\ OnlyMoves(r) /\ pc'[r] \in Before
    BY <1>1, <1>3 DEF Typed, OnlyMoves
  <2> QED BY <2>1, QuietKeeps DEF Before
<1>4. ASSUME NEW place \in Before \cup {"killed"}, Goto(r, place)
      PROVE  PublishInv'
  <2>1. /\ pc' \in [Runs -> Places] /\ pc'[r] = place /\ result' = result
        /\ \A q \in Runs \ {r} : pc'[q] = pc[q]
    BY <1>1, <1>4, Moves
  <2>2. Typed' /\ OnlyMoves(r) /\ pc'[r] # "exited" /\ pc'[r] \in Before \cup Over
    BY <1>1, <1>2, <2>1 DEF Typed, OnlyMoves, Before, Over
  <2> QED BY <2>2, QuietKeeps
<1>5. ASSUME NEW code, NEW why, code # 0, Exit(r, code, why),
             why = "exists" => output # None \/ temporary # None
      PROVE  PublishInv'
  <2>1. /\ pc' \in [Runs -> Places] /\ pc'[r] = "exited"
        /\ result'[r].code = code /\ result'[r].why = why
        /\ result' = [q \in Runs |-> result'[q]]
        /\ \A q \in Runs \ {r} : pc'[q] = pc[q] /\ result'[q] = result[q]
    BY <1>1, <1>5, Moves
  <2>2. Typed' /\ OnlyMoves(r) /\ pc'[r] \in Before \cup Over
    BY <1>1, <1>2, <2>1 DEF Typed, OnlyMoves, Over
  <2> QED BY <1>5, <2>1, <2>2, QuietKeeps
<1> QED BY <1>3, <1>4, <1>5

\* While the output stays, only a run that reports changes what is reported.
LEMMA ReportedKept ==
  ASSUME Reported, NEW r \in Runs, OnlyMoves(r), UNCHANGED output,
         pc'[r] # "reporting", ~Exited(r, 0)', Published(r) => pc'[r] = "killed"
  PROVE  Reported'
<1>1. \A q \in Runs : (Published(q)' <=> Published(q)) /\ (WholeOf(output, q)' <=> WholeOf(output, q))
  BY DEF Published, WholeOf
<1>2. \A q \in Runs \ {r} : (Exited(q, 0)' <=> Exited(q, 0)) /\ pc'[q] = pc[q]
  BY DEF Exited, OnlyMoves
<1> QED BY <1>1, <1>2 DEF Reported

\* A run that makes the temporary directory is the only one to work in it.
LEMMA CreateKeeps ==
  ASSUME PublishInv, NEW r \in Runs, CreateDirectories(r)
  PROVE  PublishInv'
<1>1. pc[r] = "create" /\ pc[r] \in Before /\ UNCHANGED <<output, written>> /\ Typed
  BY DEF CreateDirectories, Before, PublishInv
<1>2. CASE Exit(r, 3, "mkdir") /\ UNCHANGED temporary
  BY <1>1, <1>2, QuietStep
<1>3. CASE ~created /\ Exit(r, 3, "exists") /\ UNCHANGED temporary
  BY <1>1, <1>3, QuietStep DEF created
<1>4. CASE created /\ temporary' = Directory(r) /\ Goto(r, "writing")
  <2>1. temporary = None /\ "writing" \in Places /\ written[r] = 0
    BY <1>1, <1>4 DEF created, Places, Working, Typed
  <2>2. /\ pc' \in [Runs -> Places] /\ pc'[r] = "writing" /\ result' = result
        /\ \A q \in Runs \ {r} : pc'[q] = pc[q]
    BY <1>1, <1>4, <2>1, Moves
  <2>3. /\ temporary' \in Directories /\ temporary' # None /\ temporary'.by = r
        /\ \A name \in Names : temporary'.files[name].by = None
    BY <1>4, NewDirectory
  <2>4. Typed' /\ OnlyMoves(r)
    BY <1>1, <2>2, <2>3 DEF Typed, OnlyMoves, Before
  <2>5. InProgress'
    BY <1>1, <2>1, <2>2, <2>3 DEF PublishInv, InProgress, Working
  <2>6. OneAuthor'
    BY <1>1, <2>3 DEF PublishInv, OneAuthor
  <2>7. Reported'
    <3>1. ~Published(r)
      BY <1>1 DEF PublishInv, Reported, Exited
    <3> QED BY <1>1, <2>2, <2>4, <3>1, ReportedKept DEF PublishInv, Exited
  <2>8. LeftoversExplained'
    BY <2>2, <2>3 DEF LeftoversExplained
  <2>9. RefusedForObstacle'
    BY <2>2 DEF RefusedForObstacle, Obstacle, Working
  <2> QED BY <2>4, <2>5, <2>6, <2>7, <2>8, <2>9 DEF PublishInv
<1> QED BY <1>2, <1>3, <1>4 DEF CreateDirectories, created

\* A run that writes an artifact adds it to those that are its own.
LEMMA WriteKeeps ==
  ASSUME PublishInv, NEW r \in Runs, WriteArtifact(r)
  PROVE  PublishInv'
<1>1. /\ pc[r] = "writing" /\ written[r] < 7 /\ written[r] \in 0..7 /\ UNCHANGED output /\ Typed
      /\ temporary # None /\ temporary.by = r
  BY ArtifactNames DEF WriteArtifact, PublishInv, InProgress, Working, Typed
<1>2. PICK whole \in BOOLEAN :
        /\ Put(r, whole)
        /\ \/ Goto(r, "removing") /\ UNCHANGED written
           \/ written' = [written EXCEPT ![r] = @ + 1] /\ UNCHANGED <<pc, result>>
  BY <1>1 DEF WriteArtifact
<1> DEFINE name == Artifacts[written[r] + 1]
<1>3. /\ temporary' \in Directories /\ temporary' # None /\ temporary'.by = r
      /\ temporary'.files[name].by = r
      /\ \A other \in Names : other # name => temporary'.files[other] = temporary.files[other]
  BY <1>1, <1>2, FilePut
<1>4. /\ Typed' /\ OnlyMoves(r) /\ pc'[r] \in Working
      /\ pc'[r] = "writing" => written'[r] = written[r] + 1
  <2>1. CASE Goto(r, "removing") /\ UNCHANGED written
    <3>1. /\ pc' \in [Runs -> Places] /\ pc'[r] = "removing" /\ result' = result
          /\ \A q \in Runs \ {r} : pc'[q] = pc[q]
      BY <1>1, <2>1, Moves DEF Places, Working
    <3> QED BY <1>1, <1>3, <2>1, <3>1 DEF Typed, OnlyMoves, Working, Before
  <2>2. CASE written' = [written EXCEPT ![r] = @ + 1] /\ UNCHANGED <<pc, result>>
    <3>1. /\ written' \in [Runs -> 0..7] /\ written'[r] = written[r] + 1
          /\ \A q \in Runs \ {r} : written'[q] = written[q]
      BY <1>1, <2>2, ArtifactNames DEF Typed
    <3> QED BY <1>1, <1>3, <2>2, <3>1, ArtifactNames DEF Typed, OnlyMoves, Working, Before
  <2> QED BY <1>2, <2>1, <2>2
<1>5. \A q \in Runs \ {r} : pc[q] \notin Working
  BY <1>1 DEF PublishInv, InProgress
<1>6. InProgress'
  <2>1. ASSUME pc'[r] = "writing", NEW i \in 1..written'[r]
        PROVE  temporary'.files[Artifacts[i]].by = r
    <3>1. i \in 1..7 /\ (i = written[r] + 1 \/ i \in 1..written[r])
      BY <1>1, <1>4, <2>1
    <3>2. CASE i \in 1..written[r]
      <4>1. Artifacts[i] # name /\ Artifacts[i] \in Names
        BY <1>1, <3>1, <3>2, ArtifactNames
      <4> QED BY <1>1, <1>3, <3>2, <4>1 DEF PublishInv, InProgress
    <3> QED BY <1>3, <3>1, <3>2
  <2> QED BY <1>3, <1>4, <1>5, <2>1 DEF InProgress, OnlyMoves, Working
<1>7. OneAuthor'
  <2>1. \A other \in Names : temporary'.files[other].by \in {None, r}
    BY <1>1, <1>3 DEF PublishInv, OneAuthor
  <2> QED BY <1>1, <1>3, <2>1 DEF PublishInv, OneAuthor
<1>8. Reported'
  <2>1. ~Published(r) /\ pc'[r] # "reporting" /\ pc'[r] # "exited"
    BY <1>1, <1>4 DEF PublishInv, Reported, Exited, Working
  <2> QED BY <1>1, <1>4, <2>1, ReportedKept DEF PublishInv, Exited
<1>9. LeftoversExplained' /\ RefusedForObstacle'
  BY <1>3, <1>4 DEF LeftoversExplained, RefusedForObstacle, Obstacle, Working
<1> QED BY <1>4, <1>6, <1>7, <1>8, <1>9 DEF PublishInv

\* A run that failed to write leaves nothing, or says that it could not remove it.
LEMMA RemoveKeeps ==
  ASSUME PublishInv, NEW r \in Runs, RemoveAll(r)
  PROVE  PublishInv'
<1>1. /\ pc[r] = "removing" /\ UNCHANGED <<output, written>> /\ Typed
      /\ temporary # None /\ temporary.by = r
  BY DEF RemoveAll, PublishInv, InProgress, Working
<1>2. PICK why \in {"write", "remove"} :
        /\ Exit(r, 3, why)
        /\ IF why = "write" THEN temporary' = None ELSE temporary' = temporary
  BY DEF RemoveAll
<1>3. /\ pc' \in [Runs -> Places] /\ pc'[r] = "exited"
      /\ result'[r].code = 3 /\ result'[r].why = why
      /\ result' = [q \in Runs |-> result'[q]]
      /\ \A q \in Runs \ {r} : pc'[q] = pc[q] /\ result'[q] = result[q]
  BY <1>1, <1>2, Moves
<1>4. Typed' /\ OnlyMoves(r)
  BY <1>1, <1>2, <1>3 DEF Typed, OnlyMoves, Before
<1>5. InProgress'
  BY <1>1, <1>3 DEF PublishInv, InProgress, Working
<1>6. OneAuthor'
  BY <1>1, <1>2 DEF PublishInv, OneAuthor
<1>7. Reported'
  <2>1. ~Published(r)
    BY <1>1 DEF PublishInv, Reported, Exited
  <2> QED BY <1>1, <1>3, <1>4, <2>1, ReportedKept DEF PublishInv, Exited
<1>8. LeftoversExplained' /\ RefusedForObstacle'
  BY <1>1, <1>2, <1>3 DEF LeftoversExplained, RefusedForObstacle, Obstacle
<1> QED BY <1>4, <1>5, <1>6, <1>7, <1>8 DEF PublishInv

\* The rename turns a directory that is whole and of its run into the output.
LEMMA RenameKeeps ==
  ASSUME PublishInv, NEW r \in Runs, Rename(r)
  PROVE  PublishInv'
<1>1. /\ pc[r] = "writing" /\ written[r] = 7 /\ UNCHANGED written /\ Typed
      /\ temporary # None /\ temporary.by = r /\ temporary \in Directories
      /\ \A q \in Runs \ {r} : pc[q] \notin Working
  BY ArtifactNames DEF Rename, PublishInv, InProgress, Working, Typed
<1>2. CASE Exit(r, 3, "rename") /\ UNCHANGED <<output, temporary>>
  <2>1. /\ pc' \in [Runs -> Places] /\ pc'[r] = "exited"
        /\ result'[r].code = 3 /\ result'[r].why = "rename"
        /\ result' = [q \in Runs |-> result'[q]]
        /\ \A q \in Runs \ {r} : pc'[q] = pc[q] /\ result'[q] = result[q]
    BY <1>1, <1>2, Moves
  <2>2. Typed' /\ OnlyMoves(r)
    BY <1>1, <1>2, <2>1 DEF Typed, OnlyMoves, Before
  <2>3. InProgress' /\ OneAuthor'
    BY <1>1, <1>2, <2>1 DEF PublishInv, InProgress, OneAuthor, Working
  <2>4. Reported'
    <3>1. ~Published(r)
      BY <1>1 DEF PublishInv, Reported, Exited
    <3> QED BY <1>2, <2>1, <2>2, <3>1, ReportedKept DEF PublishInv, Exited
  <2>5. LeftoversExplained' /\ RefusedForObstacle'
    BY <1>1, <1>2, <2>1 DEF LeftoversExplained, RefusedForObstacle, Obstacle
  <2> QED BY <2>2, <2>3, <2>4, <2>5 DEF PublishInv
<1>3. CASE output = None /\ output' = temporary /\ temporary' = None /\ Goto(r, "reporting")
  <2>1. /\ pc' \in [Runs -> Places] /\ pc'[r] = "reporting" /\ result' = result
        /\ \A q \in Runs \ {r} : pc'[q] = pc[q]
    BY <1>1, <1>3, Moves DEF Places
  <2>2. Typed'
    BY <1>1, <1>3, <2>1 DEF Typed, Before
  <2>3. InProgress'
    BY <1>1, <2>1 DEF InProgress, Working
  <2>4. OneAuthor'
    BY <1>1, <1>3 DEF PublishInv, OneAuthor
  <2>5. WholeOf(output', r) /\ output' # None /\ output'.by = r
    <3>1. \A i \in 1..7 : temporary.files[Artifacts[i]].by = r
      BY <1>1 DEF PublishInv, InProgress
    <3> QED BY <1>1, <1>3, <3>1, ArtifactNames DEF WholeOf
  <2>6. Reported'
    <3>1. \A q \in Runs : ~Exited(q, 0) /\ pc[q] # "reporting"
      BY <1>3 DEF PublishInv, Reported, Published
    <3>2. \A q \in Runs : ~Exited(q, 0)' /\ (pc'[q] = "reporting" => q = r)
      BY <1>1, <2>1, <3>1 DEF Exited
    <3>3. \A q \in Runs : Published(q)' <=> q = r
      BY <2>5 DEF Published
    <3>4. WholeOf(output, r)'
      BY <2>5 DEF WholeOf
    <3> QED BY <2>1, <3>2, <3>3, <3>4 DEF Reported
  <2>7. LeftoversExplained' /\ RefusedForObstacle'
    BY <1>1, <1>3 DEF LeftoversExplained, RefusedForObstacle, Obstacle
  <2> QED BY <2>2, <2>3, <2>4, <2>6, <2>7 DEF PublishInv
<1> QED BY <1>2, <1>3 DEF Rename, may_rename

\* A run reports what it has published.
LEMMA ReportKeeps ==
  ASSUME PublishInv, NEW r \in Runs, Report(r)
  PROVE  PublishInv'
<1>1. pc[r] = "reporting" /\ UNCHANGED <<output, temporary, written>> /\ Typed /\ Exit(r, 0, "published")
  BY DEF Report, PublishInv
<1>2. /\ pc' \in [Runs -> Places] /\ pc'[r] = "exited"
      /\ result'[r].code = 0 /\ result'[r].why = "published"
      /\ result' = [q \in Runs |-> result'[q]]
      /\ \A q \in Runs \ {r} : pc'[q] = pc[q] /\ result'[q] = result[q]
  BY <1>1, Moves
<1>3. Typed' /\ OnlyMoves(r)
  BY <1>1, <1>2 DEF Typed, OnlyMoves, Before
<1>4. InProgress' /\ OneAuthor'
  BY <1>1, <1>2 DEF PublishInv, InProgress, OneAuthor, Working
<1>5. Published(r) /\ output # None
  BY <1>1 DEF PublishInv, Reported, Published
<1>6. Reported'
  <2>1. \A q \in Runs : /\ Published(q)' <=> Published(q)
                        /\ WholeOf(output, q)' <=> WholeOf(output, q)
    BY <1>1 DEF Published, WholeOf
  <2>2. \A q \in Runs \ {r} : (Exited(q, 0)' <=> Exited(q, 0)) /\ pc'[q] = pc[q]
    BY <1>2 DEF Exited
  <2>3. Exited(r, 0)' /\ pc'[r] # "reporting"
    BY <1>2 DEF Exited
  <2> QED BY <1>5, <2>1, <2>2, <2>3 DEF PublishInv, Reported
<1>7. LeftoversExplained'
  <2>1. temporary # None => temporary.by # r
    BY <1>1 DEF PublishInv, LeftoversExplained
  <2>2. temporary # None => temporary.by \in Runs
    BY <1>1 DEF Typed, Directories
  <2> QED BY <1>1, <1>2, <2>1, <2>2 DEF PublishInv, LeftoversExplained
<1>8. RefusedForObstacle'
  BY <1>1, <1>5 DEF RefusedForObstacle, Obstacle
<1> QED BY <1>3, <1>4, <1>6, <1>7, <1>8 DEF PublishInv

\* A kill leaves everything where it is.
LEMMA KillKeeps ==
  ASSUME PublishInv, NEW r \in Runs, Kill(r)
  PROVE  PublishInv'
<1>1. pc[r] \notin Over /\ UNCHANGED <<output, temporary, written>> /\ Typed /\ Goto(r, "killed")
  BY DEF Kill, PublishInv, Over
<1>2. CASE pc[r] \in Before
  BY <1>1, <1>2, QuietStep
<1>3. CASE pc[r] \in Working \cup {"reporting"}
  <2>1. /\ pc' \in [Runs -> Places] /\ pc'[r] = "killed" /\ result' = result
        /\ \A q \in Runs \ {r} : pc'[q] = pc[q]
    BY <1>1, Moves DEF Places, Over
  <2>2. Typed' /\ OnlyMoves(r)
    BY <1>1, <2>1 DEF Typed, OnlyMoves, Before
  <2>3. InProgress' /\ OneAuthor'
    BY <1>1, <2>1 DEF PublishInv, InProgress, OneAuthor, Working
  <2>4. Reported'
    BY <1>1, <2>1, <2>2, ReportedKept DEF PublishInv, Exited
  <2>5. LeftoversExplained'
    <3>1. temporary # None => temporary.by \in Runs
      BY <1>1 DEF Typed, Directories
    <3> QED BY <1>1, <2>1, <3>1 DEF PublishInv, LeftoversExplained
  <2>6. RefusedForObstacle'
    BY <2>1 DEF RefusedForObstacle, Obstacle
  <2> QED BY <2>2, <2>3, <2>4, <2>5, <2>6 DEF PublishInv
<1> QED BY <1>1, <1>2, <1>3 DEF Typed, Places

\* Every step of a run keeps the invariant.
LEMMA RunKeeps ==
  ASSUME PublishInv, NEW r \in Runs, Run(r)
  PROVE  PublishInv'
<1>1. CASE Start(r)
  <2>1. pc[r] \in Before /\ "feeding" \in Before
    BY <1>1 DEF Start, Before
  <2>2. \A code \in {2, 3} : code # 0
    OBVIOUS
  <2> QED BY <1>1, <2>1, <2>2, QuietStep DEF Start
<1>2. CASE NextChunk(r)
  <2>1. pc[r] \in Before
    BY <1>2 DEF NextChunk, Before
  <2> QED BY <1>2, <2>1, QuietStep DEF NextChunk
<1>3. CASE NextFact(r)
  <2>1. pc[r] \in Before
    BY <1>3 DEF NextFact, Before
  <2>2. \/ UNCHANGED <<pc, result>>
        \/ Exit(r, 4, "malformed")
        \/ Exit(r, 4, "refused")
    BY <1>3 DEF NextFact
  <2> QED BY <1>3, <2>1, <2>2, QuietStep DEF NextFact
<1>4. CASE Finish(r)
  <2>1. pc[r] \in Before /\ "check_output" \in Before
    BY <1>4 DEF Finish, Before
  <2> QED BY <1>4, <2>1, QuietStep DEF Finish
<1>5. CASE CheckOutput(r)
  <2>1. pc[r] \in Before /\ "check_temporary" \in Before
    BY <1>5 DEF CheckOutput, Before
  <2> QED BY <1>5, <2>1, QuietStep DEF CheckOutput
<1>6. CASE CheckTemporary(r)
  <2>1. pc[r] \in Before /\ "create" \in Before
    BY <1>6 DEF CheckTemporary, Before
  <2> QED BY <1>6, <2>1, QuietStep DEF CheckTemporary
<1> QED BY <1>1, <1>2, <1>3, <1>4, <1>5, <1>6, CreateKeeps, WriteKeeps, RemoveKeeps,
           RenameKeeps, ReportKeeps DEF Run

\* The invariant of the files and the exit codes, for any number of runs.
THEOREM Publishing == CliSpec => []PublishInv
<1>1. ASSUME CliInit PROVE PublishInv
  <2>1. Typed
    BY <1>1, ArtifactNames DEF CliInit, Typed, Places, Before
  <2>2. InProgress /\ OneAuthor /\ Reported /\ LeftoversExplained /\ RefusedForObstacle
    BY <1>1 DEF CliInit, InProgress, OneAuthor, Reported, LeftoversExplained,
               RefusedForObstacle, Working, Exited, Published
  <2> QED BY <2>1, <2>2 DEF PublishInv
<1>2. PublishInv /\ [CliNext]_cli_vars => PublishInv'
  <2> SUFFICES ASSUME PublishInv, [CliNext]_cli_vars PROVE PublishInv'
    OBVIOUS
  <2>1. CASE UNCHANGED cli_vars
    BY <2>1 DEF cli_vars, PublishInv, Typed, InProgress, OneAuthor, Reported, LeftoversExplained,
               RefusedForObstacle, Obstacle, WholeOf, Exited, Published
  <2>2. CASE CliNext
    BY <2>1, <2>2, RunKeeps, KillKeeps DEF CliNext, AllEnded
  <2> QED BY <2>1, <2>2
<1> QED BY <1>1, <1>2, PTL DEF CliSpec

\* No file of the output or of the temporary directory is of another run than the one
\* that made it, whatever the runs do to each other.
THEOREM OneAuthorAlways == CliSpec => []OneAuthor
<1>1. PublishInv => OneAuthor
  BY DEF PublishInv
<1> QED BY <1>1, Publishing, PTL

\* A run that exits with 0 has published all its artifacts, and a run whose output is
\* there says so unless it is killed first.
THEOREM ExitAlwaysTellsOutput == CliSpec => []ExitTellsOutput
<1>1. PublishInv => ExitTellsOutput
  BY DEF PublishInv, Reported, ExitTellsOutput, WholeOf
<1> QED BY <1>1, Publishing, PTL

\* What is left of a run is left by one at work, killed, or refused by the file system.
THEOREM LeftoversAlwaysExplained == CliSpec => []LeftoversExplained
<1>1. PublishInv => LeftoversExplained
  BY DEF PublishInv
<1> QED BY <1>1, Publishing, PTL

\* A run is refused only for one that published, is under way, was killed or failed for
\* a reason of its own.
THEOREM AlwaysRefusedForAnother == CliSpec => []RefusedForAnother
<1>1. PublishInv => RefusedForAnother
  BY DEF PublishInv, RefusedForObstacle, Obstacle, RefusedForAnother, Working
<1> QED BY <1>1, Publishing, PTL

----------------------------------------------------------------------------
(* Facts *)

Fact == {"good", "malformed", "refused"}
Fed(r) == /\ facts[r] = [i \in 1..offset[r] |-> i]
          /\ \A i \in 1..offset[r] : input[r][i] = "good"

\* A run that goes on has fed every fact it has read, and all of them past feeding.
FeedInv ==
  /\ input \in [Runs -> Seq(Fact)]
  /\ offset \in [Runs -> Nat] /\ facts = [r \in Runs |-> facts[r]]
  /\ \A r \in Runs :
       /\ pc[r] \notin Over => Fed(r) /\ offset[r] <= Len(input[r])
       /\ pc[r] \notin Over \cup {"start", "feeding"} => done(r)
       /\ Published(r) => Fed(r) /\ done(r)

\* Counting goes on where it stopped.
LEMMA CountAppends ==
  ASSUME NEW n \in Nat
  PROVE  Append([i \in 1..n |-> i], n + 1) = [i \in 1..n + 1 |-> i]
<1> DEFINE s == [i \in 1..n |-> i]
           t == [i \in 1..n + 1 |-> i]
<1>1. s \in Seq(Nat) /\ Len(s) = n /\ t \in Seq(Nat) /\ Len(t) = n + 1
  <2>1. \A m \in Nat : [i \in 1..m |-> i] \in [1..m -> Nat]
    OBVIOUS
  <2> QED BY <2>1
<1>2. /\ Append(s, n + 1) \in Seq(Nat) /\ Len(Append(s, n + 1)) = n + 1
      /\ \A i \in 1..n : Append(s, n + 1)[i] = s[i]
      /\ Append(s, n + 1)[n + 1] = n + 1
  BY <1>1, AppendProperties
<1>3. \A i \in 1..n + 1 : i \in 1..n \/ i = n + 1
  OBVIOUS
<1>4. \A i \in 1..n + 1 : Append(s, n + 1)[i] = t[i]
  BY <1>2, <1>3
<1> HIDE DEF s, t
<1>5. Append(s, n + 1) = t
  BY <1>1, <1>2, <1>4, SeqEqual
<1> QED BY <1>5 DEF s, t

\* A fact that is good is fed; another one ends the run.
LEMMA FactFeeds ==
  ASSUME PublishInv, FeedInv, NEW r \in Runs, NextFact(r)
  PROVE  FeedInv'
<1> DEFINE fact == input[r][offset[r] + 1]
<1>1. /\ pc[r] = "feeding" /\ ~done(r) /\ Fed(r) /\ offset[r] <= Len(input[r])
      /\ offset[r] \in Nat /\ Len(input[r]) \in Nat /\ input[r] \in Seq(Fact)
      /\ UNCHANGED <<input, output>> /\ Typed
  <2>1. pc[r] = "feeding" /\ ~done(r) /\ UNCHANGED <<input, output>>
    BY DEF NextFact
  <2>2. input[r] \in Seq(Fact) /\ offset[r] \in Nat
    BY DEF FeedInv
  <2>3. Len(input[r]) \in Nat
    BY <2>2, LenProperties
  <2> QED BY <2>1, <2>2, <2>3 DEF FeedInv, Over, PublishInv
<1>2. /\ offset' \in [Runs -> Nat] /\ offset'[r] = offset[r] + 1
      /\ \A q \in Runs \ {r} : offset'[q] = offset[q]
  BY <1>1 DEF NextFact, FeedInv
<1>3. offset[r] + 1 \in 1..Len(input[r]) /\ fact \in Fact
  <2>1. offset[r] + 1 \in 1..Len(input[r])
    BY <1>1 DEF done
  <2> QED BY <1>1, <2>1, ElementOfSeq
<1>4. facts' = [q \in Runs |-> facts'[q]] /\ \A q \in Runs \ {r} : facts'[q] = facts[q]
  BY DEF NextFact, FeedInv
<1>5. \/ /\ pc'[r] = "exited" /\ \A q \in Runs \ {r} : pc'[q] = pc[q]
      \/ /\ UNCHANGED pc /\ fact = "good" /\ facts'[r] = Append(facts[r], offset[r] + 1)
  <2>1. CASE Exit(r, 4, fact)
    BY <1>1, <2>1, Moves
  <2>2. CASE ~Exit(r, 4, fact)
    <3>1. UNCHANGED pc /\ fact = "good"
      BY <1>3, <2>2 DEF NextFact, Fact
    <3>2. facts'[r] = Append(facts[r], offset[r] + 1)
      BY <1>3, <3>1 DEF NextFact, FeedInv
    <3> QED BY <3>1, <3>2
  <2> QED BY <2>1, <2>2
<1>6. ASSUME NEW q \in Runs \ {r}
      PROVE  /\ pc'[q] = pc[q] /\ (Fed(q)' <=> Fed(q)) /\ (done(q)' <=> done(q))
             /\ Published(q)' <=> Published(q)
             /\ offset'[q] = offset[q] /\ input' = input
  BY <1>1, <1>2, <1>4, <1>5 DEF Fed, done, Published
<1>7. pc'[r] # "exited" => pc'[r] = "feeding" /\ Fed(r)' /\ offset'[r] <= Len(input'[r])
  <2> SUFFICES ASSUME pc'[r] # "exited"
               PROVE  pc'[r] = "feeding" /\ Fed(r)' /\ offset'[r] <= Len(input'[r])
    OBVIOUS
  <2>1. fact = "good" /\ facts'[r] = Append(facts[r], offset[r] + 1) /\ pc'[r] = "feeding"
    BY <1>1, <1>5
  <2>2. facts'[r] = [i \in 1..offset[r] + 1 |-> i]
    BY <1>1, <2>1, CountAppends DEF Fed
  <2>3. \A i \in 1..offset[r] + 1 : input[r][i] = "good"
    <3>1. \A i \in 1..offset[r] + 1 : i \in 1..offset[r] \/ i = offset[r] + 1
      BY <1>1
    <3> QED BY <1>1, <2>1, <3>1 DEF Fed
  <2> QED BY <1>1, <1>2, <1>3, <2>1, <2>2, <2>3 DEF Fed
<1>8. ~Published(r)'
  BY <1>1 DEF Published, PublishInv, Reported, Exited
<1>9. ASSUME NEW q \in Runs
      PROVE  /\ pc'[q] \notin Over => Fed(q)' /\ offset'[q] <= Len(input'[q])
             /\ pc'[q] \notin Over \cup {"start", "feeding"} => done(q)'
             /\ Published(q)' => Fed(q)' /\ done(q)'
  <2>1. CASE q = r
    BY <1>7, <1>8, <2>1 DEF Over
  <2>2. CASE q # r
    BY <1>6, <2>2 DEF FeedInv
  <2> QED BY <2>1, <2>2
<1> QED BY <1>1, <1>2, <1>4, <1>9 DEF FeedInv

\* A step that feeds no fact leaves the facts as they are.
LEMMA OthersFeed ==
  ASSUME FeedInv, NEW r \in Runs, UNCHANGED <<input, offset, facts>>,
         \A q \in Runs \ {r} : pc'[q] = pc[q],
         pc'[r] \notin Over => pc[r] \notin Over,
         pc'[r] \notin Over \cup {"start", "feeding"} => done(r),
         \A q \in Runs : Published(q)' => Published(q) \/ (q = r /\ Fed(r) /\ done(r))
  PROVE  FeedInv'
<1>1. \A q \in Runs : /\ Fed(q)' <=> Fed(q)
                      /\ done(q)' <=> done(q)
                      /\ offset'[q] = offset[q] /\ input'[q] = input[q]
  BY DEF Fed, done
<1>2. ASSUME NEW q \in Runs
      PROVE  /\ pc'[q] \notin Over => Fed(q)' /\ offset'[q] <= Len(input'[q])
             /\ pc'[q] \notin Over \cup {"start", "feeding"} => done(q)'
             /\ Published(q)' => Fed(q)' /\ done(q)'
  BY <1>1 DEF FeedInv
<1> QED BY <1>2 DEF FeedInv

\* Every step of a run keeps what it fed.
LEMMA RunFeeds ==
  ASSUME PublishInv, FeedInv, NEW r \in Runs, Run(r) \/ Kill(r)
  PROVE  FeedInv'
<1>1. CASE NextFact(r)
  BY <1>1, FactFeeds
<1>2. CASE ~NextFact(r)
  <2>1. UNCHANGED <<input, offset, facts>>
    BY <1>2 DEF Run, Kill, feed_vars, Start, NextChunk, Finish, CheckOutput, CheckTemporary,
                CreateDirectories, WriteArtifact, RemoveAll, Rename, Report
  <2>2. pc[r] \notin Over
    BY <1>2 DEF Run, Kill, Over, Start, NextChunk, Finish, CheckOutput, CheckTemporary,
                CreateDirectories, WriteArtifact, RemoveAll, Rename, Report
  <2>3. \A q \in Runs \ {r} : pc'[q] = pc[q]
    <3>1. \/ UNCHANGED pc
          \/ \E place : pc' = [pc EXCEPT ![r] = place]
      BY <1>2 DEF Run, Kill, Goto, Exit, Start, NextChunk, Finish, CheckOutput, CheckTemporary,
                  CreateDirectories, WriteArtifact, RemoveAll, Rename, Report
    <3> QED BY <3>1 DEF PublishInv, Typed
  <2>4. pc'[r] \notin Over \cup {"start", "feeding"} => done(r)
    <3>1. CASE Start(r)
      BY <3>1 DEF Start, Goto, Exit, PublishInv, Typed, Over
    <3>2. CASE NextChunk(r)
      BY <3>2 DEF NextChunk
    <3>3. CASE Finish(r)
      BY <3>3 DEF Finish
    <3>4. CASE ~(Start(r) \/ NextChunk(r) \/ Finish(r))
      <4>1. pc[r] \notin {"start", "feeding"} \/ pc'[r] \in Over
        BY <1>2, <3>4 DEF Run, Kill, CheckOutput, CheckTemporary, CreateDirectories,
                          WriteArtifact, RemoveAll, Rename, Report, Goto, PublishInv, Typed, Over
      <4> QED BY <2>2, <4>1 DEF FeedInv
    <3> QED BY <3>1, <3>2, <3>3, <3>4
  <2>5. \A q \in Runs : Published(q)' => Published(q) \/ (q = r /\ Fed(r) /\ done(r))
    <3>1. CASE output' = output
      BY <3>1 DEF Published
    <3>2. CASE output' # output
      <4>1. Rename(r) /\ output' = temporary /\ pc[r] = "writing"
        BY <1>2, <3>2 DEF Run, Kill, Start, NextChunk, Finish, CheckOutput, CheckTemporary,
                          CreateDirectories, WriteArtifact, RemoveAll, Rename, Report
      <4>2. temporary.by = r /\ Fed(r) /\ done(r)
        BY <4>1 DEF PublishInv, InProgress, Working, FeedInv, Over
      <4> QED BY <4>1, <4>2 DEF Published
    <3> QED BY <3>1, <3>2
  <2> QED BY <2>1, <2>2, <2>3, <2>4, <2>5, OthersFeed
<1> QED BY <1>1, <1>2

\* What is published comes from every fact of the input, in order and each once, and
\* from no input with a bad fact, for every input and every size of chunk.
THEOREM EveryFactAlwaysApplied == CliSpec => []EveryFactApplied
<1>1. ASSUME CliInit PROVE FeedInv
  <2>1. Inputs \subseteq Seq(Fact)
    BY CliAssumption DEF Fact
  <2>2. input \in [Runs -> Seq(Fact)]
    BY <1>1, <2>1 DEF CliInit
  <2>3. \A r \in Runs : Len(input[r]) \in Nat
    BY <2>2, LenProperties
  <2>4. <<>> = [i \in 1..0 |-> i]
    OBVIOUS
  <2>5. \A r \in Runs : Fed(r) /\ pc[r] = "start" /\ ~Published(r) /\ offset[r] <= Len(input[r])
    <3>1. \A r \in Runs : offset[r] = 0 /\ facts[r] = <<>> /\ pc[r] = "start" /\ output = None
      BY <1>1 DEF CliInit
    <3>2. ASSUME NEW r \in Runs
          PROVE  Fed(r) /\ ~Published(r) /\ offset[r] <= Len(input[r])
      <4>1. offset[r] = 0 /\ facts[r] = <<>> /\ output = None /\ Len(input[r]) \in Nat
        BY <2>3, <3>1
      <4>2. [i \in 1..offset[r] |-> i] = <<>> /\ \A i \in 1..offset[r] : FALSE
        BY <2>4, <4>1
      <4>3. Fed(r)
        BY <4>1, <4>2 DEF Fed
      <4>4. offset[r] <= Len(input[r])
        BY <4>1
      <4> QED BY <4>1, <4>3, <4>4 DEF Published
    <3> QED BY <3>1, <3>2
  <2>6. /\ offset \in [Runs -> Nat] /\ facts = [r \in Runs |-> facts[r]]
        /\ \A r \in Runs : pc[r] \in {"start", "feeding"}
    BY <1>1, <2>5 DEF CliInit
  <2> QED BY <2>2, <2>5, <2>6 DEF FeedInv
<1>2. PublishInv /\ FeedInv /\ [CliNext]_cli_vars => FeedInv'
  <2> SUFFICES ASSUME PublishInv, FeedInv, [CliNext]_cli_vars PROVE FeedInv'
    OBVIOUS
  <2>1. CASE UNCHANGED cli_vars
    BY <2>1 DEF cli_vars, feed_vars, FeedInv, Fed, done, Published
  <2>2. CASE CliNext
    BY <2>1, <2>2, RunFeeds DEF CliNext, AllEnded
  <2> QED BY <2>1, <2>2
<1>3. FeedInv => EveryFactApplied
  <2> SUFFICES ASSUME FeedInv, NEW r \in Runs, Published(r)
               PROVE  /\ facts[r] = [i \in 1..Len(input[r]) |-> i]
                      /\ \A i \in DOMAIN input[r] : input[r][i] = "good"
    BY DEF EveryFactApplied
  <2>1. Fed(r) /\ offset[r] = Len(input[r]) /\ DOMAIN input[r] = 1..Len(input[r])
    BY LenProperties DEF FeedInv, done
  <2> QED BY <2>1 DEF Fed
<1> QED BY <1>1, <1>2, <1>3, Publishing, PTL DEF CliSpec
=============================================================================

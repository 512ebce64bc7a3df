----------------------- MODULE IncrementalBuildProofs -----------------------
(***************************************************************************)
(* Proofs about IncrementalBuild, for any files, programs, jobs and edits  *)
(* that satisfy the assumptions of Programs and IncrementalBuild.          *)
(***************************************************************************)
EXTENDS IncrementalBuild, TLAPS

-----------------------------------------------------------------------------
(***************************************************************************)
(* Trees and tables.                                                       *)
(***************************************************************************)

\* A tree is a function from files to nodes.
LEMMA TreeIsFunction ==
    ASSUME NEW s \in FS
    PROVE  s \in [File -> Node]
BY DEF FS

\* hash_file yields a hash for whatever is found under a name, and neither
\* nil nor true is one.
LEMMA HashFileType ==
    /\ \A n \in Node : HashFile(n) \in Hash
    /\ Nil \notin Hash /\ Unhashed \notin Hash /\ Nil # Unhashed
BY DEF Hash, HashFile, Nil, Unhashed

\* Different contents, a missing file and a directory have different hashes.
LEMMA HashFileInjective ==
    ASSUME NEW m \in Node, NEW n \in Node, HashFile(m) = HashFile(n)
    PROVE  m = n
<1>1. \A k \in Node : k \notin {Absent, Dir} => HashFile(k) = <<"digest", k>>
  BY DEF HashFile
<1>2. HashFile(Absent) = <<"error", "missing">>
  BY FileAssumption DEF HashFile
<1>3. HashFile(Dir) = <<"error", "irregular">>
  BY FileAssumption DEF HashFile
<1>4. CASE m \in {Absent, Dir} /\ n \in {Absent, Dir}
  BY <1>2, <1>3, <1>4
<1>5. CASE m \notin {Absent, Dir} /\ n \notin {Absent, Dir}
  BY <1>1, <1>5
<1>6. CASE m \in {Absent, Dir} /\ n \notin {Absent, Dir}
  BY <1>1, <1>2, <1>3, <1>6
<1>7. CASE m \notin {Absent, Dir} /\ n \in {Absent, Dir}
  BY <1>1, <1>2, <1>3, <1>7
<1>. QED
  BY <1>4, <1>5, <1>6, <1>7

\* Deleting a file, or a directory nothing is left in, leaves a tree: what
\* os.remove and dir_remove do in autoclean.
LEMMA RemovedType ==
    ASSUME NEW s \in FS, NEW f \in File
    PROVE  Removed(f, s) \in FS
<1>1. s \in [File -> Node] /\ WellFormed(s)
  BY DEF FS
<1>2. CASE CanRemove(f, s)
  <2>. DEFINE t == [s EXCEPT ![f] = Absent]
  <2>1. t \in [File -> Node]
    BY <1>1 DEF Node
  <2>2. WellFormed(t)
    BY <1>1, <1>2, FileAssumption DEF WellFormed, CanRemove
  <2>. QED
    BY <1>2, <2>1, <2>2 DEF Removed, FS
<1>3. CASE ~CanRemove(f, s)
  BY <1>3 DEF Removed
<1>. QED
  BY <1>2, <1>3

\* update_deps_io keeps a table a table.
LEMMA UpdateDepsIOType ==
    ASSUME NEW io \in Table, NEW s \in FS, NEW onlynew \in BOOLEAN
    PROVE  UpdateDepsIO(io, s, onlynew) \in Table
BY TreeIsFunction, HashFileType DEF UpdateDepsIO, Table

\* The records built by check_deps, finish and the end of run are records.
LEMMA CheckedCopyType ==
    ASSUME NEW r \in Record, NEW s \in FS
    PROVE  CheckedCopy(r, s) \in Record
BY UpdateDepsIOType DEF CheckedCopy, Record

\* A record with new hashes is a record.
LEMMA RehashType ==
    ASSUME NEW r \in Record, NEW s \in FS
    PROVE  Rehash(r, s) \in Record
<1>1. UpdateDepsIO(r.input, s, TRUE) \in Table /\ UpdateDepsIO(r.output, s, FALSE) \in Table
  BY UpdateDepsIOType DEF Record
<1>. QED
  BY <1>1 DEF Rehash, Record

\* What is stored after tracing is a record.
LEMMA FinishType ==
    ASSUME NEW d \in Record, NEW t \in Trace
    PROVE  Finish(d, t) \in Record
BY DEF Finish, Record, Table, TableOf

\* The tables buildsh starts with.
LEMMA NoRecordType == NoRecord \in Record /\ NoDependencies \in Dependencies
BY DEF NoRecord, Record, Table, EmptyTable, NoDependencies, Dependencies

\* What is saved can be loaded.
LEMMA SavedType ==
    ASSUME NEW t \in Dependencies
    PROVE  Saved(t) \in Dependencies
BY DEF Saved, Dependencies, Record, Table

-----------------------------------------------------------------------------
(***************************************************************************)
(* Type correctness.                                                       *)
(***************************************************************************)

\* No job.
LEMMA EmptyJobType == <<>> \in Seq(Cmd \cup {Clean})
OBVIOUS

\* Where the locals are given up and where the process ends, types are kept.
LEMMA ResetType ==
    ASSUME TypeOK, Leave \/ Gone
    PROVE  /\ job' \in Seq(Cmd \cup {Clean}) /\ pos' \in Nat \ {0}
           /\ deps' \in Record /\ td' \in Trace
           /\ rest' \subseteq File /\ refused' \subseteq File
           /\ pc' \in {"exit", "idle"} /\ exec_handler' \in BOOLEAN
<1>1. job' \in Seq(Cmd \cup {Clean})
  BY EmptyJobType DEF Leave, Gone
<1>2. deps' \in Record
  BY NoRecordType DEF Leave, Gone
<1>3. td' \in Trace
  BY DEF Leave, Gone, NoTrace, Trace
<1>4. rest' \subseteq File /\ refused' \subseteq File
  BY DEF Leave, Gone
<1>5. pos' \in Nat \ {0} /\ pc' \in {"exit", "idle"}
  BY DEF Leave, Gone
<1>6. exec_handler' \in BOOLEAN
  BY DEF TypeOK, Leave, Gone
<1>. QED
  BY <1>1, <1>2, <1>3, <1>4, <1>5, <1>6

\* The variables keep their types, the programs and edits leave a tree with
\* no file outside a directory, and a running command, its trace and a
\* cleanup always stand at their own position of the job.
THEOREM TypeCorrect == Spec => []TypeOK
<1>1. Init => TypeOK
  <2>. SUFFICES ASSUME Init
                PROVE  TypeOK
    OBVIOUS
  <2>1. job \in Seq(Cmd \cup {Clean})
    BY EmptyJobType DEF Init
  <2>2. disk \in Disk /\ dependencies \in Dependencies /\ deps \in Record
    BY NoRecordType DEF Init, NoDisk, Disk
  <2>3. td \in Trace
    BY DEF Init, NoTrace, Trace
  <2>4. fs \in FS /\ rest \subseteq File /\ refused \subseteq File
    BY JobAssumption DEF Init
  <2>5. pc = "idle" /\ pc \in Stages /\ pos \in Nat \ {0}
    BY DEF Init, Stages
  <2>6. /\ dont_save_deps \in BOOLEAN /\ exec_handler \in BOOLEAN
        /\ settled \in {"no", "calm", "yes"}
    BY DEF Init
  <2>. QED
    BY <2>1, <2>2, <2>3, <2>4, <2>5, <2>6 DEF TypeOK
<1>2. TypeOK /\ [Next]_vars => TypeOK'
  <2>. SUFFICES ASSUME TypeOK, [Next]_vars
                PROVE  TypeOK'
    OBVIOUS
  <2>1. CASE Start
    BY <2>1, JobAssumption, NoRecordType
    DEF Start, TypeOK, LoadDeps, Disk, Stages, locals
  <2>2. CASE Skip
    BY <2>2 DEF Skip, AtCmd, Current, TypeOK, Stages, locals
  <2>3. CASE Spawn
    <3>1. dependencies[Current] \in Record
      BY <2>3 DEF Spawn, AtCmd, Current, TypeOK, Dependencies
    <3>2. deps' \in Record
      BY <2>3, <3>1, CheckedCopyType DEF Spawn, TypeOK
    <3>. QED
      BY <2>3, <3>2 DEF Spawn, AtCmd, Current, TypeOK, Stages, process
  <2>4. CASE ChildOK
    <3>1. fs' \in FS
      BY <2>4, ProgramAssumption DEF ChildOK, Current, TypeOK
    <3>2. td' \in Trace /\ deps' \in Record
      BY <2>4, ProgramAssumption, NoRecordType DEF ChildOK, Current, TypeOK, Trace
    <3>. QED
      BY <2>4, <3>1, <3>2 DEF ChildOK, TypeOK, Stages
  <2>5. CASE ChildFail
    <3>1. fs' \in FS
      BY <2>5 DEF ChildFail, Partial
    <3>. QED
      BY <2>5, <3>1, ResetType DEF ChildFail, TypeOK, Stages
  <2>6. CASE StoreRecord
    <3>1. Rehash(Finish(deps, td), fs) \in Record
      BY FinishType, RehashType DEF TypeOK
    <3>2. dependencies' \in Dependencies
      BY <2>6, <3>1 DEF StoreRecord, TypeOK, Dependencies
    <3>3. deps' \in Record /\ td' \in Trace
      BY <2>6, NoRecordType DEF StoreRecord, NoTrace, Trace
    <3>. QED
      BY <2>6, <3>2, <3>3 DEF StoreRecord, TypeOK, Stages
  <2>7. CASE TraceError
    BY <2>7, ResetType DEF TraceError, TypeOK, Stages
  <2>8. CASE Interrupt
    BY <2>8, ResetType DEF Interrupt, Disturbed, TypeOK, Stages
  <2>9. CASE Done
    BY <2>9, ResetType DEF Done, Disturbed, TypeOK, Stages
  <2>10. CASE CleanBegin
    BY <2>10 DEF CleanBegin, CollectOutputs, Entries, TypeOK, Stages, process
  <2>11. CASE CleanStep
    <3>1. fs' \in FS
      BY <2>11, RemovedType DEF CleanStep, TypeOK
    <3>. QED
      BY <2>11, <3>1 DEF CleanStep, TypeOK, process
  <2>12. CASE CleanEnd
    BY <2>12, NoRecordType DEF CleanEnd, NoDisk, Disk, TypeOK, Stages, locals
  <2>13. CASE ExitNoSave
    BY <2>13, ResetType, NoRecordType DEF ExitNoSave, Gone, TypeOK, Stages
  <2>14. CASE SaveBegin
    BY <2>14, NoRecordType DEF SaveBegin, TornDisk, Disk, TypeOK, Stages, process, locals
  <2>15. CASE SaveFail
    BY <2>15, ResetType, NoRecordType DEF SaveFail, Gone, TypeOK, Stages
  <2>16. CASE SaveEnd
    <3>1. disk' \in Disk
      BY <2>16, SavedType DEF SaveEnd, Disk, TypeOK
    <3>. QED
      BY <2>16, <3>1, ResetType, NoRecordType DEF SaveEnd, Gone, TypeOK, Stages
  <2>17. CASE Crash
    <3>1. fs' \in FS
      BY <2>17 DEF Crash, Partial, TypeOK
    <3>. QED
      BY <2>17, <3>1, ResetType, NoRecordType DEF Crash, Gone, TypeOK, Stages
  <2>18. CASE Edit
    <3>1. deps' \in Record
      BY <2>18 DEF Edit, Spoils, TypeOK, Record
    <3>. QED
      BY <2>18, <3>1 DEF Edit, TypeOK, process
  <2>19. CASE UNCHANGED vars
    BY <2>19 DEF vars, process, locals, TypeOK
  <2>. QED
    BY <2>1, <2>2, <2>3, <2>4, <2>5, <2>6, <2>7, <2>8, <2>9, <2>10, <2>11,
       <2>12, <2>13, <2>14, <2>15, <2>16, <2>17, <2>18, <2>19 DEF Next, Step, Mishap
<1>. QED
  BY <1>1, <1>2, PTL DEF Spec

-----------------------------------------------------------------------------
(***************************************************************************)
(* A skipped command would have changed nothing.                           *)
(***************************************************************************)

\* An empty record never allows a command to be skipped.
LEMMA NoRecordValid ==
    /\ \A c \in Cmd : Valid(c, NoRecord)
    /\ Hashed(NoRecord.input) /\ Hashed(NoRecord.output)
    /\ TableValid(NoDependencies)
<1>1. IsEmpty(NoRecord)
  BY DEF IsEmpty, NoRecord, EmptyTable, Entries
<1>2. Hashed(NoRecord.input) /\ Hashed(NoRecord.output)
  BY HashFileType DEF Hashed, NoRecord, EmptyTable
<1>3. \A c \in Cmd : Valid(c, NoRecord)
  BY <1>1 DEF Valid, RunIt
<1>. QED
  BY <1>2, <1>3 DEF TableValid, NoDependencies

\* The copy made by check_deps holds the current hashes of all old inputs,
\* because update_deps_io does not stop at the first difference.
LEMMA CheckedCopyFresh ==
    ASSUME NEW r \in Record, NEW s \in FS
    PROVE  /\ Hashed(CheckedCopy(r, s).input)
           /\ \A f \in File : CheckedCopy(r, s).input[f] # Nil
                                => CheckedCopy(r, s).input[f] = HashFile(s[f])
<1>1. \A f \in File : s[f] \in Node
  BY TreeIsFunction
<1>2. \A f \in File : CheckedCopy(r, s).input[f] \in {Nil, HashFile(s[f])}
  BY DEF CheckedCopy, UpdateDepsIO
<1>. QED
  BY <1>1, <1>2, HashFileType DEF Hashed

\* What is stored for a command whose run is faithfully traced is valid.
LEMMA StoredValid ==
    ASSUME TypeOK, NEW c \in Cmd, Hashed(deps.input)
    PROVE  LET r == Rehash(Finish(deps, td), fs)
           IN  /\ Hashed(r.input) /\ Hashed(r.output)
               /\ (~deps.raced => \E s \in FS : RanFrom(c, s)) => Valid(c, r)
<1>. DEFINE r == Rehash(Finish(deps, td), fs)
<1>1. \A f \in File : fs[f] \in Node
  BY TreeIsFunction DEF TypeOK
<1>2. \A f \in File : r.input[f] =
        IF f \in td.input
          THEN IF deps.input[f] = Nil THEN HashFile(fs[f]) ELSE deps.input[f]
          ELSE Nil
  <2>1. r.input = UpdateDepsIO(Finish(deps, td).input, fs, TRUE)
    BY DEF Rehash, Finish
  <2>. QED
    BY <2>1, HashFileType DEF UpdateDepsIO, Finish, Hashed
<1>3. \A f \in File : r.output[f] = IF f \in td.output THEN HashFile(fs[f]) ELSE Nil
  <2>1. r.output = UpdateDepsIO(TableOf(td.output), fs, FALSE)
    BY DEF Rehash, Finish
  <2>. QED
    BY <2>1, HashFileType DEF UpdateDepsIO, TableOf
<1>4. Hashed(r.input) /\ Hashed(r.output)
  BY <1>1, <1>2, <1>3, HashFileType DEF Hashed
<1>5. ASSUME ~deps.raced => \E s \in FS : RanFrom(c, s),
             ~r.raced, NEW t \in FS, ~RunIt(r, t)
      PROVE  Succeeds(c, t) /\ Effect(c, t) = t
  <2>1. ~deps.raced
    BY <1>5 DEF Rehash, Finish
  <2>2. PICK s \in FS : RanFrom(c, s)
    BY <1>5, <2>1
  <2>3. /\ Reads(c, s) \subseteq File /\ Writes(c, s) \subseteq File
        /\ Effect(c, s) \in FS
    BY <2>2, ProgramAssumption DEF RanFrom
  <2>4. td.input = Reads(c, s) /\ td.output = Writes(c, s)
    BY <2>2 DEF RanFrom
  <2>5. \A f \in File : s[f] \in Node /\ t[f] \in Node /\ Effect(c, s)[f] \in Node
    BY <2>3, TreeIsFunction
  <2>6. Agree(s, t, Reads(c, s))
    <3>1. ASSUME NEW f \in Reads(c, s)
          PROVE  r.input[f] = HashFile(s[f]) /\ r.input[f] # Nil
      BY <1>2, <2>2, <2>3, <2>4, <2>5, HashFileType DEF RanFrom
    <3>2. ASSUME NEW f \in Reads(c, s)
          PROVE  r.input[f] = HashFile(t[f])
      BY <1>5, <2>3, <3>1 DEF RunIt, Differ
    <3>. QED
      BY <2>3, <2>5, <3>1, <3>2, HashFileInjective DEF Agree
  <2>7. Agree(Effect(c, s), t, Writes(c, s))
    <3>1. ASSUME NEW f \in Writes(c, s)
          PROVE  r.output[f] = HashFile(Effect(c, s)[f]) /\ r.output[f] # Nil
      BY <1>3, <2>2, <2>3, <2>4, <2>5, HashFileType DEF RanFrom
    <3>2. ASSUME NEW f \in Writes(c, s)
          PROVE  r.output[f] = HashFile(t[f])
      BY <1>5, <2>3, <3>1 DEF RunIt, Differ
    <3>. QED
      BY <2>3, <2>5, <3>1, <3>2, HashFileInjective DEF Agree
  <2>8. ~Untraceable(c, s)
    <3>1. Untraceable(c, s) => IsEmpty(r)
      BY <1>2, <1>3, <2>4 DEF Untraceable, IsEmpty, Entries
    <3>. QED
      BY <1>5, <3>1 DEF RunIt
  <2>9. Succeeds(c, s)
    BY <2>2 DEF RanFrom
  <2>. QED
    BY <2>6, <2>7, <2>8, <2>9, ProgramAssumption
<1>. QED
  BY <1>4, <1>5 DEF Valid

\* What save_deps writes is what is in memory.
LEMMA SavedIsSame ==
    ASSUME NEW t \in Dependencies, TableValid(t)
    PROVE  Saved(t) = t
<1>1. ASSUME NEW c \in Cmd
      PROVE  Saved(t)[c] = t[c]
  BY HashFileType, ZenonT(30) DEF Saved, TableValid, Hashed, Dependencies, Record, Table
<1>. QED
  BY <1>1 DEF Saved, Dependencies

IInv == TypeOK /\ RecordsValid

\* With the tables unchanged and no command under way nothing can be spoiled.
LEMMA TablesUnchanged ==
    ASSUME IInv, pc' \notin {"run", "trace"},
           dependencies' \in {dependencies, NoDependencies},
           disk' \in {disk, NoDisk, TornDisk}
    PROVE  RecordsValid'
BY NoRecordValid
DEF IInv, RecordsValid, CopyFresh, TraceFaithful, NoDisk, TornDisk, TableValid, Valid, Hashed

\* Records in memory and on disk are valid in every reachable state.
THEOREM AllRecordsValid == Spec => []RecordsValid
<1>1. Init => RecordsValid
  BY NoRecordValid DEF Init, RecordsValid, CopyFresh, TraceFaithful, NoDisk
<1>2. IInv /\ TypeOK' /\ [Next]_vars => RecordsValid'
  <2>. SUFFICES ASSUME IInv, TypeOK', [Next]_vars
                PROVE  RecordsValid'
    OBVIOUS
  <2>. USE DEF IInv
  <2>1. CASE Start
    BY <2>1, NoRecordValid DEF Start, LoadDeps, RecordsValid, CopyFresh, TraceFaithful
  <2>2. CASE Skip
    BY <2>2, TablesUnchanged DEF Skip, AtCmd
  <2>3. CASE Spawn
    <3>1. dependencies[Current] \in Record
      BY <2>3 DEF Spawn, AtCmd, Current, TypeOK, Dependencies
    <3>2. CopyFresh'
      BY <2>3, <3>1, CheckedCopyFresh DEF Spawn, CopyFresh, TypeOK
    <3>. QED
      BY <2>3, <3>2 DEF Spawn, RecordsValid, TraceFaithful
  <2>4. CASE ChildOK
    <3>1. CASE exec_handler
      <4>1. Hashed(deps.input)
        BY <2>4 DEF ChildOK, RecordsValid, CopyFresh
      <4>2. PICK s \in FS : s = fs
        BY DEF TypeOK
      <4>3. Current' = Current /\ deps' = deps /\ Current \in Cmd
        BY <2>4, <3>1 DEF ChildOK, Current, TypeOK
      <4>4. /\ Reads(Current, s) \subseteq File /\ Writes(Current, s) \subseteq File
            /\ Reads(Current, s) \cap Writes(Current, s) = {}
            /\ Succeeds(Current, s)
        BY <2>4, <4>2, <4>3, ProgramAssumption DEF ChildOK
      <4>5. /\ fs' = Effect(Current, s)
            /\ td' = [input |-> Reads(Current, s), output |-> Writes(Current, s)]
        BY <2>4, <3>1, <4>2 DEF ChildOK
      <4>6. ASSUME ~deps.raced
            PROVE  RanFrom(Current, s)'
        <5>1. \A f \in File : deps.input[f] # Nil => deps.input[f] = HashFile(s[f])
          BY <2>4, <4>2, <4>6 DEF ChildOK, RecordsValid, CopyFresh
        <5>2. \A f \in Reads(Current, s) : Effect(Current, s)[f] = s[f]
          BY <4>4 DEF Effect
        <5>. QED
          BY <4>3, <4>4, <4>5, <5>1, <5>2 DEF RanFrom
      <4>. QED
        BY <2>4, <3>1, <4>1, <4>3, <4>6 DEF ChildOK, RecordsValid, CopyFresh, TraceFaithful
    <3>2. CASE ~exec_handler
      BY <2>4, <3>2, TablesUnchanged DEF ChildOK
    <3>. QED
      BY <3>1, <3>2
  <2>5. CASE ChildFail
    BY <2>5, TablesUnchanged DEF ChildFail, Leave
  <2>6. CASE StoreRecord
    <3>. DEFINE r == Rehash(Finish(deps, td), fs)
    <3>1. Current \in Cmd /\ TraceFaithful /\ TableValid(dependencies)
      BY <2>6 DEF StoreRecord, TypeOK, Current, RecordsValid
    <3>2. Valid(Current, r) /\ Hashed(r.input) /\ Hashed(r.output)
      BY <2>6, <3>1, StoredValid DEF StoreRecord, TraceFaithful
    <3>3. \A c \in Cmd : dependencies'[c] = IF c = Current THEN r ELSE dependencies[c]
      BY <2>6, <3>1 DEF StoreRecord, TypeOK, Dependencies
    <3>4. TableValid(dependencies')
      BY <3>1, <3>2, <3>3 DEF TableValid
    <3>. QED
      BY <2>6, <3>4 DEF StoreRecord, RecordsValid, CopyFresh, TraceFaithful
  <2>7. CASE TraceError
    BY <2>7, TablesUnchanged DEF TraceError, Leave
  <2>8. CASE Interrupt
    BY <2>8, TablesUnchanged DEF Interrupt, Leave
  <2>9. CASE Done
    BY <2>9, TablesUnchanged DEF Done, Leave
  <2>10. CASE CleanBegin
    BY <2>10, TablesUnchanged DEF CleanBegin
  <2>11. CASE CleanStep
    BY <2>11, TablesUnchanged DEF CleanStep
  <2>12. CASE CleanEnd
    BY <2>12, TablesUnchanged DEF CleanEnd
  <2>13. CASE ExitNoSave
    BY <2>13, TablesUnchanged DEF ExitNoSave, Gone
  <2>14. CASE SaveBegin
    BY <2>14, TablesUnchanged DEF SaveBegin
  <2>15. CASE SaveFail
    BY <2>15, TablesUnchanged DEF SaveFail, Gone
  <2>16. CASE SaveEnd
    <3>1. disk'.table = dependencies
      BY <2>16, SavedIsSame DEF SaveEnd, RecordsValid, TypeOK
    <3>. QED
      BY <2>16, <3>1, NoRecordValid
      DEF SaveEnd, Gone, RecordsValid, CopyFresh, TraceFaithful
  <2>17. CASE Crash
    BY <2>17, TablesUnchanged DEF Crash, Gone
  <2>18. CASE Edit
    <3>1. TableValid(dependencies') /\ TableValid(disk'.table)
      BY <2>18 DEF Edit, RecordsValid
    <3>2. PICK e \in UserEdits :
            /\ fs' = [fs EXCEPT ![e[1]] = e[2]]
            /\ deps' = [deps EXCEPT !.raced = @ \/ Spoils(e[1])]
      BY <2>18 DEF Edit
    <3>3. fs \in [File -> Node] /\ deps \in Record
      BY TreeIsFunction DEF TypeOK
    <3>4. /\ deps'.input = deps.input
          /\ ~deps'.raced => ~deps.raced /\ ~Spoils(e[1])
      BY <3>2, <3>3 DEF Record
    <3>5. \A f \in File : f # e[1] => fs'[f] = fs[f]
      BY <3>2, <3>3
    <3>6. CopyFresh'
      BY <2>18, <3>4, <3>5 DEF Edit, RecordsValid, CopyFresh, Spoils, Hashed
    <3>7. TraceFaithful'
      <4>1. CASE pc = "trace" /\ ~deps'.raced
        <5>1. PICK s \in FS : RanFrom(Current, s)
          BY <3>4, <4>1 DEF RecordsValid, TraceFaithful
        <5>2. Reads(Current, s) \subseteq File /\ Writes(Current, s) \subseteq File
          BY <4>1, <5>1, ProgramAssumption DEF RanFrom, TypeOK, Current
        <5>3. td' = td /\ Current' = Current /\ pc' = pc
          BY <2>18 DEF Edit, Current, process
        <5>4. /\ td.input = Reads(Current, s) /\ td.output = Writes(Current, s)
              /\ ~Spoils(e[1])
          BY <3>4, <4>1, <5>1 DEF RanFrom
        <5>5. RanFrom(Current, s)'
          BY <3>4, <3>5, <4>1, <5>1, <5>2, <5>3, <5>4 DEF RanFrom, Spoils
        <5>. QED
          BY <3>4, <4>1, <5>3, <5>5 DEF RecordsValid, TraceFaithful, Hashed
      <4>2. CASE ~(pc = "trace" /\ ~deps'.raced)
        BY <2>18, <3>4, <4>2 DEF Edit, RecordsValid, TraceFaithful, Hashed
      <4>. QED
        BY <4>1, <4>2
    <3>. QED
      BY <3>1, <3>6, <3>7 DEF RecordsValid
  <2>19. CASE UNCHANGED vars
    BY <2>19 DEF vars, process, locals, RecordsValid, CopyFresh, TraceFaithful,
                 RanFrom, Current
  <2>. QED
    BY <2>1, <2>2, <2>3, <2>4, <2>5, <2>6, <2>7, <2>8, <2>9, <2>10, <2>11,
       <2>12, <2>13, <2>14, <2>15, <2>16, <2>17, <2>18, <2>19 DEF Next, Step, Mishap
<1>. QED
  BY <1>1, <1>2, TypeCorrect, PTL DEF Spec, IInv

\* A command that make.run skips would have succeeded and changed nothing,
\* for every project, history of edits, interrupts and crashes.
THEOREM SkippingIsSound == Spec => []SkipSound
<1>1. TypeOK /\ RecordsValid => SkipSound
  BY DEF TypeOK, RecordsValid, TableValid, Valid, SkipSound
<1>. QED
  BY <1>1, TypeCorrect, AllRecordsValid, PTL

-----------------------------------------------------------------------------
(***************************************************************************)
(* Nothing is forgotten by an interrupted cleanup.                         *)
(***************************************************************************)

\* While autoclean deletes files, the outputs it is done with are gone, could
\* not be deleted, or are directories that hold something else; what is left
\* has the smaller names.
Cleaning ==
    pc = "clean" =>
      LET outputs == CollectOutputs(dependencies)
      IN  /\ rest \subseteq outputs
          /\ \A f \in outputs \ rest :
               /\ fs[f] = Absent \/ Kept(f, fs, outputs, refused)
               /\ \A g \in rest : Rank(g) < Rank(f)

\* A reason to keep a file is still one when more removals are refused.
LEMMA KeptStays ==
    ASSUME NEW h, NEW s, NEW O, NEW S, NEW T, S \subseteq T, Kept(h, s, O, S)
    PROVE  Kept(h, s, O, T)
BY DEF Kept

\* One file is deleted, or stays because there is something in it.
LEMMA RemovalKeeps ==
    ASSUME TypeOK, Cleaning, pc = "clean", dependencies' = dependencies, refused' = refused,
           NEW f \in rest, IsNext(f), fs' = Removed(f, fs), rest' = rest \ {f}
    PROVE  Cleaning'
<1>. DEFINE O == CollectOutputs(dependencies)
            R == refused
<1>1. IsNext(f) /\ fs' = Removed(f, fs) /\ rest' = rest \ {f}
  OBVIOUS
<1>2. dependencies' = dependencies /\ refused' = R /\ O \subseteq File
  BY DEF CollectOutputs, Entries
<1>3. /\ rest \subseteq O
      /\ \A h \in O \ rest : /\ fs[h] = Absent \/ Kept(h, fs, O, R)
                             /\ \A g \in rest : Rank(g) < Rank(h)
  BY <1>2 DEF Cleaning
<1>4. fs \in FS /\ fs \in [File -> Node] /\ WellFormed(fs)
  BY DEF TypeOK, FS
<1>5. f \in File
  BY <1>1, <1>2, <1>3
<1>6. \A g \in rest' : Rank(g) < Rank(f)
  <2>1. \A g \in rest' : Rank(g) <= Rank(f) /\ g # f /\ g \in File
    BY <1>1, <1>2, <1>3 DEF IsNext
  <2>. QED
    BY <2>1, <1>5, JobAssumption
<1>7. \A g \in File : g # f => fs'[g] = fs[g]
  BY <1>1, <1>4, <1>5 DEF Removed
<1>8. ASSUME NEW h \in O \ rest
      PROVE  /\ fs'[h] = Absent \/ Kept(h, fs', O, R)
             /\ \A g \in rest' : Rank(g) < Rank(h)
  <2>1. h \in File /\ h # f /\ Rank(f) < Rank(h)
    BY <1>1, <1>2, <1>3, <1>8
  <2>2. CASE fs[h] = Absent
    BY <1>1, <1>3, <1>7, <2>1, <2>2
  <2>3. CASE h \in R
    BY <1>1, <1>3, <2>1, <2>3 DEF Kept
  <2>4. CASE Kept(h, fs, O, R) /\ h \notin R
    <3>1. PICK g \in File \ {h} : /\ Parent(g) = h /\ fs[g] # Absent
                                  /\ g \notin O \/ fs[g] = Dir \/ g \in R
      BY <2>4 DEF Kept
    <3>2. Rank(h) < Rank(g)
      BY <3>1, JobAssumption
    <3>3. g # f
      BY <2>1, <3>2, <1>5, JobAssumption
    <3>4. fs'[g] = fs[g] /\ fs'[h] = fs[h] /\ fs[h] = Dir
      BY <1>7, <2>1, <2>4, <3>1, <3>3 DEF Kept
    <3>5. Kept(h, fs', O, R)
      BY <3>1, <3>4 DEF Kept
    <3>. QED
      BY <3>5, <1>1, <1>3, <1>8
  <2>. QED
    BY <1>3, <1>8, <2>2, <2>3, <2>4
<1>9. fs'[f] = Absent \/ Kept(f, fs', O, R)
  <2>1. CASE CanRemove(f, fs)
    BY <1>1, <1>4, <1>5, <2>1 DEF Removed
  <2>2. CASE ~CanRemove(f, fs)
    <3>1. fs' = fs
      BY <1>1, <2>2 DEF Removed
    <3>2. PICK g \in File : Parent(g) = f /\ g # f /\ fs[g] # Absent
      BY <2>2 DEF CanRemove
    <3>3. fs[f] = Dir
      BY <1>4, <3>2 DEF WellFormed
    <3>4. Rank(f) < Rank(g)
      BY <3>2, JobAssumption
    <3>5. g \notin rest
      BY <1>1, <1>5, <3>4, JobAssumption DEF IsNext
    <3>6. g \notin O \/ fs[g] = Dir \/ g \in R
      BY <1>3, <3>2, <3>5 DEF Kept
    <3>. QED
      BY <3>1, <3>2, <3>3, <3>6 DEF Kept
  <2>. QED
    BY <2>1, <2>2
<1>10. /\ rest' \subseteq O
       /\ \A h \in O \ rest' : /\ fs'[h] = Absent \/ Kept(h, fs', O, R)
                               /\ \A g \in rest' : Rank(g) < Rank(h)
  BY <1>1, <1>3, <1>6, <1>8, <1>9
<1>. QED
  BY <1>2, <1>10 DEF Cleaning

\* One file is tried.
LEMMA CleanStepKeeps ==
    ASSUME TypeOK, Cleaning, CleanStep
    PROVE  Cleaning'
<1>. DEFINE O == CollectOutputs(dependencies)
<1>1. PICK f \in rest :
        /\ IsNext(f) /\ rest' = rest \ {f}
        /\ \/ fs' = Removed(f, fs) /\ refused' = refused
           \/ fs' = fs /\ refused' = refused \cup {f}
  BY DEF CleanStep
<1>2. pc = "clean" /\ pc' = pc /\ dependencies' = dependencies
  BY DEF CleanStep
<1>3. CASE fs' = Removed(f, fs) /\ refused' = refused
  BY <1>1, <1>2, <1>3, RemovalKeeps
<1>4. CASE fs' = fs /\ refused' = refused \cup {f}
  <2>1. /\ rest \subseteq O /\ O \subseteq File
        /\ \A h \in O \ rest : /\ fs[h] = Absent \/ Kept(h, fs, O, refused)
                               /\ \A g \in rest : Rank(g) < Rank(h)
    BY <1>2 DEF Cleaning, CollectOutputs, Entries
  <2>2. \A g \in rest' : Rank(g) < Rank(f)
    <3>1. \A g \in rest' : Rank(g) <= Rank(f) /\ g # f /\ g \in File /\ f \in File
      BY <1>1, <2>1 DEF IsNext
    <3>. QED
      BY <3>1, JobAssumption
  <2>3. fs'[f] = Absent \/ Kept(f, fs', O, refused')
    BY <1>4 DEF Kept
  <2>4. ASSUME NEW h \in O \ rest
        PROVE  /\ fs'[h] = Absent \/ Kept(h, fs', O, refused')
               /\ \A g \in rest' : Rank(g) < Rank(h)
    BY <1>1, <1>4, <2>1, <2>4, KeptStays
  <2>5. /\ rest' \subseteq O
        /\ \A h \in O \ rest' : /\ fs'[h] = Absent \/ Kept(h, fs', O, refused')
                                /\ \A g \in rest' : Rank(g) < Rank(h)
    BY <1>1, <2>1, <2>2, <2>3, <2>4
  <2>. QED
    BY <1>2, <2>5 DEF Cleaning
<1>. QED
  BY <1>1, <1>3, <1>4

\* If nobody puts files into the tree while autoclean runs, .deps.lua and with
\* it the list of outputs is deleted only when a removal of each output has
\* been tried and none stays but those that were refused and the directories
\* that are not empty without them, whatever removals are refused.
THEOREM CleanupIsRepeatable == "clean" \notin EditStages /\ Spec => TableOutlivesOutputs
<1>. SUFFICES ASSUME "clean" \notin EditStages
              PROVE  Spec => TableOutlivesOutputs
  OBVIOUS
<1>1. Init => Cleaning
  BY DEF Init, Cleaning
<1>2. TypeOK /\ Cleaning /\ [Next]_vars => Cleaning'
  <2>. SUFFICES ASSUME TypeOK, Cleaning, [Next]_vars
                PROVE  Cleaning'
    OBVIOUS
  <2>1. CASE CleanStep
    BY <2>1, CleanStepKeeps
  <2>2. CASE CleanBegin
    BY <2>2 DEF CleanBegin, Cleaning
  <2>3. CASE Edit
    BY <2>3 DEF Edit, Cleaning
  <2>4. CASE UNCHANGED vars
    BY <2>4 DEF vars, process, locals, Cleaning
  <2>5. CASE Start \/ Skip \/ Spawn \/ ChildOK \/ ChildFail \/ StoreRecord \/ Done
             \/ CleanEnd \/ ExitNoSave \/ SaveBegin \/ SaveEnd \/ Mishap
    <3>1. pc' # "clean"
      BY <2>5 DEF Start, Skip, AtCmd, Spawn, ChildOK, ChildFail, StoreRecord, Done,
                  CleanEnd, ExitNoSave, SaveBegin, SaveEnd, Mishap, TraceError,
                  Interrupt, SaveFail, Crash, Leave, Gone
    <3>. QED
      BY <3>1 DEF Cleaning
  <2>. QED
    BY <2>1, <2>2, <2>3, <2>4, <2>5 DEF Next, Step
<1>3. Cleaning /\ [Next]_vars =>
        (disk.state # "none" /\ disk'.state = "none"
           => \A f \in CollectOutputs(dependencies) :
                fs[f] = Absent \/ Kept(f, fs, CollectOutputs(dependencies), refused))
  <2>. SUFFICES ASSUME Cleaning, [Next]_vars, disk.state # "none", disk'.state = "none"
                PROVE  \A f \in CollectOutputs(dependencies) :
                         fs[f] = Absent \/ Kept(f, fs, CollectOutputs(dependencies), refused)
    OBVIOUS
  <2>1. CASE CleanEnd
    BY <2>1 DEF CleanEnd, Cleaning
  <2>2. CASE ~CleanEnd
    BY <2>2 DEF Next, Step, Mishap, Start, Skip, Spawn, ChildOK, ChildFail, StoreRecord,
                Done, CleanBegin, CleanStep, ExitNoSave, SaveBegin, SaveEnd, TraceError,
                Interrupt, SaveFail, Crash, Edit, vars, TornDisk
  <2>. QED
    BY <2>1, <2>2
<1>. QED
  BY <1>1, <1>2, <1>3, TypeCorrect, PTL DEF Spec, TableOutlivesOutputs

-----------------------------------------------------------------------------
(***************************************************************************)
(* The refinement of FullBuild.                                            *)
(***************************************************************************)

\* No edit has hit a file of the record under construction between the moment
\* the program used it and the moment it was hashed.
Unspoiled == ~deps.raced

\* What a record lists as an output is written by some program.
OfPrograms(t) ==
    \A c \in Cmd : ~t[c].raced /\ Entries(t[c].output) \subseteq Full!Products

\* What the refinement needs besides RecordsValid: no job is under way unless
\* targets are executed, and neither the tables nor autoclean nor a trace know
\* of other outputs than those of programs.
Outputs ==
    /\ pc \in {"idle", "exit", "saving"} => job = <<>> /\ pos = 1
    /\ OfPrograms(dependencies) /\ OfPrograms(disk.table)
    /\ rest \subseteq Full!Products
    /\ td.output \subseteq Full!Products

\* FullBuild has the same trees and programs.
LEMMA SameWorld ==
    /\ Full!FS = FS
    /\ \A c, s : Full!Effect(c, s) = Effect(c, s)
    /\ \A c \in Cmd, s \in FS : Full!Partial(c, s) = Partial(c, s)
<1>1. \A s : Full!WellFormed(s) <=> WellFormed(s)
  BY DEF Full!WellFormed, WellFormed
<1>2. Full!Node = Node
  BY DEF Full!Node, Node
<1>3. Full!FS = FS
  BY <1>1, <1>2 DEF Full!FS, FS
<1>4. \A c, s : Full!Effect(c, s) = Effect(c, s)
  BY DEF Full!Effect, Effect
<1>5. \A c \in Cmd, s \in FS : Full!Partial(c, s) = Partial(c, s)
  BY <1>3 DEF Full!Partial, Partial
<1>. QED
  BY <1>3, <1>4, <1>5

\* The files a successful program writes are products.
LEMMA WritesProducts ==
    ASSUME NEW c \in Cmd, NEW s \in FS, Succeeds(c, s)
    PROVE  Writes(c, s) \subseteq Full!Products
BY ProgramAssumption, SameWorld DEF Full!Products

\* The empty table lists no outputs.
LEMMA NothingOfPrograms == OfPrograms(NoDependencies)
BY DEF OfPrograms, NoDependencies, NoRecord, EmptyTable, Entries

\* No outputs are listed at first.
LEMMA OutputsInit == Init => Outputs
BY NothingOfPrograms DEF Init, Outputs, NoDisk, NoTrace

\* A record that is stored lists what the trace shows.
LEMMA OutputsStored ==
    ASSUME TypeOK, RecordsValid, Outputs, Unspoiled, StoreRecord
    PROVE  OfPrograms(dependencies')
<1>. DEFINE r == Rehash(Finish(deps, td), fs)
<1>1. Current \in Cmd /\ OfPrograms(dependencies)
  BY DEF StoreRecord, TypeOK, Current, Outputs
<1>2. \A c \in Cmd : dependencies'[c] = IF c = Current THEN r ELSE dependencies[c]
  BY <1>1 DEF StoreRecord, TypeOK, Dependencies
<1>3. r.output = UpdateDepsIO(TableOf(td.output), fs, FALSE) /\ r.raced = deps.raced
  BY DEF Rehash, Finish
<1>4. \A f \in File : r.output[f] = IF f \in td.output THEN HashFile(fs[f]) ELSE Nil
  BY <1>3, HashFileType DEF UpdateDepsIO, TableOf
<1>5. Entries(r.output) \subseteq Full!Products
  BY <1>4 DEF Entries, Outputs
<1>. QED
  BY <1>1, <1>2, <1>3, <1>5 DEF OfPrograms, Unspoiled

\* No step lists an output that is not one of a program.
LEMMA OutputsNext ==
    TypeOK /\ RecordsValid /\ Unspoiled /\ Outputs /\ [Next]_vars => Outputs'
<1>. SUFFICES ASSUME TypeOK, RecordsValid, Unspoiled, Outputs, [Next]_vars
              PROVE  Outputs'
  OBVIOUS
<1>. USE NothingOfPrograms
<1>1. CASE Start
  BY <1>1 DEF Start, LoadDeps, Outputs, locals
<1>2. CASE Skip
  BY <1>2 DEF Skip, AtCmd, Outputs, locals
<1>3. CASE Spawn
  BY <1>3 DEF Spawn, AtCmd, Outputs, process
<1>4. CASE ChildOK
  <2>1. td'.output \subseteq Full!Products
    <3>1. Writes(Current, fs) \subseteq Full!Products
      BY <1>4, WritesProducts DEF ChildOK, TypeOK, Current
    <3>. QED
      BY <1>4, <3>1 DEF ChildOK, Outputs
  <2>. QED
    BY <1>4, <2>1 DEF ChildOK, Outputs
<1>5. CASE ChildFail
  BY <1>5 DEF ChildFail, Leave, NoTrace, Outputs
<1>6. CASE StoreRecord
  BY <1>6, OutputsStored DEF StoreRecord, NoTrace, Outputs
<1>7. CASE TraceError \/ Interrupt \/ Done
  BY <1>7 DEF TraceError, Interrupt, Done, Leave, NoTrace, Outputs
<1>8. CASE CleanBegin
  <2>1. CollectOutputs(dependencies) \subseteq Full!Products
    BY DEF CollectOutputs, Outputs, OfPrograms
  <2>. QED
    BY <1>8, <2>1 DEF CleanBegin, Outputs, process
<1>9. CASE CleanStep
  BY <1>9 DEF CleanStep, Outputs, process
<1>10. CASE CleanEnd
  BY <1>10 DEF CleanEnd, NoDisk, Outputs, locals
<1>11. CASE ExitNoSave \/ SaveFail \/ Crash
  BY <1>11 DEF ExitNoSave, SaveFail, Crash, Gone, NoTrace, Outputs
<1>12. CASE SaveBegin
  BY <1>12 DEF SaveBegin, TornDisk, Outputs, process, locals
<1>13. CASE SaveEnd
  <2>1. disk'.table = dependencies
    BY <1>13, SavedIsSame DEF SaveEnd, RecordsValid, TypeOK
  <2>. QED
    BY <1>13, <2>1 DEF SaveEnd, Gone, NoTrace, Outputs
<1>14. CASE Edit
  BY <1>14 DEF Edit, Outputs, process
<1>15. CASE UNCHANGED vars
  BY <1>15 DEF vars, process, locals, Outputs
<1>. QED
  BY <1>1, <1>2, <1>3, <1>4, <1>5, <1>6, <1>7, <1>8, <1>9, <1>10, <1>11, <1>12,
     <1>13, <1>14, <1>15 DEF Next, Step, Mishap

\* Every step of the incremental build is one of the full build, or none.
LEMMA FullNext ==
    TypeOK /\ SkipSound /\ Outputs /\ [Next]_vars => [Full!Next]_Full!vars
<1>. SUFFICES ASSUME TypeOK, SkipSound, Outputs, [Next]_vars
              PROVE  [Full!Next]_Full!vars
  OBVIOUS
<1>1. CASE Start
  <2>1. Full!Start
    BY <1>1 DEF Start, Full!Start
  <2>. QED
    BY <2>1 DEF Full!Next
<1>2. CASE Skip
  <2>1. Current \in Cmd /\ Succeeds(Current, fs) /\ Effect(Current, fs) = fs
    BY <1>2 DEF Skip, AtCmd, Current, SkipSound, Outputs, OfPrograms
  <2>2. Full!Run
    BY <1>2, <2>1, SameWorld DEF Skip, AtCmd, Current, Full!Run
  <2>. QED
    BY <2>2 DEF Full!Next
<1>3. CASE Spawn
  BY <1>3 DEF Spawn, AtCmd, process, Full!vars
<1>4. CASE ChildOK
  <2>1. Full!Run
    BY <1>4, SameWorld DEF ChildOK, TypeOK, Current, Full!Run
  <2>. QED
    BY <2>1 DEF Full!Next
<1>5. CASE ChildFail
  <2>1. Full!Fail
    BY <1>5, SameWorld DEF ChildFail, Leave, TypeOK, Current, Full!Fail
  <2>. QED
    BY <2>1 DEF Full!Next
<1>6. CASE StoreRecord
  BY <1>6 DEF StoreRecord, Full!vars
<1>7. CASE TraceError \/ Interrupt \/ Done
  <2>1. Full!Stop
    BY <1>7 DEF TraceError, Interrupt, Done, Leave, Full!Stop
  <2>. QED
    BY <2>1 DEF Full!Next
<1>8. CASE CleanBegin
  BY <1>8 DEF CleanBegin, process, Full!vars
<1>9. CASE CleanStep
  <2>1. PICK f \in rest : fs' = Removed(f, fs) \/ fs' = fs
    BY <1>9 DEF CleanStep
  <2>2. CASE fs' = Removed(f, fs) /\ CanRemove(f, fs)
    <3>1. fs' = [fs EXCEPT ![f] = Absent] /\ f \in Full!Products
      BY <2>2 DEF Removed, Outputs
    <3>2. fs' \in Full!FS
      BY <2>2, RemovedType, SameWorld DEF TypeOK
    <3>3. Full!Remove
      BY <1>9, <3>1, <3>2 DEF CleanStep, TypeOK, process, Full!Remove
    <3>. QED
      BY <3>3 DEF Full!Next
  <2>3. CASE fs' = fs \/ ~CanRemove(f, fs)
    BY <1>9, <2>1, <2>3 DEF CleanStep, Removed, process, Full!vars
  <2>. QED
    BY <2>1, <2>2, <2>3
<1>10. CASE CleanEnd
  <2>1. Full!Cleaned
    BY <1>10 DEF CleanEnd, TypeOK, Full!Cleaned
  <2>. QED
    BY <2>1 DEF Full!Next
<1>11. CASE ExitNoSave \/ SaveBegin \/ SaveFail \/ SaveEnd
  BY <1>11 DEF ExitNoSave, SaveBegin, SaveFail, SaveEnd, Gone, Outputs, process, Full!vars
<1>12. CASE Crash
  <2>1. CASE pc = "run"
    <3>1. Full!Fail
      BY <1>12, <2>1, SameWorld DEF Crash, Gone, TypeOK, Current, Full!Fail
    <3>. QED
      BY <3>1 DEF Full!Next
  <2>2. CASE pc \in {"exit", "saving"}
    BY <1>12, <2>2 DEF Crash, Gone, Outputs, Full!vars
  <2>3. CASE pc \notin {"run", "exit", "saving"}
    <3>1. Full!Stop
      BY <1>12, <2>3 DEF Crash, Gone, Full!Stop
    <3>. QED
      BY <3>1 DEF Full!Next
  <2>. QED
    BY <2>1, <2>2, <2>3
<1>13. CASE Edit
  <2>1. Full!Edit
    BY <1>13, SameWorld DEF Edit, process, Full!Edit
  <2>. QED
    BY <2>1 DEF Full!Next
<1>14. CASE UNCHANGED vars
  BY <1>14 DEF vars, process, Full!vars
<1>. QED
  BY <1>1, <1>2, <1>3, <1>4, <1>5, <1>6, <1>7, <1>8, <1>9, <1>10, <1>11, <1>12,
     <1>13, <1>14 DEF Next, Step, Mishap

\* As long as no edit spoils a record under construction, nobody can tell from
\* the files that make.run skips commands: every behaviour is one of the build
\* that runs them all, with interrupts, crashes, cleanups and other edits.
THEOREM SkippingIsInvisible == Spec /\ []Unspoiled => BuildsLikeFull
<1>1. Init => Full!Init
  BY DEF Init, Full!Init
<1>. QED
  BY <1>1, OutputsInit, OutputsNext, FullNext, TypeCorrect, AllRecordsValid,
     SkippingIsSound, PTL DEF Spec, BuildsLikeFull, Full!Spec

\* In particular if files are not edited while a program runs under the tracer
\* or its trace is looked at.
THEOREM RefinesFullBuild ==
    EditStages \cap {"run", "trace"} = {} /\ Spec => BuildsLikeFull
<1>. SUFFICES ASSUME EditStages \cap {"run", "trace"} = {}
              PROVE  Spec => BuildsLikeFull
  OBVIOUS
<1>1. Init => Unspoiled
  BY DEF Init, Unspoiled, NoRecord
<1>2. TypeOK /\ Unspoiled /\ [Next]_vars => Unspoiled'
  <2>. SUFFICES ASSUME TypeOK, Unspoiled, [Next]_vars
                PROVE  Unspoiled'
    OBVIOUS
  <2>1. CASE Edit
    <3>1. ~deps.raced /\ pc \notin {"run", "trace"} /\ deps \in Record
      BY <2>1 DEF Edit, Unspoiled, TypeOK
    <3>2. PICK e \in UserEdits : deps' = [deps EXCEPT !.raced = @ \/ Spoils(e[1])]
      BY <2>1 DEF Edit
    <3>3. deps'.raced = (deps.raced \/ Spoils(e[1]))
      BY <3>1, <3>2 DEF Record
    <3>. QED
      BY <3>1, <3>3 DEF Unspoiled, Spoils
  <2>2. CASE Spawn
    BY <2>2 DEF Spawn, CheckedCopy, Unspoiled
  <2>3. CASE ~Edit /\ ~Spawn
    <3>1. deps' \in {deps, NoRecord}
      BY <2>3 DEF Next, Step, Mishap, Start, Skip, ChildOK, ChildFail, StoreRecord, Done,
           CleanBegin, CleanStep, CleanEnd, ExitNoSave, SaveBegin, SaveEnd, TraceError,
           Interrupt, SaveFail, Crash, Leave, Gone, vars, locals
    <3>. QED
      BY <3>1 DEF Unspoiled, NoRecord
  <2>. QED
    BY <2>1, <2>2, <2>3
<1>. QED
  BY <1>1, <1>2, TypeCorrect, SkippingIsInvisible, PTL DEF Spec
=============================================================================

------------------------------ MODULE RunProofs ------------------------------
(***************************************************************************)
(* What single runs do to the disk, proved for every set of files, every   *)
(* number of slots and every bound: check mode touches nothing, a run that *)
(* is not killed removes its temporary files, a run adds references and    *)
(* nothing else, "ok" means complete where nothing fails, and each step    *)
(* brings the run nearer to an end that comes within a known number.       *)
(***************************************************************************)
EXTENDS BreadlogProofs, RunLength, FiniteSetTheorems

(***************************************************************************)
(* Check mode stays in the passes that read, and has one to itself.        *)
(***************************************************************************)
CheckReads ==
    /\ check_mode => pc \in {"idle", "find", "count"}
    /\ pc = "count" => check_mode

(* CheckReads is kept by every step.                                      *)
LEMMA CheckReadsStep ==
  ASSUME CheckReads, [Next]_vars
  PROVE  CheckReads'
<1> USE DEF CheckReads
<1>1. ASSUME NEW files \in SUBSET Files, Discover(files) PROVE CheckReads'
  BY <1>1 DEF Discover, FirstPass
<1>2. CASE UNCHANGED <<check_mode, pc>>
  BY <1>2
<1>3. CASE pc' \in {"idle", "find"}
  BY <1>3
<1>4. CASE /\ pc \notin {"idle", "find", "count"} /\ pc' # "count"
           /\ UNCHANGED check_mode
  BY <1>4
<1>5. CASE Step
  <2>1. \/ \E files \in SUBSET Files : Discover(files)
        \/ UNCHANGED <<check_mode, pc>>
        \/ pc' \in {"idle", "find"}
        \/ /\ pc \notin {"idle", "find", "count"} /\ pc' # "count"
           /\ UNCHANGED check_mode
    BY <1>5 DEF Step, NextFile, AllFilesDone, CacheOverflows, CountFile,
      CreateFails, CreateScratch, DiscardScratch, DiscoverFails, FillLock,
      FinishCount, FinishInsert, FinishScan, FinishUncached, FlushFails,
      FlushScratch, InsertReference, LoadFails, LockOpenFails, LockWriteFails,
      MapReturns, NothingToDo, RenameFails, RenameScratch, ScanFile,
      ScanOverflows, SkipFile, Stop, TruncateLock, WriteFails,
      WriteFailsAfterDraw, Quit
  <2> QED
    BY <2>1, <1>1, <1>2, <1>3, <1>4
<1>6. CASE Environment
  BY <1>2, <1>3, <1>6
  DEF Environment, Signal, Crash, Quit, AddStatement, DeleteStatement,
      MoveStatement, Edit, DeleteLock, process
<1>7. ASSUME NEW check \in BOOLEAN, Start(check) \/ StartFails(check)
      PROVE  CheckReads'
  BY <1>3, <1>7 DEF Start, StartFails
<1>8. CASE UNCHANGED vars
  BY <1>2, <1>8 DEF vars, process
<1> QED
  BY <1>5, <1>6, <1>7, <1>8 DEF Next

(***************************************************************************)
(* A run in check mode leaves code, lock file and temp directory alone,    *)
(* whatever fails: see CheckTouchesNothing.                                *)
(***************************************************************************)
THEOREM CheckModeTouchesNothing == Spec => CheckTouchesNothing
<1>1. Init => CheckReads
  BY DEF Init, CheckReads
<1>2. CheckReads /\ [Next]_vars => CheckReads'
  BY CheckReadsStep
<1>3. CheckReads /\ [Next]_vars
        => [Step /\ check_mode => UNCHANGED disk]_vars
  BY DEF CheckReads, Step, disk, NextFile, AllFilesDone, CacheOverflows,
      CountFile, CreateFails, CreateScratch, DiscardScratch, Discover,
      DiscoverFails, FillLock, FinishCount, FinishInsert, FinishScan,
      FinishUncached, FirstPass, FlushFails, FlushScratch, InsertReference,
      LoadFails, LockOpenFails, LockWriteFails, MapReturns, NothingToDo,
      RenameFails, RenameScratch, ScanFile, ScanOverflows, SkipFile, Stop,
      TruncateLock, WriteFails, WriteFailsAfterDraw
<1> QED
  BY <1>1, <1>2, <1>3, PTL DEF Spec, CheckTouchesNothing

-----------------------------------------------------------------------------
(***************************************************************************)
(* The one temporary file there can be is that of the rewriting under way. *)
(***************************************************************************)
OneTemp == temps = IF pc \in {"entry", "discard"} THEN 1 ELSE 0

(* OneTemp is kept by every step but a kill.                              *)
LEMMA OneTempStep ==
  ASSUME "crash" \notin Faults, OneTemp, [Next]_vars
  PROVE  OneTemp'
<1> USE DEF OneTemp
<1>1. CASE \E f \in Files : CreateScratch(f)
  BY <1>1 DEF CreateScratch, NextFile
<1>2. ASSUME NEW k \in 0 .. NumSlots, RenameScratch(k) PROVE OneTemp'
  BY <1>2 DEF RenameScratch
<1>3. CASE DiscardScratch
  BY <1>3 DEF DiscardScratch, MapReturns
<1>4. CASE UNCHANGED <<temps, pc>>
  BY <1>4
<1>5. CASE UNCHANGED temps /\ {pc, pc'} \cap {"entry", "discard"} = {}
  BY <1>5
<1>6. CASE UNCHANGED temps /\ pc = "entry" /\ pc' = "discard"
  BY <1>6
<1>7. \/ \E f \in Files : CreateScratch(f)
      \/ \E k \in 0 .. NumSlots : RenameScratch(k)
      \/ DiscardScratch
      \/ UNCHANGED <<temps, pc>>
      \/ UNCHANGED temps /\ {pc, pc'} \cap {"entry", "discard"} = {}
      \/ UNCHANGED temps /\ pc = "entry" /\ pc' = "discard"
  BY DEF Next, Step, Environment, vars, process, disk, NextFile,
      AllFilesDone, AddStatement, CacheOverflows, CountFile, Crash, CreateFails,
      DeleteLock, DeleteStatement, Discover,
      DiscoverFails, Edit, FillLock, FinishCount, FinishInsert, FinishScan,
      FinishUncached, FirstPass, FlushFails, FlushScratch, InsertReference,
      LoadFails, LockOpenFails, LockWriteFails, MapReturns, MoveStatement,
      NothingToDo, RenameFails, ScanFile, ScanOverflows, Signal,
      SkipFile, Start, StartFails, Stop, TruncateLock, WriteFails,
      WriteFailsAfterDraw, Quit
<1> QED
  BY <1>1, <1>2, <1>3, <1>4, <1>5, <1>6, <1>7

(***************************************************************************)
(* A run that is not killed leaves no temporary file: see NoTempLeft.      *)
(***************************************************************************)
THEOREM TempsRemoved ==
  ASSUME "crash" \notin Faults
  PROVE  Spec => []NoTempLeft
<1>1. Init => OneTemp
  BY DEF Init, OneTemp
<1>2. OneTemp /\ [Next]_vars => OneTemp'
  BY OneTempStep
<1>3. OneTemp => NoTempLeft
  BY DEF OneTemp, NoTempLeft
<1> QED
  BY <1>1, <1>2, <1>3, PTL DEF Spec

-----------------------------------------------------------------------------
(***************************************************************************)
(* A statement, or the same with the reference it lacked.                  *)
(***************************************************************************)
Referenced(e, d) ==
    \/ d = e
    \/ NeedsReference(e) /\ \E id \in U32 : d = WithReference(e, id)

(***************************************************************************)
(* Where nobody edits while Breadlog runs, what is written to the          *)
(* temporary file is the source file with references inserted.             *)
(***************************************************************************)
ScratchInserts ==
    pc = "entry" => \A s \in Slots : Referenced(code[file][s], scratch[s])

(* ScratchInserts is kept by every step, where nobody edits meanwhile.    *)
LEMMA ScratchInsertsStep ==
  ASSUME ~ConcurrentEdits, TypeOK, ScratchInserts, [Next]_vars
  PROVE  ScratchInserts'
<1> SUFFICES ASSUME pc' = "entry", NEW s \in Slots
             PROVE  Referenced(code'[file'][s], scratch'[s])
  BY DEF ScratchInserts, Referenced, NeedsReference, WithReference,
     UsableReferencePosition, Exists, ReferencedKind
<1>1. ASSUME NEW f \in Files, CreateScratch(f)
      PROVE  Referenced(code'[file'][s], scratch'[s])
  BY <1>1 DEF CreateScratch, Referenced
<1>2. ASSUME NEW t \in Slots, InsertReference(t)
      PROVE  Referenced(code'[file'][s], scratch'[s])
  <2>1. /\ pc = "entry" /\ code' = code /\ file' = file
        /\ NeedsReference(scratch[t])
        /\ scratch' = [scratch EXCEPT ![t] = WithReference(@, next_reference_id)]
    BY <1>2 DEF InsertReference, NextEntry, disk
  <2>2. Referenced(code[file][s], scratch[s])
    BY <2>1 DEF ScratchInserts
  <2>3. scratch \in [Slots -> LogRefEntry] /\ next_reference_id \in U32
    BY DEF TypeOK, JobType, NumbersType
  <2>4. CASE s # t
    <3>1. scratch'[s] = scratch[s]
      BY <2>1, <2>3, <2>4
    <3> QED
      BY <2>1, <2>2, <3>1
  <2>5. CASE s = t
    <3>1. scratch'[s] = WithReference(scratch[s], next_reference_id)
      BY <2>1, <2>3, <2>5
    <3>2. \A id \in U32 : ~NeedsReference(WithReference(code[file][s], id))
      BY NoneAssumption, RefModAssumption
      DEF NeedsReference, WithReference, Exists, U32
    <3>3. scratch[s] = code[file][s]
      BY <2>1, <2>2, <2>5, <3>2 DEF Referenced
    <3> QED
      BY <2>1, <2>3, <2>5, <3>1, <3>3 DEF Referenced
  <2> QED
    BY <2>4, <2>5
<1>3. CASE pc = "entry" /\ UNCHANGED <<code, file, scratch>>
  BY <1>3 DEF ScratchInserts
<1>4. \/ \E f \in Files : CreateScratch(f)
      \/ \E t \in Slots : InsertReference(t)
      \/ pc = "entry" /\ UNCHANGED <<code, file, scratch>>
  BY DEF Next, Step, Environment, vars, process, disk, job, NextFile,
      AllFilesDone, AddStatement, CacheOverflows, CanEdit, CountFile, Crash,
      CreateFails, DeleteLock, DeleteStatement, DiscardScratch, Discover,
      DiscoverFails, Edit, FillLock, FinishCount, FinishInsert, FinishScan,
      FinishUncached, FirstPass, FlushFails, FlushScratch, LoadFails,
      LockOpenFails, LockWriteFails, MapReturns, MoveStatement, NothingToDo,
      RenameFails, RenameScratch, ScanFile, ScanOverflows, Signal, SkipFile,
      Start, StartFails, Stop, TruncateLock, WriteFails, WriteFailsAfterDraw,
      Quit
<1> QED
  BY <1>1, <1>2, <1>3, <1>4

(***************************************************************************)
(* Where nobody edits while Breadlog runs and no flush fails after a       *)
(* rename, a run changes nothing about a statement but to give it the      *)
(* reference it lacks: see InsertsOnly.                                    *)
(***************************************************************************)
THEOREM RunsInsertOnly ==
  ASSUME ~ConcurrentEdits, "flush" \notin Faults
  PROVE  Spec => InsertsOnly
<1> DEFINE Inserts == \A f \in Files, s \in Slots :
              \/ View'[f][s] = View[f][s]
              \/ /\ NeedsReference(View[f][s])
                 /\ \E id \in U32 : View'[f][s] = WithReference(View[f][s], id)
<1>1. Init => ScratchInserts
  BY DEF Init, ScratchInserts
<1>2. TypeOK /\ ScratchInserts /\ [Next]_vars => ScratchInserts'
  BY ScratchInsertsStep
<1>3. TypeOK /\ ScratchInserts /\ [Next]_vars => [Step => Inserts]_vars
  <2> SUFFICES ASSUME TypeOK, ScratchInserts, Step
               PROVE  Inserts
    OBVIOUS
  <2>1. CASE View' = View
    BY <2>1
  <2>2. ASSUME NEW k \in 0 .. NumSlots, RenameScratch(k)
        PROVE  Inserts
    <3>1. /\ pc = "entry" /\ View = code /\ file \in Files
          /\ code \in [Files -> [Slots -> LogRefEntry]]
          /\ View' = [code' EXCEPT ![file] = scratch]
          /\ code' = [code EXCEPT ![file] = OnDisk(scratch, k)]
      BY <2>2, FilesAssumption
      DEF RenameScratch, View, job, TypeOK, JobType, DiskType
    <3>2. View' = [code EXCEPT ![file] = scratch]
      BY <3>1
    <3>3. \A s \in Slots : Referenced(code[file][s], scratch[s])
      BY <3>1 DEF ScratchInserts
    <3> QED
      BY <3>1, <3>2, <3>3 DEF Referenced
  <2>3. CASE FlushScratch
    <3>1. View' = View
      BY <2>3 DEF FlushScratch, MapReturns, View
    <3> QED
      BY <3>1
  <2>4. \/ \E k \in 0 .. NumSlots : RenameScratch(k)
        \/ FlushScratch
        \/ UNCHANGED code /\ pc # "flush" /\ pc' # "flush"
    BY DEF Step, disk, NextFile, AllFilesDone, CacheOverflows, CountFile,
      CreateFails, CreateScratch, DiscardScratch, Discover, DiscoverFails,
      FillLock, FinishCount, FinishInsert, FinishScan, FinishUncached,
      FirstPass, FlushFails, InsertReference, LoadFails, LockOpenFails,
      LockWriteFails, MapReturns, NothingToDo, RenameFails, ScanFile,
      ScanOverflows, SkipFile, Stop, TruncateLock, WriteFails,
      WriteFailsAfterDraw, Quit
  <2> QED
    BY <2>1, <2>2, <2>3, <2>4 DEF View
<1> QED
  BY <1>1, <1>2, <1>3, TypeCorrect, PTL DEF Spec, InsertsOnly

-----------------------------------------------------------------------------
(***************************************************************************)
(* Where every file can be found and read, and nobody edits while Breadlog *)
(* runs, the counts are those of the code: the first two passes know of a  *)
(* missing reference exactly if they have met one, and what the second     *)
(* pass is done with, without a failure, lacks none.                       *)
(***************************************************************************)
AllRead == Faults \cap {"read", "walk"} = {} /\ ~ConcurrentEdits

MissingKnown ==
    /\ pc \in {"idle", "find"} => ~missing
    /\ pc \in {"count", "scan"} =>
            (missing <=> \E f \in Files \ code_files : HasMissing(code[f]))

DoneComplete ==
    /\ Inserting /\ ~failure =>
            \A f \in Files \ code_files : ~HasMissing(code[f])
    /\ pc = "flush" => ~HasMissing(code[file]) /\ ~HasMissing(scratch)
    /\ pc = "discard" => failure

PassInStep ==
    /\ pc \notin {"idle", "find"} => found = Files
    /\ pc \in {"entry", "flush", "discard"} => file \in code_files
    /\ pc \in {"save", "fill"} => code_files = {}
    /\ pc # "idle" => exit_code = "none"

Accounts == MissingKnown /\ DoneComplete /\ PassInStep

(* A row of which the first slots are on the disk lacks nothing more. *)
LEMMA OnDiskComplete ==
  ASSUME NEW row, ~HasMissing(row), NEW k \in 0 .. NumSlots
  PROVE  ~HasMissing(OnDisk(row, k))
<1>1. ~NeedsReference(AbsentEntry)
  BY DEF NeedsReference, AbsentEntry
<1> QED
  BY <1>1 DEF HasMissing, OnDisk

(* The accounts of a pass are kept by every step.                         *)
LEMMA AccountsStep ==
  ASSUME AllRead, TypeOK, Accounts, [Next]_vars
  PROVE  Accounts'
<1> USE DEF AllRead, Accounts, MissingKnown, DoneComplete, PassInStep, Inserting
<1> USE FilesAssumption
<1>1. ASSUME NEW files \in SUBSET Files, Discover(files) PROVE Accounts'
  BY <1>1 DEF Discover, FirstPass, disk, results
<1>2. ASSUME NEW f \in Files, CountFile(f) PROVE Accounts'
  BY <1>2 DEF CountFile, NextFile, disk, job, TypeOK, PassType
<1>3. ASSUME NEW f \in Files, ScanFile(f) PROVE Accounts'
  BY <1>3 DEF ScanFile, NextFile, disk, job, TypeOK, PassType
<1>4. CASE FinishScan
  BY <1>4 DEF FinishScan, AllFilesDone, disk, job
<1>5. ASSUME NEW f \in Files, SkipFile(f) PROVE Accounts'
  BY <1>5 DEF SkipFile, NextFile, disk, job, results, TypeOK, PassType
<1>6. ASSUME NEW f \in Files, CreateFails(f) PROVE Accounts'
  BY <1>6 DEF CreateFails, NextFile, disk, job
<1>7. ASSUME NEW f \in Files, CreateScratch(f) PROVE Accounts'
  BY <1>7 DEF CreateScratch, NextFile, results
<1>8. ASSUME NEW s \in Slots, InsertReference(s) PROVE Accounts'
  BY <1>8 DEF InsertReference, disk, results
<1>9. CASE WriteFails \/ WriteFailsAfterDraw \/ RenameFails
  BY <1>9 DEF WriteFails, WriteFailsAfterDraw, RenameFails, disk, job
<1>10. ASSUME NEW k \in 0 .. NumSlots, RenameScratch(k) PROVE Accounts'
  <2>1. ~HasMissing(OnDisk(scratch, k)) /\ ~HasMissing(scratch)
    BY <1>10, OnDiskComplete DEF RenameScratch
  <2>2. /\ pc = "entry" /\ pc' = "flush" /\ file \in Files
        /\ code \in [Files -> [Slots -> LogRefEntry]]
        /\ code' = [code EXCEPT ![file] = OnDisk(scratch, k)]
    BY <1>10 DEF RenameScratch, TypeOK, JobType, DiskType
  <2>3. /\ UNCHANGED <<exit_code, found, code_files, missing, failure, file, scratch>>
    BY <1>10 DEF RenameScratch, results, job
  <2>4. code'[file] = OnDisk(scratch, k) /\ \A f \in Files \ {file} : code'[f] = code[f]
    BY <2>2
  <2> QED
    BY <2>1, <2>2, <2>3, <2>4 DEF HasMissing
<1>11. CASE FlushScratch
  <2>1. /\ pc = "flush" /\ file \in Files /\ pc' = "insert"
        /\ code \in [Files -> [Slots -> LogRefEntry]]
        /\ code' = [code EXCEPT ![file] = scratch]
    BY <1>11 DEF FlushScratch, MapReturns, TypeOK, JobType, DiskType
  <2>2. code'[file] = scratch /\ \A f \in Files \ {file} : code'[f] = code[f]
    BY <2>1
  <2>3. UNCHANGED <<exit_code, found, missing, failure>> /\ code_files' = code_files \ {file}
    BY <1>11 DEF FlushScratch, MapReturns
  <2> QED
    BY <2>1, <2>2, <2>3 DEF HasMissing
<1>12. CASE FlushFails \/ DiscardScratch
  BY <1>12 DEF FlushFails, DiscardScratch, MapReturns, disk
<1>13. CASE FinishInsert \/ TruncateLock
  BY <1>13 DEF FinishInsert, TruncateLock, AllFilesDone, disk, results, job
<1>14. ASSUME NEW how, Quit(how) PROVE Accounts'
  BY <1>14 DEF Quit
<1>15. CASE pc = "idle" /\ UNCHANGED <<pc, missing>>
  BY <1>15
<1>16. ASSUME NEW check \in BOOLEAN, Start(check) PROVE Accounts'
  BY <1>16 DEF Start, disk, results, job
<1>17. CASE UNCHANGED <<code, pc, exit_code, found, code_files, missing, failure,
                        file, scratch>>
  BY <1>17 DEF HasMissing
<1>18. ASSUME NEW f \in Files, LoadFails(f) PROVE Accounts'
  BY <1>18 DEF LoadFails
<1>19. CASE Step
  BY <1>1, <1>2, <1>3, <1>4, <1>5, <1>6, <1>7, <1>8, <1>9, <1>10, <1>11,
     <1>12, <1>13, <1>14, <1>18, <1>19
  DEF Step, DiscoverFails, Stop, FinishCount, ScanOverflows, NothingToDo,
      CacheOverflows, FinishUncached, LockOpenFails, FillLock, LockWriteFails
<1>20. CASE Environment
  <2>1. CASE Signal
    BY <1>17, <2>1 DEF Signal, disk, results, job
  <2>2. CASE Crash
    BY <1>14, <2>2 DEF Crash
  <2>3. ASSUME NEW rows, Edit(rows), pc = "idle" PROVE Accounts'
    BY <1>15, <2>3 DEF Edit, process, results
  <2>4. CASE DeleteLock
    BY <1>15, <2>4 DEF DeleteLock, process, results
  <2> QED
    BY <1>20, <2>1, <2>2, <2>3, <2>4
    DEF Environment, AddStatement, DeleteStatement, MoveStatement, CanEdit
<1>21. ASSUME NEW check \in BOOLEAN, StartFails(check) PROVE Accounts'
  BY <1>15, <1>21 DEF StartFails, results
<1>22. CASE UNCHANGED vars
  BY <1>17, <1>22 DEF vars, disk, process, results, job
<1> QED
  BY <1>16, <1>19, <1>20, <1>21, <1>22 DEF Next

(***************************************************************************)
(* The accounts hold in every state.                                       *)
(***************************************************************************)
THEOREM AccountsKept ==
  ASSUME AllRead
  PROVE  Spec => []Accounts
<1>1. Init => Accounts
  BY DEF Init, Accounts, MissingKnown, DoneComplete, PassInStep, Inserting
<1>2. TypeOK /\ Accounts /\ [Next]_vars => Accounts'
  BY AccountsStep
<1> QED
  BY <1>1, <1>2, TypeCorrect, PTL DEF Spec

(* The stop flag is only ever set by a signal. *)
StopMeansSignal == stop_commanded => "stop" \in Faults

(* StopMeansSignal is kept by every step.                                 *)
LEMMA StopMeansSignalStep ==
  ASSUME StopMeansSignal, [Next]_vars
  PROVE  StopMeansSignal'
  BY DEF StopMeansSignal, Next, Step, Environment, vars, process, NextFile,
      AllFilesDone, AddStatement, CacheOverflows, CountFile, Crash, CreateFails,
      CreateScratch, DeleteLock, DeleteStatement, DiscardScratch, Discover,
      DiscoverFails, Edit, FillLock, FinishCount, FinishInsert, FinishScan,
      FinishUncached, FlushFails, FlushScratch, InsertReference, LoadFails,
      LockOpenFails, LockWriteFails, MapReturns, MoveStatement, NothingToDo,
      RenameFails, RenameScratch, ScanFile, ScanOverflows, Signal, SkipFile,
      Start, StartFails, Stop, TruncateLock, WriteFails, WriteFailsAfterDraw,
      Quit

(***************************************************************************)
(* Where every file is read, and no SIGTERM comes, the verdict of check    *)
(* mode is right: see CheckVerdict.                                        *)
(***************************************************************************)
THEOREM VerdictRight ==
  ASSUME AllRead, "stop" \notin Faults
  PROVE  Spec => CheckVerdict
<1>1. Init => StopMeansSignal
  BY DEF Init, StopMeansSignal
<1>2. StopMeansSignal /\ [Next]_vars => StopMeansSignal'
  BY StopMeansSignalStep
<1>3. CheckReads /\ StopMeansSignal /\ Accounts /\ [Next]_vars
        => [Step /\ check_mode /\ pc' = "idle"
              => (exit_code' = "err" <=> \E f \in Files : HasMissing(code[f]))]_vars
  <2> SUFFICES ASSUME CheckReads, StopMeansSignal, Accounts,
                      Step, check_mode, pc' = "idle"
               PROVE  exit_code' = "err" <=> \E f \in Files : HasMissing(code[f])
    OBVIOUS
  <2>1. FinishCount
    BY DEF AllRead, CheckReads, StopMeansSignal, Step, NextFile, AllFilesDone,
      CacheOverflows, CountFile, CreateFails, CreateScratch, DiscardScratch,
      Discover, DiscoverFails, FillLock, FinishInsert, FinishScan,
      FinishUncached, FirstPass, FlushFails, FlushScratch, InsertReference,
      LoadFails, LockOpenFails, LockWriteFails, MapReturns, NothingToDo,
      RenameFails, RenameScratch, ScanFile, ScanOverflows, SkipFile, Stop,
      TruncateLock, WriteFails, WriteFailsAfterDraw
  <2> QED
    BY <2>1 DEF FinishCount, AllFilesDone, Quit, Accounts, MissingKnown
<1>4. Init => CheckReads
  BY DEF Init, CheckReads
<1>5. CheckReads /\ [Next]_vars => CheckReads'
  BY CheckReadsStep
<1> QED
  BY <1>1, <1>2, <1>3, <1>4, <1>5, AccountsKept, PTL DEF Spec, CheckVerdict

(***************************************************************************)
(* Where every file is read, a run that ends in "ok" without a failed file *)
(* leaves nothing without a reference: see CleanRunCompletes.              *)
(***************************************************************************)
THEOREM CleanRunsComplete ==
  ASSUME AllRead
  PROVE  Spec => CleanRunCompletes
<1>1. CheckReads /\ Accounts /\ [Next]_vars
        => [Step /\ ~check_mode /\ exit_code' = "ok" /\ ~failure
              => \A f \in Files : ~HasMissing(code[f])]_vars
  <2> SUFFICES ASSUME CheckReads, Accounts, Step, ~check_mode,
                      exit_code' = "ok", ~failure
               PROVE  \A f \in Files : ~HasMissing(code[f])
    OBVIOUS
  <2> USE DEF Accounts, MissingKnown, DoneComplete, PassInStep, Inserting
  <2>1. CASE NothingToDo
    BY <2>1 DEF NothingToDo, AllFilesDone
  <2>2. CASE FinishUncached
    BY <2>2 DEF FinishUncached, AllFilesDone
  <2>3. CASE LockOpenFails \/ FillLock \/ LockWriteFails
    BY <2>3 DEF LockOpenFails, FillLock, LockWriteFails
  <2>4. NothingToDo \/ FinishUncached \/ LockOpenFails \/ FillLock \/ LockWriteFails
    BY DEF CheckReads, Step, NextFile, AllFilesDone, CacheOverflows, CountFile,
      CreateFails, CreateScratch, DiscardScratch, Discover, DiscoverFails,
      FinishCount, FinishInsert, FinishScan, FlushFails, FlushScratch,
      InsertReference, LoadFails, MapReturns, RenameFails, RenameScratch,
      ScanFile, ScanOverflows, SkipFile, Stop, TruncateLock, WriteFails,
      WriteFailsAfterDraw, Quit
  <2> QED
    BY <2>1, <2>2, <2>3, <2>4
<1>2. Init => CheckReads
  BY DEF Init, CheckReads
<1>3. CheckReads /\ [Next]_vars => CheckReads'
  BY CheckReadsStep
<1> QED
  BY <1>1, <1>2, <1>3, AccountsKept, PTL DEF Spec, CleanRunCompletes

(* The insertion fails for a file only if a system call for it may fail. *)
FailureMeansFault == failure => Faults \cap {"create", "write", "rename"} # {}

(* FailureMeansFault is kept by every step. *)
LEMMA FailureMeansFaultStep ==
  ASSUME FailureMeansFault, [Next]_vars
  PROVE  FailureMeansFault'
  BY DEF FailureMeansFault, Next, Step, Environment, vars, process, results,
      NextFile, AllFilesDone, AddStatement, CacheOverflows, CountFile, Crash,
      CreateFails, CreateScratch, DeleteLock, DeleteStatement, DiscardScratch,
      Discover, DiscoverFails, Edit, FillLock, FinishCount, FinishInsert,
      FinishScan, FinishUncached, FlushFails, FlushScratch, InsertReference,
      LoadFails, LockOpenFails, LockWriteFails, MapReturns, MoveStatement,
      NothingToDo, RenameFails, RenameScratch, ScanFile, ScanOverflows, Signal,
      SkipFile, Start, StartFails, Stop, TruncateLock, WriteFails,
      WriteFailsAfterDraw, Quit

(***************************************************************************)
(* Where every file is read and every temporary file written and renamed,  *)
(* and no SIGTERM comes, "ok" means complete in both modes: see            *)
(* SuccessMeansComplete, which the code breaks without these assumptions.  *)
(***************************************************************************)
THEOREM SuccessWhereNothingFails ==
  ASSUME AllRead, Faults \cap {"stop", "create", "write", "rename"} = {}
  PROVE  Spec => SuccessMeansComplete
<1>1. Init => FailureMeansFault
  BY DEF Init, FailureMeansFault
<1>2. FailureMeansFault /\ [Next]_vars => FailureMeansFault'
  BY FailureMeansFaultStep
<1> DEFINE Verdict == Step /\ check_mode /\ pc' = "idle"
               => (exit_code' = "err" <=> \E f \in Files : HasMissing(code[f]))
           Clean == Step /\ ~check_mode /\ exit_code' = "ok" /\ ~failure
               => \A f \in Files : ~HasMissing(code[f])
           Success == Step /\ exit_code' = "ok"
               => \A f \in Files : ~HasMissing(code[f])
<1>3. FailureMeansFault /\ Accounts' /\ [Verdict]_vars /\ [Clean]_vars
        => [Success]_vars
  <2> SUFFICES ASSUME FailureMeansFault, Accounts', [Verdict]_vars, [Clean]_vars,
                      Step, exit_code' = "ok", ~UNCHANGED vars
               PROVE  \A f \in Files : ~HasMissing(code[f])
    OBVIOUS
  <2>1. ~failure
    BY DEF FailureMeansFault
  <2>2. pc' = "idle"
    BY DEF Accounts, PassInStep
  <2>3. CASE check_mode
    BY <2>2, <2>3
  <2>4. CASE ~check_mode
    BY <2>1, <2>4
  <2> QED
    BY <2>3, <2>4
<1>4. Spec => [][Verdict]_vars
  BY VerdictRight DEF CheckVerdict
<1>5. Spec => [][Clean]_vars
  BY CleanRunsComplete DEF CleanRunCompletes
<1> QED
  BY <1>1, <1>2, <1>3, <1>4, <1>5, AccountsKept, PTL DEF Spec, SuccessMeansComplete

-----------------------------------------------------------------------------
(***************************************************************************)
(* The file being rewritten is one that the pass is not done with.         *)
(***************************************************************************)
FileAwaited == pc \in {"entry", "flush", "discard"} => file \in code_files

(* FileAwaited is kept by every step. *)
LEMMA FileAwaitedStep ==
  ASSUME FileAwaited, [Next]_vars
  PROVE  FileAwaited'
<1> USE DEF FileAwaited
<1>1. CASE pc' \notin {"entry", "flush", "discard"}
  BY <1>1
<1>2. ASSUME NEW f \in Files, CreateScratch(f) PROVE FileAwaited'
  BY <1>2 DEF CreateScratch, NextFile
<1>3. CASE pc \in {"entry", "flush", "discard"} /\ UNCHANGED <<file, code_files>>
  BY <1>3
<1>4. \/ pc' \notin {"entry", "flush", "discard"}
      \/ \E f \in Files : CreateScratch(f)
      \/ pc \in {"entry", "flush", "discard"} /\ UNCHANGED <<file, code_files>>
  BY DEF Next, Step, Environment, vars, process, job, NextFile, AllFilesDone,
      AddStatement, CacheOverflows, CountFile, Crash, CreateFails, DeleteLock,
      DeleteStatement, DiscardScratch, Discover, DiscoverFails, Edit, FillLock,
      FinishCount, FinishInsert, FinishScan, FinishUncached, FirstPass,
      FlushFails, FlushScratch, InsertReference, LoadFails, LockOpenFails,
      LockWriteFails, MapReturns, MoveStatement, NothingToDo, RenameFails,
      RenameScratch, ScanFile, ScanOverflows, Signal, SkipFile, Start,
      StartFails, Stop, TruncateLock, WriteFails, WriteFailsAfterDraw, Quit
<1> QED
  BY <1>1, <1>2, <1>3, <1>4

-----------------------------------------------------------------------------
(***************************************************************************)
(* The sets whose sizes StepsLeft adds up are finite, and lose at most     *)
(* what a step takes from them.                                            *)
(***************************************************************************)
LEMMA FilesCount ==
  /\ Cardinality(Files) \in Nat
  /\ \A S \in SUBSET Files :
        /\ IsFiniteSet(S)
        /\ Cardinality(S) \in Nat
        /\ Cardinality(S) <= Cardinality(Files)
        /\ \A f \in S : /\ Cardinality(S) > 0
                        /\ Cardinality(S \ {f}) = Cardinality(S) - 1
<1>1. IsFiniteSet(Files) /\ Cardinality(Files) \in Nat
  BY FilesAssumption, FS_CardinalityType
<1>2. ASSUME NEW S \in SUBSET Files
      PROVE  /\ IsFiniteSet(S)
             /\ Cardinality(S) \in Nat
             /\ Cardinality(S) <= Cardinality(Files)
  BY <1>1, <1>2, FS_Subset, FS_CardinalityType
<1>3. ASSUME NEW S \in SUBSET Files, NEW f \in S
      PROVE  /\ Cardinality(S) > 0
             /\ Cardinality(S \ {f}) = Cardinality(S) - 1
  <2>1. IsFiniteSet(S) /\ Cardinality(S) \in Nat
    BY <1>2
  <2>2. Cardinality(S \ {f}) = Cardinality(S) - 1
    BY <2>1, FS_RemoveElement
  <2>3. Cardinality(S \ {f}) \in Nat
    BY <1>2, S \ {f} \in SUBSET Files
  <2> QED
    BY <2>1, <2>2, <2>3
<1> QED
  BY <1>1, <1>2, <1>3

(* No file lacks more references than it has slots. *)
LEMMA WantingCount ==
  ASSUME NEW S \in SUBSET Slots
  PROVE  /\ IsFiniteSet(S)
         /\ Cardinality(S) \in Nat
         /\ Cardinality(S) <= NumSlots
<1>1. IsFiniteSet(Slots) /\ Cardinality(Slots) = NumSlots
  BY NumSlotsAssumption, FS_Interval DEF Slots
<1> QED
  BY <1>1, FS_Subset, FS_CardinalityType

(***************************************************************************)
(* The steps for one more file are at least those of the file's rewriting. *)
(***************************************************************************)
LEMMA InsertStepsFacts ==
  /\ StepsPerFile \in Nat
  /\ StepsPerFile = NumSlots + 3
  /\ \A n \in Nat : InsertSteps(n) \in Nat /\ InsertSteps(n) >= 3
  /\ \A n \in Nat : n > 0 => /\ InsertSteps(n - 1) \in Nat
                             /\ InsertSteps(n - 1) >= 3
                             /\ InsertSteps(n) = InsertSteps(n - 1) + NumSlots + 3
  /\ \A m, n \in Nat : m <= n => InsertSteps(m) <= InsertSteps(n)
<1>1. StepsPerFile \in Nat /\ StepsPerFile = NumSlots + 3
  BY NumSlotsAssumption DEF StepsPerFile
<1>2. ASSUME NEW n \in Nat PROVE InsertSteps(n) \in Nat /\ InsertSteps(n) >= 3
  BY <1>1 DEF InsertSteps
<1>3. ASSUME NEW n \in Nat, n > 0
      PROVE  InsertSteps(n) = InsertSteps(n - 1) + NumSlots + 3
  <2>1. n * StepsPerFile = (n - 1) * StepsPerFile + StepsPerFile
    BY <1>1, <1>3
  <2>2. (n - 1) * StepsPerFile \in Nat
    BY <1>1, <1>3
  <2> QED
    BY <1>1, <2>1, <2>2, NumSlotsAssumption DEF InsertSteps
<1>4. ASSUME NEW m \in Nat, NEW n \in Nat, m <= n
      PROVE  InsertSteps(m) <= InsertSteps(n)
  <2>1. PICK d \in Nat : n = m + d
    BY <1>4, n - m \in Nat
  <2>2. n * StepsPerFile = m * StepsPerFile + d * StepsPerFile
    BY <1>1, <2>1
  <2>3. /\ m * StepsPerFile \in Nat /\ d * StepsPerFile \in Nat
    BY <1>1, <2>1
  <2> QED
    BY <2>2, <2>3 DEF InsertSteps
<1> QED
  BY <1>1, <1>2, <1>3, <1>4

(***************************************************************************)
(* StepsLeft in numbers that the steps of the program can be compared by.  *)
(***************************************************************************)
LEMMA StepsLeftType ==
  ASSUME TypeOK, FileAwaited
  PROVE  StepsLeft \in Nat /\ (pc # "idle" => StepsLeft > 0)
<1>1. /\ code_files \in SUBSET Files /\ found \in SUBSET Files
      /\ Wanting \in SUBSET Slots
  BY DEF TypeOK, PassType, Wanting
<1>2. /\ Cardinality(code_files) \in Nat /\ Cardinality(found) \in Nat
      /\ Cardinality(Wanting) \in Nat /\ Cardinality(Files) \in Nat
  BY <1>1, FilesCount, WantingCount
<1>3. pc \in {"entry", "flush", "discard"} => Cardinality(code_files) > 0
  BY <1>1, FilesCount DEF FileAwaited
<1>4. pc \in {"idle", "find", "count", "scan", "insert", "entry", "flush",
              "discard", "save", "fill"}
  BY DEF TypeOK, ControlType
<1> QED
  BY <1>2, <1>3, <1>4, InsertStepsFacts DEF StepsLeft
-----------------------------------------------------------------------------
(***************************************************************************)
(* A step that ends the run.                                               *)
(***************************************************************************)
LEMMA QuitEnds ==
  ASSUME TypeOK, FileAwaited, NEW how, Quit(how)
  PROVE  /\ StepsLeft' <= StepsLeft
         /\ pc # "idle" => StepsLeft' < StepsLeft
<1>1. StepsLeft' = 0
  BY DEF Quit, StepsLeft
<1> QED
  BY <1>1, StepsLeftType

(***************************************************************************)
(* A pass that is done with a file has one less to load.                   *)
(***************************************************************************)
LEMMA FileLeaves ==
  ASSUME TypeOK, NEW f \in code_files, code_files' = code_files \ {f},
         pc \in {"count", "scan", "insert"}, UNCHANGED <<pc, found>>
  PROVE  StepsLeft' < StepsLeft
<1>1. code_files \in SUBSET Files /\ found \in SUBSET Files
  BY DEF TypeOK, PassType
<1>2. /\ Cardinality(code_files) \in Nat /\ Cardinality(found) \in Nat
      /\ Cardinality(code_files) > 0
      /\ Cardinality(code_files') = Cardinality(code_files) - 1
  BY <1>1, FilesCount
<1>3. CASE pc = "count"
  BY <1>2, <1>3 DEF StepsLeft
<1>4. CASE pc = "scan"
  BY <1>2, <1>4, InsertStepsFacts DEF StepsLeft
<1>5. CASE pc = "insert"
  <2>1. /\ StepsLeft = InsertSteps(Cardinality(code_files))
        /\ StepsLeft' = InsertSteps(Cardinality(code_files) - 1)
    BY <1>2, <1>5 DEF StepsLeft
  <2> QED
    BY <1>2, <2>1, InsertStepsFacts, NumSlotsAssumption
<1> QED
  BY <1>3, <1>4, <1>5

(***************************************************************************)
(* A file whose rewriting has come to an end is left to the others.        *)
(***************************************************************************)
LEMMA RewritingEnds ==
  ASSUME TypeOK, FileAwaited, pc \in {"flush", "discard"}, MapReturns
  PROVE  StepsLeft' < StepsLeft
<1>1. code_files \in SUBSET Files /\ file \in code_files
  BY DEF TypeOK, PassType, FileAwaited
<1>2. /\ Cardinality(code_files) \in Nat /\ Cardinality(code_files) > 0
      /\ Cardinality(code_files') = Cardinality(code_files) - 1
  BY <1>1, FilesCount DEF MapReturns
<1>3. /\ StepsLeft = InsertSteps(Cardinality(code_files) - 1) + 1
      /\ StepsLeft' = InsertSteps(Cardinality(code_files) - 1)
  BY <1>2 DEF StepsLeft, MapReturns
<1> QED
  BY <1>2, <1>3, InsertStepsFacts

(***************************************************************************)
(* A rewriting that is over with the contents has only to return.          *)
(***************************************************************************)
LEMMA ContentsDone ==
  ASSUME TypeOK, FileAwaited, pc = "entry", pc' \in {"flush", "discard"},
         UNCHANGED code_files
  PROVE  StepsLeft' < StepsLeft
<1>1. code_files \in SUBSET Files /\ file \in code_files /\ Wanting \in SUBSET Slots
  BY DEF TypeOK, PassType, FileAwaited, Wanting
<1>2. /\ Cardinality(code_files) \in Nat /\ Cardinality(code_files) > 0
      /\ Cardinality(Wanting) \in Nat
  BY <1>1, FilesCount, WantingCount
<1>3. /\ StepsLeft = InsertSteps(Cardinality(code_files) - 1) + 2 + Cardinality(Wanting)
      /\ StepsLeft' = InsertSteps(Cardinality(code_files) - 1) + 1
  BY DEF StepsLeft
<1> QED
  BY <1>2, <1>3, InsertStepsFacts

(***************************************************************************)
(* Drawing a reference leaves one entry less to write.                     *)
(***************************************************************************)
LEMMA InsertReferenceCounts ==
  ASSUME TypeOK, FileAwaited, NEW s \in Slots, InsertReference(s)
  PROVE  StepsLeft' < StepsLeft
<1>1. /\ code_files \in SUBSET Files /\ file \in code_files
      /\ scratch \in [Slots -> LogRefEntry] /\ Wanting \in SUBSET Slots
      /\ next_reference_id \in U32
  BY DEF TypeOK, PassType, JobType, NumbersType, FileAwaited, Wanting,
         InsertReference
<1>2. /\ NeedsReference(scratch[s])
      /\ scratch' = [scratch EXCEPT ![s] = WithReference(@, next_reference_id)]
      /\ pc = "entry" /\ pc' = "entry" /\ code_files' = code_files
  BY DEF InsertReference, NextEntry
<1>3. ~NeedsReference(WithReference(scratch[s], next_reference_id))
  BY <1>1, NoneAssumption, RefModAssumption
  DEF NeedsReference, WithReference, Exists, U32
<1>4. Wanting' = Wanting \ {s} /\ s \in Wanting
  BY <1>1, <1>2, <1>3 DEF Wanting
<1>5. /\ IsFiniteSet(Wanting) /\ Cardinality(Wanting) \in Nat
      /\ Cardinality(Wanting') = Cardinality(Wanting) - 1
  BY <1>1, <1>4, WantingCount, FS_RemoveElement
<1>6. Cardinality(code_files) \in Nat /\ Cardinality(code_files) > 0
  BY <1>1, FilesCount
<1>7. /\ StepsLeft = InsertSteps(Cardinality(code_files) - 1) + 2 + Cardinality(Wanting)
      /\ StepsLeft' = InsertSteps(Cardinality(code_files) - 1) + 2 + Cardinality(Wanting')
  BY <1>2 DEF StepsLeft
<1> QED
  BY <1>5, <1>6, <1>7, InsertStepsFacts

(***************************************************************************)
(* The rewriting of a file fits into what one more file costs.             *)
(***************************************************************************)
LEMMA CreateScratchCounts ==
  ASSUME TypeOK, NEW f \in Files, CreateScratch(f)
  PROVE  StepsLeft' < StepsLeft
<1>1. /\ f \in code_files /\ code_files \in SUBSET Files
      /\ pc = "insert" /\ pc' = "entry" /\ code_files' = code_files
      /\ Wanting' \in SUBSET Slots
  BY DEF TypeOK, PassType, CreateScratch, NextFile, Wanting
<1>2. /\ Cardinality(code_files) \in Nat /\ Cardinality(code_files) > 0
      /\ Cardinality(Wanting') \in Nat /\ Cardinality(Wanting') <= NumSlots
  BY <1>1, FilesCount, WantingCount
<1>3. /\ StepsLeft = InsertSteps(Cardinality(code_files))
      /\ StepsLeft' = InsertSteps(Cardinality(code_files) - 1) + 2 + Cardinality(Wanting')
  BY <1>1 DEF StepsLeft
<1> QED
  BY <1>2, <1>3, InsertStepsFacts, NumSlotsAssumption

(***************************************************************************)
(* The first pass, and after it the insertion, fit into what the discovery *)
(* leaves to do, however few of the files it finds.                        *)
(***************************************************************************)
LEMMA DiscoverCounts ==
  ASSUME TypeOK, NEW files \in SUBSET Files, Discover(files)
  PROVE  StepsLeft' < StepsLeft
<1>1. /\ pc = "find" /\ code_files' = files /\ found' = files
      /\ pc' \in {"count", "scan", "insert"}
  BY DEF Discover, FirstPass
<1>2. /\ Cardinality(files) \in Nat /\ Cardinality(Files) \in Nat
      /\ Cardinality(files) <= Cardinality(Files)
  BY FilesCount
<1>3. /\ InsertSteps(Cardinality(files)) \in Nat
      /\ InsertSteps(Cardinality(Files)) \in Nat
      /\ InsertSteps(Cardinality(files)) <= InsertSteps(Cardinality(Files))
  BY <1>2, InsertStepsFacts
<1>4. StepsLeft = 2 + Cardinality(Files) + InsertSteps(Cardinality(Files))
  BY <1>1 DEF StepsLeft
<1>5. StepsLeft' \in {1 + Cardinality(files),
                      1 + Cardinality(files) + InsertSteps(Cardinality(files)),
                      InsertSteps(Cardinality(files))}
  BY <1>1 DEF StepsLeft
<1> QED
  BY <1>2, <1>3, <1>4, <1>5

(***************************************************************************)
(* Every step of the program counts.                                       *)
(***************************************************************************)
LEMMA StepCounts ==
  ASSUME TypeOK, FileAwaited, Step
  PROVE  StepsLeft' < StepsLeft
<1>1. ASSUME NEW how, Quit(how), pc # "idle" PROVE StepsLeft' < StepsLeft
  BY <1>1, QuitEnds
<1>2. ASSUME NEW f \in Files,
             LoadFails(f) \/ CountFile(f) \/ ScanFile(f) \/ SkipFile(f) \/ CreateFails(f)
      PROVE  StepsLeft' < StepsLeft
  <2>1. /\ f \in code_files /\ code_files' = code_files \ {f}
        /\ pc \in {"count", "scan", "insert"} /\ UNCHANGED <<pc, found>>
    BY <1>2 DEF LoadFails, CountFile, ScanFile, SkipFile, CreateFails, NextFile
  <2> QED
    BY <2>1, FileLeaves
<1>3. CASE FinishScan
  <2>1. /\ StepsLeft = 1 + Cardinality(code_files) + InsertSteps(Cardinality(found))
        /\ StepsLeft' = InsertSteps(Cardinality(found))
    BY <1>3 DEF FinishScan, AllFilesDone, StepsLeft
  <2>2. Cardinality(code_files) \in Nat /\ Cardinality(found) \in Nat
    BY FilesCount DEF TypeOK, PassType
  <2> QED
    BY <2>1, <2>2, InsertStepsFacts
<1>4. CASE FinishInsert
  <2>1. StepsLeft = InsertSteps(Cardinality(code_files)) /\ StepsLeft' = 2
    BY <1>4 DEF FinishInsert, AllFilesDone, StepsLeft
  <2>2. Cardinality(code_files) \in Nat
    BY FilesCount DEF TypeOK, PassType
  <2> QED
    BY <2>1, <2>2, InsertStepsFacts
<1>5. CASE TruncateLock
  BY <1>5 DEF TruncateLock, StepsLeft
<1>6. CASE WriteFails \/ WriteFailsAfterDraw \/ RenameFails
           \/ \E k \in 0 .. NumSlots : RenameScratch(k)
  <2>1. pc = "entry" /\ pc' \in {"flush", "discard"} /\ UNCHANGED code_files
    BY <1>6 DEF WriteFails, WriteFailsAfterDraw, RenameFails, RenameScratch
  <2> QED
    BY <2>1, ContentsDone
<1>7. CASE FlushScratch \/ FlushFails \/ DiscardScratch
  BY <1>7, RewritingEnds DEF FlushScratch, FlushFails, DiscardScratch
<1>8. CASE \/ DiscoverFails \/ Stop \/ FinishCount \/ ScanOverflows \/ NothingToDo
           \/ CacheOverflows \/ FinishUncached \/ LockOpenFails \/ FillLock
           \/ LockWriteFails
  <2>1. pc # "idle" /\ \E how \in {"ok", "err"} : Quit(how)
    BY <1>8 DEF DiscoverFails, Stop, FinishCount, ScanOverflows, NothingToDo,
      CacheOverflows, FinishUncached, LockOpenFails, FillLock, LockWriteFails,
      AllFilesDone
  <2> QED
    BY <2>1, <1>1
<1> QED
  BY <1>2, <1>3, <1>4, <1>5, <1>6, <1>7, <1>8, CreateScratchCounts,
     DiscoverCounts, InsertReferenceCounts
  DEF Step

(***************************************************************************)
(* Nothing the system or the developers do gives a run more to do.         *)
(***************************************************************************)
LEMMA EnvironmentAdds ==
  ASSUME TypeOK, FileAwaited, Environment
  PROVE  StepsLeft' <= StepsLeft
<1>1. CASE UNCHANGED <<pc, found, code_files, scratch>>
  <2>1. StepsLeft' = StepsLeft
    BY <1>1 DEF StepsLeft, Wanting
  <2> QED
    BY <2>1, StepsLeftType
<1>2. CASE Crash
  BY <1>2, QuitEnds DEF Crash
<1>3. Crash \/ UNCHANGED <<pc, found, code_files, scratch>>
  BY DEF Environment, Signal, AddStatement, DeleteStatement, MoveStatement,
         Edit, DeleteLock, process, job
<1> QED
  BY <1>1, <1>2, <1>3

(***************************************************************************)
(* Every step of a run brings its end nearer, whatever fails, and nobody   *)
(* puts it off: see Progress.                                              *)
(***************************************************************************)
THEOREM RunsProgress == Spec => Progress
<1>1. Init => FileAwaited
  BY DEF Init, FileAwaited
<1>2. FileAwaited /\ [Next]_vars => FileAwaited'
  BY FileAwaitedStep
<1>3. TypeOK /\ FileAwaited /\ [Next]_vars
        => [/\ Step => StepsLeft' < StepsLeft
            /\ Environment => StepsLeft' <= StepsLeft]_vars
  BY StepCounts, EnvironmentAdds
<1> QED
  BY <1>1, <1>2, <1>3, TypeCorrect, PTL DEF Spec, Progress

-----------------------------------------------------------------------------
(* The count takes nothing from what Breadlog can do.                     *)
LEMMA CountedImplies == CountedSpec => Spec
<1>1. [CountedNext]_<<vars, steps>> => [Next]_vars
  BY DEF CountedNext, Next
<1> QED
  BY <1>1, PTL DEF CountedSpec, CountedInit, Spec

(***************************************************************************)
(* The steps a run has taken and those it has yet to take are no more than *)
(* a code base of this size allows.  RunShort alone is not inductive: what *)
(* is left to do has to be known at every step.                            *)
(***************************************************************************)
Budget == steps \in Nat /\ steps + StepsLeft <= MaxSteps

(* Budget is kept by every step. *)
LEMMA BudgetStep ==
  ASSUME TypeOK, FileAwaited, Budget, [CountedNext]_<<vars, steps>>,
         StepsLeft' \in Nat
  PROVE  Budget'
<1>1. Cardinality(Files) \in Nat /\ MaxSteps \in Nat
  <2>1. \A m, n \in Nat : (n + 4) * m + 5 \in Nat
    OBVIOUS
  <2> QED
    BY <2>1, FilesCount, NumSlotsAssumption DEF MaxSteps
<1>2. StepsLeft \in Nat
  BY StepsLeftType
<1>3. ASSUME NEW check \in BOOLEAN, Start(check), steps' = 0 PROVE Budget'
  <2>1. StepsLeft' = 2 + Cardinality(Files) + InsertSteps(Cardinality(Files))
    BY <1>3 DEF Start, StepsLeft
  <2>2. InsertSteps(Cardinality(Files)) = Cardinality(Files) * (NumSlots + 3) + 3
    BY DEF InsertSteps, StepsPerFile
  <2>3. \A m, n \in Nat : 2 + m + (m * (n + 3) + 3) = (n + 4) * m + 5
    OBVIOUS
  <2>4. StepsLeft' = MaxSteps
    BY <1>1, <2>1, <2>2, <2>3, NumSlotsAssumption DEF MaxSteps
  <2> QED
    BY <1>1, <1>3, <2>4 DEF Budget, MaxSteps
<1>4. ASSUME NEW check \in BOOLEAN, StartFails(check), steps' = 0 PROVE Budget'
  <2>1. StepsLeft' = 0
    BY <1>4 DEF StartFails, StepsLeft
  <2> QED
    BY <1>1, <1>4, <2>1 DEF Budget, MaxSteps
<1>5. CASE Step /\ steps' = steps + 1
  BY <1>1, <1>2, <1>5, StepCounts DEF Budget, MaxSteps
<1>6. CASE Environment /\ UNCHANGED steps
  BY <1>1, <1>2, <1>6, EnvironmentAdds DEF Budget, MaxSteps
<1>7. CASE UNCHANGED <<vars, steps>>
  <2>1. UNCHANGED <<pc, found, code_files, scratch, steps>>
    BY <1>7 DEF vars, process, job
  <2>2. StepsLeft' = StepsLeft
    BY <2>1 DEF StepsLeft, Wanting
  <2> QED
    BY <2>1, <2>2 DEF Budget, MaxSteps
<1> QED
  BY <1>3, <1>4, <1>5, <1>6, <1>7 DEF CountedNext

(***************************************************************************)
(* No run takes more steps than the size of the code base allows, whatever *)
(* fails, whoever sends signals and however often developers edit: see     *)
(* RunShort.                                                               *)
(***************************************************************************)
THEOREM RunsBounded == CountedSpec => []RunShort
<1>1. Init => FileAwaited
  BY DEF Init, FileAwaited
<1>2. FileAwaited /\ [Next]_vars => FileAwaited'
  BY FileAwaitedStep
<1>3. Spec => []FileAwaited
  BY <1>1, <1>2, PTL DEF Spec
<1> DEFINE Left == StepsLeft \in Nat
<1>4. TypeOK /\ FileAwaited => Left
  BY StepsLeftType
<1>5. CountedInit => Budget
  <2>1. CountedInit => steps = 0 /\ StepsLeft = 0
    BY DEF CountedInit, Init, StepsLeft
  <2>2. Cardinality(Files) \in Nat /\ \A m, n \in Nat : 0 <= (n + 4) * m + 5
    BY FilesCount
  <2> QED
    BY <2>1, <2>2, NumSlotsAssumption DEF Budget, MaxSteps
<1>6. TypeOK /\ FileAwaited /\ Budget /\ Left' /\ [CountedNext]_<<vars, steps>>
        => Budget'
  BY BudgetStep
<1>7. TypeOK /\ FileAwaited /\ Budget => RunShort
  <2>1. \A m, n \in Nat : (n + 4) * m + 5 \in Nat
    OBVIOUS
  <2>2. MaxSteps \in Nat
    BY <2>1, FilesCount, NumSlotsAssumption DEF MaxSteps
  <2> QED
    BY <2>2, StepsLeftType DEF Budget, RunShort
<1> QED
  BY <1>3, <1>4, <1>5, <1>6, <1>7, CountedImplies, TypeCorrect, PTL
  DEF CountedSpec
=============================================================================

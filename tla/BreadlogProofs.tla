--------------------------- MODULE BreadlogProofs ---------------------------
(***************************************************************************)
(* Proofs about Breadlog, for every set of files, every number of slots,   *)
(* every width of the counter, every choice of faults and any number of    *)
(* runs and edits: types, the inductive invariant with what follows from   *)
(* it, and that Breadlog implements Registry.                              *)
(***************************************************************************)
EXTENDS BreadlogProperties, TLAPS

USE DEF U32

(***************************************************************************)
(* u32 arithmetic stays in u32, and is exact below the modulus.            *)
(***************************************************************************)
LEMMA WrapType == \A n \in Nat : Wrap(n) \in U32 /\ (n < RefMod => Wrap(n) = n)
  BY RefModAssumption DEF Wrap

(***************************************************************************)
(* An entry that is given a reference is an entry again.                   *)
(***************************************************************************)
LEMMA WithReferenceType ==
  ASSUME NEW e \in LogRefEntry, NeedsReference(e), NEW id \in U32
  PROVE  WithReference(e, id) \in LogRefEntry
  BY DEF LogRefEntry, LogRefKind, NeedsReference, WithReference, ReferencedKind

(* An empty slot is an entry. *)
LEMMA AbsentEntryType == AbsentEntry \in LogRefEntry
  BY DEF AbsentEntry, LogRefEntry, LogRefKind

(* A file of empty slots is a file. *)
LEMMA EmptyFileType == EmptyFile \in [Slots -> LogRefEntry]
  BY AbsentEntryType DEF EmptyFile

(***************************************************************************)
(* Recording a lapse keeps the history variable's type.                    *)
(***************************************************************************)
LEMMA LapseType ==
  ASSUME TypeOK, NEW kind \in LapseKinds, NEW b, Lapse(kind, b)
  PROVE  lapses' \subseteq LapseKinds
  BY DEF TypeOK, EnvironmentType, Lapse

(***************************************************************************)
(* The end of the process is well typed, wherever it ends.                 *)
(***************************************************************************)
LEMMA QuitType ==
  ASSUME TypeOK, NEW how \in {"ok", "err", "killed"}, Quit(how),
         UNCHANGED <<code, temps, runs, edits>>,
         lock' \in U32 \cup {None, Corrupt},
         lapses' \subseteq LapseKinds
  PROVE  TypeOK'
<1>1. DiskType'
  BY DEF TypeOK, DiskType, Quit
<1>2. ControlType'
  BY DEF TypeOK, ControlType, Quit
<1>3. NumbersType'
  BY RefModAssumption DEF NumbersType, Quit
<1>4. PassType'
  BY DEF PassType, Quit
<1>5. JobType'
  BY EmptyFileType DEF JobType, Quit
<1>6. EnvironmentType'
  BY DEF TypeOK, EnvironmentType
<1> QED
  BY <1>1, <1>2, <1>3, <1>4, <1>5, <1>6 DEF TypeOK

(***************************************************************************)
(* Every step keeps the types, one action at a time.                       *)
(***************************************************************************)
LEMMA TypeStep ==
  ASSUME TypeOK, [Next]_vars
  PROVE  TypeOK'
<1> USE DEF disk, LapseKinds
<1>1. ASSUME DiscoverFails PROVE TypeOK'
  BY <1>1, QuitType DEF DiscoverFails, TypeOK, DiskType, EnvironmentType
<1>2. ASSUME Stop PROVE TypeOK'
  <2>1. lapses' \subseteq LapseKinds
    BY <1>2, LapseType DEF Stop
  <2> QED
    BY <1>2, <2>1, QuitType DEF Stop, TypeOK, DiskType
<1>3. ASSUME FinishCount PROVE TypeOK'
  BY <1>3, QuitType DEF FinishCount, TypeOK, DiskType, EnvironmentType
<1>4. ASSUME ScanOverflows PROVE TypeOK'
  BY <1>4, QuitType DEF ScanOverflows, TypeOK, DiskType, EnvironmentType
<1>5. ASSUME NothingToDo PROVE TypeOK'
  BY <1>5, QuitType DEF NothingToDo, TypeOK, DiskType, EnvironmentType
<1>6. ASSUME CacheOverflows PROVE TypeOK'
  <2>1. lapses' \subseteq LapseKinds
    BY <1>6, LapseType DEF CacheOverflows
  <2> QED
    BY <1>6, <2>1, QuitType DEF CacheOverflows, TypeOK, DiskType
<1>7. ASSUME FinishUncached PROVE TypeOK'
  <2>1. lapses' \subseteq LapseKinds
    BY <1>7, LapseType DEF FinishUncached
  <2> QED
    BY <1>7, <2>1, QuitType DEF FinishUncached, TypeOK, DiskType
<1>8. ASSUME LockOpenFails PROVE TypeOK'
  <2>1. lapses' \subseteq LapseKinds
    BY <1>8, LapseType DEF LockOpenFails
  <2> QED
    BY <1>8, <2>1, QuitType DEF LockOpenFails, TypeOK, DiskType
<1>9. ASSUME LockWriteFails PROVE TypeOK'
  BY <1>9, QuitType DEF LockWriteFails, TypeOK, DiskType, EnvironmentType
<1>10. ASSUME Crash PROVE TypeOK'
  <2>1. lapses' \subseteq LapseKinds
    BY <1>10, LapseType DEF Crash
  <2> QED
    BY <1>10, <2>1, QuitType DEF Crash, TypeOK, DiskType
<1>11. ASSUME FillLock PROVE TypeOK'
  <2>1. lock' \in U32
    BY <1>11, WrapType DEF TypeOK, NumbersType, FillLock, CachableReferenceId
  <2> QED
    BY <1>11, <2>1, QuitType DEF FillLock, TypeOK, EnvironmentType
<1>12. ASSUME NEW files \in SUBSET Files, Discover(files) PROVE TypeOK'
  <2>1. lapses' \subseteq LapseKinds
    BY <1>12 DEF Discover, Unsettled, TypeOK, EnvironmentType
  <2> QED
    BY <1>12, <2>1
    DEF Discover, FirstPass, TypeOK, DiskType, ControlType, NumbersType,
        PassType, JobType, EnvironmentType, ids, results, job
<1>13. ASSUME NEW f \in Files, LoadFails(f) PROVE TypeOK'
  <2>1. lapses' \subseteq LapseKinds
    BY <1>13, LapseType DEF LoadFails
  <2> QED
    BY <1>13, <2>1
    DEF LoadFails, NextFile, TypeOK, DiskType, ControlType, NumbersType,
        PassType, JobType, EnvironmentType, ids, results, job
<1>14. ASSUME NEW f \in Files, CountFile(f) PROVE TypeOK'
  BY <1>14
  DEF CountFile, NextFile, TypeOK, DiskType, ControlType, NumbersType,
      PassType, JobType, EnvironmentType, ids, results, job
<1>15. ASSUME NEW f \in Files, SkipFile(f) PROVE TypeOK'
  BY <1>15
  DEF SkipFile, NextFile, TypeOK, DiskType, ControlType, NumbersType,
      PassType, JobType, EnvironmentType, ids, results, job
<1>16. ASSUME NEW f \in Files, CreateFails(f) PROVE TypeOK'
  BY <1>16
  DEF CreateFails, NextFile, TypeOK, DiskType, ControlType, NumbersType,
      PassType, JobType, EnvironmentType, ids, results, job
<1>17. ASSUME NEW f \in Files, CreateScratch(f) PROVE TypeOK'
  BY <1>17, FilesAssumption
  DEF CreateScratch, NextFile, TypeOK, DiskType, ControlType, NumbersType,
      PassType, JobType, EnvironmentType, ids, results, job
<1>18. ASSUME WriteFails PROVE TypeOK'
  <2>1. lapses' \subseteq LapseKinds
    BY <1>18, LapseType DEF WriteFails
  <2> QED
    BY <1>18, <2>1
    DEF WriteFails, TypeOK, DiskType, ControlType, NumbersType, PassType,
        JobType, EnvironmentType, ids, results, job
<1>19. ASSUME WriteFailsAfterDraw PROVE TypeOK'
  <2>1. lapses' \subseteq LapseKinds
    BY <1>19 DEF WriteFailsAfterDraw, TypeOK, EnvironmentType
  <2> QED
    BY <1>19, <2>1, WrapType
    DEF WriteFailsAfterDraw, TypeOK, DiskType, ControlType, NumbersType,
        PassType, JobType, EnvironmentType, ids, results, job
<1>20. ASSUME NEW k \in 0 .. NumSlots, RenameScratch(k) PROVE TypeOK'
  BY <1>20, AbsentEntryType
  DEF RenameScratch, OnDisk, TypeOK, DiskType, ControlType, NumbersType,
      PassType, JobType, EnvironmentType, ids, results, job
<1>21. ASSUME RenameFails PROVE TypeOK'
  BY <1>21
  DEF RenameFails, TypeOK, DiskType, ControlType, NumbersType, PassType,
      JobType, EnvironmentType, ids, results, job
<1>22. ASSUME FlushScratch PROVE TypeOK'
  BY <1>22, EmptyFileType
  DEF FlushScratch, MapReturns, TypeOK, DiskType, ControlType, NumbersType,
      PassType, JobType, EnvironmentType, ids, results, job
<1>23. ASSUME FlushFails PROVE TypeOK'
  BY <1>23, EmptyFileType
  DEF FlushFails, MapReturns, TypeOK, DiskType, ControlType, NumbersType,
      PassType, JobType, EnvironmentType, ids, results, job
<1>24. ASSUME DiscardScratch PROVE TypeOK'
  BY <1>24, EmptyFileType
  DEF DiscardScratch, MapReturns, TypeOK, DiskType, ControlType,
      NumbersType, PassType, JobType, EnvironmentType, ids, results, job
<1>25. ASSUME FinishInsert PROVE TypeOK'
  <2>1. lapses' \subseteq LapseKinds
    BY <1>25, LapseType DEF FinishInsert
  <2> QED
    BY <1>25, <2>1
    DEF FinishInsert, AllFilesDone, TypeOK, DiskType, ControlType,
        NumbersType, PassType, JobType, EnvironmentType, ids, results, job
<1>26. ASSUME TruncateLock PROVE TypeOK'
  BY <1>26
  DEF TruncateLock, TypeOK, DiskType, ControlType, NumbersType, PassType,
      JobType, EnvironmentType, ids, results, job
<1>27. ASSUME Signal PROVE TypeOK'
  BY <1>27
  DEF Signal, TypeOK, DiskType, ControlType, NumbersType, PassType, JobType,
      EnvironmentType, ids, results, job
<1>28. ASSUME NEW f \in Files, ScanFile(f) PROVE TypeOK'
  <2>1. max_ref' \in U32
    BY <1>28 DEF ScanFile, TypeOK, NumbersType, DiskType, References, LogRefEntry
  <2> QED
    BY <1>28, <2>1
    DEF ScanFile, NextFile, TypeOK, DiskType, ControlType, NumbersType,
        PassType, JobType, EnvironmentType, ids, job
<1>29. ASSUME FinishScan PROVE TypeOK'
  <2>1. NumbersType'
    BY <1>29, RefModAssumption, WrapType DEF FinishScan, TypeOK, NumbersType, job
  <2>2. lapses' \subseteq LapseKinds
    BY <1>29, LapseType DEF FinishScan
  <2> QED
    BY <1>29, <2>1, <2>2
    DEF FinishScan, AllFilesDone, TypeOK, DiskType, ControlType, PassType,
        JobType, EnvironmentType, job
<1>30. ASSUME NEW s \in Slots, InsertReference(s) PROVE TypeOK'
  <2>1. NumbersType'
    BY <1>30, RefModAssumption, WrapType
    DEF InsertReference, FetchAdd, TypeOK, NumbersType, results
  <2>2. lapses' \subseteq LapseKinds
    BY <1>30, LapseType DEF InsertReference, FetchAdd
  <2>3. WithReference(scratch[s], next_reference_id) \in LogRefEntry
    BY <1>30, WithReferenceType
    DEF InsertReference, NextEntry, TypeOK, JobType, NumbersType
  <2>4. JobType'
    BY <1>30, <2>3 DEF InsertReference, TypeOK, JobType
  <2> QED
    BY <1>30, <2>1, <2>2, <2>4
    DEF InsertReference, TypeOK, DiskType, ControlType, PassType,
        EnvironmentType, results
<1>31. ASSUME NEW check \in BOOLEAN, Start(check) PROVE TypeOK'
  <2>1. NumbersType'
    BY <1>31 DEF Start, TypeOK, NumbersType, results, job
  <2>2. EnvironmentType'
    BY <1>31, BoundAssumption DEF Start, TypeOK, EnvironmentType
  <2> QED
    BY <1>31, <2>1, <2>2
    DEF Start, TypeOK, DiskType, ControlType, PassType, JobType, results,
        job
<1>32. ASSUME NEW check \in BOOLEAN, StartFails(check) PROVE TypeOK'
  <2>1. EnvironmentType'
    BY <1>32, BoundAssumption DEF StartFails, TypeOK, EnvironmentType
  <2> QED
    BY <1>32, <2>1
    DEF StartFails, TypeOK, DiskType, NumbersType, ControlType, PassType,
        JobType, results, job, ids
<1>33. ASSUME NEW rows \in [Files -> [Slots -> LogRefEntry]],
           edits < MaxEdits, Edit(rows) PROVE TypeOK'
  <2>1. DiskType' /\ EnvironmentType'
    BY <1>33, BoundAssumption DEF Edit, process, TypeOK, DiskType, EnvironmentType
  <2> QED
    BY <1>33, <2>1
    DEF Edit, process, TypeOK, ControlType, NumbersType, PassType, JobType,
        ids, results, job
<1>34. ASSUME NEW f \in Files, NEW s \in Slots, NEW kind \in WrittenKinds,
           AddStatement(f, s, kind) PROVE TypeOK'
  <2>1. [kind |-> kind, reference |-> None] \in LogRefEntry
    BY InitAssumption DEF LogRefEntry
  <2>2. [code EXCEPT ![f][s] = [kind |-> kind, reference |-> None]]
            \in [Files -> [Slots -> LogRefEntry]]
    BY <2>1 DEF TypeOK, DiskType
  <2> QED
    BY <1>34, <1>33, <2>2 DEF AddStatement, CanEdit
<1>35. ASSUME NEW f \in Files, NEW s \in Slots, DeleteStatement(f, s) PROVE TypeOK'
  <2>1. [code EXCEPT ![f][s] = AbsentEntry] \in [Files -> [Slots -> LogRefEntry]]
    BY AbsentEntryType DEF TypeOK, DiskType
  <2> QED
    BY <1>35, <1>33, <2>1 DEF DeleteStatement, CanEdit
<1>36. ASSUME NEW f \in Files, NEW s \in Slots, NEW g \in Files, NEW t \in Slots,
           MoveStatement(f, s, g, t) PROVE TypeOK'
  <2>1. [code EXCEPT ![f][s] = AbsentEntry, ![g][t] = code[f][s]]
            \in [Files -> [Slots -> LogRefEntry]]
    BY AbsentEntryType DEF TypeOK, DiskType
  <2> QED
    BY <1>36, <1>33, <2>1 DEF MoveStatement, CanEdit
<1>37. ASSUME DeleteLock PROVE TypeOK'
  <2>1. DiskType' /\ EnvironmentType'
    BY <1>37, BoundAssumption
    DEF DeleteLock, process, TypeOK, DiskType, EnvironmentType
  <2> QED
    BY <1>37, <2>1
    DEF DeleteLock, process, TypeOK, ControlType, NumbersType, PassType,
        JobType, ids, results, job
<1>38. ASSUME UNCHANGED vars PROVE TypeOK'
  BY <1>38
  DEF vars, process, ids, results, job, TypeOK, DiskType, ControlType,
      NumbersType, PassType, JobType, EnvironmentType
<1> QED
  BY <1>1, <1>2, <1>3, <1>4, <1>5, <1>6, <1>7, <1>8, <1>9, <1>10, <1>11,
     <1>12, <1>13, <1>14, <1>15, <1>16, <1>17, <1>18, <1>19, <1>20, <1>21,
     <1>22, <1>23, <1>24, <1>25, <1>26, <1>27, <1>28, <1>29, <1>30, <1>31,
     <1>32, <1>34, <1>35, <1>36, <1>37, <1>38
  DEF Next, Step, Environment

(* The initial states are well typed. *)
LEMMA InitType == Init => TypeOK
<1> SUFFICES ASSUME Init PROVE TypeOK
  OBVIOUS
<1>1. DiskType /\ ControlType
  BY InitAssumption DEF Init, DiskType, ControlType, InitialEntry
<1>2. NumbersType
  BY RefModAssumption DEF Init, NumbersType
<1>3. PassType
  BY DEF Init, PassType
<1>4. JobType
  BY EmptyFileType DEF Init, JobType
<1>5. EnvironmentType
  BY BoundAssumption DEF Init, EnvironmentType
<1> QED
  BY <1>1, <1>2, <1>3, <1>4, <1>5 DEF TypeOK

(***************************************************************************)
(* Type correctness: see TypeOK.                                           *)
(***************************************************************************)
THEOREM TypeCorrect == Spec => []TypeOK
<1>1. TypeOK /\ [Next]_vars => TypeOK'
  BY TypeStep
<1> QED
  BY <1>1, InitType, PTL DEF Spec

(***************************************************************************)
(* Some references of the code gone, the rest where they were.             *)
(***************************************************************************)
Shrinks(after, before) ==
    \A f \in Files : \A s \in Slots :
        after[f][s].reference \in {None, before[f][s].reference}

(* Losing references makes no duplicate and none too large.               *)
LEMMA ShrinksKeeps ==
  ASSUME NEW before, NEW after, Shrinks(after, before), NEW n
  PROVE  /\ Distinct(before) => Distinct(after)
         /\ Below(before, n) => Below(after, n)
  BY DEF Shrinks, Distinct, Below

(***************************************************************************)
(* A reference beyond all others may be given to any one statement.        *)
(***************************************************************************)
LEMMA FreshReference ==
  ASSUME NEW rows \in [Files -> [Slots -> LogRefEntry]], NEW n \in U32,
         Distinct(rows), Below(rows, n), NEW f \in Files, NEW s \in Slots,
         NEW e \in LogRefEntry, e.reference = n
  PROVE  /\ Distinct([rows EXCEPT ![f][s] = e])
         /\ Below([rows EXCEPT ![f][s] = e], n + 1)
<1> DEFINE new == [rows EXCEPT ![f][s] = e]
<1>1. \A g \in Files, t \in Slots :
        new[g][t] = IF g = f /\ t = s THEN e ELSE rows[g][t]
  OBVIOUS
<1>2. \A g \in Files, t \in Slots :
        rows[g][t].reference \in U32 \cup {None}
  BY DEF LogRefEntry
<1> HIDE DEF new
<1>3. Distinct(new)
  BY <1>1, <1>2, NoneAssumption DEF Distinct, Below
<1>4. Below(new, n + 1)
  BY <1>1, <1>2, NoneAssumption DEF Below
<1> QED
  BY <1>3, <1>4 DEF new

(***************************************************************************)
(* No lapse after a step means none before it and none in it.              *)
(***************************************************************************)
LEMMA NoLapse ==
  ASSUME NEW kind, NEW b, Lapse(kind, b), lapses' = {}
  PROVE  lapses = {} /\ ~b
  BY DEF Lapse

(***************************************************************************)
(* A row without references.                                               *)
(***************************************************************************)
LEMMA NoReferences ==
  \A row : References(row) = {} => \A s \in Slots : row[s].reference = None
  BY DEF References

(* What is below n is below n + 1. *)
LEMMA BelowNext ==
  ASSUME NEW rows \in [Files -> [Slots -> LogRefEntry]], NEW n \in U32,
         Below(rows, n)
  PROVE  Below(rows, n + 1)
<1>1. \A f \in Files : \A s \in Slots : rows[f][s].reference \in U32 \cup {None}
  BY DEF LogRefEntry
<1> QED
  BY <1>1 DEF Below

(***************************************************************************)
(* A run that ends before it empties the lock file, without having drawn   *)
(* beyond it, leaves behind a number that is still beyond the code.        *)
(***************************************************************************)
LEMMA LockStillAhead ==
  ASSUME TypeOK, NumberCurrent, NextIsFresh, ~DrawnBeyondLock,
         UseCache, lock \in U32
  PROVE  Below(code, lock)
<1>1. CASE pc \in {"idle", "find", "count"}
  BY <1>1 DEF NextIsFresh
<1>2. CASE pc \in {"scan", "fill"}
  BY <1>2, CorruptAssumption DEF NumberCurrent
<1>3. CASE pc \in {"insert", "entry", "flush", "discard", "save"}
  <2>1. next_reference_id = lock
    BY <1>3 DEF DrawnBeyondLock, NumberCurrent, Inserting
  <2> QED
    BY <1>3, <2>1 DEF NextIsFresh, Inserting
<1> QED
  BY <1>1, <1>2, <1>3 DEF TypeOK, ControlType

(***************************************************************************)
(* What is left to show when a run ends.                                   *)
(***************************************************************************)
LEMMA QuitFresh ==
  ASSUME NextIsFresh, NEW how, Quit(how), UNCHANGED code,
         UseCache /\ lock' \in U32 => Below(code, lock')
  PROVE  NextIsFresh'
  BY DEF NextIsFresh, Quit, Distinct, Below, Rewriting, Inserting, LedgerExact

(***************************************************************************)
(* What a run knows of the lock file stays true, and the counts of a pass  *)
(* start from zero.                                                        *)
(***************************************************************************)
LEMMA NumberStep ==
  ASSUME TypeOK, NumberCurrent, CountsFresh, [Next]_vars
  PROVE  NumberCurrent' /\ CountsFresh'
<1> USE NoneAssumption, CorruptAssumption
    DEF NumberCurrent, CountsFresh, Inserting, disk, ids, results, job
<1>1. ASSUME NEW files \in SUBSET Files, Discover(files)
      PROVE  NumberCurrent' /\ CountsFresh'
  BY <1>1 DEF Discover, FirstPass
<1>2. ASSUME DiscoverFails PROVE NumberCurrent' /\ CountsFresh'
  BY <1>2 DEF DiscoverFails, Quit
<1>3. ASSUME Stop PROVE NumberCurrent' /\ CountsFresh'
  BY <1>3 DEF Stop, Quit
<1>4. ASSUME NEW f \in Files, LoadFails(f)
      PROVE  NumberCurrent' /\ CountsFresh'
  BY <1>4 DEF LoadFails, NextFile
<1>5. ASSUME NEW f \in Files, CountFile(f)
      PROVE  NumberCurrent' /\ CountsFresh'
  BY <1>5 DEF CountFile, NextFile
<1>6. ASSUME NEW f \in Files, ScanFile(f) PROVE NumberCurrent' /\ CountsFresh'
  BY <1>6 DEF ScanFile, NextFile
<1>7. ASSUME NEW f \in Files, SkipFile(f) PROVE NumberCurrent' /\ CountsFresh'
  BY <1>7 DEF SkipFile, NextFile
<1>8. ASSUME NEW f \in Files, CreateFails(f)
      PROVE  NumberCurrent' /\ CountsFresh'
  BY <1>8 DEF CreateFails, NextFile
<1>9. ASSUME NEW f \in Files, CreateScratch(f)
      PROVE  NumberCurrent' /\ CountsFresh'
  BY <1>9 DEF CreateScratch, NextFile
<1>10. ASSUME FinishCount PROVE NumberCurrent' /\ CountsFresh'
  BY <1>10 DEF FinishCount, AllFilesDone, Quit
<1>11. ASSUME ScanOverflows PROVE NumberCurrent' /\ CountsFresh'
  BY <1>11 DEF ScanOverflows, AllFilesDone, Quit
<1>12. ASSUME NothingToDo PROVE NumberCurrent' /\ CountsFresh'
  BY <1>12 DEF NothingToDo, AllFilesDone, Quit
<1>13. ASSUME FinishScan PROVE NumberCurrent' /\ CountsFresh'
  BY <1>13 DEF FinishScan, AllFilesDone
<1>14. ASSUME NEW s \in Slots, InsertReference(s)
      PROVE  NumberCurrent' /\ CountsFresh'
  BY <1>14 DEF InsertReference, FetchAdd
<1>15. ASSUME WriteFails PROVE NumberCurrent' /\ CountsFresh'
  BY <1>15 DEF WriteFails
<1>16. ASSUME WriteFailsAfterDraw PROVE NumberCurrent' /\ CountsFresh'
  BY <1>16 DEF WriteFailsAfterDraw
<1>17. ASSUME NEW k \in 0 .. NumSlots, RenameScratch(k)
      PROVE  NumberCurrent' /\ CountsFresh'
  BY <1>17 DEF RenameScratch
<1>18. ASSUME RenameFails PROVE NumberCurrent' /\ CountsFresh'
  BY <1>18 DEF RenameFails
<1>19. ASSUME FlushScratch PROVE NumberCurrent' /\ CountsFresh'
  BY <1>19 DEF FlushScratch, MapReturns
<1>20. ASSUME FlushFails PROVE NumberCurrent' /\ CountsFresh'
  BY <1>20 DEF FlushFails, MapReturns
<1>21. ASSUME DiscardScratch PROVE NumberCurrent' /\ CountsFresh'
  BY <1>21 DEF DiscardScratch, MapReturns
<1>22. ASSUME CacheOverflows PROVE NumberCurrent' /\ CountsFresh'
  BY <1>22 DEF CacheOverflows, AllFilesDone, Quit
<1>23. ASSUME FinishInsert PROVE NumberCurrent' /\ CountsFresh'
  BY <1>23 DEF FinishInsert, AllFilesDone
<1>24. ASSUME FinishUncached PROVE NumberCurrent' /\ CountsFresh'
  BY <1>24 DEF FinishUncached, AllFilesDone, Quit
<1>25. ASSUME LockOpenFails PROVE NumberCurrent' /\ CountsFresh'
  BY <1>25 DEF LockOpenFails, Quit
<1>26. ASSUME TruncateLock PROVE NumberCurrent' /\ CountsFresh'
  BY <1>26 DEF TruncateLock
<1>27. ASSUME FillLock PROVE NumberCurrent' /\ CountsFresh'
  BY <1>27 DEF FillLock, Quit, CachableReferenceId
<1>28. ASSUME LockWriteFails PROVE NumberCurrent' /\ CountsFresh'
  BY <1>28 DEF LockWriteFails, Quit
<1>29. ASSUME NEW check \in BOOLEAN, Start(check)
      PROVE  NumberCurrent' /\ CountsFresh'
  BY <1>29 DEF Start
<1>30. ASSUME NEW check \in BOOLEAN, StartFails(check)
      PROVE  NumberCurrent' /\ CountsFresh'
  BY <1>30 DEF StartFails
<1>31. ASSUME Signal PROVE NumberCurrent' /\ CountsFresh'
  BY <1>31 DEF Signal
<1>32. ASSUME Crash PROVE NumberCurrent' /\ CountsFresh'
  BY <1>32 DEF Crash, Quit
<1>33. ASSUME NEW f \in Files, NEW s \in Slots, NEW kind \in WrittenKinds,
             AddStatement(f, s, kind)
      PROVE  NumberCurrent' /\ CountsFresh'
  BY <1>33 DEF AddStatement, Edit, process
<1>34. ASSUME NEW f \in Files, NEW s \in Slots, DeleteStatement(f, s)
      PROVE  NumberCurrent' /\ CountsFresh'
  BY <1>34 DEF DeleteStatement, Edit, process
<1>35. ASSUME NEW f \in Files, NEW s \in Slots, NEW g \in Files, NEW t \in Slots,
             MoveStatement(f, s, g, t)
      PROVE  NumberCurrent' /\ CountsFresh'
  BY <1>35 DEF MoveStatement, Edit, process
<1>36. ASSUME DeleteLock PROVE NumberCurrent' /\ CountsFresh'
  BY <1>36 DEF DeleteLock, process
<1>37. ASSUME UNCHANGED vars PROVE NumberCurrent' /\ CountsFresh'
  BY <1>37 DEF vars, process
<1> QED
  BY <1>1, <1>2, <1>3, <1>4, <1>5, <1>6, <1>7, <1>8, <1>9, <1>10, <1>11,
     <1>12, <1>13, <1>14, <1>15, <1>16, <1>17, <1>18, <1>19, <1>20, <1>21,
     <1>22, <1>23, <1>24, <1>25, <1>26, <1>27, <1>28, <1>29, <1>30, <1>31,
     <1>32, <1>33, <1>34, <1>35, <1>36, <1>37
  DEF Next, Step, Environment

(***************************************************************************)
(* The choice of the first pass.  A run that looks for its number itself   *)
(* needs nothing of what earlier runs have counted, only code without      *)
(* duplicates; any other needs that no lapse has happened.                 *)
(***************************************************************************)
LEMMA DiscoverFresh ==
  ASSUME IInv, NEW files \in SUBSET Files, Discover(files), lapses' = {}
  PROVE  NextIsFresh'
<1> USE DEF IInv, disk, ids, results, job
<1>1. CASE FirstPass = "scan"
  <2>1. \A f \in Files \ files : References(code[f]) = {}
    BY <1>1 DEF Discover
  <2>2. \A f \in Files \ files : \A s \in Slots : code[f][s].reference = None
    BY <2>1, NoReferences
  <2>3. /\ pc' = "scan" /\ code_files' = files /\ code' = code
        /\ UNCHANGED lock
    BY <1>1 DEF Discover
  <2>4. \A f \in Files \ code_files' : \A s \in Slots :
           code'[f][s].reference # None => code'[f][s].reference <= max_ref'
    BY <2>2, <2>3
  <2>5. Distinct(code)
    BY DEF Discover, Unsettled, NextIsFresh
  <2> QED
    BY <2>3, <2>4, <2>5 DEF NextIsFresh, Distinct, Rewriting, Inserting, LedgerExact
<1>2. CASE FirstPass = "insert"
  <2>1. /\ cached_next_reference_id # None
        /\ next_reference_id' = cached_next_reference_id
        /\ calculated_next_reference_id' = cached_next_reference_id
        /\ pc' = "insert" /\ num_inserted' = 0 /\ created_entries' = 0
        /\ UNCHANGED <<code, lock>>
    BY <1>2 DEF Discover, FirstPass, CountsFresh, Inserting
  <2>2. NextIsFresh
    BY <1>2 DEF Discover, Unsettled
  <2>3. UseCache /\ lock = cached_next_reference_id /\ lock \in U32
    BY <2>1 DEF Discover, NumberCurrent, TypeOK, NumbersType
  <2>4. Below(code, lock)
    BY <2>2, <2>3 DEF Discover, NextIsFresh
  <2>5. Below(code', next_reference_id')
    BY <2>1, <2>3, <2>4 DEF Below
  <2> QED
    BY <2>1, <2>2, <2>3, <2>5 DEF NextIsFresh, Distinct, Rewriting, LedgerExact
<1>3. CASE FirstPass = "count"
  <2>1. NextIsFresh
    BY <1>3 DEF Discover, Unsettled
  <2> QED
    BY <1>3, <2>1
    DEF Discover, NextIsFresh, Distinct, Below, Rewriting, Inserting,
        LedgerExact
<1> QED
  BY <1>1, <1>2, <1>3 DEF FirstPass

(***************************************************************************)
(* The core of the argument, one action at a time: as long as no lapse has *)
(* happened, the next reference to be drawn is unused.                     *)
(***************************************************************************)
LEMMA FreshStep ==
  ASSUME IInv, NextIsFresh, lapses = {}, lapses' = {}, [Next]_vars
  PROVE  NextIsFresh'
<1> USE DEF IInv, disk, ids, results, job
<1>1. ASSUME NEW files \in SUBSET Files, Discover(files) PROVE NextIsFresh'
  BY <1>1, DiscoverFresh
<1>2. ASSUME DiscoverFails PROVE NextIsFresh'
  <2>1. ~DrawnBeyondLock
    BY <1>2 DEF DiscoverFails, DrawnBeyondLock
  <2> QED
    BY <1>2, <2>1, LockStillAhead, QuitFresh DEF DiscoverFails
<1>3. ASSUME Stop PROVE NextIsFresh'
  <2>1. ~DrawnBeyondLock
    BY <1>3, NoLapse DEF Stop
  <2> QED
    BY <1>3, <2>1, LockStillAhead, QuitFresh DEF Stop
<1>4. ASSUME NEW f \in Files, LoadFails(f) PROVE NextIsFresh'
  <2>1. CASE pc = "scan"
    <3>1. References(code[f]) = {}
      BY <1>4, <2>1, NoLapse DEF LoadFails
    <3>2. \A s \in Slots : code[f][s].reference = None
      BY <3>1, NoReferences
    <3> QED
      BY <1>4, <2>1, <3>2
      DEF LoadFails, NextIsFresh, Distinct, Rewriting, Inserting,
          LedgerExact
  <2>2. CASE pc # "scan"
    BY <1>4, <2>2, NoLapse
    DEF LoadFails, NextFile, NextIsFresh, Distinct, Below, Rewriting,
        Inserting, LedgerExact
  <2> QED
    BY <2>1, <2>2
<1>5. ASSUME NEW f \in Files, CountFile(f) PROVE NextIsFresh'
  BY <1>5
  DEF CountFile, NextFile, NextIsFresh, Distinct, Below, Rewriting,
      Inserting, LedgerExact
<1>6. ASSUME NEW f \in Files, ScanFile(f) PROVE NextIsFresh'
  <2>1. PICK m \in {max_ref} \cup References(code[f]) :
           /\ \A r \in {max_ref} \cup References(code[f]) : r <= m
           /\ max_ref' = m
    BY <1>6 DEF ScanFile
  <2>2. \A s \in Slots : code[f][s].reference # None => code[f][s].reference <= m
    BY <2>1 DEF References
  <2>3. m \in U32 /\ max_ref \in U32 /\ max_ref <= m
    BY <1>6, <2>1
    DEF References, TypeOK, DiskType, NumbersType, LogRefEntry
  <2>4. pc = "scan" /\ pc' = "scan" /\ code' = code /\ code_files' = code_files \ {f}
    BY <1>6 DEF ScanFile, NextFile
  <2>5. ASSUME NEW g \in Files \ code_files', NEW s \in Slots,
               code[g][s].reference # None
        PROVE  code[g][s].reference <= max_ref'
    <3>1. CASE g = f
      BY <2>1, <2>2, <2>5, <3>1
    <3>2. CASE g # f
      <4>1. code[g][s].reference <= max_ref
        BY <2>4, <2>5, <3>2 DEF NextIsFresh
      <4>2. code[g][s].reference \in U32
        BY <2>5 DEF TypeOK, DiskType, LogRefEntry
      <4> QED
        BY <2>1, <2>3, <4>1, <4>2
    <3> QED
      BY <3>1, <3>2
  <2> QED
    BY <2>4, <2>5 DEF NextIsFresh, Distinct, Rewriting, Inserting, LedgerExact
<1>7. ASSUME NEW f \in Files, SkipFile(f) PROVE NextIsFresh'
  BY <1>7
  DEF SkipFile, NextFile, NextIsFresh, Distinct, Below, Rewriting,
      Inserting, LedgerExact
<1>8. ASSUME NEW f \in Files, CreateFails(f) PROVE NextIsFresh'
  BY <1>8
  DEF CreateFails, NextFile, NextIsFresh, Distinct, Below, Rewriting,
      Inserting, LedgerExact
<1>9. ASSUME NEW f \in Files, CreateScratch(f) PROVE NextIsFresh'
  BY <1>9
  DEF CreateScratch, NextFile, NextIsFresh, Distinct, Below, Rewriting,
      Inserting, LedgerExact, Rewritten, TypeOK, DiskType, NumbersType,
      JobType
<1>10. ASSUME FinishCount PROVE NextIsFresh'
  <2>1. ~DrawnBeyondLock
    BY <1>10 DEF FinishCount, AllFilesDone, DrawnBeyondLock
  <2> QED
    BY <1>10, <2>1, LockStillAhead, QuitFresh DEF FinishCount
<1>11. ASSUME ScanOverflows PROVE NextIsFresh'
  <2>1. ~DrawnBeyondLock
    BY <1>11 DEF ScanOverflows, AllFilesDone, DrawnBeyondLock
  <2> QED
    BY <1>11, <2>1, LockStillAhead, QuitFresh DEF ScanOverflows
<1>12. ASSUME NothingToDo PROVE NextIsFresh'
  <2>1. ~DrawnBeyondLock
    BY <1>12 DEF NothingToDo, AllFilesDone, DrawnBeyondLock
  <2> QED
    BY <1>12, <2>1, LockStillAhead, QuitFresh DEF NothingToDo
<1>13. ASSUME FinishScan PROVE NextIsFresh'
  <2>1. max_ref + 1 # RefMod
    BY <1>13, NoLapse DEF FinishScan
  <2>2. next_reference_id' = max_ref + 1
    BY <1>13, <2>1, WrapType, RefModAssumption DEF FinishScan, TypeOK, NumbersType
  <2>3. \A f \in Files : \A s \in Slots :
           code[f][s].reference # None => code[f][s].reference <= max_ref
    BY <1>13 DEF FinishScan, AllFilesDone, NextIsFresh
  <2>4. \A f \in Files : \A s \in Slots : code[f][s].reference \in U32 \cup {None}
    BY DEF TypeOK, DiskType, LogRefEntry
  <2>5. Below(code, next_reference_id')
    BY <2>2, <2>3, <2>4 DEF Below, TypeOK, NumbersType
  <2>6. /\ pc' = "insert" /\ code' = code
        /\ calculated_next_reference_id' = next_reference_id'
        /\ num_inserted' = 0 /\ created_entries' = 0
    BY <1>13 DEF FinishScan, AllFilesDone, CountsFresh, Inserting
  <2>7. next_reference_id' \in Nat
    BY <2>1, <2>2, RefModAssumption DEF TypeOK, NumbersType
  <2>8. LedgerExact'
    <3>1. \A n \in Nat : n = n + 0 + 0
      OBVIOUS
    <3>2. next_reference_id' = calculated_next_reference_id' + 0 + 0
      BY <2>6, <2>7, <3>1
    <3> QED
      BY <2>6, <3>2 DEF LedgerExact
  <2>9. Distinct(code') /\ Below(code', next_reference_id')
    BY <2>5, <2>6 DEF NextIsFresh, Distinct, Below
  <2> QED
    BY <2>6, <2>8, <2>9 DEF NextIsFresh, Rewriting
<1>14. ASSUME NEW s \in Slots, InsertReference(s) PROVE NextIsFresh'
  <2> DEFINE e == WithReference(scratch[s], next_reference_id)
  <2>1. e \in LogRefEntry /\ e.reference = next_reference_id
    BY <1>14, WithReferenceType
    DEF InsertReference, NextEntry, TypeOK, JobType, NumbersType,
        WithReference
  <2>2. file \in Files /\ Rewritten \in [Files -> [Slots -> LogRefEntry]]
    BY <1>14 DEF InsertReference, Rewritten, TypeOK, ControlType, DiskType, JobType
  <2>3. /\ pc = "entry" /\ pc' = "entry" /\ UNCHANGED <<code, file>>
        /\ scratch' = [scratch EXCEPT ![s] = e]
    BY <1>14 DEF InsertReference
  <2>4. Rewritten' = [Rewritten EXCEPT ![file][s] = e]
    BY <2>2, <2>3 DEF Rewritten, TypeOK, DiskType
  <2>5. Distinct(Rewritten) /\ Below(Rewritten, next_reference_id)
    BY <2>3 DEF NextIsFresh, Rewriting
  <2>6. next_reference_id \in U32
    BY DEF TypeOK, NumbersType
  <2>7. Distinct(Rewritten') /\ Below(Rewritten', next_reference_id + 1)
    BY <2>1, <2>2, <2>4, <2>5, <2>6, FreshReference
  <2>8. next_reference_id' = next_reference_id + 1
    <3>1. next_reference_id + 1 # RefMod
      BY <1>14, NoLapse DEF InsertReference, FetchAdd
    <3>2. Wrap(next_reference_id + 1) = next_reference_id + 1
      BY <2>6, <3>1, WrapType, RefModAssumption
    <3> QED
      BY <1>14, <3>2 DEF InsertReference, FetchAdd
  <2>9. Below(code, next_reference_id + 1)
    BY <2>3, BelowNext
    DEF NextIsFresh, Inserting, TypeOK, DiskType, NumbersType
  <2>10. LedgerExact'
    BY <1>14, <2>6, <2>8
    DEF InsertReference, FetchAdd, NextIsFresh, LedgerExact, TypeOK,
        NumbersType
  <2>11. Distinct(code')
    BY <2>3 DEF NextIsFresh, Distinct
  <2>12. Below(code', next_reference_id') /\ Below(Rewritten', next_reference_id')
    BY <2>3, <2>7, <2>8, <2>9 DEF Below
  <2> QED
    BY <2>3, <2>7, <2>10, <2>11, <2>12 DEF NextIsFresh, Inserting, Rewriting
<1>15. ASSUME WriteFails PROVE NextIsFresh'
  <2>1. UseCache => created_entries = 0
    BY <1>15 DEF WriteFails, Lapse, TypeOK, NumbersType
  <2>2. LedgerExact'
    BY <1>15, <2>1 DEF WriteFails, NextIsFresh, LedgerExact, TypeOK, NumbersType
  <2> QED
    BY <1>15, <2>2
    DEF WriteFails, NextIsFresh, Distinct, Below, Rewriting, Inserting
<1>16. ASSUME WriteFailsAfterDraw PROVE NextIsFresh'
  <2>1. ~UseCache /\ next_reference_id + 1 # RefMod
    BY <1>16 DEF WriteFailsAfterDraw, LapseKinds
  <2>2. next_reference_id' = next_reference_id + 1
    BY <1>16, <2>1, WrapType, RefModAssumption
    DEF WriteFailsAfterDraw, TypeOK, NumbersType
  <2>3. Below(code, next_reference_id)
    BY <1>16 DEF WriteFailsAfterDraw, NextIsFresh, Inserting
  <2>4. Below(code, next_reference_id + 1)
    BY <2>3, BelowNext DEF TypeOK, DiskType, NumbersType
  <2>5. pc' = "discard" /\ UNCHANGED code
    BY <1>16 DEF WriteFailsAfterDraw
  <2> QED
    BY <2>1, <2>2, <2>4, <2>5
    DEF NextIsFresh, Distinct, Below, Rewriting, Inserting, LedgerExact
<1>17. ASSUME NEW k \in 0 .. NumSlots, RenameScratch(k) PROVE NextIsFresh'
  <2>1. /\ pc = "entry" /\ pc' = "flush" /\ file \in Files
        /\ code' = [code EXCEPT ![file] = OnDisk(scratch, k)]
        /\ UNCHANGED <<file, scratch, next_reference_id>>
    BY <1>17 DEF RenameScratch, TypeOK, JobType, ControlType
  <2>2. Shrinks(code', Rewritten)
    BY <2>1 DEF Shrinks, Rewritten, OnDisk, AbsentEntry, TypeOK, DiskType
  <2>3. Rewritten' = Rewritten
    BY <2>1 DEF Rewritten, TypeOK, DiskType
  <2>4. Distinct(Rewritten) /\ Below(Rewritten, next_reference_id)
    BY <2>1 DEF NextIsFresh, Rewriting
  <2>5. Distinct(code') /\ Below(code', next_reference_id)
    BY <2>2, <2>4, ShrinksKeeps
  <2>6. LedgerExact'
    BY <1>17 DEF RenameScratch, NextIsFresh, LedgerExact
  <2> QED
    BY <2>1, <2>3, <2>4, <2>5, <2>6 DEF NextIsFresh, Below, Rewriting, Inserting
<1>18. ASSUME RenameFails PROVE NextIsFresh'
  BY <1>18
  DEF RenameFails, NextIsFresh, Distinct, Below, Rewriting, Inserting,
      LedgerExact
<1>19. ASSUME FlushScratch PROVE NextIsFresh'
  BY <1>19
  DEF FlushScratch, MapReturns, NextIsFresh, Distinct, Below, Rewriting,
      Inserting, LedgerExact, Rewritten, TypeOK, DiskType, NumbersType,
      JobType
<1>20. ASSUME FlushFails PROVE NextIsFresh'
  BY <1>20
  DEF FlushFails, MapReturns, NextIsFresh, Distinct, Below, Rewriting,
      Inserting, LedgerExact, TypeOK, NumbersType
<1>21. ASSUME DiscardScratch PROVE NextIsFresh'
  BY <1>21
  DEF DiscardScratch, MapReturns, NextIsFresh, Distinct, Below, Rewriting,
      Inserting, LedgerExact, TypeOK, NumbersType
<1>22. ASSUME CacheOverflows PROVE NextIsFresh'
  BY <1>22, NoLapse DEF CacheOverflows
<1>23. ASSUME FinishInsert PROVE NextIsFresh'
  BY <1>23, NoLapse
  DEF FinishInsert, AllFilesDone, NextIsFresh, Distinct, Below, Rewriting,
      Inserting, LedgerExact
<1>24. ASSUME FinishUncached PROVE NextIsFresh'
  BY <1>24, QuitFresh DEF FinishUncached
<1>25. ASSUME LockOpenFails PROVE NextIsFresh'
  <2>1. ~DrawnBeyondLock
    BY <1>25, NoLapse DEF LockOpenFails
  <2> QED
    BY <1>25, <2>1, LockStillAhead, QuitFresh DEF LockOpenFails
<1>26. ASSUME TruncateLock PROVE NextIsFresh'
  BY <1>26
  DEF TruncateLock, NextIsFresh, Distinct, Below, Rewriting, Inserting,
      LedgerExact
<1>27. ASSUME FillLock PROVE NextIsFresh'
  <2>1. UseCache => CachableReferenceId = next_reference_id
    BY <1>27
    DEF FillLock, NextIsFresh, LedgerExact, CountsFresh,
        CachableReferenceId, TypeOK, NumbersType
  <2>2. UseCache => lock' = next_reference_id
    BY <1>27, <2>1, WrapType, RefModAssumption DEF FillLock, TypeOK, NumbersType
  <2>3. Below(code, next_reference_id)
    BY <1>27 DEF FillLock, NextIsFresh, Inserting
  <2> QED
    BY <1>27, <2>2, <2>3, QuitFresh DEF FillLock
<1>28. ASSUME LockWriteFails PROVE NextIsFresh'
  <2>1. ~DrawnBeyondLock
    BY <1>28 DEF LockWriteFails, DrawnBeyondLock
  <2> QED
    BY <1>28, <2>1, LockStillAhead, QuitFresh DEF LockWriteFails
<1>29. ASSUME NEW check \in BOOLEAN, Start(check) PROVE NextIsFresh'
  BY <1>29
  DEF Start, NextIsFresh, Distinct, Below, Rewriting, Inserting, LedgerExact
<1>30. ASSUME NEW check \in BOOLEAN, StartFails(check) PROVE NextIsFresh'
  BY <1>30
  DEF StartFails, NextIsFresh, Distinct, Below, Rewriting, Inserting,
      LedgerExact
<1>31. ASSUME Signal PROVE NextIsFresh'
  BY <1>31
  DEF Signal, NextIsFresh, Distinct, Below, Rewriting, Inserting,
      LedgerExact, Rewritten
<1>32. ASSUME Crash PROVE NextIsFresh'
  <2>1. ~DrawnBeyondLock
    BY <1>32, NoLapse DEF Crash
  <2> QED
    BY <1>32, <2>1, LockStillAhead, QuitFresh DEF Crash
<1>33. ASSUME NEW rows, Edit(rows),  Shrinks(rows, code), rows \in [Files -> [Slots -> LogRefEntry]]
      PROVE  NextIsFresh'
  <2>1. code' = rows /\ UNCHANGED <<lock, process, lapses>>
    BY <1>33 DEF Edit
  <2>2. Distinct(code') /\ \A n : Below(code, n) => Below(code', n)
    BY <1>33, <2>1, ShrinksKeeps DEF NextIsFresh
  <2>3. Rewriting => Shrinks(Rewritten', Rewritten)
    BY <1>33, <2>1
    DEF Shrinks, Rewritten, Rewriting, process, TypeOK, DiskType, JobType,
        ControlType
  <2>4. Rewriting' => /\ Distinct(Rewritten')
                      /\ Below(Rewritten', next_reference_id)
    BY <2>1, <2>3, ShrinksKeeps DEF NextIsFresh, Rewriting, process
  <2>5. Below(code', next_reference_id) => Below(code', next_reference_id')
    BY <2>1 DEF process
  <2>6. \A f \in Files \ code_files : \A s \in Slots :
           /\ pc = "scan"
           /\ code'[f][s].reference # None
           => code'[f][s].reference <= max_ref
    BY <1>33, <2>1 DEF NextIsFresh, Shrinks
  <2> QED
    BY <2>1, <2>2, <2>4, <2>6
    DEF NextIsFresh, Inserting, Rewriting, LedgerExact, process
<1>34. ASSUME NEW f \in Files, NEW s \in Slots, NEW kind \in WrittenKinds,
             AddStatement(f, s, kind)
      PROVE  NextIsFresh'
  <2> DEFINE rows == [code EXCEPT ![f][s] = [kind |-> kind, reference |-> None]]
  <2>1. rows \in [Files -> [Slots -> LogRefEntry]] /\ Shrinks(rows, code)
    BY InitAssumption DEF Shrinks, LogRefEntry, TypeOK, DiskType
  <2> QED
    BY <1>34, <1>33, <2>1 DEF AddStatement
<1>35. ASSUME NEW f \in Files, NEW s \in Slots, DeleteStatement(f, s)
      PROVE  NextIsFresh'
  <2> DEFINE rows == [code EXCEPT ![f][s] = AbsentEntry]
  <2>1. rows \in [Files -> [Slots -> LogRefEntry]] /\ Shrinks(rows, code)
    BY AbsentEntryType DEF Shrinks, AbsentEntry, TypeOK, DiskType
  <2> QED
    BY <1>35, <1>33, <2>1 DEF DeleteStatement
<1>36. ASSUME NEW f \in Files, NEW s \in Slots, NEW g \in Files, NEW t \in Slots,
             MoveStatement(f, s, g, t)
      PROVE  NextIsFresh'
  <2> DEFINE rows == [code EXCEPT ![f][s] = AbsentEntry, ![g][t] = code[f][s]]
  <2>1. \A h \in Files : \A u \in Slots :
           rows[h][u].reference = IF h = g /\ u = t THEN code[f][s].reference
                                  ELSE IF h = f /\ u = s THEN None
                                  ELSE code[h][u].reference
    BY <1>36 DEF MoveStatement, AbsentEntry, TypeOK, DiskType
  <2> HIDE DEF rows
  <2>2. Distinct(rows)
    BY <1>36, <2>1 DEF MoveStatement, NextIsFresh, Distinct
  <2>3. Below(code, lock) => Below(rows, lock)
    BY <1>36, <2>1 DEF MoveStatement, Below
  <2>4. /\ pc' = "idle" /\ code' = rows
        /\ pc = "idle" /\ lock' = lock
    BY <1>36 DEF MoveStatement, Edit, process, rows
  <2> QED
    BY <2>2, <2>3, <2>4
    DEF NextIsFresh, Below, Rewriting, Inserting, LedgerExact
<1>37. ASSUME DeleteLock PROVE NextIsFresh'
  BY <1>37, NoneAssumption
  DEF DeleteLock, NextIsFresh, Distinct, Below, Rewriting, Inserting,
      LedgerExact, process
<1>38. ASSUME UNCHANGED vars PROVE NextIsFresh'
  BY <1>38
  DEF vars, process, Rewritten, NextIsFresh, Distinct, Below, Rewriting,
      Inserting, LedgerExact
<1> QED
  BY <1>1, <1>2, <1>3, <1>4, <1>5, <1>6, <1>7, <1>8, <1>9, <1>10, <1>11,
     <1>12, <1>13, <1>14, <1>15, <1>16, <1>17, <1>18, <1>19, <1>20, <1>21,
     <1>22, <1>23, <1>24, <1>25, <1>26, <1>27, <1>28, <1>29, <1>30, <1>31,
     <1>32, <1>34, <1>35, <1>36, <1>37, <1>38
  DEF Next, Step, Environment

(***************************************************************************)
(* A lapse is settled by nothing but a first pass over code without        *)
(* duplicates.                                                             *)
(***************************************************************************)
LEMMA LapsesGrow ==
  ASSUME [Next]_vars, lapses' = {}
  PROVE  \/ lapses = {}
         \/ /\ Distinct(code)
            /\ \E files \in SUBSET Files : Discover(files) /\ FirstPass = "scan"
<1>1. CASE UNCHANGED vars
  BY <1>1 DEF vars
<1>2. CASE Next
  <2>1. ASSUME NEW files \in SUBSET Files, Discover(files)
        PROVE  lapses = {} \/ (Distinct(code) /\ FirstPass = "scan")
    BY <2>1 DEF Discover, Unsettled
  <2>2. CASE \A files \in SUBSET Files : ~Discover(files)
    BY <1>2, <2>2 DEF Next, Step, Environment, Lapse, process, AddStatement,
      CacheOverflows, CountFile, Crash, CreateFails, CreateScratch,
      DeleteLock, DeleteStatement, DiscardScratch, DiscoverFails, Edit, FetchAdd, FillLock, FinishCount, FinishInsert, FinishScan,
      FinishUncached, FlushFails, FlushScratch, InsertReference, LoadFails,
      LockOpenFails, LockWriteFails, MapReturns, MoveStatement, NothingToDo,
      RenameFails, RenameScratch, ScanFile, ScanOverflows, Signal, SkipFile,
      Start, StartFails, Stop, TruncateLock, WriteFails, WriteFailsAfterDraw
  <2> QED
    BY <2>1, <2>2
<1> QED
  BY <1>1, <1>2

(***************************************************************************)
(* IInv is an invariant: it holds to begin with and every step keeps it.   *)
(***************************************************************************)
THEOREM Inductive == Spec => []IInv
<1>1. Init => IInv
  <2> SUFFICES ASSUME Init PROVE IInv
    OBVIOUS
  <2>1. TypeOK
    BY InitType
  <2>2. NumberCurrent /\ CountsFresh
    BY DEF Init, NumberCurrent, CountsFresh, Inserting
  <2>3. UseCache /\ lock \in U32 => Below(code, lock)
    BY DEF Init, Below, CodeReferences, References
  <2>4. NextIsFresh
    BY <2>3 DEF Init, NextIsFresh, Rewriting, Inserting, LedgerExact
  <2> QED
    BY <2>1, <2>2, <2>4 DEF IInv
<1>2. IInv /\ [Next]_vars => IInv'
  <2> SUFFICES ASSUME IInv, [Next]_vars PROVE IInv'
    OBVIOUS
  <2>1. TypeOK' /\ NumberCurrent' /\ CountsFresh'
    BY TypeStep, NumberStep DEF IInv
  <2>2. lapses' = {} => NextIsFresh'
    BY LapsesGrow, FreshStep, DiscoverFresh DEF IInv
  <2> QED
    BY <2>1, <2>2 DEF IInv
<1> QED
  BY <1>1, <1>2, PTL DEF Spec

(***************************************************************************)
(* References are unique until a lapse happens: see UniqueUnlessLapse.     *)
(***************************************************************************)
THEOREM UniqueReferencesUnlessLapse == Spec => []UniqueUnlessLapse
<1>1. IInv => UniqueUnlessLapse
  BY DEF IInv, NextIsFresh, UniqueUnlessLapse, UniqueReferences
<1> QED
  BY <1>1, Inductive, PTL

(***************************************************************************)
(* The number the next run will trust is beyond the code: see              *)
(* LockAheadOfCode.                                                        *)
(***************************************************************************)
THEOREM LockAhead == Spec => []LockAheadOfCode
<1>1. IInv => LockAheadOfCode
  BY DEF IInv, NextIsFresh, LockAheadOfCode, Below, CodeReferences, References
<1> QED
  BY <1>1, Inductive, PTL

(***************************************************************************)
(* The counter and the reported insertions agree: see LedgerExact.         *)
(***************************************************************************)
THEOREM LedgerBalanced == Spec => []LedgerExact
<1>1. IInv => LedgerExact
  BY DEF IInv, NextIsFresh, LedgerExact
<1> QED
  BY <1>1, Inductive, PTL

(***************************************************************************)
(* Without the unsafe faults, the counter running past the largest u32 is  *)
(* the only lapse there can be.                                            *)
(***************************************************************************)
OnlyWrapped ==
    /\ lapses \subseteq {"wrapped"}
    /\ stop_commanded => "stop" \in Faults

(* Every step keeps OnlyWrapped, one action at a time. *)
LEMMA OnlyWrappedStep ==
  ASSUME SafeFaults, IInv, OnlyWrapped, [Next]_vars
  PROVE  OnlyWrapped'
<1>1. DrawnBeyondLock => UseCache
  BY DEF IInv, NumberCurrent, DrawnBeyondLock
<1> USE DEF SafeFaults, OnlyWrapped
<1>2. CASE UNCHANGED vars
  BY <1>2 DEF vars, process
<1>3. CASE Environment
  <2>1. ASSUME Signal PROVE OnlyWrapped'
    BY <2>1 DEF Signal
  <2>2. ASSUME Crash PROVE OnlyWrapped'
    BY <1>1, <2>2 DEF Crash, Quit, Lapse
  <2>3. ASSUME NEW rows, Edit(rows) PROVE OnlyWrapped'
    BY <2>3 DEF Edit, process
  <2>4. ASSUME DeleteLock PROVE OnlyWrapped'
    BY <2>4 DEF DeleteLock, process
  <2> QED
    BY <1>3, <2>1, <2>2, <2>3, <2>4
    DEF Environment, AddStatement, DeleteStatement, MoveStatement
<1>4. CASE Step
  <2>1. ASSUME NEW files \in SUBSET Files, Discover(files) PROVE OnlyWrapped'
    BY <1>1, <2>1 DEF Discover, Unsettled
  <2>2. ASSUME DiscoverFails PROVE OnlyWrapped'
    BY <1>1, <2>2 DEF DiscoverFails, Quit, Lapse
  <2>3. ASSUME Stop PROVE OnlyWrapped'
    BY <1>1, <2>3 DEF Stop, Quit, Lapse
  <2>4. ASSUME NEW f \in Files, LoadFails(f) PROVE OnlyWrapped'
    BY <1>1, <2>4 DEF LoadFails, Lapse
  <2>5. ASSUME NEW f \in Files, CountFile(f) PROVE OnlyWrapped'
    BY <1>1, <2>5 DEF CountFile, Lapse
  <2>6. ASSUME NEW f \in Files, ScanFile(f) PROVE OnlyWrapped'
    BY <1>1, <2>6 DEF ScanFile, Lapse
  <2>7. ASSUME NEW f \in Files, SkipFile(f) PROVE OnlyWrapped'
    BY <1>1, <2>7 DEF SkipFile, Lapse
  <2>8. ASSUME NEW f \in Files, CreateFails(f) PROVE OnlyWrapped'
    BY <1>1, <2>8 DEF CreateFails, Lapse
  <2>9. ASSUME NEW f \in Files, CreateScratch(f) PROVE OnlyWrapped'
    BY <1>1, <2>9 DEF CreateScratch, Lapse
  <2>10. ASSUME FinishCount PROVE OnlyWrapped'
    BY <1>1, <2>10 DEF FinishCount, Quit, Lapse
  <2>11. ASSUME ScanOverflows PROVE OnlyWrapped'
    BY <1>1, <2>11 DEF ScanOverflows, Quit, Lapse
  <2>12. ASSUME NothingToDo PROVE OnlyWrapped'
    BY <1>1, <2>12 DEF NothingToDo, Quit, Lapse
  <2>13. ASSUME FinishScan PROVE OnlyWrapped'
    BY <1>1, <2>13 DEF FinishScan, Lapse
  <2>14. ASSUME NEW s \in Slots, InsertReference(s) PROVE OnlyWrapped'
    BY <1>1, <2>14 DEF InsertReference, FetchAdd, Lapse
  <2>15. ASSUME WriteFails PROVE OnlyWrapped'
    BY <1>1, <2>15 DEF WriteFails, Lapse
  <2>16. ASSUME WriteFailsAfterDraw PROVE OnlyWrapped'
    BY <1>1, <2>16 DEF WriteFailsAfterDraw, Lapse
  <2>17. ASSUME NEW k \in 0 .. NumSlots, RenameScratch(k) PROVE OnlyWrapped'
    BY <1>1, <2>17 DEF RenameScratch, Lapse
  <2>18. ASSUME RenameFails PROVE OnlyWrapped'
    BY <1>1, <2>18 DEF RenameFails, Lapse
  <2>19. ASSUME FlushScratch PROVE OnlyWrapped'
    BY <1>1, <2>19 DEF FlushScratch, MapReturns, Lapse
  <2>20. ASSUME FlushFails PROVE OnlyWrapped'
    BY <1>1, <2>20 DEF FlushFails, MapReturns, Lapse
  <2>21. ASSUME DiscardScratch PROVE OnlyWrapped'
    BY <1>1, <2>21 DEF DiscardScratch, MapReturns, Lapse
  <2>22. ASSUME CacheOverflows PROVE OnlyWrapped'
    BY <1>1, <2>22 DEF CacheOverflows, Quit, Lapse
  <2>23. ASSUME FinishInsert PROVE OnlyWrapped'
    BY <1>1, <2>23 DEF FinishInsert, Lapse
  <2>24. ASSUME FinishUncached PROVE OnlyWrapped'
    BY <1>1, <2>24 DEF FinishUncached, Quit, Lapse
  <2>25. ASSUME LockOpenFails PROVE OnlyWrapped'
    BY <1>1, <2>25 DEF LockOpenFails, Quit, Lapse
  <2>26. ASSUME TruncateLock PROVE OnlyWrapped'
    BY <1>1, <2>26 DEF TruncateLock, Lapse
  <2>27. ASSUME FillLock PROVE OnlyWrapped'
    BY <1>1, <2>27 DEF FillLock, Quit, Lapse
  <2>28. ASSUME LockWriteFails PROVE OnlyWrapped'
    BY <1>1, <2>28 DEF LockWriteFails, Quit, Lapse
  <2> QED
    BY <1>4, <2>1, <2>2, <2>3, <2>4, <2>5, <2>6, <2>7, <2>8, <2>9, <2>10,
       <2>11, <2>12, <2>13, <2>14, <2>15, <2>16, <2>17, <2>18, <2>19, <2>20,
       <2>21, <2>22, <2>23, <2>24, <2>25, <2>26, <2>27, <2>28
    DEF Step
<1>5. ASSUME NEW check \in BOOLEAN, Start(check) PROVE OnlyWrapped'
  BY <1>5 DEF Start
<1>6. ASSUME NEW check \in BOOLEAN, StartFails(check) PROVE OnlyWrapped'
  BY <1>6 DEF StartFails
<1> QED
  BY <1>2, <1>3, <1>4, <1>5, <1>6 DEF Next

(***************************************************************************)
(* Where no unsafe fault is possible, references are unique for as long as *)
(* the counter does not run past the largest u32.                          *)
(***************************************************************************)
THEOREM SafelyUnique ==
  ASSUME SafeFaults
  PROVE  Spec => []("wrapped" \notin lapses => UniqueReferences)
<1>1. Init => OnlyWrapped
  BY DEF Init, OnlyWrapped
<1>2. IInv /\ OnlyWrapped /\ [Next]_vars => OnlyWrapped'
  BY OnlyWrappedStep
<1>3. IInv /\ OnlyWrapped => ("wrapped" \notin lapses => UniqueReferences)
  BY DEF IInv, OnlyWrapped, NextIsFresh, UniqueReferences
<1> QED
  BY <1>1, <1>2, <1>3, Inductive, PTL DEF Spec

-----------------------------------------------------------------------------
(***************************************************************************)
(* Breadlog implements Registry, for every fault and with concurrent       *)
(* edits: a step of the program or of its environment gives references,    *)
(* moves one, withdraws some, or changes nothing the registry knows of.    *)
(***************************************************************************)


(***************************************************************************)
(* While a file is being rewritten, what will replace it has every         *)
(* reference the file has (developers may have deleted some meanwhile, and *)
(* after the rename some are yet to be flushed).                           *)
(***************************************************************************)
ScratchKeeps ==
    Rewriting => \A s \in Slots :
        code[file][s].reference \in {None, scratch[s].reference}

(* At the start nothing is being rewritten.                               *)
LEMMA ScratchInit == Init => ScratchKeeps
  BY DEF Init, ScratchKeeps, Rewriting

(* ScratchKeeps is kept by every step, edits included.                    *)
LEMMA ScratchStep ==
  ASSUME TypeOK, ScratchKeeps, [Next]_vars
  PROVE  ScratchKeeps'
<1> SUFFICES ASSUME Rewriting', NEW s \in Slots
             PROVE  code'[file'][s].reference \in {None, scratch'[s].reference}
  BY DEF ScratchKeeps
<1> USE DEF TypeOK, DiskType, JobType, Rewriting
<1>1. CASE ~Rewriting
  <2>1. PICK f \in Files : CreateScratch(f)
    BY <1>1 DEF Next, Step, Environment, vars, process, AddStatement,
      CacheOverflows, CountFile, Crash, CreateFails,
      DeleteLock, DeleteStatement, DiscardScratch, Discover, DiscoverFails,
      Edit, FillLock, FinishCount, FinishInsert, FinishScan, FirstPass,
      FinishUncached, FlushFails, FlushScratch, InsertReference, LoadFails,
      LockOpenFails, LockWriteFails, MapReturns, MoveStatement, NothingToDo,
      RenameFails, RenameScratch, ScanFile, ScanOverflows, Signal, SkipFile,
      Start, StartFails, Stop, TruncateLock, WriteFails, WriteFailsAfterDraw,
      Quit
  <2> QED
    BY <2>1 DEF CreateScratch
<1>2. CASE Rewriting
  <2>1. file \in Files /\ code[file][s].reference \in {None, scratch[s].reference}
    BY <1>2, NoneAssumption, FilesAssumption DEF ScratchKeeps
  <2>2. ASSUME NEW t \in Slots, InsertReference(t)
        PROVE  code'[file'][s].reference \in {None, scratch'[s].reference}
    <3>1. scratch[t].reference = None
      BY <2>2 DEF InsertReference, NextEntry, NeedsReference, Exists
    <3> QED
      BY <2>1, <2>2, <3>1 DEF InsertReference, disk, WithReference
  <2>3. ASSUME NEW f \in Files, NEW t \in Slots, NEW e \in LogRefEntry,
               e.reference = None, Edit([code EXCEPT ![f][t] = e])
        PROVE  code'[file'][s].reference \in {None, scratch'[s].reference}
    BY <2>1, <2>3 DEF Edit, process, job
  <2>4. CASE UNCHANGED <<code, file, scratch>>
    BY <2>1, <2>4
  <2>8. ASSUME NEW k \in 0 .. NumSlots, RenameScratch(k)
        PROVE  code'[file'][s].reference \in {None, scratch'[s].reference}
    BY <2>1, <2>8 DEF RenameScratch, OnDisk, AbsentEntry, job
  <2>5. ASSUME NEW f \in Files, NEW t \in Slots, NEW kind \in WrittenKinds,
               AddStatement(f, t, kind)
        PROVE  code'[file'][s].reference \in {None, scratch'[s].reference}
    <3>1. [kind |-> kind, reference |-> None] \in LogRefEntry
      BY InitAssumption DEF LogRefEntry
    <3> QED
      BY <2>3, <2>5, <3>1 DEF AddStatement
  <2>6. ASSUME NEW f \in Files, NEW t \in Slots, DeleteStatement(f, t)
        PROVE  code'[file'][s].reference \in {None, scratch'[s].reference}
    BY <2>3, <2>6, AbsentEntryType DEF DeleteStatement, AbsentEntry
  <2>7. \/ UNCHANGED <<code, file, scratch>>
        \/ \E f \in Files, t \in Slots :
            \/ InsertReference(t)
            \/ DeleteStatement(f, t)
            \/ \E kind \in WrittenKinds : AddStatement(f, t, kind)
        \/ \E k \in 0 .. NumSlots : RenameScratch(k)
    BY <1>2 DEF Next, Step, Environment, vars, process, disk, job, NextFile,
      AllFilesDone, CacheOverflows, CountFile, Crash, CreateFails,
      CreateScratch, DeleteLock, DiscardScratch, Discover, DiscoverFails,
      FillLock, FinishCount, FinishInsert, FinishScan, FinishUncached,
      FlushFails, FlushScratch, LoadFails, LockOpenFails, LockWriteFails,
      MapReturns, MoveStatement, NothingToDo, RenameFails, RenameScratch,
      ScanFile, ScanOverflows, Signal, SkipFile, Start, StartFails, Stop,
      TruncateLock, WriteFails, WriteFailsAfterDraw, Quit
  <2> QED
    BY <2>2, <2>4, <2>5, <2>6, <2>7, <2>8
<1> QED
  BY <1>1, <1>2

-----------------------------------------------------------------------------
(***************************************************************************)
(* The code base as the registry sees it: any rows, their references.      *)
(***************************************************************************)
Seen(rows) == [p \in Files \X Slots |-> rows[p[1]][p[2]].reference]

(* What the registry sees of rows, place by place.                        *)
LEMMA SeenRows ==
  ASSUME NEW rows \in [Files -> [Slots -> LogRefEntry]]
  PROVE  /\ Seen(rows) \in R!Assignments
         /\ \A f \in Files, s \in Slots : Seen(rows)[<<f, s>>] = rows[f][s].reference
         /\ Distinct(rows) => R!Unambiguous(Seen(rows))
<1>1. Seen(rows) \in R!Assignments
  BY DEF Seen, R!Assignments, LogRefEntry
<1>2. \A f \in Files, s \in Slots : Seen(rows)[<<f, s>>] = rows[f][s].reference
  BY DEF Seen
<1>3. ASSUME Distinct(rows),
             NEW p \in Files \X Slots, NEW q \in Files \X Slots,
             Seen(rows)[p] # None, Seen(rows)[p] = Seen(rows)[q]
      PROVE  p = q
  <2>1. /\ rows[p[1]][p[2]].reference # None
        /\ rows[p[1]][p[2]].reference = rows[q[1]][q[2]].reference
    BY <1>3 DEF Seen
  <2>2. p[1] = q[1] /\ p[2] = q[2]
    BY <1>3, <2>1 DEF Distinct
  <2> QED
    BY <2>2
<1> QED
  BY <1>1, <1>2, <1>3 DEF R!Unambiguous

(* The view of the code is well typed, and Assigned is what is seen of it. *)
LEMMA ViewRows ==
  /\ TypeOK  => View \in [Files -> [Slots -> LogRefEntry]] /\ Assigned = Seen(View)
  /\ TypeOK' => View' \in [Files -> [Slots -> LogRefEntry]] /\ Assigned' = Seen(View')
  BY DEF TypeOK, DiskType, JobType, View, Assigned, Seen

(* Some references gone, the rest where they were: a Withdraw. *)
LEMMA ShrinkWithdraws ==
  ASSUME TypeOK, TypeOK', Shrinks(View', View), lapses' = {} => lapses = {}
  PROVE  R!Withdraw
<1>1. Assigned' \in R!Assignments
  BY ViewRows, SeenRows
<1>2. \A p \in Files \X Slots : Assigned'[p] \in {Assigned[p], None}
  BY ViewRows DEF Seen, Shrinks
<1>3. (lapses' = {}) \in {lapses = {}, FALSE}
  OBVIOUS
<1> QED
  BY <1>1, <1>2, <1>3 DEF R!Withdraw

(***************************************************************************)
(* The rename is where the registry gives: the file's new references.      *)
(***************************************************************************)
LEMMA RenameGives ==
  ASSUME IInv, ScratchKeeps, TypeOK', NEW k \in 0 .. NumSlots, RenameScratch(k)
  PROVE  R!Give
<1>1. /\ pc = "entry" /\ pc' = "flush"
      /\ file' = file /\ scratch' = scratch /\ lapses' = lapses
      /\ code' = [code EXCEPT ![file] = OnDisk(scratch, k)]
  BY DEF RenameScratch, job
<1>2. file \in Files /\ code \in [Files -> [Slots -> LogRefEntry]]
  BY <1>1, FilesAssumption DEF IInv, TypeOK, JobType, DiskType
<1>3. View = code /\ View' = [code EXCEPT ![file] = scratch]
  BY <1>1, <1>2 DEF View
<1>4. \A p \in Files \X Slots : Assigned[p] # None => Assigned'[p] = Assigned[p]
  BY <1>1, <1>2, <1>3, ViewRows DEF IInv, Seen, ScratchKeeps, Rewriting
<1>5. lapses = {} => Distinct(View')
  BY <1>1, <1>3 DEF IInv, NextIsFresh, Rewriting, Rewritten
<1> QED
  BY <1>1, <1>4, <1>5, ViewRows, SeenRows DEF IInv, R!Give

(* A developer's move is a Move of the registry.                          *)
LEMMA MoveMoves ==
  ASSUME TypeOK, NEW f \in Files, NEW s \in Slots, NEW g \in Files,
         NEW t \in Slots, TypeOK', MoveStatement(f, s, g, t)
  PROVE  [R!Next]_R!vars
<1>1. /\ View = code /\ View' = code' /\ lapses' = lapses
      /\ f # g /\ code[g][t] = AbsentEntry
      /\ code' = [code EXCEPT ![f][s] = AbsentEntry, ![g][t] = code[f][s]]
  BY DEF MoveStatement, Edit, process, View
<1>2. code \in [Files -> [Slots -> LogRefEntry]]
  BY DEF TypeOK, DiskType
<1> DEFINE p == <<f, s>>
           q == <<g, t>>
<1>3. /\ Assigned[p] = code[f][s].reference
      /\ Assigned[q] = None
  BY <1>1, ViewRows DEF Seen, AbsentEntry
<1>4. Assigned' = [Assigned EXCEPT ![p] = None, ![q] = Assigned[p]]
  <2>1. \A h \in Files, u \in Slots :
          code'[h][u] = IF h = f /\ u = s THEN AbsentEntry
                        ELSE IF h = g /\ u = t THEN code[f][s] ELSE code[h][u]
    BY <1>1, <1>2
  <2>2. ASSUME NEW h \in Files, NEW u \in Slots
        PROVE  Assigned'[<<h, u>>] = IF h = f /\ u = s THEN None
                                     ELSE IF h = g /\ u = t THEN Assigned[p]
                                     ELSE Assigned[<<h, u>>]
    <3>1. /\ Assigned'[<<h, u>>] = code'[h][u].reference
          /\ Assigned[<<h, u>>] = code[h][u].reference
      <4>1. Assigned = Seen(code) /\ Assigned' = Seen(code')
        BY <1>1, ViewRows
      <4>2. code' \in [Files -> [Slots -> LogRefEntry]]
        BY <1>1, ViewRows
      <4> QED
        BY <1>2, <4>1, <4>2, SeenRows
    <3> QED
      BY <1>3, <2>1, <3>1 DEF AbsentEntry
  <2>3. \A r \in Files \X Slots :
          Assigned'[r] = IF r = p THEN None ELSE IF r = q THEN Assigned[p]
                         ELSE Assigned[r]
    BY <2>2
  <2>4. p # q /\ p \in Files \X Slots /\ q \in Files \X Slots
    BY <1>1
  <2>5. Assigned = [r \in Files \X Slots |-> Assigned[r]]
    BY ViewRows DEF Seen
  <2>6. Assigned' = [r \in Files \X Slots |-> Assigned'[r]]
    BY ViewRows DEF Seen
  <2> QED
    BY <2>3, <2>4, <2>5, <2>6
<1>5. CASE Assigned[p] = None
  <2>1. Assigned' = Assigned
    BY <1>3, <1>4, <1>5, ViewRows DEF Seen
  <2> QED
    BY <1>1, <2>1 DEF R!vars
<1>6. CASE Assigned[p] # None
  BY <1>1, <1>3, <1>4, <1>6 DEF R!Next, R!Move
<1> QED
  BY <1>5, <1>6

(***************************************************************************)
(* No other step adds to what the registry sees.                           *)
(***************************************************************************)
LEMMA OthersShrink ==
  ASSUME TypeOK, ScratchKeeps, [Next]_vars,
         \A k \in 0 .. NumSlots : ~RenameScratch(k),
         \A f, g \in Files, s, t \in Slots : ~MoveStatement(f, s, g, t)
  PROVE  Shrinks(View', View)
<1> USE DEF TypeOK, DiskType, JobType, Shrinks, View
<1>1. CASE UNCHANGED code /\ pc' # "flush"
  BY <1>1, FilesAssumption DEF ScratchKeeps, Rewriting
<1>2. CASE UNCHANGED <<code, pc, file, scratch>>
  BY <1>2
<1>3. ASSUME FlushScratch PROVE Shrinks(View', View)
  BY <1>3 DEF FlushScratch, MapReturns
<1>4. ASSUME NEW f \in Files, NEW t \in Slots, NEW e,
             e.reference = None, Edit([code EXCEPT ![f][t] = e])
      PROVE  Shrinks(View', View)
  BY <1>4 DEF Edit, process, job
<1>5. ASSUME NEW f \in Files, NEW t \in Slots,
             DeleteStatement(f, t) \/ \E kind \in WrittenKinds : AddStatement(f, t, kind)
      PROVE  Shrinks(View', View)
  <2>1. CASE DeleteStatement(f, t)
    <3>1. AbsentEntry.reference = None
      BY DEF AbsentEntry
    <3> QED
      BY <1>4, <2>1, <3>1 DEF DeleteStatement
  <2>2. ASSUME NEW kind \in WrittenKinds, AddStatement(f, t, kind)
        PROVE  Shrinks(View', View)
    <3>1. [kind |-> kind, reference |-> None].reference = None
      OBVIOUS
    <3> QED
      BY <1>4, <2>2, <3>1 DEF AddStatement
  <2> QED
    BY <1>5, <2>1, <2>2
<1>6. \/ UNCHANGED code /\ pc' # "flush"
      \/ UNCHANGED <<code, pc, file, scratch>>
      \/ FlushScratch
      \/ \E f \in Files, t \in Slots :
            DeleteStatement(f, t) \/ \E kind \in WrittenKinds : AddStatement(f, t, kind)
  BY DEF Next, Step, Environment, vars, process, disk, job, NextFile,
      AllFilesDone, CacheOverflows, CountFile, Crash, CreateFails,
      CreateScratch, DeleteLock, DiscardScratch, Discover, DiscoverFails,
      FillLock, FinishCount, FinishInsert, FinishScan, FinishUncached,
      FirstPass, FlushFails, InsertReference, LoadFails, LockOpenFails,
      LockWriteFails, MapReturns, NothingToDo, RenameFails, ScanFile,
      ScanOverflows, Signal, SkipFile, Start, StartFails, Stop, TruncateLock,
      WriteFails, WriteFailsAfterDraw, Quit
<1> QED
  BY <1>1, <1>2, <1>3, <1>5, <1>6

(***************************************************************************)
(* A first pass over code without duplicates draws the registry up anew.   *)
(***************************************************************************)
LEMMA FirstPassRebuilds ==
  ASSUME TypeOK, TypeOK', lapses' = {}, Distinct(code),
         NEW files \in SUBSET Files, Discover(files), FirstPass = "scan"
  PROVE  R!Rebuild
<1>1. View = code /\ View' = View
  BY DEF Discover, disk, View
<1>2. Assigned' = Assigned
  BY <1>1, ViewRows
<1>3. R!Unambiguous(Assigned)
  BY <1>1, ViewRows, SeenRows
<1> QED
  BY <1>2, <1>3 DEF R!Rebuild

(***************************************************************************)
(* Module Breadlog implements module Registry: see Implements.             *)
(***************************************************************************)
THEOREM BreadlogImplementsRegistry == Spec => Implements
<1>1. Init => R!Init
  <2> SUFFICES ASSUME Init PROVE R!Init
    OBVIOUS
  <2>1. View = code /\ lapses = {} /\ Distinct(View)
    BY DEF Init, View
  <2> QED
    BY <2>1, InitType, ViewRows, SeenRows DEF R!Init
<1>2. IInv /\ IInv' /\ ScratchKeeps /\ [Next]_vars => [R!Next]_R!vars
  <2> SUFFICES ASSUME IInv, IInv', ScratchKeeps, [Next]_vars
               PROVE  [R!Next]_R!vars
    OBVIOUS
  <2>1. TypeOK /\ TypeOK'
    BY DEF IInv
  <2>2. CASE \E k \in 0 .. NumSlots : RenameScratch(k)
    BY <2>1, <2>2, RenameGives DEF R!Next
  <2>3. CASE \E f, g \in Files, s, t \in Slots : MoveStatement(f, s, g, t)
    BY <2>1, <2>3, MoveMoves
  <2>4. CASE /\ \A k \in 0 .. NumSlots : ~RenameScratch(k)
             /\ \A f, g \in Files, s, t \in Slots : ~MoveStatement(f, s, g, t)
    <3>1. CASE lapses' = {} => lapses = {}
      BY <2>1, <2>4, <3>1, OthersShrink, ShrinkWithdraws DEF R!Next
    <3>2. CASE lapses' = {} /\ lapses # {}
      BY <2>1, <3>2, LapsesGrow, FirstPassRebuilds DEF R!Next
    <3> QED
      BY <3>1, <3>2
  <2> QED
    BY <2>2, <2>3, <2>4
<1>3. IInv /\ ScratchKeeps /\ [Next]_vars => ScratchKeeps'
  BY ScratchStep DEF IInv
<1> QED
  BY <1>1, <1>2, <1>3, ScratchInit, Inductive, PTL DEF Spec, Implements, R!Spec
=============================================================================

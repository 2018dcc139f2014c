----------------------------- MODULE RetiredProofs -----------------------------
(***************************************************************************)
(* No reference is handed out twice while the lock file keeps its number:  *)
(* proved for every set of files, every number of slots, every fault and   *)
(* every bound, where nobody edits while Breadlog runs.                    *)
(***************************************************************************)
EXTENDS Retired, BreadlogProofs

(* The memory takes nothing from what Breadlog can do.                    *)
LEMMA RetiredImplies == RetiredSpec => Spec
<1>1. [RetiredNext]_<<vars, issued>> => [Next]_vars
  BY DEF RetiredNext
<1> QED
  BY <1>1, PTL DEF RetiredSpec, RetiredInit, Spec

(* The references of the code are numbers, and remembered. *)
LEMMA CodeReferencesType ==
  /\ TypeOK  => CodeReferences \subseteq U32
  /\ TypeOK' => CodeReferences' \subseteq U32
<1>1. ASSUME NEW rows \in [Files -> [Slots -> LogRefEntry]]
      PROVE  UNION {References(rows[f]) : f \in Files} \subseteq U32
  BY <1>1 DEF References, LogRefEntry
<1> QED
  BY <1>1 DEF TypeOK, DiskType, CodeReferences

(***************************************************************************)
(* Every step remembers the references it brings into the code, and while  *)
(* the lock file has no number a run changes neither before it inserts.    *)
(***************************************************************************)
LEMMA RememberedStep ==
  ASSUME ~ConcurrentEdits, TypeOK', Remembered, RetiredNext
  PROVE  Remembered'
<1>1. issued' \subseteq U32 /\ CodeReferences' \subseteq issued'
  BY CodeReferencesType DEF Remembered, Remember, RetiredNext
<1>2. ASSUME pc' \in {"find", "count", "scan"}, lock' \notin U32
      PROVE  issued' = CodeReferences'
  <2>1. UNCHANGED <<code, lock>> /\ pc \in {"idle", "find", "count", "scan"}
    BY <1>2 DEF RetiredNext, Next, Step, Environment, process, disk, NextFile,
      AllFilesDone, AddStatement, CacheOverflows, CanEdit, CountFile, Crash,
      CreateFails, CreateScratch, DeleteLock, DeleteStatement, DiscardScratch,
      Discover, DiscoverFails, Edit, FillLock, FinishCount, FinishInsert,
      FinishScan, FinishUncached, FirstPass, FlushFails, FlushScratch,
      InsertReference, LoadFails, LockOpenFails, LockWriteFails, MapReturns,
      MoveStatement, NothingToDo, Quit, RenameFails, RenameScratch, ScanFile,
      ScanOverflows, Signal, SkipFile, Start, StartFails, Stop, TruncateLock,
      WriteFails, WriteFailsAfterDraw
  <2>2. CodeReferences' = CodeReferences
    BY <2>1 DEF CodeReferences
  <2> QED
    BY <1>2, <2>1, <2>2 DEF RetiredNext, Remember, Remembered
<1>3. ASSUME pc' = "idle", lock' \notin U32 PROVE issued' = CodeReferences'
  BY <1>3 DEF RetiredNext, Remember
<1> QED
  BY <1>1, <1>2, <1>3 DEF Remembered

(* What is below a number as rows is below it as a set. *)
LEMMA BelowReferences ==
  /\ \A n : Below(code, n)  => \A r \in CodeReferences : r < n
  /\ \A n : Below(code', n) => \A r \in CodeReferences' : r < n
  BY DEF Below, CodeReferences, References

-----------------------------------------------------------------------------
(***************************************************************************)
(* What the steps below have in common: no lapse has happened before or    *)
(* after them, so that the invariants of BreadlogProperties hold in full.  *)
(***************************************************************************)
Orderly ==
    /\ UseCache /\ lapses = {}
    /\ TypeOK /\ NumberCurrent /\ CountsFresh /\ NextIsFresh
    /\ Remembered /\ NextIsUnissued

(* A memory that is not reset takes in the code that was there or is new. *)
LEMMA StillBelow ==
  ASSUME Remember, NEW n, IssuedBelow(n), Below(code', n)
  PROVE  \A r \in issued' : r < n
  BY BelowReferences DEF Remember, IssuedBelow

(* Between runs: the lock file keeps its number, or the memory is reset.  *)
LEMMA IdleStep ==
  ASSUME Remember, NextIsFresh', UseCache, pc' = "idle",
         lock' \in U32 => IssuedBelow(lock')
  PROVE  NextIsUnissued'
<1>1. CASE lock' \in U32
  <2>1. Below(code', lock')
    BY <1>1 DEF NextIsFresh
  <2>2. \A r \in issued' : r < lock'
    BY <1>1, <2>1, StillBelow
  <2> QED
    BY <1>1, <2>2 DEF NextIsUnissued, Inserting, IssuedBelow
<1>2. CASE lock' \notin U32
  BY <1>2 DEF NextIsUnissued, Inserting, Remember
<1> QED
  BY <1>1, <1>2

(* A run that ends before it empties the lock file, and did not draw       *)
(* beyond its number, leaves one beyond all that is remembered.            *)
LEMMA LockBeyondIssued ==
  ASSUME Orderly, ~DrawnBeyondLock, lock \in U32, pc # "idle"
  PROVE  IssuedBelow(lock)
<1> USE DEF Orderly
<1>1. CASE pc \in {"find", "count"}
  BY <1>1 DEF NextIsUnissued
<1>2. CASE pc \in {"scan", "fill"}
  BY <1>2, CorruptAssumption DEF NumberCurrent, U32
<1>3. CASE pc \in {"insert", "entry", "flush", "discard", "save"}
  <2>1. next_reference_id = lock
    BY <1>3 DEF DrawnBeyondLock, NumberCurrent, Inserting
  <2> QED
    BY <1>3, <2>1 DEF NextIsUnissued, Inserting
<1> QED
  BY <1>1, <1>2, <1>3 DEF TypeOK, ControlType

(* A run that ends with nothing drawn beyond the lock file leaves it ahead. *)
LEMMA QuitStep ==
  ASSUME Orderly, Remember, NextIsFresh', NEW how, Quit(how), UNCHANGED lock,
         pc # "idle", ~DrawnBeyondLock
  PROVE  NextIsUnissued'
  BY LockBeyondIssued, IdleStep DEF Orderly, Quit

(* A step of the second pass: the counter only grows.                      *)
LEMMA InsertingStep ==
  ASSUME Orderly, Remember, NextIsFresh', TypeOK', Inserting, Inserting',
         next_reference_id' \in {next_reference_id, next_reference_id + 1},
         pc' = "entry" =>
            (References(scratch') \ References(code'[file'])) \cap issued' = {}
  PROVE  NextIsUnissued'
<1>1. Below(code', next_reference_id')
  BY DEF NextIsFresh
<1>2. IssuedBelow(next_reference_id')
  BY DEF Orderly, NextIsUnissued, IssuedBelow, Remembered, TypeOK, NumbersType, U32
<1>3. \A r \in issued' : r < next_reference_id'
  BY <1>1, <1>2, StillBelow
<1> QED
  BY <1>3 DEF NextIsUnissued, Inserting, IssuedBelow

(* Nothing of note changes while code and lock file are read.              *)
LEMMA ReadingStep ==
  ASSUME Orderly, Remember, UNCHANGED <<code, lock>>,
         pc \in {"idle", "find", "count", "scan"},
         pc' \in {"find", "count", "scan"},
         pc = "scan" => pc' = "scan"
  PROVE  NextIsUnissued'
<1>1. issued' = issued
  BY DEF Remember, Orderly, Remembered, CodeReferences, References
<1> QED
  BY <1>1 DEF Orderly, NextIsUnissued, Inserting, IssuedBelow, CodeReferences, References

(* A step of the second pass that writes to no file of the code base.      *)
LEMMA QuietInsertingStep ==
  ASSUME Orderly, Remember, NextIsFresh', TypeOK', Inserting, Inserting',
         UNCHANGED <<code, next_reference_id>>,
         pc' = "entry" => pc = "entry" /\ UNCHANGED <<file, scratch>>
  PROVE  NextIsUnissued'
<1>1. issued' = issued
  BY DEF Remember, Orderly, Remembered, CodeReferences, References, Inserting
<1>2. pc' = "entry" =>
        (References(scratch') \ References(code'[file'])) \cap issued' = {}
  BY <1>1 DEF Orderly, NextIsUnissued, References
<1> QED
  BY <1>2, InsertingStep

-----------------------------------------------------------------------------
(***************************************************************************)
(* The passes that read, up to the first step of the second pass.          *)
(***************************************************************************)
LEMMA FirstPassStep ==
  ASSUME Orderly, Remember, NextIsFresh', TypeOK', lapses' = {},
         \/ \E check \in BOOLEAN : Start(check)
         \/ \E files \in SUBSET Files : Discover(files)
         \/ \E f \in Files : CountFile(f) \/ ScanFile(f)
         \/ FinishScan
  PROVE  NextIsUnissued'
<1>1. ASSUME NEW check \in BOOLEAN, Start(check) PROVE NextIsUnissued'
  BY <1>1, ReadingStep DEF Start, disk
<1>2. ASSUME NEW files \in SUBSET Files, Discover(files) PROVE NextIsUnissued'
  <2>1. CASE FirstPass # "insert"
    BY <1>2, <2>1, ReadingStep DEF Discover, FirstPass, disk
  <2>2. CASE FirstPass = "insert"
    <3>1. /\ pc = "find" /\ pc' = "insert" /\ UNCHANGED code
          /\ cached_next_reference_id # None
          /\ next_reference_id' = cached_next_reference_id
      BY <1>2, <2>2 DEF Discover, FirstPass, disk
    <3>2. lock = next_reference_id' /\ lock \in U32
      BY <3>1 DEF Orderly, NumberCurrent, TypeOK, NumbersType
    <3>3. IssuedBelow(next_reference_id')
      BY <3>1, <3>2 DEF Orderly, NextIsUnissued
    <3>4. Below(code', next_reference_id')
      BY <3>1 DEF NextIsFresh, Inserting
    <3>5. \A r \in issued' : r < next_reference_id'
      BY <3>3, <3>4, StillBelow
    <3> QED
      BY <3>1, <3>5 DEF NextIsUnissued, Inserting, IssuedBelow
  <2> QED
    BY <2>1, <2>2
<1>3. ASSUME NEW f \in Files, CountFile(f) \/ ScanFile(f) PROVE NextIsUnissued'
  BY <1>3, ReadingStep DEF CountFile, ScanFile, NextFile, disk
<1>4. CASE FinishScan
  <2>1. pc = "scan" /\ pc' = "insert" /\ UNCHANGED <<code, lock>>
    BY <1>4 DEF FinishScan, AllFilesDone, disk
  <2>2. lock \notin U32
    BY <2>1 DEF Orderly, NumberCurrent
  <2>3. issued = CodeReferences
    BY <2>1, <2>2 DEF Orderly, Remembered
  <2>4. issued' = CodeReferences'
    BY <2>1, <2>3 DEF Remember, CodeReferences
  <2>5. \A r \in CodeReferences' : r < next_reference_id'
    BY <2>1, BelowReferences DEF NextIsFresh, Inserting
  <2> QED
    BY <2>1, <2>4, <2>5 DEF NextIsUnissued, Inserting, IssuedBelow
<1> QED
  BY <1>1, <1>2, <1>3, <1>4

(***************************************************************************)
(* The steps of the second pass, up to the emptied lock file.              *)
(***************************************************************************)
SecondPass ==
    \/ \E f \in Files : SkipFile(f) \/ CreateFails(f) \/ CreateScratch(f)
    \/ \E s \in Slots : InsertReference(s)
    \/ WriteFails \/ WriteFailsAfterDraw \/ RenameFails
    \/ \E k \in 0 .. NumSlots : RenameScratch(k)
    \/ FlushScratch \/ FlushFails \/ DiscardScratch
    \/ FinishInsert \/ TruncateLock

(* The steps of the second pass draw only what was never issued.          *)
LEMMA SecondPassStep ==
  ASSUME Orderly, Remember, NextIsFresh', TypeOK', lapses' = {}, SecondPass
  PROVE  NextIsUnissued'
<1> USE DEF Inserting
<1>1. ASSUME NEW f \in Files, SkipFile(f) \/ CreateFails(f) PROVE NextIsUnissued'
  BY <1>1, QuietInsertingStep DEF SkipFile, CreateFails, NextFile, disk, ids
<1>2. ASSUME NEW f \in Files, CreateScratch(f) PROVE NextIsUnissued'
  BY <1>2, InsertingStep DEF CreateScratch, NextFile, ids, References
<1>3. ASSUME NEW s \in Slots, InsertReference(s) PROVE NextIsUnissued'
  <2>1. /\ pc = "entry" /\ pc' = "entry" /\ UNCHANGED <<code, file>>
        /\ scratch' = [scratch EXCEPT ![s] = WithReference(@, next_reference_id)]
    BY <1>3 DEF InsertReference, disk
  <2>2. next_reference_id' = next_reference_id + 1
    <3>1. next_reference_id + 1 # RefMod
      BY <1>3, NoLapse DEF InsertReference, FetchAdd
    <3>2. next_reference_id \in U32 /\ next_reference_id + 1 < RefMod
      BY <3>1, RefModAssumption DEF Orderly, TypeOK, NumbersType, U32
    <3> QED
      BY <1>3, <3>2 DEF InsertReference, FetchAdd, Wrap
  <2>3. next_reference_id \notin issued
    BY <2>1 DEF Orderly, NextIsUnissued, IssuedBelow, TypeOK, NumbersType, U32
  <2>4. issued' = issued
    BY <2>1 DEF Remember, Orderly, Remembered, CodeReferences, References
  <2>5. References(scratch') \subseteq References(scratch) \cup {next_reference_id}
    <3>1. \A t \in Slots : scratch'[t].reference
                              \in {scratch[t].reference, next_reference_id}
      BY <2>1 DEF WithReference, Orderly, TypeOK, JobType
    <3> QED
      BY <3>1 DEF References
  <2>6. (References(scratch') \ References(code'[file'])) \cap issued' = {}
    BY <2>1, <2>3, <2>4, <2>5 DEF Orderly, NextIsUnissued
  <2> QED
    BY <2>1, <2>2, <2>6, InsertingStep
<1>4. CASE WriteFails \/ RenameFails
  BY <1>4, QuietInsertingStep DEF WriteFails, RenameFails, disk, ids
<1>5. CASE WriteFailsAfterDraw
  BY <1>5 DEF WriteFailsAfterDraw, Orderly, LapseKinds
<1>6. ASSUME NEW k \in 0 .. NumSlots, RenameScratch(k) PROVE NextIsUnissued'
  BY <1>6, InsertingStep DEF RenameScratch, ids
<1>7. CASE FlushScratch \/ FlushFails \/ DiscardScratch
  BY <1>7, InsertingStep DEF FlushScratch, FlushFails, DiscardScratch, MapReturns, ids
<1>8. CASE FinishInsert \/ TruncateLock
  BY <1>8, QuietInsertingStep DEF FinishInsert, TruncateLock, AllFilesDone, disk, ids
<1> QED
  BY <1>1, <1>2, <1>3, <1>4, <1>5, <1>6, <1>7, <1>8 DEF SecondPass

(***************************************************************************)
(* The steps that end a run.                                               *)
(***************************************************************************)
LEMMA EndStep ==
  ASSUME Orderly, Remember, NextIsFresh', TypeOK', lapses' = {},
         \/ DiscoverFails \/ Stop \/ FinishCount \/ ScanOverflows \/ NothingToDo
         \/ CacheOverflows \/ FinishUncached \/ LockOpenFails
         \/ FillLock \/ LockWriteFails \/ Crash
  PROVE  NextIsUnissued'
<1>1. CASE DiscoverFails \/ FinishCount \/ ScanOverflows \/ NothingToDo \/ LockWriteFails
  <2>1. ~DrawnBeyondLock /\ pc # "idle"
    BY <1>1 DEF DiscoverFails, FinishCount, ScanOverflows, NothingToDo,
      LockWriteFails, AllFilesDone, DrawnBeyondLock
  <2> QED
    BY <1>1, <2>1, QuitStep DEF DiscoverFails, FinishCount, ScanOverflows,
      NothingToDo, LockWriteFails, disk
<1>2. CASE Stop \/ LockOpenFails \/ Crash
  <2>1. ~DrawnBeyondLock /\ pc # "idle"
    BY <1>2, NoLapse DEF Stop, LockOpenFails, Crash
  <2> QED
    BY <1>2, <2>1, QuitStep DEF Stop, LockOpenFails, Crash, disk
<1>3. CASE CacheOverflows
  BY <1>3 DEF CacheOverflows, Lapse
<1>4. CASE FinishUncached
  BY <1>4 DEF FinishUncached, Orderly
<1>5. CASE FillLock
  <2>1. /\ pc = "fill" /\ pc' = "idle" /\ UNCHANGED code
        /\ lock' = Wrap(CachableReferenceId)
    BY <1>5 DEF FillLock, Quit
  <2>2. CachableReferenceId = next_reference_id
    <3>1. created_entries = 0
      BY <2>1 DEF Orderly, CountsFresh
    <3> QED
      BY <2>1, <3>1 DEF Orderly, NextIsFresh, LedgerExact, TypeOK, NumbersType,
        CachableReferenceId, U32
  <2>3. lock' = next_reference_id
    BY <2>1, <2>2, RefModAssumption DEF Orderly, TypeOK, NumbersType, Wrap, U32
  <2>4. IssuedBelow(lock')
    BY <2>1, <2>3 DEF Orderly, NextIsUnissued, Inserting
  <2> QED
    BY <2>1, <2>4, IdleStep DEF Orderly
<1> QED
  BY <1>1, <1>2, <1>3, <1>4, <1>5

(***************************************************************************)
(* Every step keeps the memory and the next number apart.                  *)
(***************************************************************************)
LEMMA UnissuedStep ==
  ASSUME ~ConcurrentEdits, Orderly, RetiredNext, NextIsFresh', TypeOK', lapses' = {}
  PROVE  NextIsUnissued'
<1> USE DEF RetiredNext
<1>1. ASSUME NEW f \in Files, LoadFails(f) PROVE NextIsUnissued'
  <2>1. UNCHANGED <<code, lock, pc, next_reference_id, file, scratch>>
    BY <1>1 DEF LoadFails, disk, ids, job
  <2>2. CASE pc \in {"count", "scan"}
    BY <2>1, <2>2, ReadingStep
  <2>3. CASE pc = "insert"
    BY <2>1, <2>3, QuietInsertingStep DEF Inserting
  <2> QED
    BY <1>1, <2>2, <2>3 DEF LoadFails, NextFile
<1>2. CASE Signal
  <2>1. UNCHANGED <<code, lock, pc, next_reference_id, file, scratch>> /\ pc # "idle"
    BY <1>2 DEF Signal, disk, ids, job
  <2>2. CASE pc \in {"find", "count", "scan"}
    BY <2>1, <2>2, ReadingStep
  <2>3. CASE Inserting
    BY <2>1, <2>3, QuietInsertingStep DEF Inserting
  <2> QED
    BY <2>1, <2>2, <2>3 DEF Inserting, Orderly, TypeOK, ControlType
<1>3. CASE pc = "idle" /\ pc' = "idle" /\ lock' \in {lock, None}
  BY <1>3, NoneAssumption, IdleStep DEF Orderly, NextIsUnissued, U32
<1>4. CASE Step
  BY <1>1, <1>4, FirstPassStep, SecondPassStep, EndStep DEF Step, SecondPass
<1>5. CASE Environment
  <2>1. CASE Crash
    BY <2>1, EndStep
  <2>2. ASSUME NEW rows, Edit(rows), pc = "idle" PROVE NextIsUnissued'
    BY <1>3, <2>2 DEF Edit, process
  <2>3. CASE DeleteLock
    BY <1>3, <2>3 DEF DeleteLock, process
  <2> QED
    BY <1>2, <1>5, <2>1, <2>2, <2>3
    DEF Environment, AddStatement, DeleteStatement, MoveStatement, CanEdit
<1>6. ASSUME NEW check \in BOOLEAN, StartFails(check) PROVE NextIsUnissued'
  BY <1>3, <1>6 DEF StartFails, disk
<1>7. ASSUME NEW check \in BOOLEAN, Start(check) PROVE NextIsUnissued'
  BY <1>7, FirstPassStep
<1> QED
  BY <1>4, <1>5, <1>6, <1>7 DEF Next

(***************************************************************************)
(* The memory and the next number are apart in every state: see            *)
(* IssuedKnown.                                                            *)
(***************************************************************************)
THEOREM IssuedStaysKnown ==
  ASSUME ~ConcurrentEdits
  PROVE  RetiredSpec => []IssuedKnown
<1>1. IInv /\ RetiredInit => IssuedKnown
  BY CodeReferencesType, BelowReferences
  DEF RetiredInit, Init, IInv, NextIsFresh, IssuedKnown, Remembered,
      NextIsUnissued, IssuedBelow, Inserting
<1>2. IInv /\ IInv' /\ IssuedKnown /\ [RetiredNext]_<<vars, issued>> => IssuedKnown'
  <2> SUFFICES ASSUME IInv, IInv', IssuedKnown, [RetiredNext]_<<vars, issued>>
               PROVE  IssuedKnown'
    OBVIOUS
  <2>1. CASE UNCHANGED <<vars, issued>>
    BY <2>1 DEF vars, disk, process, ids, job, IssuedKnown, Remembered,
      NextIsUnissued, IssuedBelow, Inserting, CodeReferences, References
  <2>2. CASE RetiredNext
    <3>1. Remembered'
      BY <2>2, RememberedStep DEF RetiredNext, IInv, IssuedKnown
    <3>2. ASSUME UseCache, lapses' = {} PROVE NextIsUnissued'
      <4>1. CASE lapses = {}
        <5>1. Orderly
          BY <3>2, <4>1 DEF IInv, IssuedKnown, Orderly
        <5> QED
          BY <2>2, <3>2, <5>1, UnissuedStep DEF IInv
      <4>2. CASE lapses # {}
        <5>1. pc' = "scan"
          BY <2>2, <3>2, <4>2, LapsesGrow DEF RetiredNext, Discover
        <5> QED
          BY <5>1 DEF NextIsUnissued, Inserting
      <4> QED
        BY <4>1, <4>2
    <3> QED
      BY <3>1, <3>2 DEF IssuedKnown
  <2> QED
    BY <2>1, <2>2
<1> QED
  BY <1>1, <1>2, RetiredImplies, Inductive, PTL DEF RetiredSpec

(***************************************************************************)
(* A reference the program brings into the code has been in no statement   *)
(* before: see RetiredNeverReissued.                                       *)
(***************************************************************************)
THEOREM NeverReissued ==
  ASSUME ~ConcurrentEdits
  PROVE  RetiredSpec => RetiredNeverReissued
<1>1. TypeOK /\ ScratchKeeps /\ IssuedKnown /\ [RetiredNext]_<<vars, issued>>
        => [Step /\ UseCache /\ lapses = {}
              => (ViewReferences' \ ViewReferences) \cap issued = {}]_<<vars, issued>>
  <2> SUFFICES ASSUME TypeOK, ScratchKeeps, IssuedKnown, Step, UseCache, lapses = {}
               PROVE  (ViewReferences' \ ViewReferences) \cap issued = {}
    OBVIOUS
  <2>1. ASSUME NEW k \in 0 .. NumSlots, RenameScratch(k)
        PROVE  (ViewReferences' \ ViewReferences) \cap issued = {}
    <3>1. /\ pc = "entry" /\ View = code /\ file \in Files
          /\ code \in [Files -> [Slots -> LogRefEntry]]
          /\ View' = [code' EXCEPT ![file] = scratch]
          /\ code' = [code EXCEPT ![file] = OnDisk(scratch, k)]
      BY <2>1, FilesAssumption
      DEF RenameScratch, View, job, TypeOK, JobType, DiskType
    <3>2. View' = [code EXCEPT ![file] = scratch]
      BY <3>1
    <3>3. ViewReferences' \subseteq ViewReferences \cup References(scratch)
      BY <3>1, <3>2 DEF ViewReferences
    <3>4. References(code[file]) \subseteq ViewReferences
      BY <3>1 DEF ViewReferences
    <3> QED
      BY <3>1, <3>3, <3>4 DEF IssuedKnown, NextIsUnissued
  <2>2. ASSUME Shrinks(View', View)
        PROVE  (ViewReferences' \ ViewReferences) \cap issued = {}
    BY <2>2 DEF Shrinks, ViewReferences, References
  <2>3. \A f, g \in Files, s, t \in Slots : ~MoveStatement(f, s, g, t)
    BY DEF MoveStatement, Step, Discover, DiscoverFails, Stop, LoadFails, NextFile,
      AllFilesDone, CountFile, ScanFile, SkipFile, CreateFails, CreateScratch,
      FinishCount, ScanOverflows, NothingToDo, FinishScan, InsertReference,
      WriteFails, WriteFailsAfterDraw, RenameScratch, RenameFails, FlushScratch,
      FlushFails, DiscardScratch, CacheOverflows, FinishInsert, FinishUncached,
      LockOpenFails, TruncateLock, FillLock, LockWriteFails
  <2>4. CASE \A k \in 0 .. NumSlots : ~RenameScratch(k)
    BY <2>2, <2>3, <2>4, OthersShrink DEF Next
  <2> QED
    BY <2>1, <2>4
<1>2. TypeOK /\ ScratchKeeps /\ [Next]_vars => ScratchKeeps'
  BY ScratchStep
<1> QED
  BY <1>1, <1>2, RetiredImplies, TypeCorrect, ScratchInit, IssuedStaysKnown, PTL
  DEF RetiredSpec, RetiredNeverReissued, Spec
=============================================================================

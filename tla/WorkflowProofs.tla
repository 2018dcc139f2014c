--------------------------- MODULE WorkflowProofs ---------------------------
(***************************************************************************)
(* Theorems about Workflow, for any files, configurations, directories and *)
(* processes and any number of runs, edits, branches, merges and deleted   *)
(* lock files.                                                             *)
(***************************************************************************)
EXTENDS Workflow, TLAPS

USE DEF Trees

(* A reference is a number or None, and what is drawn becomes one.         *)
LEMMA ReferenceTypes ==
  ASSUME NEW e \in Row
  PROVE  /\ e.reference \in U32 \cup {None}
         /\ U32 \subseteq Nat
         /\ None \notin Nat
         /\ \A id \in U32 : NeedsReference(e) =>
                /\ WithReference(e, id) \in Row
                /\ WithReference(e, id).reference = id
BY RefModAssumption, NoneAssumption
   DEF Row, AbsentEntry, U32, NeedsReference, WithReference, ReferencedKind

(* What a configuration gives a run.                                       *)
LEMMA Yaml ==
  ASSUME NEW y \in Yamls
  PROVE  /\ UseCache(y) \in BOOLEAN
         /\ y.absolute \in BOOLEAN
         /\ CodeFiles(y) \subseteq Files
         /\ \A t \in Trees : SourceTree(t, y) \in Trees
BY YamlsAssumption DEF UseCache, CodeFiles, SourceTree

(* A run that is open is one, and the other way round.                     *)
LEMMA OpenRuns ==
  ASSUME TypeOK, NEW p \in Processes
  PROVE  /\ Open(p) <=> process[p] \in Run
         /\ Open(p) <=> process[p].pc # "closed"
         /\ Open(p) => process[p] \in Run
BY DEF TypeOK, Open, Closed, Run

(* What Become does to the runs.                                           *)
LEMMA Becomes ==
  ASSUME TypeOK, NEW p \in Processes, NEW r \in {Closed} \cup Run, Become(p, r)
  PROVE  /\ process' \in [Processes -> {Closed} \cup Run]
         /\ process'[p] = r
         /\ \A q \in Processes \ {p} : process'[q] = process[q]
BY DEF TypeOK, Become

(* The types of a run's fields.                                            *)
LEMMA RunFields ==
  ASSUME NEW r \in Run
  PROVE  /\ r.pc \in {"scan", "insert"}
         /\ r.tree \in Trees /\ r.source \in Trees /\ r.dir \in ConfigDirs
         /\ r.use_cache \in BOOLEAN /\ r.missing \in BOOLEAN
         /\ r.found \subseteq Files /\ r.code_files \subseteq Files
         /\ r.start \in Numbers /\ r.next \in Numbers /\ r.max_ref \in Nat
         /\ r.file \in Files \cup {None}
         /\ r.scratch \in Row
BY DEF Run

(***************************************************************************)
(* The steps of a run, as what becomes of it.                              *)
(***************************************************************************)
Continues(p) ==
  /\ process[p] \in Run
  /\ process' \in [Processes -> {Closed} \cup Run]
  /\ process'[p] \in Run
  /\ \A q \in Processes \ {p} : process'[q] = process[q]
  /\ process'[p].tree = process[p].tree
  /\ process'[p].dir = process[p].dir
  /\ process'[p].source = process[p].source
  /\ process'[p].use_cache = process[p].use_cache
  /\ process'[p].found = process[p].found

Closes(p) ==
  /\ process[p] \in Run
  /\ process' \in [Processes -> {Closed} \cup Run]
  /\ process'[p] = Closed
  /\ \A q \in Processes \ {p} : process'[q] = process[q]

(* A started run has its configuration, its files and the number read.     *)
LEMMA StartBecomes ==
  ASSUME TypeOK, NEW p \in Processes, NEW t \in Trees, NEW d \in ConfigDirs,
         NEW y \in Yamls, Start(p, t, d, y)
  PROVE  LET cached == CachedNextReferenceId(t, d, y)
             r == process'[p]
         IN  /\ process[p] = Closed
             /\ process' \in [Processes -> {Closed} \cup Run]
             /\ \A q \in Processes \ {p} : process'[q] = process[q]
             /\ r \in Run
             /\ r.pc = IF cached = None THEN "scan" ELSE "insert"
             /\ r.tree = t /\ r.dir = d /\ r.source = SourceTree(t, y)
             /\ r.use_cache = UseCache(y)
             /\ r.found = CodeFiles(y) /\ r.code_files = CodeFiles(y)
             /\ r.start = cached /\ r.next = cached
             /\ r.max_ref = 0 /\ r.missing = FALSE
             /\ r.file = None
             /\ cached \in Numbers
<1> DEFINE cached == CachedNextReferenceId(t, d, y)
           r == [pc |-> IF cached = None THEN "scan" ELSE "insert",
                 tree |-> t, dir |-> d, source |-> SourceTree(t, y),
                 use_cache |-> UseCache(y),
                 found |-> CodeFiles(y), code_files |-> CodeFiles(y),
                 start |-> cached, next |-> cached,
                 max_ref |-> 0, missing |-> FALSE,
                 file |-> None, scratch |-> AbsentEntry]
<1>1. cached \in Numbers
  BY DEF TypeOK, CachedNextReferenceId, Numbers
<1>2. AbsentEntry \in Row
  BY DEF Row
<1> HIDE DEF cached
<1>3. r \in Run
  BY <1>1, <1>2, Yaml DEF Run
<1>4. Become(p, r)
  BY DEF Start, cached
<1>5. process'[p] = r
  BY <1>3, <1>4, Becomes
<1> QED
  BY <1>1, <1>3, <1>4, <1>5, Becomes DEF Start, Open, cached

(* A file looked at counts for the maximum and for what is missing.        *)
LEMMA ScanBecomes ==
  ASSUME TypeOK, NEW p \in Processes, NEW f \in Files, ScanFile(p, f)
  PROVE  LET e == code[process[p].source][f]
         IN  /\ Continues(p)
             /\ process[p].pc = "scan" /\ process'[p].pc = "scan"
             /\ f \in process[p].code_files
             /\ process'[p].code_files = process[p].code_files \ {f}
             /\ process'[p].start = process[p].start
             /\ process'[p].next = process[p].next
             /\ process'[p].file = process[p].file
             /\ process'[p].scratch = process[p].scratch
             /\ process'[p].missing = (process[p].missing \/ NeedsReference(e))
             /\ process'[p].max_ref = IF Exists(e) /\ e.reference > process[p].max_ref
                                      THEN e.reference ELSE process[p].max_ref
             /\ e \in Row
<1> DEFINE e == code[process[p].source][f]
           missing == process[p].missing \/ NeedsReference(e)
           max_ref == IF Exists(e) /\ e.reference > process[p].max_ref
                      THEN e.reference ELSE process[p].max_ref
           r == [process[p] EXCEPT !.code_files = process[p].code_files \ {f},
                                   !.missing = missing, !.max_ref = max_ref]
<1>1. process[p] \in Run
  BY OpenRuns DEF ScanFile
<1>2. e \in Row
  BY <1>1 DEF TypeOK, Run
<1>3. missing \in BOOLEAN /\ max_ref \in Nat
  BY <1>1, <1>2, ReferenceTypes DEF Run, Exists
<1>4. Become(p, r)
  BY DEF ScanFile
<1> HIDE DEF missing, max_ref
<1>5. r \in Run
  BY <1>1, <1>3 DEF Run
<1>6. process'[p] = r
  BY <1>4, <1>5, Becomes
<1>7. /\ r.pc = process[p].pc /\ r.tree = process[p].tree /\ r.dir = process[p].dir
      /\ r.source = process[p].source /\ r.use_cache = process[p].use_cache
      /\ r.found = process[p].found /\ r.start = process[p].start
      /\ r.next = process[p].next /\ r.file = process[p].file
      /\ r.scratch = process[p].scratch
      /\ r.code_files = process[p].code_files \ {f}
      /\ r.missing = missing /\ r.max_ref = max_ref
  BY <1>1 DEF Run
<1> QED
  BY <1>1, <1>2, <1>4, <1>5, <1>6, <1>7, Becomes
     DEF ScanFile, Continues, missing, max_ref

(* After the first pass the run goes on above the maximum, or ends.        *)
LEMMA FinishScanBecomes ==
  ASSUME TypeOK, NEW p \in Processes, FinishScan(p)
  PROVE  /\ process[p].pc = "scan"
         /\ process[p].code_files = {}
         /\ IF ~process[p].missing THEN Closes(p)
            ELSE /\ Continues(p)
                 /\ process'[p].pc = "insert"
                 /\ process'[p].code_files = process[p].found
                 /\ process'[p].start = process[p].max_ref + 1
                 /\ process'[p].next = process[p].max_ref + 1
                 /\ process'[p].file = process[p].file
                 /\ process[p].max_ref \in Nat
<1> DEFINE next == process[p].max_ref + 1
           r == [process[p] EXCEPT !.pc = "insert",
                                   !.code_files = process[p].found,
                                   !.start = next, !.next = next]
<1>1. process[p] \in Run
  BY OpenRuns DEF FinishScan
<1>2. next \in Numbers /\ process[p].max_ref \in Nat
  BY <1>1 DEF Run, Numbers
<1>3. Become(p, IF ~process[p].missing THEN Closed ELSE r)
  BY DEF FinishScan
<1> HIDE DEF next
<1>4. r \in Run
  BY <1>1, <1>2 DEF Run
<1>5. CASE process[p].missing
  <2>1. process'[p] = r
    BY <1>3, <1>4, <1>5, Becomes
  <2>2. /\ r.pc = "insert" /\ r.tree = process[p].tree /\ r.dir = process[p].dir
        /\ r.source = process[p].source /\ r.use_cache = process[p].use_cache
        /\ r.found = process[p].found /\ r.file = process[p].file
        /\ r.code_files = process[p].found
        /\ r.start = next /\ r.next = next
    BY <1>1 DEF Run
  <2> QED
    BY <1>1, <1>2, <1>3, <1>4, <1>5, <2>1, <2>2, Becomes
       DEF FinishScan, Continues, next
<1>6. CASE ~process[p].missing
  BY <1>1, <1>3, <1>6, Becomes DEF FinishScan, Closes
<1> QED
  BY <1>5, <1>6

(* A skipped file is done with and nothing else changes.                   *)
LEMMA SkipBecomes ==
  ASSUME TypeOK, NEW p \in Processes, NEW f \in Files, SkipFile(p, f)
  PROVE  /\ Continues(p)
         /\ process[p].pc = "insert" /\ process'[p].pc = "insert"
         /\ process[p].file = None /\ process'[p].file = None
         /\ process'[p].code_files = process[p].code_files \ {f}
         /\ process'[p].start = process[p].start
         /\ process'[p].next = process[p].next
<1> DEFINE r == [process[p] EXCEPT !.code_files = process[p].code_files \ {f}]
<1>1. process[p] \in Run
  BY OpenRuns DEF SkipFile
<1>2. r \in Run
  BY <1>1 DEF Run
<1>3. Become(p, r)
  BY DEF SkipFile
<1>4. process'[p] = r
  BY <1>2, <1>3, Becomes
<1>5. /\ r.pc = process[p].pc /\ r.tree = process[p].tree /\ r.dir = process[p].dir
      /\ r.source = process[p].source /\ r.use_cache = process[p].use_cache
      /\ r.found = process[p].found /\ r.start = process[p].start
      /\ r.next = process[p].next /\ r.file = process[p].file
      /\ r.code_files = process[p].code_files \ {f}
  BY <1>1 DEF Run
<1> QED
  BY <1>1, <1>2, <1>3, <1>4, <1>5, Becomes DEF SkipFile, Continues

(* A mapped file waits with the next number, which is counted up.          *)
LEMMA MapBecomes ==
  ASSUME TypeOK, NEW p \in Processes, NEW f \in Files, RunShape(p), MapFile(p, f)
  PROVE  LET e == code[process[p].source][f]
             r == process'[p]
         IN  /\ Continues(p)
             /\ process[p].pc = "insert" /\ r.pc = "insert"
             /\ process[p].file = None /\ r.file = f
             /\ f \in process[p].code_files
             /\ r.code_files = process[p].code_files
             /\ process[p].start \in Nat
             /\ r.start = process[p].start
             /\ process[p].start <= process[p].next
             /\ process[p].next \in U32
             /\ process[p].next \in Nat
             /\ r.next = process[p].next + 1
             /\ r.scratch \in Row
             /\ r.scratch.reference = process[p].next
             /\ e \in Row
             /\ NeedsReference(e)
<1> DEFINE e == code[process[p].source][f]
           next == process[p].next + 1
           scratch == WithReference(e, process[p].next)
           r == [process[p] EXCEPT !.file = f, !.scratch = scratch, !.next = next]
<1>1. process[p] \in Run
  BY OpenRuns DEF MapFile
<1>2. e \in Row /\ NeedsReference(e)
  BY <1>1 DEF TypeOK, Run, MapFile
<1>3. /\ process[p].start \in Nat /\ process[p].next \in Nat
      /\ process[p].start <= process[p].next
  BY DEF RunShape, MapFile
<1>4. process[p].next \in U32 /\ next \in Numbers
  BY <1>3, RefModAssumption DEF MapFile, FetchAdd, U32, Numbers
<1>5. scratch \in Row /\ scratch.reference = process[p].next
  BY <1>2, <1>4, ReferenceTypes
<1>6. Become(p, r)
  BY DEF MapFile, FetchAdd
<1> HIDE DEF next, scratch
<1>7. r \in Run
  BY <1>1, <1>4, <1>5 DEF Run
<1>8. process'[p] = r
  BY <1>6, <1>7, Becomes
<1>9. /\ r.pc = process[p].pc /\ r.tree = process[p].tree /\ r.dir = process[p].dir
      /\ r.source = process[p].source /\ r.use_cache = process[p].use_cache
      /\ r.found = process[p].found /\ r.start = process[p].start
      /\ r.code_files = process[p].code_files
      /\ r.file = f /\ r.next = next /\ r.scratch = scratch
  BY <1>1 DEF Run
<1> QED
  BY <1>1, <1>2, <1>3, <1>4, <1>5, <1>6, <1>7, <1>8, <1>9, Becomes
     DEF MapFile, Continues, next

(* A rename puts what waits into its file, and changes no other file.      *)
LEMMA RenameBecomes ==
  ASSUME TypeOK, NEW p \in Processes, Rename(p)
  PROVE  LET r == process[p] IN
         /\ Continues(p)
         /\ r.pc = "insert" /\ process'[p].pc = "insert"
         /\ r.file \in Files /\ r.file # None /\ process'[p].file = None
         /\ r.source \in Trees
         /\ process'[p].code_files = r.code_files \ {r.file}
         /\ process'[p].start = r.start
         /\ process'[p].next = r.next
         /\ r.scratch \in Row
         /\ code'[r.source][r.file] = r.scratch
         /\ \A t \in Trees, g \in Files :
                ~(t = r.source /\ g = r.file) => code'[t][g] = code[t][g]
<1> DEFINE r == [process[p] EXCEPT !.code_files = process[p].code_files \ {process[p].file},
                                   !.file = None, !.scratch = AbsentEntry]
<1>1. process[p] \in Run
  BY OpenRuns DEF Rename
<1>2. r \in Run
  BY <1>1 DEF Run, Row
<1>3. Become(p, r)
  BY DEF Rename
<1>4. process'[p] = r
  BY <1>2, <1>3, Becomes
<1>5. /\ r.pc = process[p].pc /\ r.tree = process[p].tree /\ r.dir = process[p].dir
      /\ r.source = process[p].source /\ r.use_cache = process[p].use_cache
      /\ r.found = process[p].found /\ r.start = process[p].start
      /\ r.next = process[p].next /\ r.file = None
      /\ r.code_files = process[p].code_files \ {process[p].file}
  BY <1>1 DEF Run
<1>6. /\ process[p].file \in Files /\ process[p].source \in Trees
      /\ process[p].scratch \in Row
  BY <1>1 DEF Run, Rename
<1>7. code' = [code EXCEPT ![process[p].source][process[p].file] = process[p].scratch]
  BY DEF Rename
<1>8. /\ code'[process[p].source][process[p].file] = process[p].scratch
      /\ \A t \in Trees, g \in Files :
            ~(t = process[p].source /\ g = process[p].file) => code'[t][g] = code[t][g]
  BY <1>6, <1>7 DEF TypeOK
<1> QED
  BY <1>1, <1>2, <1>3, <1>4, <1>5, <1>6, <1>8, Becomes DEF Rename, Continues

(* At the end the run's lock file has the next number; others stay.        *)
LEMMA FinishBecomes ==
  ASSUME TypeOK, NEW p \in Processes, Finish(p)
  PROVE  LET r == process[p] IN
         /\ Closes(p)
         /\ r.pc = "insert"
         /\ r.code_files = {}
         /\ r.tree \in Trees /\ r.dir \in ConfigDirs /\ r.source \in Trees
         /\ r.use_cache => locks'[r.tree][r.dir] = r.next
         /\ \A t \in Trees, d \in ConfigDirs :
                ~(r.use_cache /\ t = r.tree /\ d = r.dir) => locks'[t][d] = locks[t][d]
         /\ locks' \in [Trees -> [ConfigDirs -> Numbers]]
<1>1. process[p] \in Run
  BY OpenRuns DEF Finish
<1>2. /\ process[p].tree \in Trees /\ process[p].dir \in ConfigDirs
      /\ process[p].source \in Trees /\ process[p].next \in Numbers
  BY <1>1 DEF Run
<1>3. Closes(p)
  BY <1>1, Becomes DEF Finish, Closes
<1> QED
  BY <1>2, <1>3 DEF Finish, Cachable, TypeOK

(* Where no tree is in use no run is open.                                 *)
LEMMA AllClosed ==
  ASSUME TypeOK, \A t \in Trees : AtRest(t), NEW p \in Processes
  PROVE  ~Open(p)
<1> SUFFICES ASSUME Open(p) PROVE FALSE
  OBVIOUS
<1>1. process[p].tree \in Trees
  BY OpenRuns, RunFields
<1>2. AtRest(process[p].tree)
  BY <1>1
<1> QED
  BY <1>2 DEF AtRest

(* A merge picks, file by file and lock by lock, what Resolved allows.     *)
LEMMA MergeBecomes ==
  ASSUME TypeOK, Merge
  PROVE  /\ base # None
         /\ \A p \in Processes : ~Open(p)
         /\ \A f \in Files :
              /\ code'["main"][f] \in
                    Resolved(code["main"][f], code["branch"][f], base.code[f])
              /\ code'["branch"][f] = AbsentEntry
         /\ \A d \in ConfigDirs :
              /\ locks'["main"][d] \in
                    Resolved(locks["main"][d], locks["branch"][d], base.locks[d])
              /\ locks'["branch"][d] = None
         /\ code' \in [Trees -> [Files -> Row]]
         /\ locks' \in [Trees -> [ConfigDirs -> Numbers]]
<1>1. PICK rows \in Merged(code["main"], code["branch"], base.code) :
        code' = [code EXCEPT !["main"] = rows,
                             !["branch"] = [f \in Files |-> AbsentEntry]]
  BY DEF Merge
<1>2. PICK numbers \in Merged(locks["main"], locks["branch"], base.locks) :
        locks' = [locks EXCEPT !["main"] = numbers,
                               !["branch"] = [d \in ConfigDirs |-> None]]
  BY DEF Merge
<1>3. /\ rows \in [Files -> Row]
      /\ \A f \in Files :
            rows[f] \in Resolved(code["main"][f], code["branch"][f], base.code[f])
  <2>1. code["main"] \in [Files -> Row] /\ code["branch"] \in [Files -> Row]
    BY DEF TypeOK
  <2> QED
    BY <2>1 DEF Merged
<1>4. /\ numbers \in [ConfigDirs -> Numbers]
      /\ \A d \in ConfigDirs :
            numbers[d] \in Resolved(locks["main"][d], locks["branch"][d], base.locks[d])
  <2>1. locks["main"] \in [ConfigDirs -> Numbers] /\ locks["branch"] \in [ConfigDirs -> Numbers]
    BY DEF TypeOK
  <2> QED
    BY <2>1 DEF Merged
<1>5. /\ code'["main"] = rows
      /\ code'["branch"] = [f \in Files |-> AbsentEntry]
      /\ code' \in [Trees -> [Files -> Row]]
  BY <1>1, <1>3 DEF TypeOK, Row
<1>6. /\ locks'["main"] = numbers
      /\ locks'["branch"] = [d \in ConfigDirs |-> None]
      /\ locks' \in [Trees -> [ConfigDirs -> Numbers]]
  BY <1>2, <1>4 DEF TypeOK, Numbers
<1>7. base # None /\ \A p \in Processes : ~Open(p)
  BY AllClosed DEF Merge
<1> QED
  BY <1>3, <1>4, <1>5, <1>6, <1>7 DEF Merge

Shapes == \A p \in Processes : Open(p) => RunShape(p)

(* Every step keeps the types.                                             *)
LEMMA TypeStep ==
  ASSUME TypeOK, Shapes, [Next]_vars
  PROVE  TypeOK'
<1>1. ASSUME NEW p \in Processes, NEW t \in Trees, NEW d \in ConfigDirs,
             NEW y \in Yamls, Start(p, t, d, y)
      PROVE  TypeOK'
  <2>1. process' \in [Processes -> {Closed} \cup Run]
    BY <1>1, StartBecomes
  <2>2. lapses' \subseteq lapses \cup LapseKinds /\ runs' = runs + 1
    BY <1>1 DEF Start, LapseKinds
  <2>3. UNCHANGED <<code, locks, base, edits, drew>>
    BY <1>1 DEF Start
  <2> QED
    BY <2>1, <2>2, <2>3 DEF TypeOK
<1>2. ASSUME NEW p \in Processes, NEW f \in Files, ScanFile(p, f)
      PROVE  TypeOK'
  BY <1>2, ScanBecomes DEF ScanFile, TypeOK, Continues
<1>3. ASSUME NEW p \in Processes, FinishScan(p) PROVE TypeOK'
  BY <1>3, FinishScanBecomes DEF FinishScan, TypeOK, Continues, Closes
<1>4. ASSUME NEW p \in Processes, NEW f \in Files, SkipFile(p, f)
      PROVE  TypeOK'
  BY <1>4, SkipBecomes DEF SkipFile, TypeOK, Continues
<1>5. ASSUME NEW p \in Processes, NEW f \in Files, MapFile(p, f)
      PROVE  TypeOK'
  <2>1. RunShape(p)
    BY <1>5, OpenRuns DEF MapFile, Shapes
  <2>2. process[p].source \in Trees
    BY <1>5, OpenRuns DEF MapFile, Run
  <2> QED
    BY <1>5, <2>1, <2>2, MapBecomes DEF MapFile, TypeOK, Continues
<1>6. ASSUME NEW p \in Processes, Rename(p) PROVE TypeOK'
  BY <1>6, RenameBecomes DEF Rename, TypeOK, Continues
<1>7. ASSUME NEW p \in Processes, Finish(p) PROVE TypeOK'
  BY <1>7, FinishBecomes DEF Finish, TypeOK, Closes, LapseKinds
<1>8. ASSUME NEW t \in Trees, NEW f \in Files, AddStatement(t, f) \/ DeleteStatement(t, f)
      PROVE  TypeOK'
  <2>1. New \in Row /\ AbsentEntry \in Row
    BY DEF New, Row
  <2>2. \E e \in Row : Edit(t, f, e)
    BY <1>8, <2>1 DEF AddStatement, DeleteStatement
  <2> QED
    BY <2>2 DEF Edit, TypeOK
<1>9. CASE Branch
  <2>1. base' \in Fork
    BY <1>9 DEF Branch, TypeOK, Fork
  <2> QED
    BY <1>9, <2>1 DEF Branch, TypeOK
<1>10. CASE Merge
  BY <1>10, MergeBecomes DEF Merge, Lapse, LapseKinds, TypeOK
<1>11. CASE UNCHANGED vars
  BY <1>11 DEF vars, TypeOK
<1>12. ASSUME NEW t \in Trees, NEW d \in ConfigDirs, DeleteLock(t, d)
       PROVE  TypeOK'
  BY <1>12 DEF DeleteLock, TypeOK, Numbers
<1> QED
  BY <1>1, <1>2, <1>3, <1>4, <1>5, <1>6, <1>7, <1>8, <1>9, <1>10, <1>11, <1>12 DEF Next

(* A step of another run leaves a run's shape.                             *)
LEMMA ShapeKept ==
  ASSUME NEW p \in Processes, RunShape(p), process'[p] = process[p],
         UNCHANGED base, base # None => drew \subseteq drew'
  PROVE  RunShape(p)'
BY DEF RunShape, Drew

(* Every step keeps the shape of every run.                                *)
LEMMA ShapesStep ==
  ASSUME TypeOK, Shapes, [Next]_vars
  PROVE  Shapes'
<1> SUFFICES ASSUME NEW q \in Processes, Open(q)' PROVE RunShape(q)'
  BY DEF Shapes
<1>1. ASSUME NEW p \in Processes, NEW t \in Trees, NEW d \in ConfigDirs,
             NEW y \in Yamls, Start(p, t, d, y)
      PROVE  RunShape(q)'
  <2>1. CASE q # p
    BY <1>1, <2>1, StartBecomes, ShapeKept DEF Shapes, Open, Start
  <2>2. CASE q = p
    <3> DEFINE cached == CachedNextReferenceId(t, d, y)
    <3>1. UNCHANGED <<base, drew>> /\ (base = None => t = "main")
      BY <1>1 DEF Start
    <3>2. SourceTree(t, y) = t \/ (y.absolute /\ SourceTree(t, y) = "main")
      BY DEF SourceTree
    <3>3. UseCache(y) => Trusts(t, SourceTree(t, y))
      BY DEF Trusts
    <3>4. /\ process'[p].code_files = CodeFiles(y) /\ process'[p].found = CodeFiles(y)
          /\ process'[p].tree = t /\ process'[p].source = SourceTree(t, y)
          /\ process'[p].pc = IF cached = None THEN "scan" ELSE "insert"
          /\ process'[p].start = cached /\ process'[p].next = cached
          /\ process'[p].file = None /\ cached \in Numbers
      <4>1. process'[p].code_files = CodeFiles(y) /\ process'[p].found = CodeFiles(y)
        BY <1>1, StartBecomes
      <4>2. process'[p].tree = t /\ process'[p].source = SourceTree(t, y)
        BY <1>1, StartBecomes
      <4>3. /\ process'[p].pc = IF cached = None THEN "scan" ELSE "insert"
            /\ process'[p].start = cached /\ process'[p].next = cached
        BY <1>1, StartBecomes
      <4>4. process'[p].file = None /\ cached \in Numbers
        BY <1>1, StartBecomes
      <4> QED
        BY <4>1, <4>2, <4>3, <4>4
    <3>5. process'[p].use_cache = UseCache(y)
      BY <1>1, StartBecomes
    <3>6. process'[p].use_cache => Trusts(t, SourceTree(t, y))
      BY <3>3, <3>5
    <3> HIDE DEF cached
    <3> QED
      BY <2>2, <3>1, <3>2, <3>4, <3>6 DEF RunShape, Drew, Numbers
  <2> QED
    BY <2>1, <2>2
<1>2. ASSUME NEW p \in Processes, Continues(p) \/ Closes(p), UNCHANGED base,
             base # None => drew \subseteq drew',
             Continues(p) /\ RunShape(p) => RunShape(p)'
      PROVE  RunShape(q)'
  <2>1. CASE q # p
    BY <1>2, <2>1, ShapeKept DEF Shapes, Open, Continues, Closes
  <2>2. CASE q = p
    <3>1. Open(p) /\ RunShape(p)
      BY <1>2, <2>2, OpenRuns DEF Shapes, Closes, Continues
    <3>2. Continues(p)
      BY <1>2, <2>2 DEF Open, Closes
    <3> QED
      BY <1>2, <2>2, <3>1, <3>2
  <2> QED
    BY <2>1, <2>2
<1>3. ASSUME NEW p \in Processes, NEW f \in Files, ScanFile(p, f)
      PROVE  RunShape(q)'
  <2>1. UNCHANGED <<base, drew>>
    BY <1>3 DEF ScanFile
  <2>2. RunShape(p) => RunShape(p)'
    BY <1>3, <2>1, ScanBecomes DEF RunShape, Drew, Continues
  <2> QED
    BY <1>2, <1>3, <2>1, <2>2, ScanBecomes
<1>4. ASSUME NEW p \in Processes, FinishScan(p) PROVE RunShape(q)'
  <2>1. UNCHANGED <<base, drew>>
    BY <1>4 DEF FinishScan
  <2>2. Continues(p) /\ RunShape(p) => RunShape(p)'
    <3> SUFFICES ASSUME Continues(p), RunShape(p) PROVE RunShape(p)'
      OBVIOUS
    <3>1. process[p].missing
      BY <1>4, FinishScanBecomes, OpenRuns DEF Continues, Closes, Run, Closed
    <3>2. process[p].max_ref + 1 \in Nat
      BY <1>4, <3>1, FinishScanBecomes
    <3> QED
      BY <1>4, <2>1, <3>1, <3>2, FinishScanBecomes DEF RunShape, Drew, Continues
  <2> QED
    BY <1>2, <1>4, <2>1, <2>2, FinishScanBecomes
<1>5. ASSUME NEW p \in Processes, NEW f \in Files, SkipFile(p, f)
      PROVE  RunShape(q)'
  <2>1. UNCHANGED <<base, drew>>
    BY <1>5 DEF SkipFile
  <2>2. RunShape(p) => RunShape(p)'
    BY <1>5, <2>1, SkipBecomes DEF RunShape, Drew, Continues
  <2> QED
    BY <1>2, <1>5, <2>1, <2>2, SkipBecomes
<1>6. ASSUME NEW p \in Processes, NEW f \in Files, MapFile(p, f)
      PROVE  RunShape(q)'
  <2>1. RunShape(p)
    BY <1>6, OpenRuns DEF MapFile, Shapes
  <2>2. UNCHANGED base /\ (base # None => drew' = drew \cup {process[p].source})
    BY <1>6 DEF MapFile
  <2>3. RunShape(p)'
    BY <1>6, <2>1, <2>2, MapBecomes DEF RunShape, Drew, Continues
  <2> QED
    BY <1>2, <1>6, <2>1, <2>2, <2>3, MapBecomes
<1>7. ASSUME NEW p \in Processes, Rename(p) PROVE RunShape(q)'
  <2>1. UNCHANGED <<base, drew>>
    BY <1>7 DEF Rename
  <2>2. RunShape(p) => RunShape(p)'
    BY <1>7, <2>1, RenameBecomes DEF RunShape, Drew, Continues
  <2> QED
    BY <1>2, <1>7, <2>1, <2>2, RenameBecomes
<1>8. ASSUME NEW p \in Processes, Finish(p) PROVE RunShape(q)'
  <2>1. UNCHANGED <<base, drew>>
    BY <1>8 DEF Finish
  <2>2. Closes(p) /\ ~Continues(p)
    BY <1>8, FinishBecomes DEF Closes, Continues, Run, Closed
  <2> QED
    BY <1>2, <2>1, <2>2
<1>9. ASSUME NEW t \in Trees, NEW f \in Files, AddStatement(t, f) \/ DeleteStatement(t, f)
      PROVE  RunShape(q)'
  <2>1. UNCHANGED <<base, drew, process>>
    BY <1>9 DEF AddStatement, DeleteStatement, Edit
  <2> QED
    BY <2>1, ShapeKept DEF Shapes, Open
<1>10. CASE Branch
  <2>1. Open(q) /\ base = None /\ AtRest("main")
    BY <1>10 DEF Branch, Open
  <2>2. process[q].tree = "main"
    BY <2>1 DEF Shapes, RunShape
  <2> QED
    BY <2>1, <2>2 DEF AtRest
<1>11. CASE Merge
  BY <1>11, MergeBecomes DEF Merge, Open
<1>12. CASE UNCHANGED vars
  BY <1>12, ShapeKept DEF vars, Shapes, Open
<1>13. ASSUME NEW t \in Trees, NEW d \in ConfigDirs, DeleteLock(t, d)
       PROVE  RunShape(q)'
  BY <1>13, ShapeKept DEF DeleteLock, Shapes, Open
<1> QED
  BY <1>1, <1>3, <1>4, <1>5, <1>6, <1>7, <1>8, <1>9, <1>10, <1>11, <1>12, <1>13 DEF Next

(* Without a branch nothing is written to its tree.                        *)
LEMMA NoBranchStep ==
  ASSUME TypeOK, Shapes, NoBranch, [Next]_vars
  PROVE  NoBranch'
<1> DEFINE Clear ==
            /\ \A f \in Files : code["branch"][f] = AbsentEntry
            /\ \A d \in ConfigDirs : locks["branch"][d] = None
<1> SUFFICES ASSUME base' = None
             PROVE  Clear'
  BY DEF NoBranch
<1>1. ASSUME NEW p \in Processes, NEW t \in Trees, NEW e \in ConfigDirs,
             NEW y \in Yamls, Start(p, t, e, y)
      PROVE  UNCHANGED <<code, locks, base>>
  BY <1>1 DEF Start
<1>2. ASSUME NEW p \in Processes, NEW g \in Files,
             ScanFile(p, g) \/ SkipFile(p, g) \/ MapFile(p, g)
      PROVE  UNCHANGED <<code, locks, base>>
  BY <1>2 DEF ScanFile, SkipFile, MapFile
<1>3. ASSUME NEW p \in Processes, Rename(p)
      PROVE  Clear'
  <2>1. base = None /\ UNCHANGED locks
    BY <1>3 DEF Rename
  <2>2. RunShape(p)
    BY <1>3, OpenRuns DEF Rename, Shapes
  <2>3. process[p].source = "main"
    BY <2>1, <2>2 DEF RunShape
  <2>4. code'["branch"] = code["branch"]
    BY <1>3, <2>3 DEF Rename, TypeOK
  <2> QED
    BY <2>1, <2>4 DEF NoBranch
<1>4. ASSUME NEW p \in Processes, Finish(p)
      PROVE  Clear'
  <2>1. base = None /\ UNCHANGED code
    BY <1>4 DEF Finish
  <2>2. RunShape(p)
    BY <1>4, OpenRuns DEF Finish, Shapes
  <2>3. process[p].tree = "main"
    BY <2>1, <2>2 DEF RunShape
  <2>4. locks'["branch"] = locks["branch"]
    BY <1>4, <2>3 DEF Finish, TypeOK
  <2> QED
    BY <2>1, <2>4 DEF NoBranch
<1>5. ASSUME NEW t \in Trees, NEW g \in Files, AddStatement(t, g) \/ DeleteStatement(t, g)
      PROVE  Clear'
  <2>1. base = None /\ UNCHANGED locks /\ t = "main"
    BY <1>5 DEF AddStatement, DeleteStatement, Edit
  <2>2. code'["branch"] = code["branch"]
    BY <1>5, <2>1 DEF AddStatement, DeleteStatement, Edit, TypeOK
  <2> QED
    BY <2>1, <2>2 DEF NoBranch
<1>6. ASSUME NEW t \in Trees, NEW e \in ConfigDirs, DeleteLock(t, e)
      PROVE  Clear'
  <2>1. base = None /\ UNCHANGED code
    BY <1>6 DEF DeleteLock
  <2>2. \A d \in ConfigDirs : locks'["branch"][d] \in {locks["branch"][d], None}
    BY <1>6 DEF DeleteLock, TypeOK
  <2> QED
    BY <2>1, <2>2 DEF NoBranch
<1>7. ~Branch
  <2> SUFFICES ASSUME Branch PROVE FALSE
    OBVIOUS
  <2>1. base' \in Fork
    BY DEF Branch, TypeOK, Fork
  <2> QED
    BY <2>1, ForkAssumption
<1>8. CASE Merge
  BY <1>8, MergeBecomes
<1>9. CASE UNCHANGED <<code, locks, base>>
  BY <1>9 DEF NoBranch
<1>10. CASE UNCHANGED vars
  BY <1>9, <1>10 DEF vars
<1>11. ASSUME NEW p \in Processes, FinishScan(p)
       PROVE  UNCHANGED <<code, locks, base>>
  BY <1>11 DEF FinishScan
<1> QED
  BY <1>1, <1>2, <1>3, <1>4, <1>5, <1>6, <1>7, <1>8, <1>9, <1>10, <1>11 DEF Next

(* No step forgets a lapse, unless the team starts over.                   *)
LEMMA LapsesGrow ==
  ASSUME [Next]_vars, \A y \in Yamls : ~StartsOver(y)
  PROVE  lapses \subseteq lapses'
<1>1. ASSUME NEW p \in Processes, NEW t \in Trees, NEW d \in ConfigDirs,
             NEW y \in Yamls, Start(p, t, d, y)
      PROVE  lapses \subseteq lapses'
  BY <1>1 DEF Start
<1>2. ASSUME NEW p \in Processes, NEW f \in Files,
             ScanFile(p, f) \/ SkipFile(p, f) \/ MapFile(p, f)
      PROVE  lapses \subseteq lapses'
  BY <1>2 DEF ScanFile, SkipFile, MapFile
<1>3. ASSUME NEW p \in Processes, FinishScan(p) \/ Rename(p)
      PROVE  lapses \subseteq lapses'
  BY <1>3 DEF FinishScan, Rename
<1>4. ASSUME NEW p \in Processes, Finish(p) PROVE lapses \subseteq lapses'
  BY <1>4 DEF Finish
<1>5. ASSUME NEW t \in Trees, NEW f \in Files, AddStatement(t, f) \/ DeleteStatement(t, f)
      PROVE  lapses \subseteq lapses'
  BY <1>5 DEF AddStatement, DeleteStatement, Edit
<1>6. CASE Branch
  BY <1>6 DEF Branch
<1>7. CASE Merge
  BY <1>7 DEF Merge, Lapse
<1>8. CASE UNCHANGED vars
  BY <1>8 DEF vars
<1>9. ASSUME NEW t \in Trees, NEW d \in ConfigDirs, DeleteLock(t, d)
      PROVE  lapses \subseteq lapses'
  BY <1>9 DEF DeleteLock
<1> QED
  BY <1>1, <1>2, <1>3, <1>4, <1>5, <1>6, <1>7, <1>8, <1>9 DEF Next

(* No run is open when a branch begins.                                    *)
LEMMA NoneOpenAtBranch ==
  ASSUME Shapes, Branch, NEW p \in Processes
  PROVE  ~Open(p)
<1> SUFFICES ASSUME Open(p) PROVE FALSE
  OBVIOUS
<1>1. base = None /\ AtRest("main")
  BY DEF Branch
<1>2. process[p].tree = "main"
  BY <1>1 DEF Shapes, RunShape
<1> QED
  BY <1>1, <1>2 DEF AtRest

(* An edit leaves one statement without a reference and the rest alone.    *)
LEMMA EditBecomes ==
  ASSUME TypeOK, NEW t \in Trees, NEW f \in Files, AddStatement(t, f) \/ DeleteStatement(t, f)
  PROVE  /\ AtRest(t)
         /\ code'[t][f] \in Row /\ code'[t][f].reference = None
         /\ \A s \in Trees, g \in Files :
                ~(s = t /\ g = f) => code'[s][g] = code[s][g]
         /\ UNCHANGED <<locks, base, process, drew, lapses>>
<1>1. New \in Row /\ AbsentEntry \in Row /\ New.reference = None /\ AbsentEntry.reference = None
  BY DEF New, Row, AbsentEntry
<1>2. PICK e \in Row : e.reference = None /\ Edit(t, f, e)
  BY <1>1 DEF AddStatement, DeleteStatement
<1> QED
  BY <1>2 DEF Edit, TypeOK

(* A step of one run keeps the runs apart if it drops no reference.        *)
LEMMA SeparateContinues ==
  ASSUME Separate, NEW p \in Processes, Continues(p) \/ Closes(p),
         Continues(p) /\ process'[p].file # None =>
            ~Exists(code'[process[p].source][process'[p].file]),
         \A q \in Processes \ {p} : Open(q) /\ process[q].file # None =>
            code'[process[q].source][process[q].file]
              = code[process[q].source][process[q].file]
  PROVE  Separate'
<1>1. \A q \in Processes : Open(q)' => Open(q)
  BY DEF Open, Continues, Closes, Closed, Run
<1>2. \A q \in Processes : Open(q)' =>
        /\ process'[q].source = process[q].source
        /\ process'[q].tree = process[q].tree
        /\ process'[q].dir = process[q].dir
  BY DEF Open, Continues, Closes
<1>3. ASSUME NEW q \in Processes, Open(q)', process'[q].file # None
      PROVE  ~Exists(code'[process'[q].source][process'[q].file])
  <2>1. CASE q = p
    BY <1>2, <1>3, <2>1 DEF Open, Closes
  <2>2. CASE q # p
    <3>1. process'[q] = process[q] /\ Open(q)
      BY <1>1, <1>3, <2>2 DEF Continues, Closes
    <3>2. ~Exists(code[process[q].source][process[q].file])
      BY <1>3, <3>1 DEF Separate
    <3> QED
      BY <1>3, <2>2, <3>1, <3>2 DEF Exists
  <2> QED
    BY <2>1, <2>2
<1> QED
  BY <1>1, <1>2, <1>3 DEF Separate

(* Every step that does not overlap runs keeps them apart.                 *)
LEMMA SeparateStep ==
  ASSUME TypeOK, Shapes, Separate, [Next]_vars, "overlapped" \notin lapses'
  PROVE  Separate'
<1>1. ASSUME NEW p \in Processes, NEW t \in Trees, NEW d \in ConfigDirs,
             NEW y \in Yamls, Start(p, t, d, y)
      PROVE  Separate'
  <2>1. Using(t, d, SourceTree(t, y)) = {} /\ UNCHANGED code
    BY <1>1 DEF Start
  <2>2. /\ process'[p].tree = t /\ process'[p].dir = d
        /\ process'[p].source = SourceTree(t, y) /\ process'[p].file = None
    BY <1>1, StartBecomes
  <2>3. \A q \in Processes \ {p} : process'[q] = process[q]
    BY <1>1, StartBecomes
  <2>4. ASSUME NEW q \in Processes \ {p}, Open(q)
        PROVE  /\ process[q].source # SourceTree(t, y)
               /\ process[q].tree = t => process[q].dir # d
    BY <2>1, <2>4 DEF Using
  <2> QED
    BY <2>1, <2>2, <2>3, <2>4 DEF Separate, Open
<1>2. ASSUME NEW p \in Processes, NEW f \in Files, ScanFile(p, f)
      PROVE  Separate'
  <2>1. process'[p].file = None /\ UNCHANGED code /\ Continues(p)
    BY <1>2, ScanBecomes, OpenRuns DEF ScanFile, Shapes, RunShape
  <2> QED
    BY <2>1, SeparateContinues
<1>3. ASSUME NEW p \in Processes, FinishScan(p) PROVE Separate'
  <2>1. UNCHANGED code /\ (Continues(p) \/ Closes(p))
    BY <1>3, FinishScanBecomes DEF FinishScan
  <2>2. process[p].file = None /\ process[p].pc = "scan"
    BY <1>3, OpenRuns DEF FinishScan, Shapes, RunShape
  <2>3. Continues(p) => process'[p].file = None
    BY <1>3, <2>2, FinishScanBecomes DEF Closes, Continues, Closed, Run
  <2> QED
    BY <2>1, <2>3, SeparateContinues
<1>4. ASSUME NEW p \in Processes, NEW f \in Files, SkipFile(p, f)
      PROVE  Separate'
  <2>1. UNCHANGED code /\ Continues(p) /\ process'[p].file = None
    BY <1>4, SkipBecomes DEF SkipFile
  <2> QED
    BY <2>1, SeparateContinues
<1>5. ASSUME NEW p \in Processes, NEW f \in Files, MapFile(p, f)
      PROVE  Separate'
  <2>1. RunShape(p)
    BY <1>5, OpenRuns DEF MapFile, Shapes
  <2>2. /\ Continues(p) /\ process'[p].file = f
        /\ NeedsReference(code[process[p].source][f])
    BY <1>5, <2>1, MapBecomes
  <2>3. UNCHANGED code
    BY <1>5 DEF MapFile
  <2>4. ~Exists(code[process[p].source][f])
    BY <2>2 DEF NeedsReference, Exists
  <2> QED
    BY <2>2, <2>3, <2>4, SeparateContinues
<1>6. ASSUME NEW p \in Processes, Rename(p) PROVE Separate'
  <2>1. Continues(p) /\ process'[p].file = None
    BY <1>6, RenameBecomes
  <2>2. Open(p)
    BY <1>6, OpenRuns DEF Rename
  <2>3. ASSUME NEW q \in Processes \ {p}, Open(q), process[q].file # None
        PROVE  code'[process[q].source][process[q].file]
                 = code[process[q].source][process[q].file]
    <3>1. process[q].source # process[p].source
      BY <2>2, <2>3 DEF Separate
    <3>2. process[q].source \in Trees /\ process[q].file \in Files
      BY <2>3, OpenRuns, RunFields
    <3> QED
      BY <1>6, <3>1, <3>2, RenameBecomes
  <2> QED
    BY <2>1, <2>3, SeparateContinues
<1>7. ASSUME NEW p \in Processes, Finish(p) PROVE Separate'
  <2>1. UNCHANGED code /\ Closes(p) /\ ~Continues(p)
    BY <1>7, FinishBecomes DEF Finish, Closes, Continues, Run, Closed
  <2> QED
    BY <2>1, SeparateContinues
<1>8. ASSUME NEW t \in Trees, NEW f \in Files, AddStatement(t, f) \/ DeleteStatement(t, f)
      PROVE  Separate'
  <2>1. AtRest(t) /\ UNCHANGED process
    BY <1>8, EditBecomes
  <2>2. ASSUME NEW q \in Processes, Open(q), process[q].file # None
        PROVE  ~Exists(code'[process[q].source][process[q].file])
    <3>1. process[q].source # t /\ process[q].source \in Trees /\ process[q].file \in Files
      BY <2>1, <2>2, OpenRuns, RunFields DEF AtRest
    <3>2. code'[process[q].source][process[q].file] = code[process[q].source][process[q].file]
      BY <1>8, <3>1, EditBecomes
    <3> QED
      BY <2>2, <3>2 DEF Separate
  <2> QED
    BY <2>1, <2>2 DEF Separate, Open
<1>9. CASE Branch
  BY <1>9, NoneOpenAtBranch DEF Branch, Separate, Open
<1>10. CASE Merge
  BY <1>10, MergeBecomes DEF Merge, Separate, Open
<1>11. CASE UNCHANGED vars
  BY <1>11 DEF vars, Separate, Open
<1>12. ASSUME NEW t \in Trees, NEW d \in ConfigDirs, DeleteLock(t, d)
       PROVE  Separate'
  BY <1>12 DEF DeleteLock, Separate, Open
<1> QED
  BY <1>1, <1>2, <1>3, <1>4, <1>5, <1>6, <1>7, <1>8, <1>9, <1>10, <1>11, <1>12 DEF Next

(***************************************************************************)
(* What holds as long as the team does none of the four.                   *)
(***************************************************************************)
Orderly ==
  /\ DistinctReferences
  /\ \A p \in Processes : Open(p) => RunFresh(p) /\ LockKnown(p)
  /\ LocksCover
  /\ BranchKept

(* Where the team starts over everything is in order, whatever it did.     *)
LEMMA AllAnew ==
  ASSUME NoBranch, NEW y \in Yamls, StartsOver(y)
  PROVE  Separate /\ Orderly
<1>1. base = None /\ \A q \in Processes : ~Open(q)
  BY DEF StartsOver
<1>2. \A t \in Trees, d \in ConfigDirs : locks[t][d] = None
  BY <1>1 DEF StartsOver, NoBranch, Trees
<1>3. DistinctReferences
  <2>1. \A f \in Files : ~Exists(code["branch"][f])
    BY <1>1 DEF NoBranch, Exists, AbsentEntry
  <2> QED
    BY <2>1 DEF StartsOver, DistinctReferences, Trees
<1>4. LocksCover
  BY <1>2 DEF LocksCover, Governs
<1> QED
  BY <1>1, <1>3, <1>4 DEF Separate, Orderly, BranchKept

(* A run's next number stays fresh while its code does not change.         *)
LEMMA FreshKept ==
  ASSUME NEW p \in Processes, RunFresh(p), process'[p] = process[p],
         code'[process[p].source] = code[process[p].source]
  PROVE  RunFresh(p)'
BY DEF RunFresh, Below, Exists

(* A run knows its lock file while that and its code do not change.        *)
LEMMA KnownKept ==
  ASSUME NEW p \in Processes, LockKnown(p), process'[p] = process[p],
         code'[process[p].source] = code[process[p].source],
         locks'[process[p].tree][process[p].dir] = locks[process[p].tree][process[p].dir]
  PROVE  LockKnown(p)'
BY DEF LockKnown, Drew, NeedsReference

(* Without an open run there is nothing to know.                           *)
LEMMA NoneOpenRuns ==
  ASSUME \A p \in Processes : ~Open(p)'
  PROVE  (\A p \in Processes : Open(p) => RunFresh(p) /\ LockKnown(p))'
BY DEF Open

(* A step that writes neither code nor lock file concerns its run only.    *)
LEMMA RunAlone ==
  ASSUME Orderly, UNCHANGED <<code, locks, base>>, base # None => drew \subseteq drew',
         NEW p \in Processes, \A q \in Processes \ {p} : process'[q] = process[q],
         Open(p)' => RunFresh(p)' /\ LockKnown(p)',
         Open(p) /\ Drew(p) =>
            Open(p)' /\ Drew(p)' /\ process'[p].source = process[p].source
  PROVE  Orderly'
<1>1. DistinctReferences'
  BY DEF Orderly, DistinctReferences, Exists
<1>2. ASSUME NEW q \in Processes, Open(q)'
      PROVE  RunFresh(q)' /\ LockKnown(q)'
  <2>1. CASE q # p
    BY <1>2, <2>1, FreshKept, KnownKept DEF Orderly, Open
  <2> QED
    BY <1>2, <2>1
<1>3. LocksCover'
  <2> SUFFICES ASSUME NEW t \in Trees, NEW source \in Trees, NEW d \in ConfigDirs,
                      Governs(t, d, source)',
                      \A q \in Processes : Open(q)' /\ process'[q].source = source => ~Drew(q)'
               PROVE  Below(source, locks[t][d])'
    BY DEF LocksCover
  <2>1. Governs(t, d, source)
    BY DEF Governs
  <2>2. ASSUME NEW q \in Processes, Open(q), process[q].source = source, Drew(q)
        PROVE  FALSE
    <3>1. CASE q = p
      BY <2>2, <3>1
    <3>2. CASE q # p
      BY <2>2, <3>2 DEF Open, Drew
    <3> QED
      BY <3>1, <3>2
  <2>3. Below(source, locks[t][d])
    BY <2>1, <2>2 DEF Orderly, LocksCover
  <2> QED
    BY <2>3 DEF Below, Exists
<1>4. BranchKept'
  BY DEF Orderly, BranchKept
<1> QED
  BY <1>1, <1>2, <1>3, <1>4 DEF Orderly

(* A run starts beyond the references of its code.                         *)
LEMMA StartOrderly ==
  ASSUME TypeOK, Orderly, lapses' = {},
         NEW p \in Processes, NEW t \in Trees, NEW d \in ConfigDirs, NEW y \in Yamls,
         Start(p, t, d, y)
  PROVE  Orderly'
<1> DEFINE cached == CachedNextReferenceId(t, d, y)
           source == SourceTree(t, y)
           r == process'[p]
<1>1. /\ Using(t, d, source) = {}
      /\ cached = None => \A f \in Files \ CodeFiles(y) : ~Exists(code[source][f])
      /\ UNCHANGED <<code, locks, base, drew>>
  BY DEF Start
<1>2. /\ process[p] = Closed
      /\ \A q \in Processes \ {p} : process'[q] = process[q]
  BY StartBecomes
<1>3. /\ r.pc = IF cached = None THEN "scan" ELSE "insert"
      /\ r.tree = t /\ r.dir = d /\ r.source = source /\ source \in Trees
      /\ r.start = cached /\ r.next = cached
  <2>1. r.pc = IF cached = None THEN "scan" ELSE "insert"
    BY StartBecomes
  <2>2. r.tree = t /\ r.dir = d /\ r.source = source
    BY StartBecomes
  <2>3. r.start = cached /\ r.next = cached
    BY StartBecomes
  <2>4. source \in Trees
    BY Yaml
  <2> QED
    BY <2>1, <2>2, <2>3, <2>4
<1>4. r.code_files = CodeFiles(y) /\ r.missing = FALSE /\ r.file = None
  BY StartBecomes
<1>5. cached # None => UseCache(y) /\ locks[t][d] = cached
  BY DEF CachedNextReferenceId
<1>6. r.use_cache => cached = locks[t][d]
  <2>1. r.use_cache = UseCache(y)
    BY StartBecomes
  <2> QED
    BY <2>1 DEF CachedNextReferenceId
<1>7. RunFresh(p)'
  <2>1. CASE cached = None
    BY <1>1, <1>3, <1>4, <2>1 DEF RunFresh, Exists
  <2>2. CASE cached # None
    <3>1. Governs(t, d, source)
      BY <1>5, <2>2 DEF Governs, Trusts
    <3>2. \A q \in Processes : ~(Open(q) /\ process[q].source = source)
      BY <1>1 DEF Using
    <3>3. Below(source, cached)
      BY <1>3, <1>5, <2>2, <3>1, <3>2 DEF Orderly, LocksCover
    <3> HIDE DEF cached, source
    <3> QED
      BY <1>1, <1>3, <1>4, <2>2, <3>3 DEF RunFresh, Below, Exists
  <2> QED
    BY <2>1, <2>2
<1>8. LockKnown(p)'
  <2> HIDE DEF cached, source
  <2> QED
    BY <1>1, <1>3, <1>4, <1>6 DEF LockKnown
<1> QED
  BY <1>1, <1>2, <1>7, <1>8, RunAlone DEF Open

(* Looking at a file keeps the maximum above what was looked at.           *)
LEMMA ScanOrderly ==
  ASSUME TypeOK, Shapes, Orderly, NEW p \in Processes, NEW f \in Files, ScanFile(p, f)
  PROVE  Orderly'
<1> DEFINE r == process[p]
           e == code[r.source][f]
<1>1. UNCHANGED <<code, locks, base, drew>>
  BY DEF ScanFile
<1>2. /\ Open(p) /\ RunShape(p) /\ RunFresh(p) /\ LockKnown(p)
      /\ r.source \in Trees /\ r.max_ref \in Nat /\ r.code_files \subseteq Files
  BY OpenRuns, RunFields DEF ScanFile, Shapes, Orderly
<1>3. /\ Continues(p) /\ r.pc = "scan" /\ process'[p].pc = "scan"
      /\ f \in r.code_files /\ process'[p].code_files = r.code_files \ {f}
      /\ process'[p].start = r.start /\ process'[p].next = r.next
      /\ process'[p].file = r.file
  BY ScanBecomes
<1>4. process'[p].missing = (r.missing \/ NeedsReference(e))
  BY ScanBecomes
<1>5. /\ process'[p].max_ref = IF Exists(e) /\ e.reference > r.max_ref
                               THEN e.reference ELSE r.max_ref
      /\ Exists(e) => e.reference \in Nat
      /\ \A g \in Files : Exists(code[r.source][g]) => code[r.source][g].reference \in Nat
  <2>1. \A g \in Files : code[r.source][g] \in Row
    BY <1>2 DEF TypeOK
  <2>2. \A g \in Files : Exists(code[r.source][g]) => code[r.source][g].reference \in Nat
    BY <2>1, ReferenceTypes DEF Exists
  <2>3. process'[p].max_ref = IF Exists(e) /\ e.reference > r.max_ref
                               THEN e.reference ELSE r.max_ref
    BY ScanBecomes
  <2> QED
    BY <2>2, <2>3
<1>6. RunFresh(p)'
  <2>1. r.file = None
    BY <1>2, <1>3 DEF RunShape
  <2>2. ASSUME NEW g \in Files \ process'[p].code_files, Exists(code[r.source][g])
        PROVE  code[r.source][g].reference <= process'[p].max_ref
    <3>1. CASE g = f
      BY <1>2, <1>5, <2>2, <3>1
    <3>2. CASE g # f
      <4>1. code[r.source][g].reference <= r.max_ref
        BY <1>2, <1>3, <2>2, <3>2 DEF RunFresh
      <4> QED
        BY <1>2, <1>5, <2>2, <4>1
    <3> QED
      BY <3>1, <3>2
  <2> QED
    BY <1>1, <1>3, <2>1, <2>2 DEF RunFresh, Continues, Exists
<1>7. LockKnown(p)'
  <2> HIDE DEF r
  <2>1. process'[p].missing => \E g \in r.found : NeedsReference(code[r.source][g])
    BY <1>2, <1>3, <1>4 DEF LockKnown, RunShape, r
  <2> QED
    BY <1>1, <1>2, <1>3, <2>1 DEF LockKnown, Continues, NeedsReference, r
<1> QED
  BY <1>1, <1>3, <1>6, <1>7, RunAlone DEF Continues, Drew, Open, Closed, Run

(* After all files the number after the maximum is beyond them.            *)
LEMMA FinishScanOrderly ==
  ASSUME TypeOK, Shapes, Orderly, NEW p \in Processes, FinishScan(p)
  PROVE  Orderly'
<1> DEFINE r == process[p]
<1>1. UNCHANGED <<code, locks, base, drew>>
  BY DEF FinishScan
<1>2. /\ Open(p) /\ RunShape(p) /\ RunFresh(p) /\ LockKnown(p)
      /\ r.source \in Trees /\ r.max_ref \in Nat
  BY OpenRuns, RunFields DEF FinishScan, Shapes, Orderly
<1>3. r.pc = "scan" /\ r.code_files = {} /\ r.start = None /\ r.next = None /\ r.file = None
  BY <1>2 DEF FinishScan, RunShape
<1>4. ~Drew(p)
  BY <1>3 DEF Drew
<1>5. CASE ~r.missing
  <2>1. Closes(p)
    BY <1>5, FinishScanBecomes
  <2> QED
    BY <1>1, <1>4, <2>1, RunAlone DEF Closes, Open
<1>6. CASE r.missing
  <2>1. /\ Continues(p) /\ process'[p].pc = "insert" /\ process'[p].code_files = r.found
        /\ process'[p].start = r.max_ref + 1 /\ process'[p].next = r.max_ref + 1
        /\ process'[p].file = None
    BY <1>3, <1>6, FinishScanBecomes
  <2>2. Below(r.source, r.max_ref + 1)
    <3>1. ASSUME NEW g \in Files, Exists(code[r.source][g])
          PROVE  code[r.source][g].reference < r.max_ref + 1
      <4>1. code[r.source][g].reference <= r.max_ref
        BY <1>2, <1>3, <3>1 DEF RunFresh
      <4>2. code[r.source][g] \in Row
        BY <1>2 DEF TypeOK
      <4>3. code[r.source][g].reference \in Nat
        BY <3>1, <4>2, ReferenceTypes DEF Exists
      <4> QED
        BY <1>2, <4>1, <4>3
    <3> QED
      BY <3>1 DEF Below
  <2>3. RunFresh(p)'
    BY <1>1, <2>1, <2>2 DEF RunFresh, Continues, Below, Exists
  <2>4. \E g \in r.found : NeedsReference(code[r.source][g])
    BY <1>2, <1>3, <1>6 DEF LockKnown
  <2>5. LockKnown(p)'
    BY <1>1, <1>2, <1>3, <2>1, <2>4 DEF LockKnown, Continues, NeedsReference
  <2> QED
    BY <1>1, <1>4, <2>1, <2>3, <2>5, RunAlone DEF Continues
<1> QED
  BY <1>5, <1>6

(* A file that needs no reference is no work left.                         *)
LEMMA SkipOrderly ==
  ASSUME TypeOK, Shapes, Orderly, NEW p \in Processes, NEW f \in Files, SkipFile(p, f)
  PROVE  Orderly'
<1> DEFINE r == process[p]
<1>1. UNCHANGED <<code, locks, base, drew>> /\ ~NeedsReference(code[r.source][f])
  BY DEF SkipFile
<1>2. Open(p) /\ RunFresh(p) /\ LockKnown(p)
  BY OpenRuns DEF SkipFile, Orderly
<1>3. /\ Continues(p) /\ r.pc = "insert" /\ process'[p].pc = "insert"
      /\ process'[p].file = None /\ process'[p].code_files = r.code_files \ {f}
      /\ process'[p].start = r.start /\ process'[p].next = r.next
  BY SkipBecomes
<1>4. RunFresh(p)'
  BY <1>1, <1>2, <1>3 DEF RunFresh, Continues, Below, Exists
<1>5. LockKnown(p)'
  BY <1>1, <1>2, <1>3 DEF LockKnown, Continues, NeedsReference, Drew
<1> QED
  BY <1>1, <1>3, <1>4, <1>5, RunAlone DEF Continues, Drew, Open, Closed, Run

(* A number drawn is above all others, and is counted up.                  *)
LEMMA MapOrderly ==
  ASSUME TypeOK, Shapes, Orderly, NEW p \in Processes, NEW f \in Files, MapFile(p, f)
  PROVE  Orderly'
<1> DEFINE r == process[p]
<1>1. UNCHANGED <<code, locks, base>> /\ (base # None => drew \subseteq drew')
  BY DEF MapFile
<1>2. Open(p) /\ RunShape(p) /\ RunFresh(p) /\ LockKnown(p) /\ r.source \in Trees
  BY OpenRuns, RunFields DEF MapFile, Shapes, Orderly
<1>3. /\ Continues(p) /\ r.pc = "insert" /\ process'[p].pc = "insert"
      /\ process'[p].file = f
      /\ process'[p].start = r.start /\ process'[p].next = r.next + 1
      /\ r.start \in Nat /\ r.next \in Nat /\ r.start <= r.next
      /\ process'[p].scratch.reference = r.next
  BY <1>2, MapBecomes
<1>4. Drew(p)'
  BY <1>3 DEF Drew
<1>5. Below(r.source, r.next)
  BY <1>2, <1>3 DEF RunFresh
<1>6. Below(r.source, r.next + 1)
  <2>1. ASSUME NEW g \in Files, Exists(code[r.source][g])
        PROVE  code[r.source][g].reference < r.next + 1
    <3>1. code[r.source][g] \in Row
      BY <1>2 DEF TypeOK
    <3>2. code[r.source][g].reference \in Nat
      BY <2>1, <3>1, ReferenceTypes DEF Exists
    <3> QED
      BY <1>3, <1>5, <2>1, <3>2 DEF Below
  <2> QED
    BY <2>1 DEF Below
<1>7. RunFresh(p)'
  BY <1>1, <1>3, <1>5, <1>6 DEF RunFresh, Continues, Below, Exists
<1>8. LockKnown(p)'
  BY <1>1, <1>2, <1>3, <1>4 DEF LockKnown, Continues, NeedsReference
<1> QED
  BY <1>1, <1>3, <1>4, <1>7, <1>8, RunAlone DEF Continues, Open, Closed, Run

(* The reference brought into the code is above those there.               *)
LEMMA RenameOrderly ==
  ASSUME TypeOK, Shapes, Separate, Orderly, NEW p \in Processes, Rename(p)
  PROVE  Orderly'
<1> DEFINE r == process[p]
<1>1. UNCHANGED <<locks, base, drew>>
  BY DEF Rename
<1>2. Open(p) /\ RunShape(p) /\ RunFresh(p) /\ LockKnown(p)
  BY OpenRuns DEF Rename, Shapes, Orderly
<1>3. /\ Continues(p) /\ r.pc = "insert" /\ process'[p].pc = "insert"
      /\ r.file \in Files /\ r.file # None /\ process'[p].file = None
      /\ r.source \in Trees
      /\ process'[p].start = r.start /\ process'[p].next = r.next
  BY RenameBecomes
<1>4. /\ code'[r.source][r.file] = r.scratch
      /\ \A t \in Trees, g \in Files :
            ~(t = r.source /\ g = r.file) => code'[t][g] = code[t][g]
  BY RenameBecomes
<1>5. /\ Drew(p) /\ Drew(p)' /\ r.scratch.reference \in Nat
      /\ r.scratch.reference < r.next /\ Below(r.source, r.scratch.reference)
      /\ base # None => r.source \in drew
      /\ Below(r.source, r.next)
  BY <1>2, <1>3 DEF RunShape, RunFresh, Drew
<1>6. \A t \in Trees : t # r.source => code'[t] = code[t]
  BY DEF Rename, TypeOK
<1>7. DistinctReferences'
  <2> SUFFICES ASSUME NEW t \in Trees, NEW f \in Files, NEW g \in Files,
                      Exists(code'[t][f]), code'[t][f].reference = code'[t][g].reference
               PROVE  f = g
    BY DEF DistinctReferences, Exists
  <2>1. \A h, k \in Files : Exists(code[t][h])
            /\ code[t][h].reference = code[t][k].reference => h = k
    BY DEF Orderly, DistinctReferences
  <2>2. CASE t # r.source
    BY <1>6, <2>1, <2>2
  <2>3. CASE t = r.source
    <3>1. \A h \in Files : Exists(code[t][h]) =>
              code[t][h].reference # r.scratch.reference
      BY <1>5, <2>3 DEF Below
    <3>2. CASE f # r.file /\ g # r.file
      BY <1>4, <2>1, <3>2
    <3>3. CASE f = r.file /\ g # r.file
      BY <1>4, <2>3, <3>1, <3>3 DEF Exists
    <3>4. CASE f # r.file /\ g = r.file
      BY <1>4, <2>3, <3>1, <3>4
    <3> QED
      BY <3>2, <3>3, <3>4
  <2> QED
    BY <2>2, <2>3
<1>8. ASSUME NEW q \in Processes, Open(q)'
      PROVE  RunFresh(q)' /\ LockKnown(q)'
  <2>1. CASE q # p
    <3>1. process'[q] = process[q] /\ Open(q)
      BY <1>3, <1>8, <2>1 DEF Continues, Open
    <3>2. process[q].source # r.source /\ process[q].source \in Trees
      BY <1>2, <2>1, <3>1, OpenRuns, RunFields DEF Separate
    <3> QED
      BY <1>1, <1>6, <3>1, <3>2, FreshKept, KnownKept DEF Orderly
  <2>2. CASE q = p
    <3>1. \A g \in Files : Exists(code'[r.source][g]) => code'[r.source][g].reference < r.next
      BY <1>3, <1>4, <1>5 DEF Below
    <3>2. RunFresh(p)'
      BY <1>3, <3>1 DEF RunFresh, Continues, Below, Exists
    <3>3. LockKnown(p)'
      BY <1>1, <1>2, <1>3, <1>5 DEF LockKnown, Continues
    <3> QED
      BY <2>2, <3>2, <3>3
  <2> QED
    BY <2>1, <2>2
<1>9. LocksCover'
  <2> SUFFICES ASSUME NEW t \in Trees, NEW source \in Trees, NEW d \in ConfigDirs,
                      Governs(t, d, source)',
                      \A q \in Processes : Open(q)' /\ process'[q].source = source => ~Drew(q)'
               PROVE  Below(source, locks[t][d])'
    BY DEF LocksCover
  <2>1. Governs(t, d, source)
    BY <1>1 DEF Governs
  <2>2. source # r.source
    BY <1>3, <1>5 DEF Continues, Open, Closed, Run
  <2>3. ASSUME NEW q \in Processes, Open(q), process[q].source = source
        PROVE  ~Drew(q)
    BY <2>2, <2>3, <1>3 DEF Open, Drew, Continues
  <2>4. Below(source, locks[t][d])
    BY <2>1, <2>3 DEF Orderly, LocksCover
  <2> QED
    BY <1>1, <1>6, <2>2, <2>4 DEF Below, Exists
<1>10. BranchKept'
  BY <1>1, <1>5, <1>6 DEF Orderly, BranchKept
<1> QED
  BY <1>7, <1>8, <1>9, <1>10 DEF Orderly

(* Edits bring no reference into the code.                                 *)
LEMMA EditOrderly ==
  ASSUME TypeOK, Orderly, NEW u \in Trees, NEW f \in Files,
         AddStatement(u, f) \/ DeleteStatement(u, f)
  PROVE  Orderly'
<1>1. /\ AtRest(u) /\ ~Exists(code'[u][f]) /\ code'[u][f].reference = None
      /\ \A s \in Trees, g \in Files : ~(s = u /\ g = f) => code'[s][g] = code[s][g]
      /\ UNCHANGED <<locks, base, process, drew, lapses>>
  BY EditBecomes DEF Exists
<1>2. \A s \in Trees, g \in Files : Exists(code'[s][g]) => code'[s][g] = code[s][g]
  BY <1>1
<1>3. DistinctReferences'
  BY <1>2 DEF Orderly, DistinctReferences, Exists
<1>4. ASSUME NEW q \in Processes, Open(q)'
      PROVE  RunFresh(q)' /\ LockKnown(q)'
  <2>1. Open(q) /\ process'[q] = process[q]
    BY <1>1, <1>4 DEF Open
  <2>2. process[q].source # u /\ process[q].source \in Trees
    BY <1>1, <2>1, OpenRuns, RunFields DEF AtRest
  <2>3. \A t \in Trees : t # u => code'[t] = code[t]
    BY DEF AddStatement, DeleteStatement, Edit, TypeOK
  <2> QED
    BY <1>1, <2>1, <2>2, <2>3, FreshKept, KnownKept DEF Orderly
<1>5. LocksCover'
  <2> SUFFICES ASSUME NEW t \in Trees, NEW source \in Trees, NEW d \in ConfigDirs,
                      Governs(t, d, source)',
                      \A q \in Processes : Open(q)' /\ process'[q].source = source => ~Drew(q)'
               PROVE  Below(source, locks[t][d])'
    BY DEF LocksCover
  <2>1. Governs(t, d, source) /\
        \A q \in Processes : Open(q) /\ process[q].source = source => ~Drew(q)
    BY <1>1 DEF Governs, Open, Drew
  <2>2. Below(source, locks[t][d])
    BY <2>1 DEF Orderly, LocksCover
  <2> QED
    BY <1>1, <1>2, <2>2 DEF Below, Exists
<1>6. BranchKept'
  BY <1>1 DEF Orderly, BranchKept
<1> QED
  BY <1>3, <1>4, <1>5, <1>6 DEF Orderly

(* A branch begins with code and lock files in order.                      *)
LEMMA BranchOrderly ==
  ASSUME TypeOK, Shapes, Orderly, Branch
  PROVE  Orderly'
<1>1. \A p \in Processes : ~Open(p) /\ ~Open(p)'
  BY NoneOpenAtBranch DEF Branch, Open
<1>2. /\ code'["main"] = code["main"] /\ code'["branch"] = code["main"]
      /\ locks'["main"] = locks["main"] /\ locks'["branch"] = locks["main"]
      /\ base' = [code |-> code["main"], locks |-> locks["main"]]
  BY DEF Branch, TypeOK
<1>3. DistinctReferences'
  BY <1>2 DEF Orderly, DistinctReferences, Exists
<1>4. LocksCover'
  <2> SUFFICES ASSUME NEW t \in Trees, NEW source \in Trees, NEW d \in ConfigDirs,
                      Governs(t, d, source)'
               PROVE  Below(source, locks[t][d])'
    BY DEF LocksCover
  <2>1. Governs("main", d, "main")
    BY <1>2 DEF Governs, Trusts
  <2>2. Below("main", locks["main"][d])
    BY <1>1, <2>1 DEF Orderly, LocksCover
  <2> QED
    BY <1>2, <2>2 DEF Below, Exists
<1>5. BranchKept'
  BY <1>2 DEF BranchKept
<1> QED
  BY <1>1, <1>3, <1>4, <1>5, NoneOpenRuns DEF Orderly

(* A lock file gets a number above all references it covers.               *)
LEMMA FinishOrderly ==
  ASSUME TypeOK, Shapes, "overlapped" \notin lapses => Separate, Orderly, lapses' = {},
         NEW p \in Processes, Finish(p)
  PROVE  Orderly'
<1> DEFINE r == process[p]
           lock == locks[r.tree][r.dir]
<1>1. UNCHANGED <<code, base, drew>> /\ lapses = {} /\ ~Bypasses(p) /\ ~BeginsBlindly(p)
  BY DEF Finish
<1>2. /\ Open(p) /\ RunShape(p) /\ RunFresh(p) /\ LockKnown(p) /\ Separate
      /\ r.use_cache \in BOOLEAN
  BY <1>1, OpenRuns, RunFields DEF Finish, Shapes, Orderly
<1>3. /\ Closes(p) /\ r.pc = "insert" /\ r.code_files = {}
      /\ r.tree \in Trees /\ r.dir \in ConfigDirs /\ r.source \in Trees
      /\ r.use_cache => locks'[r.tree][r.dir] = r.next
      /\ \A t \in Trees, d \in ConfigDirs :
            ~(r.use_cache /\ t = r.tree /\ d = r.dir) => locks'[t][d] = locks[t][d]
  BY FinishBecomes
<1>4. r.start \in Nat /\ r.next \in Nat /\ r.start <= r.next /\ Below(r.source, r.next)
  BY <1>2, <1>3 DEF RunShape, RunFresh
<1>5. r.use_cache => lock = r.start \/ (lock = None /\ Drew(p))
  BY <1>2, <1>3 DEF LockKnown
<1>6. DistinctReferences'
  BY <1>1 DEF Orderly, DistinctReferences, Exists
<1>7. ASSUME NEW q \in Processes, Open(q)'
      PROVE  RunFresh(q)' /\ LockKnown(q)'
  <2>1. q # p /\ process'[q] = process[q] /\ Open(q)
    BY <1>3, <1>7 DEF Closes, Open
  <2>2. ~(process[q].tree = r.tree /\ process[q].dir = r.dir)
    BY <1>2, <2>1 DEF Separate
  <2>3. process[q].tree \in Trees /\ process[q].dir \in ConfigDirs
    BY <2>1, OpenRuns, RunFields
  <2>4. locks'[process[q].tree][process[q].dir] = locks[process[q].tree][process[q].dir]
    BY <1>3, <2>2, <2>3
  <2> QED
    BY <1>1, <2>1, <2>4, FreshKept, KnownKept DEF Orderly
<1>8. LocksCover'
  <2> SUFFICES ASSUME NEW t \in Trees, NEW source \in Trees, NEW d \in ConfigDirs,
                      Governs(t, d, source)',
                      \A q \in Processes : Open(q)' /\ process'[q].source = source => ~Drew(q)'
               PROVE  Below(source, locks[t][d])'
    BY DEF LocksCover
  <2>1. \A q \in Processes \ {p} : Open(q) /\ process[q].source = source => ~Drew(q)
    BY <1>3 DEF Closes, Open, Drew
  <2>2. Trusts(t, source)
    BY DEF Governs
  <2>3. SUFFICES Below(source, locks'[t][d])
    BY <1>1 DEF Below, Exists
  <2>4. CASE r.use_cache /\ t = r.tree /\ d = r.dir
    <3>1. locks'[t][d] = r.next
      BY <1>3, <2>4
    <3>2. CASE source = r.source
      BY <1>4, <3>1, <3>2
    <3>3. CASE source # r.source
      <4>1. CASE lock = None
        <5>1. References(source) = {}
          BY <1>1, <2>2, <2>4, <3>3, <4>1 DEF BeginsBlindly
        <5> QED
          BY <5>1 DEF References, Below, Exists
      <4>2. CASE lock # None
        <5>1. lock = r.start /\ Governs(t, d, source)
          BY <1>5, <2>2, <2>4, <4>2 DEF Governs
        <5>2. Below(source, r.start)
          BY <2>1, <2>4, <3>3, <5>1 DEF Orderly, LocksCover
        <5>3. ASSUME NEW g \in Files, Exists(code[source][g])
              PROVE  code[source][g].reference < r.next
          <6>1. code[source][g] \in Row
            BY DEF TypeOK
          <6>2. code[source][g].reference \in Nat
            BY <5>3, <6>1, ReferenceTypes DEF Exists
          <6> QED
            BY <1>4, <5>2, <5>3, <6>2 DEF Below
        <5> QED
          BY <3>1, <5>3 DEF Below
      <4> QED
        BY <4>1, <4>2
    <3> QED
      BY <3>2, <3>3
  <2>5. CASE ~(r.use_cache /\ t = r.tree /\ d = r.dir)
    <3>1. locks'[t][d] = locks[t][d] /\ Governs(t, d, source)
      BY <1>3, <2>5 DEF Governs
    <3>2. ~(source = r.source /\ Drew(p))
      BY <1>1, <2>5, <3>1 DEF Bypasses, Drew
    <3> QED
      BY <2>1, <3>1, <3>2 DEF Orderly, LocksCover
  <2> QED
    BY <2>4, <2>5
<1>9. BranchKept'
  <2> SUFFICES ASSUME base # None, NEW t \in Trees \ drew, NEW d \in ConfigDirs,
                      locks'[t][d] \notin {base.locks[d], None}
               PROVE  t = "branch" /\ Trusts("branch", "main")
    BY <1>1 DEF Orderly, BranchKept
  <2>1. CASE locks'[t][d] = locks[t][d]
    BY <2>1 DEF Orderly, BranchKept
  <2>2. CASE locks'[t][d] # locks[t][d]
    <3>1. r.use_cache /\ t = r.tree /\ lock # r.next
      BY <1>3, <2>2
    <3>2. Drew(p)
      BY <1>5, <3>1 DEF Drew
    <3>3. r.source # t /\ Trusts(t, r.source)
      BY <1>2, <3>1, <3>2 DEF RunShape
    <3> QED
      BY <1>2, <1>3, <3>1, <3>3 DEF RunShape
  <2> QED
    BY <2>1, <2>2
<1> QED
  BY <1>6, <1>7, <1>8, <1>9 DEF Orderly

(***************************************************************************)
(* A merge keeps the references of one side, and of the lock files the one *)
(* that is ahead of them.                                                  *)
(***************************************************************************)
LEMMA MergeKeepsOneSide ==
  ASSUME TypeOK, Orderly, lapses' = {}, Merge
  PROVE  \E side \in Trees :
            /\ \A f \in Files : code'["main"][f].reference \in {None, code[side][f].reference}
            /\ \A d \in ConfigDirs : locks'["main"][d] # None =>
                  \E t \in Trees : Governs(t, d, side) /\ locks'["main"][d] = locks[t][d]
<1>1. base # None /\ drew # Trees /\ drew \subseteq Trees
  BY DEF Merge, Lapse, TypeOK
<1>2. PICK quiet \in Trees : quiet \notin drew
  BY <1>1
<1>3. PICK side \in Trees : side # quiet
  OBVIOUS
<1>4. {quiet, side} = Trees
  BY <1>3
<1>5. ASSUME NEW f \in Files
      PROVE  code'["main"][f].reference \in {None, code[side][f].reference}
  <2>1. code'["main"][f] \in Resolved(code["main"][f], code["branch"][f], base.code[f])
    BY MergeBecomes
  <2>2. code[quiet][f].reference \in {None, base.code[f].reference}
    BY <1>1, <1>2 DEF Orderly, BranchKept
  <2>3. code[quiet][f] \in Row /\ base.code[f] \in Row
    BY <1>1 DEF TypeOK, Fork
  <2>4. code'["main"][f] \in {code[quiet][f], code[side][f]}
    BY <1>1, <1>4, <2>1 DEF Resolved
  <2>5. CASE code[quiet][f].reference = None
    BY <2>4, <2>5
  <2>6. CASE code[quiet][f].reference # None
    <3>1. code[quiet][f] = base.code[f]
      BY <2>2, <2>3, <2>6 DEF Row, AbsentEntry
    <3>2. code'["main"][f] = code[side][f]
      BY <1>3, <2>1, <3>1 DEF Resolved
    <3> QED
      BY <3>2
  <2> QED
    BY <2>5, <2>6
<1>6. ASSUME NEW d \in ConfigDirs, locks'["main"][d] # None
      PROVE  \E t \in Trees : Governs(t, d, side) /\ locks'["main"][d] = locks[t][d]
  <2>1. locks'["main"][d] \in Resolved(locks["main"][d], locks["branch"][d], base.locks[d])
    BY MergeBecomes
  <2>2. CASE locks[quiet][d] = base.locks[d]
    <3>1. locks'["main"][d] = locks[side][d]
      BY <1>3, <2>1, <2>2 DEF Resolved
    <3> QED
      BY <1>6, <3>1 DEF Governs, Trusts
  <2>3. CASE locks[quiet][d] = None
    <3>1. locks'["main"][d] = locks[side][d]
      BY <1>4, <1>6, <2>1, <2>3 DEF Resolved
    <3> QED
      BY <1>6, <3>1 DEF Governs, Trusts
  <2>4. CASE locks[quiet][d] \notin {base.locks[d], None}
    <3>1. quiet = "branch" /\ side = "main" /\ Trusts("branch", "main")
      BY <1>1, <1>2, <1>3, <2>4 DEF Orderly, BranchKept
    <3>2. locks'["main"][d] \in {locks["main"][d], locks["branch"][d]}
      BY <2>1 DEF Resolved
    <3> QED
      BY <1>6, <3>1, <3>2 DEF Governs, Trusts
  <2> QED
    BY <2>2, <2>3, <2>4
<1> QED
  BY <1>5, <1>6

(* A merge leaves the references and the lock file of one side.            *)
LEMMA MergeOrderly ==
  ASSUME TypeOK, Orderly, lapses' = {}, Merge
  PROVE  Orderly'
<1>1. /\ \A p \in Processes : ~Open(p) /\ ~Open(p)'
      /\ \A f \in Files : code'["branch"][f] = AbsentEntry
      /\ \A d \in ConfigDirs : locks'["branch"][d] = None
      /\ base' = None
  BY MergeBecomes DEF Merge, Open
<1>2. PICK side \in Trees :
        /\ \A f \in Files : code'["main"][f].reference \in {None, code[side][f].reference}
        /\ \A d \in ConfigDirs : locks'["main"][d] # None =>
              \E t \in Trees : Governs(t, d, side) /\ locks'["main"][d] = locks[t][d]
  BY MergeKeepsOneSide
<1>3. DistinctReferences'
  <2> SUFFICES ASSUME NEW t \in Trees, NEW f \in Files, NEW g \in Files,
                      Exists(code'[t][f]), code'[t][f].reference = code'[t][g].reference
               PROVE  f = g
    BY DEF DistinctReferences, Exists
  <2>1. t = "main"
    BY <1>1 DEF Exists, AbsentEntry
  <2>2. code'[t][f].reference # None
    BY DEF Exists
  <2>3. /\ code[side][f].reference # None
        /\ code[side][f].reference = code[side][g].reference
    BY <1>2, <2>1, <2>2
  <2> QED
    BY <2>3 DEF Orderly, DistinctReferences, Exists
<1>4. LocksCover'
  <2> SUFFICES ASSUME NEW t \in Trees, NEW source \in Trees, NEW d \in ConfigDirs,
                      Governs(t, d, source)'
               PROVE  Below(source, locks[t][d])'
    BY DEF LocksCover
  <2>1. t = "main" /\ source = "main"
    BY <1>1 DEF Governs, Trusts, SourceTree
  <2>2. PICK u \in Trees : Governs(u, d, side) /\ locks'["main"][d] = locks[u][d]
    BY <1>2, <2>1 DEF Governs
  <2>3. Below(side, locks[u][d])
    BY <1>1, <2>2 DEF Orderly, LocksCover
  <2> QED
    BY <1>2, <2>1, <2>2, <2>3 DEF Below, Exists
<1>5. BranchKept'
  BY <1>1 DEF BranchKept
<1> QED
  BY <1>1, <1>3, <1>4, <1>5, NoneOpenRuns DEF Orderly

(* A lock file that is gone covers nothing, and no run has read it.        *)
LEMMA DeleteLockOrderly ==
  ASSUME TypeOK, Orderly, NEW u \in Trees, NEW e \in ConfigDirs, DeleteLock(u, e)
  PROVE  Orderly'
<1>1. /\ AtRest(u)
      /\ UNCHANGED <<code, base, process, drew, lapses>>
      /\ \A t \in Trees, d \in ConfigDirs :
            /\ locks'[t][d] \in {locks[t][d], None}
            /\ t # u => locks'[t][d] = locks[t][d]
  BY DEF DeleteLock, TypeOK
<1>2. DistinctReferences'
  BY <1>1 DEF Orderly, DistinctReferences, Exists
<1>3. ASSUME NEW q \in Processes, Open(q)'
      PROVE  RunFresh(q)' /\ LockKnown(q)'
  <2>1. Open(q) /\ process'[q] = process[q]
    BY <1>1, <1>3 DEF Open
  <2>2. process[q].tree # u /\ process[q].tree \in Trees /\ process[q].dir \in ConfigDirs
    BY <1>1, <2>1, OpenRuns, RunFields DEF AtRest
  <2> QED
    BY <1>1, <2>1, <2>2, FreshKept, KnownKept DEF Orderly
<1>4. LocksCover'
  <2> SUFFICES ASSUME NEW t \in Trees, NEW source \in Trees, NEW d \in ConfigDirs,
                      Governs(t, d, source)',
                      \A q \in Processes : Open(q)' /\ process'[q].source = source => ~Drew(q)'
               PROVE  Below(source, locks[t][d])'
    BY DEF LocksCover
  <2>1. Governs(t, d, source) /\ locks'[t][d] = locks[t][d]
    BY <1>1 DEF Governs
  <2>2. \A q \in Processes : Open(q) /\ process[q].source = source => ~Drew(q)
    BY <1>1 DEF Open, Drew
  <2>3. Below(source, locks[t][d])
    BY <2>1, <2>2 DEF Orderly, LocksCover
  <2> QED
    BY <1>1, <2>1, <2>3 DEF Below, Exists
<1>5. BranchKept'
  BY <1>1 DEF Orderly, BranchKept
<1> QED
  BY <1>2, <1>3, <1>4, <1>5 DEF Orderly

(* Every step keeps references and lock files in order.                    *)
LEMMA OrderlyStep ==
  ASSUME TypeOK, Shapes, Separate, Orderly, [Next]_vars, lapses' = {}
  PROVE  Orderly'
<1>1. Orderly /\ Separate
  OBVIOUS
<1>2. ASSUME NEW p \in Processes, NEW t \in Trees, NEW d \in ConfigDirs,
             NEW y \in Yamls, Start(p, t, d, y)
      PROVE  Orderly'
  BY <1>1, <1>2, StartOrderly
<1>3. ASSUME NEW p \in Processes, NEW f \in Files, ScanFile(p, f)
      PROVE  Orderly'
  BY <1>1, <1>3, ScanOrderly
<1>4. ASSUME NEW p \in Processes, NEW f \in Files, SkipFile(p, f)
      PROVE  Orderly'
  BY <1>1, <1>4, SkipOrderly
<1>5. ASSUME NEW p \in Processes, NEW f \in Files, MapFile(p, f)
      PROVE  Orderly'
  BY <1>1, <1>5, MapOrderly
<1>6. ASSUME NEW p \in Processes, FinishScan(p) PROVE Orderly'
  BY <1>1, <1>6, FinishScanOrderly
<1>7. ASSUME NEW p \in Processes, Rename(p) PROVE Orderly'
  BY <1>1, <1>7, RenameOrderly
<1>8. ASSUME NEW p \in Processes, Finish(p) PROVE Orderly'
  BY <1>1, <1>8, FinishOrderly
<1>9. ASSUME NEW t \in Trees, NEW f \in Files, AddStatement(t, f) \/ DeleteStatement(t, f)
      PROVE  Orderly'
  BY <1>1, <1>9, EditOrderly
<1>10. CASE Branch
  BY <1>1, <1>10, BranchOrderly
<1>11. CASE Merge
  BY <1>1, <1>11, MergeOrderly
<1>12. CASE UNCHANGED vars
  <2>1. \A p \in Processes : Open(p)' =>
            Open(p) /\ process'[p] = process[p]
    BY <1>12 DEF vars, Open
  <2>2. (\A p \in Processes : Open(p) => RunFresh(p) /\ LockKnown(p))'
    BY <1>1, <1>12, <2>1, FreshKept, KnownKept DEF vars, Orderly
  <2>3. DistinctReferences' /\ BranchKept'
    BY <1>1, <1>12 DEF vars, Orderly, DistinctReferences, BranchKept, Exists
  <2>4. LocksCover'
    BY <1>1, <1>12 DEF vars, Orderly, LocksCover, Governs, Open, Drew, Below, Exists
  <2> QED
    BY <2>2, <2>3, <2>4 DEF Orderly
<1>13. ASSUME NEW t \in Trees, NEW d \in ConfigDirs, DeleteLock(t, d)
       PROVE  Orderly'
  BY <1>13, DeleteLockOrderly
<1> QED
  BY <1>2, <1>3, <1>4, <1>5, <1>6, <1>7, <1>8, <1>9, <1>10, <1>11, <1>12, <1>13 DEF Next

-----------------------------------------------------------------------------
(***************************************************************************)
(* The inductive invariant holds, whatever the files and configurations    *)
(* and however many processes, runs, edits, branches and merges: as long   *)
(* as no run overlaps another, no two runs are at work on the same code or *)
(* lock file, and as long as the team does none of the four, every run     *)
(* draws references beyond all those of its code and every lock file is    *)
(* ahead of the code it may be trusted for.                                *)
(***************************************************************************)
THEOREM WorkflowInductive == Spec => []IInv
<1>1. Init => IInv
  <2> SUFFICES ASSUME Init PROVE IInv
    OBVIOUS
  <2>1. TypeOK
    BY BoundAssumption DEF Init, TypeOK, Row, Numbers, Closed, LapseKinds
  <2>2. \A p \in Processes : ~Open(p)
    BY DEF Init, Open
  <2>3. \A t \in Trees, f \in Files : ~Exists(code[t][f])
    BY DEF Init, Exists, AbsentEntry
  <2>4. DistinctReferences /\ LocksCover /\ BranchKept
    BY <2>3 DEF Init, DistinctReferences, LocksCover, Governs, BranchKept
  <2>5. NoBranch
    BY DEF Init, NoBranch
  <2> QED
    BY <2>1, <2>2, <2>4, <2>5 DEF IInv, Separate
<1>2. IInv /\ [Next]_vars => IInv'
  <2> SUFFICES ASSUME IInv, [Next]_vars PROVE IInv'
    OBVIOUS
  <2>1. /\ TypeOK /\ Shapes /\ NoBranch
        /\ "overlapped" \notin lapses => Separate
        /\ lapses = {} => Orderly
    BY DEF IInv, Shapes, Orderly
  <2>2. TypeOK' /\ Shapes' /\ NoBranch'
    BY <2>1, TypeStep, ShapesStep, NoBranchStep
  <2>3. /\ "overlapped" \notin lapses' => Separate
        /\ lapses' = {} => Separate /\ Orderly
    <3>1. CASE \E y \in Yamls : StartsOver(y)
      BY <2>1, <3>1, AllAnew
    <3>2. CASE \A y \in Yamls : ~StartsOver(y)
      BY <2>1, <3>2, LapsesGrow
    <3> QED
      BY <3>1, <3>2
  <2>4. "overlapped" \notin lapses' => Separate'
    BY <2>1, <2>3, SeparateStep
  <2>5. lapses' = {} => Orderly'
    BY <2>1, <2>3, OrderlyStep
  <2> QED
    BY <2>2, <2>4, <2>5 DEF IInv, Shapes, Orderly
<1> QED
  BY <1>1, <1>2, PTL DEF Spec

(***************************************************************************)
(* As long as the team does none of the four, or has started over since,   *)
(* no two statements of a tree have the same reference.                    *)
(***************************************************************************)
THEOREM NoDuplicatesUnlessMisused == Spec => []UniqueUnlessMisused
<1>1. IInv => UniqueUnlessMisused
  BY DEF IInv, UniqueUnlessMisused, DistinctReferences
<1> QED
  BY <1>1, WorkflowInductive, PTL

(***************************************************************************)
(* Then also every lock file is ahead of the code it would be trusted for, *)
(* whenever nobody works on that code.                                     *)
(***************************************************************************)
THEOREM LocksStayAhead == Spec => []LocksAhead
<1>1. IInv => LocksAhead
  <2> SUFFICES ASSUME IInv, lapses = {}, NEW t \in Trees, NEW source \in Trees,
                      NEW d \in ConfigDirs, Governs(t, d, source), AtRest(source),
                      NEW r \in References(source)
               PROVE  r < locks[t][d]
    BY DEF LocksAhead
  <2>1. \A p \in Processes : ~(Open(p) /\ process[p].source = source)
    BY DEF AtRest
  <2>2. Below(source, locks[t][d])
    BY <2>1 DEF IInv, LocksCover
  <2> QED
    BY <2>2 DEF Below, References, Exists
<1> QED
  BY <1>1, WorkflowInductive, PTL

(***************************************************************************)
(* No run takes back or changes a reference that is in the code, unless    *)
(* runs overlapped.                                                        *)
(***************************************************************************)
THEOREM RunsKeepReferences == Spec => ReferencesStay
<1> DEFINE Stay == (\E p \in Processes : Rename(p)) /\ "overlapped" \notin lapses =>
              \A t \in Trees, f \in Files : Exists(code[t][f]) => code'[t][f] = code[t][f]
<1>1. IInv => Stay
  <2> SUFFICES ASSUME IInv, NEW p \in Processes, Rename(p), "overlapped" \notin lapses,
                      NEW t \in Trees, NEW f \in Files, Exists(code[t][f])
               PROVE  code'[t][f] = code[t][f]
    OBVIOUS
  <2>1. TypeOK /\ Separate
    BY DEF IInv
  <2>2. Open(p)
    BY <2>1, OpenRuns DEF Rename
  <2>3. ~Exists(code[process[p].source][process[p].file])
    BY <2>1, <2>2 DEF Separate, Rename
  <2> QED
    BY <2>1, <2>3, RenameBecomes
<1> QED
  BY <1>1, WorkflowInductive, PTL DEF ReferencesStay
=============================================================================

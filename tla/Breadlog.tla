------------------------------ MODULE Breadlog ------------------------------
(***************************************************************************)
(* Breadlog run after run over one code base: generate_code and            *)
(* check_references of src/codegen/generate.rs with the three processors   *)
(* they hand to process_references, the file discovery of                  *)
(* src/codegen/finder.rs, the lock file of src/config/context.rs and the   *)
(* stop flag of src/main.rs.                                               *)
(*                                                                         *)
(* One action is one step of the program that another actor could come     *)
(* between: a file loaded and mapped, a reference drawn and written, the   *)
(* rename, the late flush of the renamed file, the lock file emptied and   *)
(* the lock file filled.  The other actors are the operating system, which *)
(* may fail a call, deliver SIGTERM or kill the process, and the           *)
(* developers, who edit the code base and may delete the lock file.        *)
(***************************************************************************)
EXTENDS LogRefs, FiniteSets

CONSTANTS
    Files,              \* the source files below source_dir
    NumSlots,           \* places for a log statement in each file
    Corrupt,            \* a lock file that does not parse
    UseCache,           \* the configuration's use_cache
    Faults,             \* what may go wrong, see FaultKinds
    ConcurrentEdits,    \* may the developers edit while Breadlog runs?
    WrittenKinds,       \* the kinds of statement developers write
    InitRefs,           \* references the code base may start with
    InitLocks,          \* what the lock file may start as
    MaxRuns,            \* bound on the runs of the program
    MaxEdits            \* bound on the developers' edits

FaultKinds ==
    {"config",      \* setup_context or the signal registration fails
     "walk",        \* WalkDir meets a directory it cannot read
     "read",        \* load_code fails
     "create",      \* AsyncTempFile::new fails
     "write",       \* a write_all to the temporary file fails
     "rename",      \* the rename over the source file fails
     "flush",       \* the flush in the drop of the renamed file fails
     "lockopen",    \* std::fs::write cannot open the lock file
     "lockwrite",   \* std::fs::write empties the lock file and then fails
     "stop",        \* SIGTERM
     "crash"}       \* SIGKILL, SIGINT, power loss: no destructor runs

ASSUME FilesAssumption == IsFiniteSet(Files) /\ Files # {} /\ None \notin Files
ASSUME NumSlotsAssumption == NumSlots \in Nat \ {0}
ASSUME CorruptAssumption == Corrupt \notin Nat \cup {None}
ASSUME SwitchAssumption ==
    /\ UseCache \in BOOLEAN
    /\ ConcurrentEdits \in BOOLEAN
    /\ Faults \subseteq FaultKinds
ASSUME InitAssumption ==
    /\ WrittenKinds \subseteq LogRefKind \ {"Absent"}
    /\ InitRefs \subseteq U32
    /\ InitLocks \subseteq U32 \cup {None, Corrupt}
ASSUME BoundAssumption == MaxRuns \in Nat /\ MaxEdits \in Nat

VARIABLES
    (* the disk *)
    code,           \* the source files
    lock,           \* Breadlog.lock: its number, None (no file) or Corrupt
    temps,          \* how many breadlog-*.tmp files lie in the temp directory
    (* the process *)
    pc,             \* the next step, "idle" when no Breadlog is running
    check_mode,     \* --check
    stop_commanded, \* the flag the signal handler sets
    exit_code,      \* how the last run ended
    cached_next_reference_id,      \* read from the lock file at start-up
    calculated_next_reference_id,  \* the local of generate_code
    next_reference_id,             \* the AtomicU32 shared with the processor
    found,          \* CodeFinder.code_files
    code_files,     \* those of them this pass has yet to load
    max_ref,        \* NextReferenceIdProcessor: the highest reference mapped
    missing,        \* the first two processors: was a missing one counted?
    num_inserted,   \* InsertReferencesProcessor: sum over the mapped files
    failure,        \* InsertReferencesProcessor: did any mapped file fail?
    (* one InsertReferencesProcessor::map *)
    file,           \* the file being rewritten, or None
    scratch,        \* what scratch_file holds once the rest is copied
    created_entries,
    (* the environment *)
    runs, edits,    \* counted against MaxRuns and MaxEdits
    lapses          \* history: see LapseKinds

Slots == 1 .. NumSlots

disk    == <<code, lock, temps>>
ids     == <<cached_next_reference_id, calculated_next_reference_id,
             next_reference_id>>
results == <<max_ref, missing, num_inserted, failure>>
job     == <<file, scratch, created_entries>>
process == <<pc, check_mode, stop_commanded, exit_code, ids, found,
             code_files, results, job>>
vars    == <<disk, process, runs, edits, lapses>>

(***************************************************************************)
(* The events after which the references handed out may no longer be       *)
(* accounted for, recorded as they happen:                                 *)
(*   "wrapped"    a reference counter passed the largest u32;              *)
(*   "uncounted"  references were drawn that the number in the lock file   *)
(*                will not include;                                        *)
(*   "unscanned"  the first pass went ahead without a file that holds      *)
(*                references.                                              *)
(* A first pass over code without duplicates settles all that lies before  *)
(* it: no number of an earlier run is used after it (see Unsettled).       *)
(* The program never reads this variable and no guard mentions it.         *)
(***************************************************************************)
LapseKinds == {"wrapped", "uncounted", "unscanned"}

Lapse(kind, happened) == lapses' = lapses \cup (IF happened THEN {kind} ELSE {})

References(row) == {row[s].reference : s \in Slots} \ {None}

CodeReferences == UNION {References(code[f]) : f \in Files}

HasMissing(row) == \E s \in Slots : NeedsReference(row[s])

Distinct(rows) ==
    \A f, g \in Files : \A s, t \in Slots :
        /\ rows[f][s].reference # None
        /\ rows[f][s].reference = rows[g][t].reference
        => f = g /\ s = t

EmptyFile == [s \in Slots |-> AbsentEntry]

-----------------------------------------------------------------------------

(***************************************************************************)
(* A code base Breadlog may find: developers wrote the statements, and the *)
(* references are those of earlier runs, so they are distinct and, where a *)
(* lock file is in use, below its number.                                  *)
(***************************************************************************)
InitialEntry ==
    {e \in LogRefEntry :
        IF Exists(e)
        THEN /\ e.kind \in {ReferencedKind(k) : k \in WrittenKinds}
             /\ e.reference \in InitRefs
        ELSE e.kind \in WrittenKinds \cup {"Absent"}}

Init ==
    /\ code \in [Files -> [Slots -> InitialEntry]]
    /\ Distinct(code)
    /\ lock \in InitLocks
    /\ lock \in U32 => \A r \in CodeReferences : r < lock
    /\ temps = 0
    /\ pc = "idle"
    /\ check_mode = FALSE
    /\ exit_code = "none"
    /\ stop_commanded = FALSE
    /\ cached_next_reference_id = None
    /\ calculated_next_reference_id = 0
    /\ next_reference_id = 0
    /\ found = {} /\ code_files = {}
    /\ max_ref = 0 /\ missing = FALSE /\ num_inserted = 0 /\ failure = FALSE
    /\ file = None /\ scratch = EmptyFile /\ created_entries = 0
    /\ runs = 0 /\ edits = 0
    /\ lapses = {}

-----------------------------------------------------------------------------
(***************************************************************************)
(* The process ends: whatever it held in memory is gone.                   *)
(***************************************************************************)
Quit(how) ==
    /\ pc' = "idle"
    /\ exit_code' = how
    /\ stop_commanded' = FALSE
    /\ cached_next_reference_id' = None
    /\ calculated_next_reference_id' = 0
    /\ next_reference_id' = 0
    /\ found' = {} /\ code_files' = {}
    /\ max_ref' = 0 /\ missing' = FALSE /\ num_inserted' = 0 /\ failure' = FALSE
    /\ file' = None /\ scratch' = EmptyFile /\ created_entries' = 0
    /\ UNCHANGED check_mode

(***************************************************************************)
(* References were drawn, and the lock file still holds the number this    *)
(* run started from.  (Without use_cache no number is ever cached.)        *)
(***************************************************************************)
DrawnBeyondLock ==
    /\ pc \in {"insert", "entry", "flush", "discard", "save"}
    /\ cached_next_reference_id # None
    /\ next_reference_id # calculated_next_reference_id

(***************************************************************************)
(* main, setup_context, Context::new and read_cached_next_reference_id:    *)
(* the number of the lock file counts only with use_cache and if the file  *)
(* is there and parses.                                                    *)
(***************************************************************************)
Start(check) ==
    /\ pc = "idle"
    /\ runs < MaxRuns
    /\ pc' = "find"
    /\ check_mode' = check
    /\ exit_code' = "none"
    /\ cached_next_reference_id' = IF UseCache /\ lock \in U32 THEN lock ELSE None
    /\ runs' = runs + 1
    /\ UNCHANGED <<disk, stop_commanded, calculated_next_reference_id,
                   next_reference_id, found, code_files, results, job, edits,
                   lapses>>

StartFails(check) ==
    /\ pc = "idle"
    /\ runs < MaxRuns
    /\ "config" \in Faults
    /\ check_mode' = check
    /\ exit_code' = "err"
    /\ runs' = runs + 1
    /\ UNCHANGED <<disk, pc, stop_commanded, ids, found, code_files, results,
                   job, edits, lapses>>

(***************************************************************************)
(* CodeFinder::find, then the choice of the first pass: check_references   *)
(* counts; generate_code trusts the cached number if there is one and      *)
(* looks for the next free reference otherwise.  WalkDir's errors are      *)
(* filtered out, so a directory it cannot read is silently left out; a     *)
(* source_dir that is missing, or no file found, ends the run.             *)
(***************************************************************************)
FirstPassUnchecked ==    \* mutation: --check is not looked at
    IF cached_next_reference_id = None THEN "scan" ELSE "insert"

FirstPass ==
    IF check_mode THEN "count"
    ELSE IF cached_next_reference_id = None THEN "scan" ELSE "insert"

Unsettled == IF FirstPass = "scan" /\ Distinct(code) THEN {} ELSE lapses

Discover(files) ==
    /\ pc = "find"
    /\ ~stop_commanded
    /\ files = Files \/ "walk" \in Faults
    /\ files # {}
    /\ found' = files
    /\ code_files' = files
    /\ pc' = FirstPass
    /\ IF FirstPass = "insert"
       THEN /\ calculated_next_reference_id' = cached_next_reference_id
            /\ next_reference_id' = cached_next_reference_id
       ELSE UNCHANGED <<calculated_next_reference_id, next_reference_id>>
    /\ lapses' = Unsettled \cup {kind \in {"unscanned"} :
                    /\ FirstPass = "scan"
                    /\ \E f \in Files \ files : References(code[f]) # {}}
    /\ UNCHANGED <<disk, check_mode, stop_commanded, exit_code,
                   cached_next_reference_id, results, job, runs, edits>>

DiscoverFails ==
    /\ pc = "find"
    /\ "walk" \in Faults
    /\ Quit("err")
    /\ UNCHANGED <<disk, runs, edits, lapses>>

(***************************************************************************)
(* The stop flag is read before each file and before the reduce, and for   *)
(* each directory entry of the discovery.  process_references returns      *)
(* None, which both passes of generate_code report as an error and         *)
(* check_references takes for a count of zero.  The lock file is not       *)
(* written.                                                                *)
(***************************************************************************)
StopLateOnly ==    \* mutation: the first passes do not return on the flag
    /\ pc \in {"find", "insert"}
    /\ stop_commanded
    /\ Lapse("uncounted", DrawnBeyondLock)
    /\ Quit("err")
    /\ UNCHANGED <<disk, runs, edits>>

Stop ==
    /\ pc \in {"find", "count", "scan", "insert"}
    /\ stop_commanded
    /\ Lapse("uncounted", DrawnBeyondLock)
    /\ Quit(IF pc = "count" THEN "ok" ELSE "err")
    /\ UNCHANGED <<disk, runs, edits>>

(***************************************************************************)
(* process_references: the file f is next in this pass.  Their order is    *)
(* the directory walk's, which is unspecified.                             *)
(***************************************************************************)
NextFile(pass, f) ==
    /\ pc = pass
    /\ ~stop_commanded
    /\ f \in code_files

AllFilesDone(pass) ==
    /\ pc = pass
    /\ ~stop_commanded
    /\ code_files = {}

(***************************************************************************)
(* load_code returns None: the file is skipped, in every pass.             *)
(***************************************************************************)
LoadFails(f) ==
    /\ \E pass \in {"count", "scan", "insert"} : NextFile(pass, f)
    /\ "read" \in Faults
    /\ code_files' = code_files \ {f}
    /\ Lapse("unscanned", pc = "scan" /\ References(code[f]) # {})
    /\ UNCHANGED <<disk, pc, check_mode, stop_commanded, exit_code, ids, found,
                   results, job, runs, edits>>

(***************************************************************************)
(* CountMissingReferenceIdProcessor::map, and its reduce with the end of   *)
(* check_references.                                                       *)
(***************************************************************************)
CountFileAlone(f) ==    \* mutation: the reduce keeps the last count only
    /\ NextFile("count", f)
    /\ code_files' = code_files \ {f}
    /\ missing' = HasMissing(code[f])
    /\ UNCHANGED <<disk, pc, check_mode, stop_commanded, exit_code, ids, found,
                   max_ref, num_inserted, failure, job, runs, edits, lapses>>

CountFile(f) ==
    /\ NextFile("count", f)
    /\ code_files' = code_files \ {f}
    /\ missing' = (missing \/ HasMissing(code[f]))
    /\ UNCHANGED <<disk, pc, check_mode, stop_commanded, exit_code, ids, found,
                   max_ref, num_inserted, failure, job, runs, edits, lapses>>

FinishCount ==
    /\ AllFilesDone("count")
    /\ Quit(IF missing THEN "err" ELSE "ok")
    /\ UNCHANGED <<disk, runs, edits, lapses>>

(***************************************************************************)
(* NextReferenceIdProcessor::map.                                          *)
(***************************************************************************)
ScanFileAlone(f) ==    \* mutation: the reduce keeps the last maximum only
    /\ NextFile("scan", f)
    /\ code_files' = code_files \ {f}
    /\ missing' = (missing \/ HasMissing(code[f]))
    /\ \E m \in {0} \cup References(code[f]) :
        /\ \A r \in References(code[f]) : r <= m
        /\ max_ref' = m
    /\ UNCHANGED <<disk, pc, check_mode, stop_commanded, exit_code, ids, found,
                   num_inserted, failure, job, runs, edits, lapses>>

ScanFile(f) ==
    /\ NextFile("scan", f)
    /\ code_files' = code_files \ {f}
    /\ missing' = (missing \/ HasMissing(code[f]))
    /\ \E m \in {max_ref} \cup References(code[f]) :
        /\ \A r \in {max_ref} \cup References(code[f]) : r <= m
        /\ max_ref' = m
    /\ UNCHANGED <<disk, pc, check_mode, stop_commanded, exit_code, ids, found,
                   num_inserted, failure, job, runs, edits, lapses>>

(***************************************************************************)
(* NextReferenceIdProcessor::reduce and what generate_code makes of it.    *)
(* START_REFERENCE_ID is 1, which is max_ref + 1 when no reference exists. *)
(* The addition wraps in a release build; a debug build panics.            *)
(***************************************************************************)
ScanOverflows ==
    /\ AllFilesDone("scan")
    /\ max_ref + 1 = RefMod
    /\ Quit("err")
    /\ UNCHANGED <<disk, runs, edits, lapses>>

NothingToDo ==
    /\ AllFilesDone("scan")
    /\ ~missing
    /\ Quit("ok")
    /\ UNCHANGED <<disk, runs, edits, lapses>>

FinishScan ==
    /\ AllFilesDone("scan")
    /\ missing
    /\ pc' = "insert"
    /\ code_files' = found
    /\ calculated_next_reference_id' = Wrap(max_ref + 1)
    /\ next_reference_id' = Wrap(max_ref + 1)
    /\ max_ref' = 0 /\ missing' = FALSE
    /\ Lapse("wrapped", max_ref + 1 = RefMod)
    /\ UNCHANGED <<disk, check_mode, stop_commanded, exit_code,
                   cached_next_reference_id, found, num_inserted, failure, job,
                   runs, edits>>

-----------------------------------------------------------------------------
(***************************************************************************)
(* InsertReferencesProcessor::map on the file f: nothing to insert, or no  *)
(* temporary file to be had, or the start of the rewriting.                *)
(***************************************************************************)
SkipFileInPart(f) ==    \* mutation: one reference in a file is enough
    /\ NextFile("insert", f)
    /\ ~HasMissing(code[f]) \/ References(code[f]) # {}
    /\ code_files' = code_files \ {f}
    /\ UNCHANGED <<disk, pc, check_mode, stop_commanded, exit_code, ids, found,
                   results, job, runs, edits, lapses>>

SkipFile(f) ==
    /\ NextFile("insert", f)
    /\ ~HasMissing(code[f])
    /\ code_files' = code_files \ {f}
    /\ UNCHANGED <<disk, pc, check_mode, stop_commanded, exit_code, ids, found,
                   results, job, runs, edits, lapses>>

CreateFailsAgain(f) ==    \* mutation: the file is tried again
    /\ NextFile("insert", f)
    /\ HasMissing(code[f])
    /\ "create" \in Faults
    /\ failure' = TRUE
    /\ UNCHANGED <<disk, pc, check_mode, stop_commanded, exit_code, ids, found,
                   code_files, max_ref, missing, num_inserted, job, runs, edits,
                   lapses>>

CreateFails(f) ==
    /\ NextFile("insert", f)
    /\ HasMissing(code[f])
    /\ "create" \in Faults
    /\ code_files' = code_files \ {f}
    /\ failure' = TRUE
    /\ UNCHANGED <<disk, pc, check_mode, stop_commanded, exit_code, ids, found,
                   max_ref, missing, num_inserted, job, runs, edits, lapses>>

CreateScratch(f) ==
    /\ NextFile("insert", f)
    /\ HasMissing(code[f])
    /\ pc' = "entry"
    /\ temps' = temps + 1
    /\ file' = f
    /\ scratch' = code[f]
    /\ UNCHANGED <<code, lock, check_mode, stop_commanded, exit_code, ids,
                   found, code_files, results, created_entries, runs, edits,
                   lapses>>

(***************************************************************************)
(* One round of the loop over the entries: the text before the entry, the  *)
(* next reference, and the reference itself.                               *)
(***************************************************************************)
NextEntry(s) ==
    /\ NeedsReference(scratch[s])
    /\ \A t \in Slots : NeedsReference(scratch[t]) => s <= t

FetchAddWide ==    \* mutation: a counter wider than u32
    /\ next_reference_id' = next_reference_id + 1
    /\ Lapse("wrapped", next_reference_id + 1 = RefMod)
    /\ UNCHANGED <<cached_next_reference_id, calculated_next_reference_id>>

FetchAdd ==
    /\ next_reference_id' = Wrap(next_reference_id + 1)
    /\ Lapse("wrapped", next_reference_id + 1 = RefMod)
    /\ UNCHANGED <<cached_next_reference_id, calculated_next_reference_id>>

InsertReferenceTailLost(s) ==    \* mutation: what follows the last entry is
    /\ pc = "entry"              \* not copied
    /\ NextEntry(s)
    /\ LET last == \A t \in Slots : NeedsReference(scratch[t]) => t = s
       IN  scratch' = [t \in Slots |->
               IF t = s THEN WithReference(scratch[s], next_reference_id)
               ELSE IF t > s /\ last THEN AbsentEntry ELSE scratch[t]]
    /\ created_entries' = created_entries + 1
    /\ FetchAdd
    /\ UNCHANGED <<disk, pc, check_mode, stop_commanded, exit_code, found,
                   code_files, results, file, runs, edits>>

InsertReference(s) ==
    /\ pc = "entry"
    /\ NextEntry(s)
    /\ scratch' = [scratch EXCEPT ![s] = WithReference(@, next_reference_id)]
    /\ created_entries' = created_entries + 1
    /\ FetchAdd
    /\ UNCHANGED <<disk, pc, check_mode, stop_commanded, exit_code, found,
                   code_files, results, file, runs, edits>>

(***************************************************************************)
(* A write_all fails, before or after the loop has drawn a reference for   *)
(* the entry.  The map result counts no insertion for the file, whatever   *)
(* was drawn for it.                                                       *)
(***************************************************************************)
WriteFails ==
    /\ pc = "entry"
    /\ "write" \in Faults
    /\ pc' = "discard"
    /\ failure' = TRUE
    /\ created_entries' = 0
    /\ Lapse("uncounted", UseCache /\ created_entries > 0)
    /\ UNCHANGED <<disk, check_mode, stop_commanded, exit_code, ids, found,
                   code_files, max_ref, missing, num_inserted, file, scratch,
                   runs, edits>>

WriteFailsAfterDraw ==
    /\ pc = "entry"
    /\ "write" \in Faults
    /\ HasMissing(scratch)
    /\ pc' = "discard"
    /\ failure' = TRUE
    /\ created_entries' = 0
    /\ next_reference_id' = Wrap(next_reference_id + 1)
    /\ lapses' = lapses \cup {kind \in LapseKinds :
                                \/ kind = "uncounted" /\ UseCache
                                \/ kind = "wrapped" /\ next_reference_id + 1 = RefMod}
    /\ UNCHANGED <<disk, check_mode, stop_commanded, exit_code,
                   cached_next_reference_id, calculated_next_reference_id,
                   found, code_files, max_ref, missing, num_inserted, file,
                   scratch, runs, edits>>

(***************************************************************************)
(* The rename replaces the source file with what has reached the disk of   *)
(* the temporary file: async_std's File keeps what it is given in a cache  *)
(* that it writes out when full and when it is flushed, and nothing        *)
(* flushes it before the rename.  The first k slots are on the disk.       *)
(***************************************************************************)
OnDisk(row, k) == [s \in Slots |-> IF s <= k THEN row[s] ELSE AbsentEntry]

RenameScratch(k) ==
    /\ pc = "entry"
    /\ ~HasMissing(scratch)
    /\ pc' = "flush"
    /\ code' = [code EXCEPT ![file] = OnDisk(scratch, k)]
    /\ temps' = temps - 1
    /\ UNCHANGED <<lock, check_mode, stop_commanded, exit_code, ids, found,
                   code_files, results, job, runs, edits, lapses>>

RenameFails ==
    /\ pc = "entry"
    /\ ~HasMissing(scratch)
    /\ "rename" \in Faults
    /\ pc' = "discard"
    /\ failure' = TRUE
    /\ UNCHANGED <<disk, check_mode, stop_commanded, exit_code, ids, found,
                   code_files, max_ref, missing, num_inserted, job, runs, edits,
                   lapses>>

(***************************************************************************)
(* map returns: process_references pushes the map result, whose sum the    *)
(* reduce will take, and goes on to the next file.                         *)
(***************************************************************************)
MapReturnsAlone ==    \* mutation: the reduce keeps the last file's count only
    /\ pc' = "insert"
    /\ code_files' = code_files \ {file}
    /\ num_inserted' = created_entries
    /\ file' = None /\ scratch' = EmptyFile /\ created_entries' = 0
    /\ UNCHANGED <<check_mode, stop_commanded, exit_code, ids, found, max_ref,
                   missing, failure, runs, edits, lapses>>

MapReturns ==
    /\ pc' = "insert"
    /\ code_files' = code_files \ {file}
    /\ num_inserted' = num_inserted + created_entries
    /\ file' = None /\ scratch' = EmptyFile /\ created_entries' = 0
    /\ UNCHANGED <<check_mode, stop_commanded, exit_code, ids, found, max_ref,
                   missing, failure, runs, edits, lapses>>

(***************************************************************************)
(* The drop of scratch_file.  After a rename, remove_file finds no file at *)
(* the temporary path, and the drop of the handle flushes the rest of the  *)
(* contents into what is by now the source file; an error there is lost.   *)
(* Otherwise the temporary file is removed.                                *)
(***************************************************************************)
FlushScratch ==
    /\ pc = "flush"
    /\ code' = [code EXCEPT ![file] = scratch]
    /\ MapReturns
    /\ UNCHANGED <<lock, temps>>

FlushFails ==
    /\ pc = "flush"
    /\ "flush" \in Faults
    /\ MapReturns
    /\ UNCHANGED disk

DiscardScratchNever ==    \* mutation: no Drop for AsyncTempFile
    /\ pc = "discard"
    /\ MapReturns
    /\ UNCHANGED disk

DiscardScratch ==
    /\ pc = "discard"
    /\ temps' = temps - 1
    /\ MapReturns
    /\ UNCHANGED <<code, lock>>

-----------------------------------------------------------------------------
(***************************************************************************)
(* The end of generate_code.  The number to cache is the one the run       *)
(* started from plus the insertions its map results report, not the value  *)
(* the shared counter has reached.  The addition wraps in a release build; *)
(* a debug build panics.  reference_updates.failure is never looked at.    *)
(***************************************************************************)
CachableReferenceIdStale ==    \* mutation: the insertions are not added
    calculated_next_reference_id

CachableReferenceId ==
    calculated_next_reference_id + num_inserted

CacheOverflows ==
    /\ AllFilesDone("insert")
    /\ CachableReferenceId >= RefMod
    /\ Lapse("wrapped", TRUE)
    /\ Quit("err")
    /\ UNCHANGED <<disk, runs, edits>>

FinishInsert ==
    /\ AllFilesDone("insert")
    /\ UseCache
    /\ pc' = "save"
    /\ Lapse("wrapped", CachableReferenceId >= RefMod)
    /\ UNCHANGED <<disk, check_mode, stop_commanded, exit_code, ids, found,
                   code_files, results, job, runs, edits>>

FinishUncached ==
    /\ AllFilesDone("insert")
    /\ ~UseCache
    /\ Lapse("wrapped", CachableReferenceId >= RefMod)
    /\ Quit("ok")
    /\ UNCHANGED <<disk, runs, edits>>

(***************************************************************************)
(* Context::cache_next_reference_id: std::fs::write empties the file and   *)
(* then fills it.  A failure is only logged.                               *)
(***************************************************************************)
LockOpenFails ==
    /\ pc = "save"
    /\ "lockopen" \in Faults
    /\ Lapse("uncounted", DrawnBeyondLock)
    /\ Quit("ok")
    /\ UNCHANGED <<disk, runs, edits>>

TruncateLock ==
    /\ pc = "save"
    /\ pc' = "fill"
    /\ lock' = Corrupt
    /\ UNCHANGED <<code, temps, check_mode, stop_commanded, exit_code, ids,
                   found, code_files, results, job, runs, edits, lapses>>

FillLock ==
    /\ pc = "fill"
    /\ lock' = Wrap(CachableReferenceId)
    /\ Quit("ok")
    /\ UNCHANGED <<code, temps, runs, edits, lapses>>

LockWriteFails ==
    /\ pc = "fill"
    /\ "lockwrite" \in Faults
    /\ Quit("ok")
    /\ UNCHANGED <<disk, runs, edits, lapses>>

-----------------------------------------------------------------------------
(***************************************************************************)
(* The operating system: SIGTERM sets the flag, anything harsher ends the  *)
(* process where it stands and leaves a temporary file behind.             *)
(***************************************************************************)
Signal ==
    /\ pc # "idle"
    /\ ~stop_commanded
    /\ "stop" \in Faults
    /\ stop_commanded' = TRUE
    /\ UNCHANGED <<disk, pc, check_mode, exit_code, ids, found, code_files,
                   results, job, runs, edits, lapses>>

Crash ==
    /\ pc # "idle"
    /\ "crash" \in Faults
    /\ Lapse("uncounted", DrawnBeyondLock)
    /\ Quit("killed")
    /\ UNCHANGED <<disk, runs, edits>>

(***************************************************************************)
(* The developers, whose edits do not invent references.  While Breadlog   *)
(* runs they only add and delete statements, and not in a file that has    *)
(* been renamed and is yet to be flushed.                                  *)
(***************************************************************************)
CanEdit(f) ==
    /\ edits < MaxEdits
    /\ pc = "idle" \/ ConcurrentEdits
    /\ pc = "flush" => f # file

Edit(rows) ==
    /\ code' = rows
    /\ edits' = edits + 1
    /\ UNCHANGED <<lock, temps, process, runs, lapses>>

AddStatement(f, s, kind) ==
    /\ CanEdit(f)
    /\ code[f][s] = AbsentEntry
    /\ Edit([code EXCEPT ![f][s] = [kind |-> kind, reference |-> None]])

DeleteStatement(f, s) ==
    /\ CanEdit(f)
    /\ code[f][s] # AbsentEntry
    /\ Edit([code EXCEPT ![f][s] = AbsentEntry])

MoveStatement(f, s, g, t) ==
    /\ pc = "idle"
    /\ CanEdit(f)
    /\ f # g
    /\ code[f][s] # AbsentEntry
    /\ code[g][t] = AbsentEntry
    /\ Edit([code EXCEPT ![f][s] = AbsentEntry, ![g][t] = code[f][s]])

DeleteLock ==
    /\ pc = "idle"
    /\ edits < MaxEdits
    /\ lock # None
    /\ lock' = None
    /\ edits' = edits + 1
    /\ UNCHANGED <<code, temps, process, runs, lapses>>

-----------------------------------------------------------------------------
(***************************************************************************)
(* The steps of the process itself, whether the system calls they make     *)
(* succeed or fail.                                                        *)
(***************************************************************************)
Step ==
    \/ \E files \in SUBSET Files : Discover(files)
    \/ DiscoverFails
    \/ Stop
    \/ \E f \in Files :
        \/ LoadFails(f)
        \/ CountFile(f)
        \/ ScanFile(f)
        \/ SkipFile(f)
        \/ CreateFails(f)
        \/ CreateScratch(f)
    \/ FinishCount
    \/ ScanOverflows
    \/ NothingToDo
    \/ FinishScan
    \/ \E s \in Slots : InsertReference(s)
    \/ WriteFails
    \/ WriteFailsAfterDraw
    \/ \E k \in 0 .. NumSlots : RenameScratch(k)
    \/ RenameFails
    \/ FlushScratch
    \/ FlushFails
    \/ DiscardScratch
    \/ CacheOverflows
    \/ FinishInsert
    \/ FinishUncached
    \/ LockOpenFails
    \/ TruncateLock
    \/ FillLock
    \/ LockWriteFails

Environment ==
    \/ Signal
    \/ Crash
    \/ \E f \in Files, s \in Slots :
        \/ \E kind \in WrittenKinds : AddStatement(f, s, kind)
        \/ DeleteStatement(f, s)
        \/ \E g \in Files, t \in Slots : MoveStatement(f, s, g, t)
    \/ DeleteLock

Next ==
    \/ \E check \in BOOLEAN : Start(check) \/ StartFails(check)
    \/ Step
    \/ Environment

Spec == Init /\ [][Next]_vars

(***************************************************************************)
(* A process that can take a step is scheduled in the end.  Nothing is     *)
(* assumed of the environment, nor that anyone starts Breadlog.            *)
(***************************************************************************)
Fairness == WF_vars(Step)
=============================================================================

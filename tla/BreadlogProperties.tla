------------------------- MODULE BreadlogProperties -------------------------
(***************************************************************************)
(* What the runs of Breadlog promise, stated over module Breadlog.         *)
(***************************************************************************)
EXTENDS Breadlog

DiskType ==
    /\ code \in [Files -> [Slots -> LogRefEntry]]
    /\ lock \in U32 \cup {None, Corrupt}
    /\ temps \in Nat
    /\ pc \in {"entry", "discard"} => temps > 0

ControlType ==
    /\ pc \in {"idle", "find", "count", "scan", "insert", "entry", "flush",
               "discard", "save", "fill"}
    /\ check_mode \in BOOLEAN
    /\ stop_commanded \in BOOLEAN
    /\ exit_code \in {"none", "ok", "err", "killed"}

NumbersType ==
    /\ cached_next_reference_id \in U32 \cup {None}
    /\ calculated_next_reference_id \in U32
    /\ next_reference_id \in U32
    /\ max_ref \in U32
    /\ num_inserted \in Nat
    /\ created_entries \in Nat

PassType ==
    /\ found \subseteq Files
    /\ code_files \subseteq found
    /\ missing \in BOOLEAN
    /\ failure \in BOOLEAN

JobType ==
    /\ file \in Files \cup {None}
    /\ pc \in {"entry", "flush", "discard"} <=> file # None
    /\ scratch \in [Slots -> LogRefEntry]

EnvironmentType ==
    /\ runs \in 0 .. MaxRuns
    /\ edits \in 0 .. MaxEdits
    /\ lapses \subseteq LapseKinds

(***************************************************************************)
(* Every variable has its type, a file is being rewritten exactly while    *)
(* InsertReferencesProcessor::map is past its early returns, and it then   *)
(* owns a temporary file unless the rename has taken it.                   *)
(***************************************************************************)
TypeOK ==
    /\ DiskType
    /\ ControlType
    /\ NumbersType
    /\ PassType
    /\ JobType
    /\ EnvironmentType

(***************************************************************************)
(* No two log statements of the code base carry the same reference, not    *)
(* even while Breadlog runs.  This is what the program is for; it holds    *)
(* as it stands only where no lapse can happen.                            *)
(***************************************************************************)
UniqueReferences == Distinct(code)

(***************************************************************************)
(* Under every fault, crash and concurrent edit: references stay unique    *)
(* until one of the three kinds of lapse happens, and from a first pass    *)
(* over code without duplicates until the next one.  So a duplicate is     *)
(* always the work of generate_code running past the largest u32, of       *)
(* references drawn that the lock file does not count (generate.rs         *)
(* 473-476, 501-504, 719-729), or of a first pass that skipped a file with *)
(* references (generate.rs 25-41, finder.rs 100-103); and deleting the     *)
(* lock file (context.rs 81) before a duplicate has come of it mends it.   *)
(***************************************************************************)
UniqueUnlessLapse == lapses = {} => UniqueReferences

(***************************************************************************)
(* No fault is possible that could make references go uncounted or         *)
(* unscanned.  Without a lock file only an unreadable file can; with one,  *)
(* every way for a run to end early or to misreport what it inserted can.  *)
(***************************************************************************)
SafeFaults ==
    /\ Faults \cap {"read", "walk"} = {}
    /\ UseCache => Faults \cap {"write", "lockopen", "stop", "crash"} = {}

(***************************************************************************)
(* Between runs, a number that the next run would take from the lock file  *)
(* is beyond every reference in the code (generate_code trusts it without  *)
(* a look at the code).                                                    *)
(***************************************************************************)
LockAheadOfCode ==
    UseCache /\ lapses = {} /\ pc = "idle" /\ lock \in U32
        => \A r \in CodeReferences : r < lock

(***************************************************************************)
(* The two accounts of generate_code agree: what the shared counter has    *)
(* handed out is what the map results (and the map under way) will report, *)
(* so that the number written to the lock file is where the counter is.    *)
(***************************************************************************)
LedgerExact ==
    UseCache /\ lapses = {} /\ pc \in {"insert", "entry", "flush", "discard",
                                       "save", "fill"}
        => next_reference_id = calculated_next_reference_id + num_inserted
                                                            + created_entries

-----------------------------------------------------------------------------
(***************************************************************************)
(* The inductive invariant behind UniqueUnlessLapse, in named parts.       *)
(***************************************************************************)
Inserting == pc \in {"insert", "entry", "flush", "discard", "save", "fill"}

Rewriting == pc \in {"entry", "flush"}

(* The code base with the rewriting under way done.  A developer's edit    *)
(* since the file was loaded is not in it: the rename will undo the edit.  *)
Rewritten == [code EXCEPT ![file] = scratch]

Below(rows, n) ==
    \A f \in Files : \A s \in Slots :
        rows[f][s].reference # None => rows[f][s].reference < n

(* What the run knows of the lock file is what the lock file holds.        *)
NumberCurrent ==
    /\ cached_next_reference_id # None =>
            /\ UseCache
            /\ pc # "scan"
            /\ pc # "fill" => lock = cached_next_reference_id
            /\ Inserting => calculated_next_reference_id = cached_next_reference_id
    /\ pc = "idle" => cached_next_reference_id = None
    /\ pc = "fill" => lock = Corrupt
    /\ UseCache /\ pc # "idle" /\ cached_next_reference_id = None => lock \notin U32

(* The counts of a pass start from zero.                                   *)
CountsFresh ==
    /\ ~Inserting => num_inserted = 0
    /\ pc \notin {"entry", "flush", "discard"} => created_entries = 0

(* References are distinct in the code and will be in what replaces it,    *)
(* and whatever number the program will draw from next is beyond them.     *)
NextIsFresh ==
    /\ Distinct(code)
    /\ Rewriting => Distinct(Rewritten) /\ Below(Rewritten, next_reference_id)
    /\ Inserting => Below(code, next_reference_id)
    /\ pc = "scan" => \A f \in Files \ code_files : \A s \in Slots :
            code[f][s].reference # None => code[f][s].reference <= max_ref
    /\ pc \in {"idle", "find", "count"} /\ UseCache /\ lock \in U32
            => Below(code, lock)
    /\ LedgerExact

(***************************************************************************)
(* The lock file, the counter and the code stay in step at every point of  *)
(* every run until a lapse happens, also in the middle of a rewriting, and *)
(* are in step again after a first pass over code without duplicates.      *)
(* UniqueUnlessLapse alone is not inductive: that the next reference drawn *)
(* is unused has to be carried from the lock file or the first pass to the *)
(* counter and back.                                                       *)
(***************************************************************************)
IInv ==
    /\ TypeOK
    /\ NumberCurrent
    /\ CountsFresh
    /\ lapses = {} => NextIsFresh

-----------------------------------------------------------------------------
(***************************************************************************)
(* The code base as it will be once the rename under way is complete: the  *)
(* handle's drop is about to flush the rest of the file.                   *)
(***************************************************************************)
View == IF pc = "flush" THEN [code EXCEPT ![file] = scratch] ELSE code

(***************************************************************************)
(* A step of the program changes nothing about a statement except to give  *)
(* a reference to one that lacked it; in particular a reference once given *)
(* stays (README: "maintains stable, unique references").                  *)
(***************************************************************************)
InsertsOnly ==
    [][Step => \A f \in Files, s \in Slots :
                  \/ View'[f][s] = View[f][s]
                  \/ /\ NeedsReference(View[f][s])
                     /\ \E id \in U32 : View'[f][s] = WithReference(View[f][s], id)]_vars

(***************************************************************************)
(* A run of generate_code that ends in "ok", none of whose map results is  *)
(* a failure, leaves no statement without a reference.                     *)
(***************************************************************************)
CleanRunCompletes ==
    [][Step /\ ~check_mode /\ exit_code' = "ok" /\ ~failure
          => \A f \in Files : ~HasMissing(code[f])]_vars

(***************************************************************************)
(* check_references ends in an error exactly when some statement that      *)
(* could carry a reference does not (main.rs: exit code 2).                *)
(***************************************************************************)
CheckVerdict ==
    [][Step /\ check_mode /\ pc' = "idle"
          => (exit_code' = "err" <=> \E f \in Files : HasMissing(code[f]))]_vars

(***************************************************************************)
(* A run that ends in "ok" has left nothing without a reference, in either *)
(* mode: exit code 0 means a complete code base (main.rs 29,               *)
(* running-breadlog.rst: check mode "will exit with a non-zero code if     *)
(* missing log references are found"; generate.rs 668: "otherwise an error *)
(* message on failure").  The code breaks it: an interrupted check and a   *)
(* file that could not be rewritten end in "ok".  RunProofs has what it    *)
(* takes to hold.                                                          *)
(***************************************************************************)
SuccessMeansComplete ==
    [][Step /\ exit_code' = "ok" => \A f \in Files : ~HasMissing(code[f])]_vars

(***************************************************************************)
(* A run in check mode leaves the source files, the lock file and the      *)
(* temp directory as they are, whatever fails (running-breadlog.rst:       *)
(* check mode "guarantees that Breadlog will not modify your code").       *)
(***************************************************************************)
CheckTouchesNothing ==
    [][Step /\ check_mode => UNCHANGED disk]_vars

(***************************************************************************)
(* Unless the process was killed, no temporary file outlives its run:      *)
(* every return of map passes the drop of scratch_file.                    *)
(***************************************************************************)
NoTempLeft == pc = "idle" => temps = 0

(***************************************************************************)
(* Every run ends, whatever fails and however often developers edit.       *)
(***************************************************************************)
Terminates == pc # "idle" ~> pc = "idle"

(***************************************************************************)
(* A bound on the steps that a run has yet to take, from what it has yet   *)
(* to do: a file left to the insertion costs a step for each reference it  *)
(* may lack, and one each to begin it, to be done with its contents and to *)
(* return; the lock file costs three.                                      *)
(***************************************************************************)
StepsPerFile == NumSlots + 3

InsertSteps(n) == n * StepsPerFile + 3

Wanting == {s \in Slots : NeedsReference(scratch[s])}

StepsLeft ==
    LET files == Cardinality(code_files) IN
    CASE pc = "idle"    -> 0
      [] pc = "find"    -> 2 + Cardinality(Files) + InsertSteps(Cardinality(Files))
      [] pc = "count"   -> 1 + files
      [] pc = "scan"    -> 1 + files + InsertSteps(Cardinality(found))
      [] pc = "insert"  -> InsertSteps(files)
      [] pc = "entry"   -> InsertSteps(files - 1) + 2 + Cardinality(Wanting)
      [] pc \in {"flush", "discard"} -> InsertSteps(files - 1) + 1
      [] pc = "save"    -> 2
      [] pc = "fill"    -> 1

(***************************************************************************)
(* Every step of the program, also one that fails, brings the end of its   *)
(* run nearer, and nothing that the system or the developers do meanwhile  *)
(* puts it off: no file is met twice in a pass, no failure is retried, and *)
(* statements written while the program runs do not keep it busy.  How     *)
(* many steps that leaves for a run is RunShort of module RunLength.  This *)
(* is the safety half of Terminates.                                       *)
(***************************************************************************)
Progress ==
    [][/\ Step => StepsLeft' < StepsLeft
       /\ Environment => StepsLeft' <= StepsLeft]_vars

-----------------------------------------------------------------------------
Assigned == [p \in Files \X Slots |-> View[p[1]][p[2]].reference]

R == INSTANCE Registry WITH
        Places <- Files \X Slots, Numbers <- U32,
        assigned <- Assigned, trusted <- lapses = {}

(***************************************************************************)
(* Whatever fails and whoever edits, generate_code is the registry of      *)
(* module Registry: what it brings into the code, file by file and with    *)
(* edits under its feet, goes to statements without a reference, in        *)
(* numbers that no statement has until a lapse happens, and no reference   *)
(* changes hands but by a developer's move.  Trust comes back with a first *)
(* pass over code without duplicates, which is Rebuild.                    *)
(***************************************************************************)
Implements == R!Spec
=============================================================================

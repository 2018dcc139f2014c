------------------------------- MODULE Retired -------------------------------
(***************************************************************************)
(* Breadlog with a memory of the references it has retired: a reference    *)
(* whose statement was deleted is in no file any more, so only the lock    *)
(* file stands between it and a second use.                                *)
(***************************************************************************)
EXTENDS BreadlogProperties

VARIABLE issued     \* the references seen in the code since the lock file
                    \* last was without a number between two runs

RetiredInit == Init /\ issued = CodeReferences

Remember ==
    issued' = IF pc' = "idle" /\ lock' \notin U32
              THEN CodeReferences'
              ELSE issued \cup CodeReferences'

RetiredNext == Next /\ Remember

RetiredSpec == RetiredInit /\ [][RetiredNext]_<<vars, issued>>

ViewReferences == UNION {References(View[f]) : f \in Files}

(***************************************************************************)
(* While the lock file keeps its number, a reference that the program      *)
(* brings into the code was in no statement before, not even in one that   *)
(* has since been deleted: references in old logs stay unambiguous.        *)
(* (A renamed file counts as whole: its late flush brings nothing new.)    *)
(***************************************************************************)
RetiredNeverReissued ==
    [][Step /\ UseCache /\ lapses = {}
          => (ViewReferences' \ ViewReferences) \cap issued = {}]_<<vars, issued>>

-----------------------------------------------------------------------------
(***************************************************************************)
(* Why it holds: whatever number a run will draw from next is beyond every *)
(* reference remembered, and a reference that waits in a temporary file is *)
(* not remembered yet.  (RetiredProofs shows that every step keeps this.)  *)
(***************************************************************************)
Remembered ==
    /\ issued \subseteq U32 /\ CodeReferences \subseteq issued
    /\ pc \in {"idle", "find", "count", "scan"} /\ lock \notin U32
            => issued = CodeReferences

IssuedBelow(n) == \A r \in issued : r < n

NextIsUnissued ==
    /\ pc \in {"idle", "find", "count"} /\ lock \in U32 => IssuedBelow(lock)
    /\ Inserting => IssuedBelow(next_reference_id)
    /\ pc = "entry"
            => (References(scratch) \ References(code[file])) \cap issued = {}

IssuedKnown == Remembered /\ (UseCache /\ lapses = {} => NextIsUnissued)
=============================================================================

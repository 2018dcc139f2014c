----------------------------- MODULE MCBreadlog -----------------------------
(***************************************************************************)
(* Small instances of Breadlog for TLC.                                    *)
(***************************************************************************)
EXTENDS BreadlogProperties, TLC

CONSTANTS f1, f2

MCFiles == {f1, f2}

(* Nothing in the module tells two files apart. *)
FileSymmetry == Permutations(MCFiles)

AllFaults == FaultKinds

(* Without these two the first pass sees every reference. *)
ScanSafeFaults == FaultKinds \ {"read", "walk"}

(* Without these two a rewritten file arrives whole. *)
OrderlyFaults == FaultKinds \ {"crash", "flush"}

(* A run that is let go on to its end, and reads every file. *)
InsertFaults == {"create", "write", "rename", "lockopen", "lockwrite"}

TextOnly == {"String"}
AllKinds == {"String", "StructuredNew", "StructuredPreExisting"}
=============================================================================

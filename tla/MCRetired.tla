------------------------------ MODULE MCRetired ------------------------------
(***************************************************************************)
(* A small instance of Retired for TLC.                                    *)
(***************************************************************************)
EXTENDS Retired, TLC

CONSTANTS f1, f2

MCFiles == {f1, f2}
FileSymmetry == Permutations(MCFiles)

(* Everything that may fail, except what loses part of a file. *)
OrderlyFaults == FaultKinds \ {"flush", "crash"}
TextOnly == {"String"}
=============================================================================

----------------------------- MODULE MCRunLength -----------------------------
(***************************************************************************)
(* A small instance of RunLength for TLC.                                  *)
(***************************************************************************)
EXTENDS RunLength

CONSTANTS f1, f2

MCFiles == {f1, f2}

AllFaults == FaultKinds
TextOnly == {"String"}
=============================================================================

------------------------------- MODULE RunLength -------------------------------
(***************************************************************************)
(* Breadlog with a count of the steps that the present run has taken,      *)
(* those that fail included.                                               *)
(***************************************************************************)
EXTENDS BreadlogProperties

VARIABLE steps      \* history: the steps of the present or the last run

CountedInit == Init /\ steps = 0

CountedNext ==
    \/ \E check \in BOOLEAN : (Start(check) \/ StartFails(check)) /\ steps' = 0
    \/ Step /\ steps' = steps + 1
    \/ Environment /\ UNCHANGED steps

CountedSpec == CountedInit /\ [][CountedNext]_<<vars, steps>>

FairCountedSpec == CountedSpec /\ Fairness

(***************************************************************************)
(* No run takes more steps than the size of the code base allows, whatever *)
(* fails, however often developers edit and whoever sends signals: two     *)
(* passes over the files (generate.rs 583-624), in the second one step for *)
(* each reference and three for each file, and the steps of the end.       *)
(***************************************************************************)
MaxSteps == (NumSlots + 4) * Cardinality(Files) + 5

RunShort == steps <= MaxSteps
=============================================================================

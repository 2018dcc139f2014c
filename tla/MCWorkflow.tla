----------------------------- MODULE MCWorkflow -----------------------------
(***************************************************************************)
(* A small instance of Workflow for TLC.                                   *)
(***************************************************************************)
EXTENDS Workflow, TLC

CONSTANTS p1, p2

MCProcesses == {p1, p2}

(* Two files, one of them in a subdirectory; one with another extension.   *)
MCFiles ==
    {[below |-> {"src"}, extension |-> "rs"],
     [below |-> {"src", "sub"}, extension |-> "rs"],
     [below |-> {"src"}, extension |-> "inc"]}

(* The default; each option that matters changed in turn.                  *)
MCDefault ==
    [source_dir |-> "src", absolute |-> FALSE, extensions |-> None, use_cache |-> None]

MCYamls ==
    {MCDefault,
     [MCDefault EXCEPT !.source_dir = "sub"],
     [MCDefault EXCEPT !.absolute = TRUE],
     [MCDefault EXCEPT !.extensions = {"rs", "inc"}],
     [MCDefault EXCEPT !.use_cache = FALSE]}

Symmetry == Permutations(MCProcesses)
=============================================================================

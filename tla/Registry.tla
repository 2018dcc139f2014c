------------------------------- MODULE Registry -------------------------------
(***************************************************************************)
(* What Breadlog promises about references, with nothing of how it is      *)
(* done: places for log statements, each with a reference or none, and a   *)
(* registry that gives references out.  There are no files, passes,        *)
(* counters or lock files here.                                            *)
(*                                                                         *)
(* BreadlogProperties shows that module Breadlog implements this one, with *)
(* every fault: Implements.                                                *)
(***************************************************************************)
CONSTANTS
    Places,     \* where a log statement can stand
    Numbers,    \* the references
    None        \* no reference, which is no number

VARIABLES
    assigned,   \* the reference at each place, or None
    trusted     \* does the registry still know what it has given out?

vars == <<assigned, trusted>>

Assignments == [Places -> Numbers \cup {None}]

Unambiguous(a) ==
    \A p, q \in Places : a[p] # None /\ a[p] = a[q] => p = q

Init ==
    /\ assigned \in Assignments
    /\ Unambiguous(assigned)
    /\ trusted = TRUE

(***************************************************************************)
(* References are given to places that have none, and whoever has one      *)
(* keeps it, trusted or not.  A registry that is trusted gives to no two   *)
(* places the same.                                                        *)
(***************************************************************************)
Give ==
    /\ assigned' \in Assignments
    /\ \A p \in Places : assigned[p] # None => assigned'[p] = assigned[p]
    /\ trusted => Unambiguous(assigned')
    /\ UNCHANGED trusted

(* A developer takes a statement elsewhere, with its reference. *)
Move(p, q) ==
    /\ assigned[p] # None
    /\ assigned[q] = None
    /\ assigned' = [assigned EXCEPT ![p] = None, ![q] = assigned[p]]
    /\ UNCHANGED trusted

(***************************************************************************)
(* Places lose their references: statements are deleted, or a file is cut  *)
(* short.  Trust may be lost, with or without them.                        *)
(***************************************************************************)
Withdraw ==
    /\ assigned' \in Assignments
    /\ \A p \in Places : assigned'[p] \in {assigned[p], None}
    /\ trusted' \in {trusted, FALSE}

(***************************************************************************)
(* The registry is drawn up anew from the places, as long as no two of     *)
(* them have the same reference.                                           *)
(***************************************************************************)
Rebuild ==
    /\ Unambiguous(assigned)
    /\ trusted' = TRUE
    /\ UNCHANGED assigned

Next ==
    \/ Give
    \/ \E p, q \in Places : Move(p, q)
    \/ Withdraw
    \/ Rebuild

Spec == Init /\ [][Next]_vars
=============================================================================

--------------------------- MODULE MCRustGrammar ----------------------------
(***************************************************************************)
(* Instances of RustGrammar for TLC: every short text, and the texts of    *)
(* the unit tests.                                                         *)
(***************************************************************************)
EXTENDS RustGrammarTests

MCEmptyText == {<<>>}

MCTexts == MCEmptyText \cup {test.text : test \in Tests}
=============================================================================

---------------------------- MODULE MCRustFinder ----------------------------
(***************************************************************************)
(* A small instance of RustFinder for TLC: every file of a few statements, *)
(* comments coming later by WriteComment, and the files of the unit tests. *)
(***************************************************************************)
EXTENDS RustFinderTests

Info(args) == [macro |-> "info", args |-> args \o <<Message(None)>>]

(* A statement for each way through the parser. *)
MCStatements ==
    {Info(<<>>),
     Info(<<Target>>),
     Info(<<Kvp("a", Text, ";")>>),
     Info(<<Target, Kvp("a", Opaque, ";")>>),
     Info(<<Kvp("ref", None, ";")>>),
     Info(<<Kvp("a", None, ","), Kvp("ref", Text, ";")>>),
     [macro |-> "return info", args |-> <<Message(None)>>]}

MCFiles ==
    [Lines -> [statement : MCStatements \cup {None}, comment : {"none"}]]
        \cup {test.file : test \in Tests}
=============================================================================

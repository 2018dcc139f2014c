-------------------------- MODULE RustFinderTests ---------------------------
(***************************************************************************)
(* The unit tests of src/parser/rust_parser.rs that are about arguments    *)
(* and directives, and those of src/parser/code_parser.rs, as files of     *)
(* module RustFinder with what they assert of the entries found.  Three    *)
(* lines are enough for them, and small numbers stand for their numbers.   *)
(***************************************************************************)
EXTENDS RustFinder

(* A line of code, with a comment at its end or alone.                     *)
Code(statement) == [statement |-> statement, comment |-> "none"]
Comment(comment) == [statement |-> None, comment |-> comment]
BlankLine == Comment("none")

Macro(args) == Code([macro |-> "info", args |-> args])
Plain == Macro(<<Message(None)>>)
Other == Code([macro |-> "irrelevant_code", args |-> <<Message(None)>>])

(* Blank lines fill the file.                                              *)
Test(file, mode, entries) ==
    [file |-> [i \in Lines |-> IF i \in DOMAIN file THEN file[i] ELSE BlankLine],
     structured |-> mode,
     found |-> [i \in Lines |-> IF i \in DOMAIN entries THEN entries[i] ELSE AbsentEntry]]

InString(reference) == [kind |-> "String", reference |-> reference]
InPair(reference) == [kind |-> "StructuredPreExisting", reference |-> reference]
NewPair == [kind |-> "StructuredNew", reference |-> None]

(* One statement with these arguments before its message, unstructured.    *)
Skipped(args) == Test(<<Macro(args \o <<Message(None)>>)>>, FALSE, <<InString(None)>>)

TargetTests ==
    {Skipped(<<Target>>),
     Test(<<Macro(<<Target, Message(None)>>), Macro(<<Target, Message(None)>>)>>,
          FALSE, <<InString(None), InString(None)>>),
     Test(<<Macro(<<Target, Message(4)>>)>>, FALSE, <<InString(4)>>)}

(* With and without a target, modifiers, and semicolons in literals.       *)
KvpTests ==
    {Skipped(<<Kvp("a", 1, ";")>>),
     Skipped(<<Target, Kvp("a", 1, ";")>>),
     Skipped(<<Kvp("a", 1, ","), Kvp("b", 2, ";")>>),
     Skipped(<<Target, Kvp("a", 1, ","), Kvp("b", 2, ";")>>),
     Skipped(<<Kvp("a", Text, ";")>>),
     Skipped(<<Kvp("a", Text, ","), Kvp("b", Text, ";")>>)}

NoAssignmentTests ==
    {Skipped(<<Kvp("a", None, ";")>>),
     Skipped(<<Kvp("a", None, ","), Kvp("b", None, ";")>>),
     Skipped(<<Kvp("a", 1, ","), Kvp("b", None, ";")>>)}

DirectiveTests ==
    {Test(<<Comment("ignore"), Plain, Plain>>, FALSE,
          <<AbsentEntry, AbsentEntry, InString(None)>>)}

StructuredTests ==
    LET Host == Kvp("host", Text, ",")
        Os(sep) == Kvp("os_code", 9, sep)
        Pairs(args, entry) ==
            Test(<<Macro(args \o <<Message(None)>>)>>, TRUE, <<entry>>)
    IN  {Pairs(<<Kvp("ref", 3, ";")>>, InPair(3)),
         Pairs(<<Kvp("ref", Text, ";")>>, InPair(None)),
         Pairs(<<>>, NewPair),
         Pairs(<<Host, Os(";")>>, NewPair),
         Pairs(<<Kvp("ref", 3, ","), Host, Os(";")>>, InPair(3)),
         Pairs(<<Host, Kvp("ref", 3, ","), Os(";")>>, InPair(3)),
         Pairs(<<Host, Os(","), Kvp("ref", 3, ";")>>, InPair(3))}

NoKvpTests ==
    {Test(<<Comment("no_kvp"), Macro(args)>>, TRUE,
          <<AbsentEntry, InString(args[Len(args)].reference)>>) :
        args \in {<<Kvp("ref", 3, ";"), Message(4)>>,
                  <<Kvp("ref", 3, ";"), Message(None)>>,
                  <<Message(None)>>}}

(* extract_reference, with the smallest and the largest number.            *)
ExtractTests ==
    {Test(<<Macro(<<Message(reference)>>)>>, FALSE, <<InString(reference)>>) :
        reference \in {4, None, 0, RefMod - 1}}

(* check_for_ignore_directive: is the third line ignored?                  *)
IgnoreTests ==
    LET Ignored(first, second, entry) ==
            Test(<<first, second, Plain>>, FALSE, <<AbsentEntry, AbsentEntry, entry>>)
    IN  {Ignored(BlankLine, Other, InString(None)),
         Ignored(BlankLine, Comment("other"), InString(None)),
         Ignored(Comment("ignore"), Comment("other"), InString(None)),
         Ignored(Comment("ignore"), Other, InString(None)),
         Ignored(BlankLine, Comment("ignore"), AbsentEntry),
         Ignored(Comment("ignore"), BlankLine, AbsentEntry)}

NoKvpDirectiveTests ==
    {Test(<<Comment("no_kvp"), Plain>>, TRUE, <<AbsentEntry, InString(None)>>),
     Test(<<Comment("other"), Plain>>, TRUE, <<AbsentEntry, NewPair>>)}

Tests ==
    TargetTests \cup KvpTests \cup NoAssignmentTests \cup DirectiveTests
        \cup StructuredTests \cup NoKvpTests \cup ExtractTests
        \cup IgnoreTests \cup NoKvpDirectiveTests

(***************************************************************************)
(* In the files of the tests find returns what the tests assert.           *)
(***************************************************************************)
FinderUnitTests ==
    \A test \in Tests :
        lines = test.file /\ structured = test.structured =>
            [i \in Lines |-> Find(i)] = test.found
=============================================================================

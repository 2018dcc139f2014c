-------------------------- MODULE RustGrammarTests --------------------------
(***************************************************************************)
(* The unit tests of src/parser/rust_parser.rs that are about literals,    *)
(* comments, brackets and names of macros, as texts of module RustGrammar  *)
(* with what they assert of the entries found.  All of them call find      *)
(* without structured.                                                     *)
(***************************************************************************)
EXTENDS RustGrammar

Test(t, entries) == [text |-> t, found |-> entries]

New(position) == [position |-> position, exists |-> FALSE]
Old(position) == [position |-> position, exists |-> TRUE]

Statement == <<"call", "quote", "word", "quote", "mark">>

Escaped == <<"esc", "quote">>

(***************************************************************************)
(* Messages: one and several, with an escaped quote, with a tag that is no *)
(* reference.                                                              *)
(***************************************************************************)
MessageTests ==
    {Test(Statement, <<New(3)>>),
     Test(Statement \o <<"newline">> \o Statement, <<New(3), New(9)>>),
     Test(<<"call", "quote", "word">> \o Escaped
            \o <<"word", "quote", "mark", "newline">> \o Statement,
          <<New(3), New(12)>>)}

(***************************************************************************)
(* Literals outside macros, with what looks like a macro inside, behind    *)
(* escaped quotes and behind backslashes.                                  *)
(***************************************************************************)
StringTests ==
    LET quoted == <<"call">> \o Escaped \o <<"word">> \o Escaped \o <<"mark", "quote">>
    IN  {Test(<<"quote">> \o quoted \o <<"newline">> \o Statement, <<New(13)>>),
         Test(<<"quote">> \o Escaped \o quoted, <<>>),
         Test(<<"quote", "esc", "esc">> \o Escaped \o quoted, <<>>),
         Test(<<"quote", "word", "quote">> \o Statement, <<New(6)>>),
         Test(<<"quote", "word">> \o Escaped \o quoted, <<>>)}

(***************************************************************************)
(* What stands between the bracket and the message, and macros without     *)
(* one.                                                                    *)
(***************************************************************************)
ArgumentTests ==
    {Test(<<"call", "mark">>, <<>>),
     Test(<<"call", "newline", "quote", "word", "quote">>, <<New(4)>>),
     Test(<<"call", "open", "word", "close", "quote", "word", "quote">>, <<New(6)>>)}

(***************************************************************************)
(* Macros commented out, and comments before a statement.                  *)
(***************************************************************************)
CommentTests ==
    {Test(<<"open", "newline">> \o Statement \o <<"newline", "close", "newline">>, <<>>),
     Test(<<"line">> \o Statement \o <<"newline">>, <<>>)}

CommentHandlingTest ==
    {Test(<<"newline", "line", "word", "newline", "open", "newline", "word",
            "newline", "close", "open", "word", "close", "newline">> \o Statement,
          <<New(16)>>)}

(***************************************************************************)
(* References found, and the names that are configured.                    *)
(***************************************************************************)
NameTests ==
    {Test(<<"call", "quote", "tag", "word", "quote">>, <<Old(3)>>),
     Test(<<"other", "quote", "tag", "word", "quote">>, <<>>)}

Tests == MessageTests \cup StringTests \cup ArgumentTests \cup CommentTests
            \cup CommentHandlingTest \cup NameTests

(***************************************************************************)
(* In the texts of the tests find returns what the tests assert.           *)
(***************************************************************************)
GrammarUnitTests ==
    \A test \in Tests :
        text = test.text => Find(text, FALSE) = test.found
=============================================================================

---------------------------- MODULE RustGrammar -----------------------------
(***************************************************************************)
(* How Breadlog reads Rust: the rules of src/parser/rust_grammar.pest for  *)
(* blanks, comments, string literals and macro names, as find of           *)
(* src/parser/rust_parser.rs uses them, and the copying loop of            *)
(* InsertReferencesProcessor::map that puts references at the positions    *)
(* find returns.  Beside it, how Rust itself reads the same text.          *)
(*                                                                         *)
(* A text is a sequence of lexemes with blanks in between; a position is   *)
(* an index.  Arguments other than the message are module RustFinder's.    *)
(***************************************************************************)
EXTENDS Naturals, Sequences, FiniteSets

CONSTANTS
    None,           \* Option::None
    InitTexts,      \* texts to start from
    Lexemes,        \* what developers write, see LexemeKinds
    MaxLexemes      \* bound on the length of a text

LexemeKinds ==
    {"call",        \* a configured macro: info!(
     "other",       \* another macro: println!(
     "word",        \* any other identifier or keyword
     "mark",        \* a bracket, a digit or the like
     "quote",       \* a double quote
     "esc",         \* a backslash
     "line",        \* //
     "open",        \* /*
     "close",       \* */
     "newline"}

(* What Breadlog inserts: a tag "[ref: n] " or a pair "ref = n; ".         *)
References == {"tag", "pair"}

ASSUME NoneAssumption == None \notin Nat
ASSUME LexemesAssumption == Lexemes \subseteq LexemeKinds
ASSUME InitTextsAssumption == InitTexts \subseteq Seq(LexemeKinds \cup References)
ASSUME MaxLexemesAssumption == MaxLexemes \in Nat

VARIABLES
    text,
    structured,     \* config.rust.structured
    runs            \* runs of Breadlog, two at most

vars == <<text, structured, runs>>

(* The first position from p on that holds one of the lexemes, or None.    *)
FirstOf(t, p, lexemes) ==
    IF \E q \in p .. Len(t) : t[q] \in lexemes
    THEN CHOOSE q \in p .. Len(t) :
            t[q] \in lexemes /\ \A r \in p .. q - 1 : t[r] \notin lexemes
    ELSE None

At(t, p) == IF p \in DOMAIN t THEN t[p] ELSE "end"

Positions(t) == 1 .. Len(t) + 1

(* The position at which the moves of next come to rest, for each start.   *)
Rest(next) ==
    LET rest[p \in DOMAIN next] == IF next[p] = p THEN p ELSE rest[next[p]]
    IN  rest

-----------------------------------------------------------------------------
(***************************************************************************)
(* WHITESPACE and COMMENT, which pest skips between any two elements of a  *)
(* rule that is not atomic.  A comment that is not ended is none; comments *)
(* do not nest.                                                            *)
(***************************************************************************)
CommentEndLine == [line |-> {"newline"}]    \* mutation: line comments only

CommentEnd == [line |-> {"newline"}, open |-> {"close"}]

(* Where the blank or comment at p ends; p if there is none.               *)
Blank(t, p) ==
    CASE At(t, p) = "newline" -> p + 1
      [] /\ At(t, p) \in DOMAIN CommentEnd
         /\ FirstOf(t, p + 1, CommentEnd[t[p]]) # None
            -> FirstOf(t, p + 1, CommentEnd[t[p]]) + 1
      [] OTHER -> p

Skip(t, p) == Rest([q \in Positions(t) |-> Blank(t, q)])[p]

(***************************************************************************)
(* macro_args: a bracket, perhaps the pair, and string_literal.  Between   *)
(* the quote and string_value something may be skipped as well, since      *)
(* string_literal is not atomic.  The value ends before the next quote, be *)
(* it escaped or not: in !"\\"{1} ~ "\"" both look at the same character.  *)
(***************************************************************************)
QuoteNext(t, bracket) == bracket + 1    \* mutation: blanks not skipped

Quote(t, bracket) ==
    LET p == Skip(t, bracket + 1)
    IN  IF At(t, p) = "pair" THEN Skip(t, p + 1) ELSE p

ValueStart(t, bracket) == Skip(t, Quote(t, bracket) + 1)

ValueEnd(t, bracket) == FirstOf(t, ValueStart(t, bracket), {"quote"})

MacroArgs(t, bracket) ==
    At(t, Quote(t, bracket)) = "quote" /\ ValueEnd(t, bracket) # None

(* macro_name swallows the words before the name of the macro.             *)
Bracket(t, p) ==
    Rest([q \in Positions(t) |->
            IF At(t, q) = "word" THEN Skip(t, q + 1) ELSE q])[p]

LogMacro(t, p) ==
    At(t, Bracket(t, p)) \in {"call", "other"} /\ MacroArgs(t, Bracket(t, p))

(***************************************************************************)
(* The entry for a macro of interest: where find says a reference is or is *)
(* to be inserted, and whether one is there.                               *)
(***************************************************************************)
EntryAtBracket(t, mode, bracket) ==    \* mutation: the + 1 is missing
    [position |-> IF mode THEN bracket ELSE ValueStart(t, bracket),
     exists |-> At(t, Skip(t, bracket + 1)) = "pair"
                    \/ t[ValueStart(t, bracket)] = "tag"]

Entry(t, mode, bracket) ==
    IF mode
    THEN [position |-> bracket + 1, exists |-> At(t, Skip(t, bracket + 1)) = "pair"]
    ELSE [position |-> ValueStart(t, bracket),
          exists |-> t[ValueStart(t, bracket)] = "tag"]

(***************************************************************************)
(* The rule file and the loop of find: log macros and, where there is      *)
(* none, any one character.                                                *)
(***************************************************************************)
Onwards(t, p) ==
    Skip(t, IF LogMacro(t, p) THEN ValueEnd(t, Bracket(t, p)) + 1 ELSE p + 1)

FindFrom(t, mode) ==
    LET find[p \in Positions(t)] ==
            IF p = Len(t) + 1 THEN <<>>
            ELSE IF t[p] = "call" /\ LogMacro(t, p)
                 THEN <<Entry(t, mode, p)>> \o find[Onwards(t, p)]
                 ELSE find[Onwards(t, p)]
    IN  find

Find(t, mode) == FindFrom(t, mode)[Skip(t, 1)]

(***************************************************************************)
(* The loop of map: what lies before the position, then the reference.  A  *)
(* position before the cursor makes it give up.  Copied is what the        *)
(* temporary file holds when the first p lexemes are written.              *)
(***************************************************************************)
Missing(entries) == {k \in DOMAIN entries : ~entries[k].exists}

InOrder(entries) ==
    \A j, k \in Missing(entries) :
        j < k => entries[j].position <= entries[k].position

Copied(t, reference, positions) ==
    LET copied[p \in 0 .. Len(t)] ==
            IF p = 0 THEN <<>>
            ELSE copied[p - 1] \o (IF p \in positions THEN <<reference>> ELSE <<>>)
                               \o <<t[p]>>
    IN  copied

Insert(t, mode) ==
    LET entries == Find(t, mode)
        positions == {entries[k].position : k \in Missing(entries)}
    IN  IF InOrder(entries)
        THEN Copied(t, IF mode THEN "pair" ELSE "tag", positions)[Len(t)]
        ELSE t

-----------------------------------------------------------------------------
Init ==
    /\ text \in InitTexts
    /\ structured \in BOOLEAN
    /\ runs = 0

(* Developers write the text, one lexeme after the other.                  *)
Write(lexeme) ==
    /\ runs = 0
    /\ Len(text) < MaxLexemes
    /\ text' = Append(text, lexeme)
    /\ UNCHANGED <<structured, runs>>

Generate ==
    /\ runs < 2
    /\ runs' = runs + 1
    /\ text' = Insert(text, structured)
    /\ UNCHANGED structured

Next ==
    \/ \E lexeme \in Lexemes : Write(lexeme)
    \/ Generate

Spec == Init /\ [][Next]_vars

-----------------------------------------------------------------------------
(***************************************************************************)
(* How Rust reads the same text: string literals with escapes, comments    *)
(* that nest.  Modes(t)[p] is where lexeme p stands.                       *)
(***************************************************************************)
Code == [in |-> "code", depth |-> 0]

After(mode, lexeme) ==
    CASE mode.in = "code" /\ lexeme = "quote" -> [mode EXCEPT !.in = "string"]
      [] mode.in = "code" /\ lexeme = "line" -> [mode EXCEPT !.in = "line"]
      [] mode.in = "code" /\ lexeme = "open" -> [in |-> "block", depth |-> 1]
      [] mode.in = "string" /\ lexeme = "quote" -> Code
      [] mode.in = "string" /\ lexeme = "esc" -> [mode EXCEPT !.in = "escape"]
      [] mode.in = "escape" -> [mode EXCEPT !.in = "string"]
      [] mode.in = "line" /\ lexeme = "newline" -> Code
      [] mode.in = "block" /\ lexeme = "open" -> [mode EXCEPT !.depth = @ + 1]
      [] mode.in = "block" /\ lexeme = "close" ->
            IF mode.depth = 1 THEN Code ELSE [mode EXCEPT !.depth = @ - 1]
      [] OTHER -> mode

Modes(t) ==
    LET mode[p \in Positions(t)] ==
            IF p = 1 THEN Code ELSE After(mode[p - 1], t[p - 1])
    IN  mode

In(t, p, modes) == Modes(t)[p].in \in modes

(* No literal and no comment is left open, and backslashes are in strings. *)
WellFormed(t) ==
    /\ In(t, Len(t) + 1, {"code"})
    /\ \A p \in DOMAIN t : t[p] = "esc" => ~In(t, p, {"code"})

Comment(t, p) ==
    \/ In(t, p, {"line", "block"})
    \/ In(t, p, {"code"}) /\ t[p] \in {"line", "open"}

(* The first lexeme from p on that is neither blank nor of a comment.      *)
Significant(t, p) ==
    LET ps == {q \in p .. Len(t) : t[q] # "newline" /\ ~Comment(t, q)}
    IN  IF ps = {} THEN None ELSE CHOOSE q \in ps : \A r \in ps : q <= r

(* Log statements, and the opening and the closing quote of a message.     *)
Message(t, q) ==
    LET s == Significant(t, q + 1)
    IN  IF s # None /\ t[s] = "pair" THEN Significant(t, s + 1) ELSE s

RustStatements(t) ==
    {q \in DOMAIN t : /\ t[q] = "call" /\ In(t, q, {"code"})
                      /\ Message(t, q) # None /\ t[Message(t, q)] = "quote"}

Closes(t, q, p) == t[p] = "quote" /\ In(t, p, {"string"})

(* Where a reference of statement q belongs: anywhere in its message, or   *)
(* right after the bracket.                                                *)
Place(t, mode, q) ==
    IF mode THEN {q + 1}
    ELSE {p \in DOMAIN t : /\ Message(t, q) < p
                           /\ \A r \in Message(t, q) + 1 .. p - 1 : ~Closes(t, q, r)}

(***************************************************************************)
(* What Breadlog does not read as Rust does.                               *)
(***************************************************************************)
CommentInString(t) ==
    \E p \in DOMAIN t : t[p] \in {"line", "open"} /\ In(t, p, {"string", "escape"})

NestedComment(t) ==
    \E p \in DOMAIN t : t[p] = "open" /\ In(t, p, {"block"})

(* A word before the macro is taken for part of its name.                  *)
WordBefore(t) ==
    \E p \in DOMAIN t : /\ t[p] = "word"
                        /\ Significant(t, p + 1) # None
                        /\ t[Significant(t, p + 1)] = "call"

(* The last thing in a literal looks like a macro, whose message then      *)
(* begins where the literal ends.                                          *)
MacroInString(t) ==
    \E p, q \in DOMAIN t : /\ t[p] \in {"call", "other"} /\ t[q] = "quote"
                           /\ In(t, p, {"string", "escape"})
                           /\ In(t, q, {"string"})
                           /\ \A r \in p + 1 .. q - 1 : t[r] \in {"newline", "pair"}

Tame(t) ==
    ~CommentInString(t) /\ ~NestedComment(t) /\ ~WordBefore(t) /\ ~MacroInString(t)

ReadAsRust(t, mode) ==
    LET entries == Find(t, mode)
        found == {entries[k].position : k \in DOMAIN entries}
        places == {Place(t, mode, q) : q \in RustStatements(t)}
    IN  /\ \A p \in found : \E place \in places : p \in place
        /\ \A place \in places : Cardinality(place \cap found) = 1

(***************************************************************************)
(* In a text that Rust accepts, with none of the four peculiarities above, *)
(* find sees every log statement, nothing else, and each one once, and its *)
(* position is in the message (or, with structured, right after the        *)
(* bracket): whatever else literals and comments contain, escaped quotes   *)
(* and statements commented out included, before and after a run.          *)
(***************************************************************************)
ReadsAsRust ==
    WellFormed(text) /\ Tame(text) => ReadAsRust(text, structured)

(***************************************************************************)
(* In any text, Rust or not, the copying loop of map leaves the grammar's  *)
(* reading as it was: the run after finds the entries that this run found, *)
(* all with a reference, and so has nothing to do.                         *)
(***************************************************************************)
StillFound ==
    [][Generate =>
        LET entries == Find(text, structured)
            again == Find(text', structured)
        IN  /\ Len(again) = Len(entries)
            /\ \A k \in DOMAIN again : again[k].exists]_vars

(***************************************************************************)
(* A run over such a text leaves such a text, with as many log statements, *)
(* none of which lacks a reference: none is skipped, and what map writes   *)
(* is at the right side of each quote and comment mark.                    *)
(***************************************************************************)
Referenced(t, mode, q) ==
    IF mode THEN t[Significant(t, q + 1)] = "pair"
    ELSE \E p \in Place(t, mode, q) :
            t[p] = "tag" /\ \A r \in Message(t, q) + 1 .. p - 1 : t[r] = "newline"

RunsCompleteText ==
    [][Generate /\ WellFormed(text) /\ Tame(text)
        => /\ WellFormed(text') /\ Tame(text')
           /\ Cardinality(RustStatements(text')) = Cardinality(RustStatements(text))
           /\ \A q \in RustStatements(text') : Referenced(text', structured, q)]_vars

(***************************************************************************)
(* Edit mode inserts "references in log messages where they are found to   *)
(* be missing" (docs/source/running-breadlog.rst 12-13), and nowhere else: *)
(* so it should also if a message contains the beginning of a comment.     *)
(***************************************************************************)
ReferencesInMessages ==
    /\ WellFormed(text)
    /\ ~NestedComment(text) /\ ~WordBefore(text)
    /\ \A p \in DOMAIN text : text[p] = "call" => In(text, p, {"code"})
    => LET entries == Find(text, structured) IN
       \A k \in DOMAIN entries : \E q \in RustStatements(text) :
            entries[k].position \in Place(text, structured, q)
=============================================================================

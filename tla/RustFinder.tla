----------------------------- MODULE RustFinder -----------------------------
(***************************************************************************)
(* What Breadlog sees of a source file: rust_log_ref_finder::find of       *)
(* src/parser/rust_parser.rs over src/parser/rust_grammar.pest, the        *)
(* directives of src/parser/code_parser.rs, and what                       *)
(* insertable_reference_string does to the text that the next run parses.  *)
(*                                                                         *)
(* A file is a sequence of lines, a statement a macro name and a sequence  *)
(* of arguments as the grammar tells them apart.  One run of Breadlog is   *)
(* one step here (module Breadlog takes it apart); between two runs        *)
(* developers write statements, move directives and change the             *)
(* configuration's structured.                                             *)
(***************************************************************************)
EXTENDS LogRefs, Sequences, FiniteSets

CONSTANTS
    NumLines,       \* lines of the file
    Keys,           \* keys of key-value pairs
    Text, Opaque,   \* values of a key-value pair other than a u32, see Kvp
    Statements,     \* the statements developers write
    InitFiles,      \* files to start from
    MaxEdits        \* bound on the developers' steps

ASSUME NumLinesAssumption == NumLines \in Nat
ASSUME KeysAssumption == "ref" \in Keys
ASSUME ValueAssumption == Text # Opaque /\ {Text, Opaque} \cap (Nat \cup {None}) = {}
ASSUME MaxEditsAssumption == MaxEdits \in Nat

VARIABLES
    lines,          \* the file
    structured,     \* config.rust.structured
    use_cache,      \* config.use_cache
    lock,           \* the number in the lock file, or None
    overlooked,     \* history: has a scan missed a reference? See Scan
    edits           \* counted against MaxEdits

vars == <<lines, structured, use_cache, lock, overlooked, edits>>

Lines == 1 .. NumLines

-----------------------------------------------------------------------------
(***************************************************************************)
(* The arguments of a macro: target_arg with its comma; a key, its value   *)
(* (a u32, Text for anything else that kvp_value matches, Opaque for an    *)
(* expression that it does not match, None for a key alone) and the        *)
(* separator after it; the message with the reference that                 *)
(* extract_reference finds at its start.  Modifiers make no difference.    *)
(***************************************************************************)
Target == [token |-> "target"]
Kvp(key, value, sep) ==
    [token |-> "kvp", key |-> key, value |-> value, sep |-> sep]
Message(reference) == [token |-> "message", reference |-> reference]

Argument ==
    {Target}
        \cup [token : {"kvp"}, key : Keys,
              value : U32 \cup {None, Text, Opaque}, sep : {",", ";"}]
        \cup [token : {"message"}, reference : U32 \cup {None}]

Statement == [macro : STRING, args : Seq(Argument)]

(* Any comment but a directive is "other"; "none" is no comment at all.    *)
Comments == {"none", "other", "ignore", "no_kvp"}

Line == [statement : Statement \cup {None}, comment : Comments]

Blank(line) == line.statement = None /\ line.comment = "none"

(***************************************************************************)
(* check_for_boolean_directive: the last line above that is not blank      *)
(* decides, and a comment at the end of a line of code counts.             *)
(***************************************************************************)
DirectiveAdjacent(file, i, name) ==    \* mutation: blank lines count
    i > 1 /\ file[i - 1].comment = name

Directive(file, i, name) ==
    \E j \in 1 .. i - 1 :
        /\ \A l \in j + 1 .. i - 1 : Blank(file[l])
        /\ file[j].comment = name

(***************************************************************************)
(* macro_of_interest: a configured macro by its name or with its module.   *)
(* To the grammar a word before a name is part of the name, so that        *)
(* "return info" is not "info".                                            *)
(***************************************************************************)
MacroOfInterest(name) == name \in {"info", "log::info"}

(***************************************************************************)
(* macro_args: an optional target, optional key-value pairs of which the   *)
(* last and no other ends in a semicolon, and the message.  An argument    *)
(* list of any other form is no log statement to Breadlog.                 *)
(***************************************************************************)
AfterTarget(args) ==
    IF args # <<>> /\ args[1] = Target THEN Tail(args) ELSE args

KvpArgs(args, n) ==
    /\ n < Len(args)
    /\ \A k \in 1 .. n :
        /\ args[k].token = "kvp"
        /\ args[k].value # Opaque
        /\ args[k].sep = ";" <=> k = n

Parses(args) ==
    LET rest == AfterTarget(args) IN
    \E n \in 0 .. Len(rest) : KvpArgs(rest, n) /\ rest[n + 1].token = "message"

(***************************************************************************)
(* What the macros of the log crate take: the target first, pairs          *)
(* separated by commas, a semicolon after the last, then the message.      *)
(***************************************************************************)
Accepted(args) ==
    LET rest == AfterTarget(args)
        n == Len(rest) - 1
    IN  /\ n >= 0
        /\ rest[n + 1].token = "message"
        /\ \A k \in 1 .. n : /\ rest[k].token = "kvp"
                             /\ rest[k].sep = IF k = n THEN ";" ELSE ","

KvpSpans(args) == {k \in DOMAIN args : args[k].token = "kvp"}

(***************************************************************************)
(* In structured mode the first pair "ref" with a value is the reference,  *)
(* if its value is a u32; without such a pair a new one is needed.         *)
(***************************************************************************)
RefKvps(args) ==
    {k \in KvpSpans(args) : args[k].key = "ref" /\ args[k].value # None}

FirstRefKvp(args) == CHOOSE k \in RefKvps(args) : \A l \in RefKvps(args) : k <= l

StructuredEntry(args) ==
    IF RefKvps(args) = {}
    THEN [kind |-> "StructuredNew", reference |-> None]
    ELSE LET value == args[FirstRefKvp(args)].value IN
         [kind |-> "StructuredPreExisting",
          reference |-> IF value \in U32 THEN value ELSE None]

(* Otherwise it is the tag at the start of the message.                    *)
MessageOf(args) == CHOOSE k \in 1 .. Len(args) : args[k].token = "message"

StringEntry(args) ==
    [kind |-> "String", reference |-> args[MessageOf(args)].reference]

(***************************************************************************)
(* The entry that find returns for line i of a file, AbsentEntry if it     *)
(* returns none.                                                           *)
(***************************************************************************)
FindIn(file, mode, i) ==
    LET statement == file[i].statement IN
    IF \/ statement = None
       \/ Directive(file, i, "ignore")
       \/ ~MacroOfInterest(statement.macro)
       \/ ~Parses(statement.args)
    THEN AbsentEntry
    ELSE IF mode /\ ~Directive(file, i, "no_kvp")
         THEN StructuredEntry(statement.args)
         ELSE StringEntry(statement.args)

Find(i) == FindIn(lines, structured, i)

(***************************************************************************)
(* The insertion of reference id where find says: "[ref: id] " at the      *)
(* start of the message, or "ref = id" right after the bracket, with a     *)
(* comma if pairs follow and a semicolon if not.                           *)
(***************************************************************************)
SuffixAlwaysSemicolon(args) == ";"    \* mutation: total_kvps not looked at

SuffixSwapped(args) ==    \* mutation: the two branches are swapped
    IF KvpSpans(args) # {} THEN ";" ELSE ","

Suffix(args) == IF KvpSpans(args) # {} THEN "," ELSE ";"

WithInsertionAtEnd(args, kind, id) ==    \* mutation: a pair before the other bracket
    IF kind = "StructuredNew"
    THEN Append(args, Kvp("ref", id, Suffix(args)))
    ELSE [args EXCEPT ![MessageOf(args)] = Message(id)]

WithInsertion(args, kind, id) ==
    IF kind = "StructuredNew"
    THEN <<Kvp("ref", id, Suffix(args))>> \o args
    ELSE [args EXCEPT ![MessageOf(args)] = Message(id)]

-----------------------------------------------------------------------------
Missing == {i \in Lines : NeedsReference(Find(i))}

Found == {Find(i).reference : i \in Lines} \ {None}

(***************************************************************************)
(* The references in the text of a line, whoever looks for them: where     *)
(* they stand among the arguments, and the numbers.                        *)
(***************************************************************************)
Number(a) ==
    IF a.token = "message" THEN a.reference
    ELSE IF a.token = "kvp" /\ a.key = "ref" THEN a.value ELSE None

Arguments(line) == IF line.statement = None THEN <<>> ELSE line.statement.args

Numbered(line) ==
    {k \in DOMAIN Arguments(line) : Number(Arguments(line)[k]) \in U32}

References(line) == {Number(Arguments(line)[k]) : k \in Numbered(line)}

(* No two of the references in a file are equal.                           *)
DistinctIn(file) ==
    \A i, j \in Lines : \A k \in Numbered(file[i]), l \in Numbered(file[j]) :
        Number(Arguments(file[i])[k]) = Number(Arguments(file[j])[l])
            => i = j /\ k = l

(***************************************************************************)
(* Developers write statements that the log crate accepts, and no numbers  *)
(* of their own; the numbers in the file at the start are of earlier runs. *)
(***************************************************************************)
ASSUME StatementsAssumption ==
    /\ None \notin Statement
    /\ \A s \in Statements :
        /\ s \in Statement
        /\ Accepted(s.args)
        /\ \A k \in DOMAIN s.args : Number(s.args[k]) \notin U32

ASSUME InitFilesAssumption ==
    \A file \in InitFiles :
        /\ file \in [Lines -> Line]
        /\ \A i \in Lines : file[i].statement # None => Accepted(file[i].statement.args)
        /\ DistinctIn(file)

NothingOverlooked ==
    \A i \in Lines : References(lines[i]) \subseteq {Find(i).reference}

(* The number after the largest of some references, 1 if there are none.   *)
After(S) ==
    CHOOSE n \in 1 .. RefMod :
        /\ \A r \in S : r < n
        /\ n = 1 \/ n - 1 \in S

(***************************************************************************)
(* References in the file at the start are of earlier runs, which have     *)
(* left a lock file ahead of them if they use one.                         *)
(***************************************************************************)
Init ==
    /\ lines \in InitFiles
    /\ structured \in BOOLEAN
    /\ use_cache \in BOOLEAN
    /\ LET earlier == UNION {References(lines[i]) : i \in Lines}
       IN  lock = IF use_cache /\ earlier # {} THEN After(earlier) ELSE None
    /\ overlooked = FALSE
    /\ edits = 0

(***************************************************************************)
(* One undisturbed run of generate_code: the entries that need a reference *)
(* get consecutive ones in the order of the file, and the number after     *)
(* them goes to the lock file.  Without a number from there the run starts *)
(* after the largest reference found.                                      *)
(***************************************************************************)
FirstFree == IF lock # None THEN lock ELSE After(Found)

NewReference(i) == FirstFree + Cardinality({j \in Missing : j < i})

CachedStale(start, count) == start    \* mutation: the insertions not counted

Cached(start, count) == start + count

(***************************************************************************)
(* A run that starts after the largest reference found (generate.rs 725)   *)
(* may give a number that is in the file if find overlooks a reference.    *)
(* The next one that overlooks none in a file without duplicates is ahead  *)
(* of everything again.                                                    *)
(***************************************************************************)
Scan ==
    overlooked' = IF NothingOverlooked /\ DistinctIn(lines) THEN FALSE
                  ELSE overlooked \/ ~NothingOverlooked

Generate ==
    /\ UNCHANGED <<structured, use_cache, edits>>
    /\ lock # None \/ Missing # {}
    /\ FirstFree + Cardinality(Missing) < RefMod
    /\ lines' = [i \in Lines |->
            IF i \notin Missing THEN lines[i]
            ELSE [lines[i] EXCEPT !.statement.args =
                    WithInsertion(@, Find(i).kind, NewReference(i))]]
    /\ lock' = IF use_cache THEN Cached(FirstFree, Cardinality(Missing)) ELSE None
    /\ IF lock = None THEN Scan ELSE UNCHANGED overlooked

-----------------------------------------------------------------------------
Edit(text, mode) ==
    /\ edits < MaxEdits
    /\ edits' = edits + 1
    /\ lines' = text
    /\ structured' = mode
    /\ UNCHANGED <<use_cache, lock, overlooked>>

(* A line is written anew: its reference is gone.                          *)
WriteLine(i, statement) ==
    Edit([lines EXCEPT ![i].statement = statement], structured)

(* A comment is written, deleted or changed.                               *)
WriteComment(i, comment) ==
    Edit([lines EXCEPT ![i].comment = comment], structured)

SwitchStructured == Edit(lines, ~structured)

(* The lock file is deleted, or one that cannot be read is left behind.    *)
DeleteLock ==
    /\ edits < MaxEdits
    /\ edits' = edits + 1
    /\ lock # None
    /\ lock' = None
    /\ UNCHANGED <<lines, structured, use_cache, overlooked>>

Next ==
    \/ Generate
    \/ DeleteLock
    \/ \E i \in Lines :
        \/ \E s \in Statements \cup {None} : WriteLine(i, s)
        \/ \E c \in Comments : WriteComment(i, c)
    \/ SwitchStructured

Spec == Init /\ [][Next]_vars
-----------------------------------------------------------------------------
(* A list of arguments ends with its only message, whatever is inserted.   *)
WellFormed(args) ==
    /\ args # <<>>
    /\ \A k \in DOMAIN args : args[k].token = "message" <=> k = Len(args)

TypeOK ==
    /\ lines \in [Lines -> Line]
    /\ \A i \in Lines :
        lines[i].statement # None => WellFormed(lines[i].statement.args)
    /\ structured \in BOOLEAN
    /\ use_cache \in BOOLEAN
    /\ lock \in 0 .. RefMod \cup {None}
    /\ overlooked \in BOOLEAN
    /\ edits \in 0 .. MaxEdits

(***************************************************************************)
(* The lock file is ahead of every number in the text, also of those that  *)
(* no run finds (cachable_reference_id, generate.rs 731-733): what makes   *)
(* TextDistinct hold while directives and the mode change.                 *)
(***************************************************************************)
LockAhead ==
    /\ ~use_cache => lock = None
    /\ lock # None /\ ~overlooked =>
        \A i \in Lines : \A r \in References(lines[i]) : r < lock

HasTarget(i) == lines[i].statement # None /\ Target \in
    {lines[i].statement.args[k] : k \in DOMAIN lines[i].statement.args}

(***************************************************************************)
(* After a run, find returns for every line what module Breadlog assumes:  *)
(* the entry it had, with the reference if one was inserted (WithReference *)
(* of LogRefs).  So a reference once given is found by later runs, and a   *)
(* second run has nothing to do.  Except where a new pair is put before a  *)
(* target (rust_parser.rs 267-271), which the next run does not parse.     *)
(***************************************************************************)
FoundAgain ==
    [][Generate => \A i \in Lines :
        IF i \in Missing
        THEN \/ Find(i).kind = "StructuredNew" /\ HasTarget(i)
             \/ \E id \in U32 : Find(i)' = WithReference(Find(i), id)
        ELSE Find(i)' = Find(i)]_vars

(***************************************************************************)
(* No two references in the file are equal, also those Breadlog does not   *)
(* see.  While there is a lock file, directives, statements and structured *)
(* may change in any order; only a run without a number from it, which     *)
(* overlooks a reference, may break this, until one finds them all.        *)
(***************************************************************************)
TextDistinct == ~overlooked => DistinctIn(lines)

(***************************************************************************)
(* A run takes no number out of the text, found or not, and changes none:  *)
(* counted from its end a line has the numbers it had, and gains none but  *)
(* its new reference (the insertions of generate.rs 411-474).              *)
(***************************************************************************)
FromEnd(line, d) ==
    LET k == Len(Arguments(line)) - d IN
    IF k \in Numbered(line) THEN Number(Arguments(line)[k]) ELSE None

Distances(line) == 0 .. Len(Arguments(line))

NumbersStay ==
    [][Generate => \A i \in Lines :
        \A d \in Distances(lines[i]) \cup Distances(lines'[i]) :
            \/ FromEnd(lines'[i], d) = FromEnd(lines[i], d)
            \/ /\ FromEnd(lines[i], d) = None
               /\ i \in Missing
               /\ FromEnd(lines'[i], d) = NewReference(i)]_vars

(***************************************************************************)
(* The developers' statements are accepted by the log crate, and remain so *)
(* whatever is inserted, unless they have a target.                        *)
(***************************************************************************)
AcceptedWithoutTarget ==
    \A i \in Lines :
        lines[i].statement # None /\ ~HasTarget(i) => Accepted(lines[i].statement.args)

(***************************************************************************)
(* The same of every statement (code_parser.rs 351-352: the reference is   *)
(* inserted in a form "suitable for inclusion in code").                   *)
(***************************************************************************)
StatementsAccepted ==
    \A i \in Lines :
        lines[i].statement # None => Accepted(lines[i].statement.args)
=============================================================================

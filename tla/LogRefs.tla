------------------------------- MODULE LogRefs -------------------------------
(***************************************************************************)
(* The log reference entries of src/parser/code_parser.rs, as far as the   *)
(* code generator of src/codegen/generate.rs can tell them apart: the kind *)
(* of an entry, the numeric reference it carries and the questions         *)
(* generate.rs asks of it.                                                 *)
(*                                                                         *)
(* A source file is a row of slots, one for each place where a log         *)
(* statement stands or may be written.  What the statement says, and the   *)
(* text between two statements, makes no difference to the generator.      *)
(***************************************************************************)
EXTENDS Naturals

CONSTANTS
    RefMod,     \* one more than the largest u32 (2^32 in the program)
    None        \* Option::None

ASSUME RefModAssumption == RefMod \in Nat /\ RefMod > 1
ASSUME NoneAssumption == None \notin Nat

U32 == 0 .. RefMod - 1

(***************************************************************************)
(* u32 arithmetic in a build without overflow checks, and AtomicU32's      *)
(* fetch_add in every build.                                               *)
(***************************************************************************)
Wrap(n) == IF n < RefMod THEN n ELSE n % RefMod

(***************************************************************************)
(* "Absent" is a slot without a log statement; find_references returns no  *)
(* entry for it.                                                           *)
(***************************************************************************)
LogRefKind == {"Absent", "String", "StructuredPreExisting", "StructuredNew"}

(***************************************************************************)
(* What the finder can return: an entry whose reference would be inserted  *)
(* as a new key-value pair (StructuredNew) never carries one yet.          *)
(***************************************************************************)
LogRefEntry ==
    {e \in [kind : LogRefKind, reference : U32 \cup {None}] :
        e.kind \in {"Absent", "StructuredNew"} => e.reference = None}

AbsentEntry == [kind |-> "Absent", reference |-> None]

Exists(e) == e.reference # None

UsableReferencePosition(e) == ~(e.kind = "StructuredPreExisting" /\ ~Exists(e))

(***************************************************************************)
(* The filter of all three processors: a statement that lacks a reference  *)
(* in a place where one can be put.                                        *)
(***************************************************************************)
NeedsReferenceAgain(e) ==    \* mutation: exists() is not looked at
    e.kind # "Absent" /\ UsableReferencePosition(e)

NeedsReference(e) ==
    /\ e.kind # "Absent"
    /\ ~Exists(e)
    /\ UsableReferencePosition(e)

(***************************************************************************)
(* The entry the finder returns for the statement once                     *)
(* insertable_reference_string(id) has been put at its position: the text  *)
(* "[ref: id] " in the message, or the new pair "ref = id".                *)
(***************************************************************************)
ReferencedKind(kind) ==
    IF kind = "StructuredNew" THEN "StructuredPreExisting" ELSE kind

WithReference(e, id) == [kind |-> ReferencedKind(e.kind), reference |-> id]
=============================================================================

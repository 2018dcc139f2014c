-------------------------- MODULE RustFinderProofs --------------------------
(***************************************************************************)
(* Proofs about module RustFinder, for every file, every set of statements *)
(* and every RefMod: what is inserted is found again, log statements stay  *)
(* log statements, and no two references in the text are equal.            *)
(***************************************************************************)
EXTENDS RustFinder, Induction

(* After(S) is a number beyond every reference in S.                       *)
LEMMA AfterIsBeyond ==
    ASSUME NEW S, S \subseteq U32
    PROVE  /\ After(S) \in 1 .. RefMod
           /\ \A r \in S : r < After(S)
<1> DEFINE Beyond == {n \in 1 .. RefMod : \A r \in S : r < n}
<1>1. Beyond \subseteq Nat /\ RefMod \in Beyond
  BY RefModAssumption DEF U32
<1>2. PICK n \in Beyond : \A m \in Beyond : n <= m
  BY <1>1, LeastNatural
<1>3. n = 1 \/ n - 1 \in S
  <2>1. SUFFICES ASSUME n # 1
                 PROVE  n - 1 \in S
    OBVIOUS
  <2>2. n \in 1 .. RefMod /\ n - 1 \in 1 .. RefMod /\ n - 1 < n
    BY <1>2, <2>1, RefModAssumption
  <2>5. n - 1 \notin Beyond
    BY <1>2, <2>2
  <2>3. PICK r \in S : ~(r < n - 1)
    BY <2>2, <2>5
  <2>4. r < n /\ r \in Nat /\ n \in Nat
    BY RefModAssumption DEF U32
  <2> QED
    BY <2>3, <2>4
<1> QED
  BY <1>3 DEF After

-----------------------------------------------------------------------------
(* Facts about lists of arguments.                                         *)
LEMMA ArgumentFacts ==
    ASSUME NEW a \in Argument
    PROVE  /\ a.token = "kvp" =>
                /\ a = Kvp(a.key, a.value, a.sep)
                /\ a.key \in Keys
                /\ a.value \in U32 \cup {None, Text, Opaque}
                /\ a.sep \in {",", ";"}
           /\ a.token = "message" =>
                /\ a = Message(a.reference)
                /\ a.reference \in U32 \cup {None}
           /\ a.token \in {"target", "kvp", "message"}
           /\ a.token = "target" <=> a = Target
<1>1. CASE a = Target
  BY <1>1 DEF Target
<1>2. CASE a \in [token : {"kvp"}, key : Keys,
                  value : U32 \cup {None, Text, Opaque}, sep : {",", ";"}]
  <2>1. /\ a.token = "kvp"
        /\ a.key \in Keys
        /\ a.value \in U32 \cup {None, Text, Opaque}
        /\ a.sep \in {",", ";"}
    BY <1>2
  <2>2. a = Kvp(a.key, a.value, a.sep)
    BY <1>2 DEF Kvp
  <2>3. Target.token = "target"
    BY DEF Target
  <2> QED
    BY <2>1, <2>2, <2>3
<1>3. CASE a \in [token : {"message"}, reference : U32 \cup {None}]
  <2>1. a.token = "message" /\ a.reference \in U32 \cup {None}
    BY <1>3
  <2>2. a = Message(a.reference)
    BY <1>3 DEF Message
  <2>3. Target.token = "target"
    BY DEF Target
  <2> QED
    BY <2>1, <2>2, <2>3
<1> QED
  BY <1>1, <1>2, <1>3 DEF Argument

(* What follows the target, if there is one.                               *)
LEMMA AfterTargetFacts ==
    ASSUME NEW args \in Seq(Argument), args # <<>>, args[1] = Target
    PROVE  /\ AfterTarget(args) \in Seq(Argument)
           /\ Len(AfterTarget(args)) = Len(args) - 1
           /\ \A k \in 1 .. Len(args) - 1 : AfterTarget(args)[k] = args[k + 1]
  BY DEF AfterTarget

(* Accepted without its abbreviations.                                     *)
LEMMA AcceptedRest ==
    ASSUME NEW args, Len(AfterTarget(args)) \in Nat
    PROVE  Accepted(args) <=>
                /\ 1 <= Len(AfterTarget(args))
                /\ AfterTarget(args)[Len(AfterTarget(args))].token = "message"
                /\ \A k \in 1 .. Len(AfterTarget(args)) - 1 :
                    /\ AfterTarget(args)[k].token = "kvp"
                    /\ AfterTarget(args)[k].sep =
                        IF k = Len(AfterTarget(args)) - 1 THEN ";" ELSE ","
<1>1. /\ Len(AfterTarget(args)) - 1 + 1 = Len(AfterTarget(args))
      /\ Len(AfterTarget(args)) - 1 >= 0 <=> 1 <= Len(AfterTarget(args))
  OBVIOUS
<1> QED
  BY <1>1 DEF Accepted

(* What the log crate accepts is well formed.                              *)
LEMMA AcceptedWellFormed ==
    ASSUME NEW args \in Seq(Argument), Accepted(args)
    PROVE  WellFormed(args)
<1>1. CASE args # <<>> /\ args[1] = Target
  <2> DEFINE rest == AfterTarget(args)
  <2>1. /\ Len(rest) = Len(args) - 1
        /\ \A k \in 1 .. Len(args) - 1 : rest[k] = args[k + 1]
        /\ Len(args) \in Nat
    BY <1>1, AfterTargetFacts
  <2>2. /\ Len(args) - 2 >= 0
        /\ rest[Len(args) - 1].token = "message"
        /\ \A k \in 1 .. Len(args) - 2 : rest[k].token = "kvp"
    <3>1. Len(rest) \in Nat
      BY <1>1, <2>1
    <3>2. /\ 1 <= Len(rest)
          /\ rest[Len(rest)].token = "message"
          /\ \A k \in 1 .. Len(rest) - 1 : rest[k].token = "kvp"
      BY <3>1, AcceptedRest
    <3>3. Len(args) - 2 = Len(rest) - 1 /\ Len(rest) = Len(args) - 1
      BY <2>1, <3>1
    <3> HIDE DEF rest
    <3>4. Len(args) - 2 >= 0
      BY <2>1, <3>1, <3>2
    <3> QED
      BY <3>2, <3>3, <3>4
  <2>3. ASSUME NEW k \in DOMAIN args
        PROVE  args[k].token = "message" <=> k = Len(args)
    <3>1. CASE k = 1
      <4>1. args[1].token = "target"
        BY <1>1 DEF Target
      <4> QED
        BY <2>1, <2>2, <3>1, <4>1
    <3>2. CASE k # 1
      <4>1. k - 1 \in 1 .. Len(args) - 1 /\ args[k] = rest[k - 1]
        BY <2>1, <3>2
      <4> HIDE DEF rest
      <4> QED
        BY <2>1, <2>2, <4>1
    <3> QED
      BY <3>1, <3>2
  <2> QED
    BY <1>1, <2>3 DEF WellFormed
<1>2. CASE ~(args # <<>> /\ args[1] = Target)
  <2>1. AfterTarget(args) = args
    BY <1>2 DEF AfterTarget
  <2> QED
    <3>1. Len(args) \in Nat
      OBVIOUS
    <3>2. /\ 1 <= Len(args)
          /\ args[Len(args)].token = "message"
          /\ \A k \in 1 .. Len(args) - 1 : args[k].token = "kvp"
      BY <2>1, <3>1, AcceptedRest
    <3> QED
      BY <3>2 DEF WellFormed
<1> QED
  BY <1>1, <1>2

(* The message of a well-formed list is its last argument.                 *)
LEMMA MessageIsLast ==
    ASSUME NEW args \in Seq(Argument), WellFormed(args)
    PROVE  /\ MessageOf(args) = Len(args)
           /\ Len(args) \in Nat \ {0}
           /\ args[Len(args)].token = "message"
           /\ Len(args) \in DOMAIN args
  BY DEF MessageOf, WellFormed

(* How many arguments stand before the key-value pairs.                    *)
Before(args) == IF args[1] = Target THEN 1 ELSE 0

(* The pair k of a list, as the grammar and as the log crate take it.      *)
PairParsed(args, k) ==
    /\ args[k].token = "kvp"
    /\ args[k].value # Opaque
    /\ args[k].sep = ";" <=> k = Len(args) - 1

PairTaken(args, k) ==
    /\ args[k].token = "kvp"
    /\ args[k].sep = IF k = Len(args) - 1 THEN ";" ELSE ","

(* Said of a variable: the provers find it of no length of a list.         *)
LEMMA MoreThanOne ==
    \A n \in Nat : n > 0 /\ n # 1 => 1 < n /\ 1 \in 1 .. n /\ 1 \in 1 .. n - 1
  OBVIOUS

(* What follows the target, as part of a well-formed list.                 *)
LEMMA RestFacts ==
    ASSUME NEW args \in Seq(Argument), WellFormed(args)
    PROVE  /\ Before(args) \in {0, 1}
           /\ Before(args) < Len(args)
           /\ Len(AfterTarget(args)) = Len(args) - Before(args)
           /\ \A k \in 1 .. Len(args) - Before(args) :
                AfterTarget(args)[k] = args[k + Before(args)]
<1>1. args # <<>>
  BY DEF WellFormed
<1>4. Len(args) \in Nat /\ Len(args) > 0
  BY MessageIsLast
<1>2. CASE args[1] = Target
  <2>1. Before(args) = 1
    BY <1>2 DEF Before
  <2>2. args[1].token = "target"
    BY <1>2 DEF Target
  <2>3. 1 # Len(args)
    BY <2>2, MessageIsLast
  <2>4. /\ Len(AfterTarget(args)) = Len(args) - 1
        /\ \A k \in 1 .. Len(args) - 1 : AfterTarget(args)[k] = args[k + 1]
    BY <1>1, <1>2, AfterTargetFacts
  <2>5. 1 < Len(args)
    BY <1>4, <2>3, MoreThanOne
  <2> QED
    BY <2>1, <2>4, <2>5
<1>3. CASE args[1] # Target
  <2>1. Before(args) = 0 /\ AfterTarget(args) = args
    BY <1>3 DEF Before, AfterTarget
  <2> QED
    BY <1>4, <2>1
<1> QED
  BY <1>2, <1>3

(* What the grammar matches, without its rules.                            *)
LEMMA ParsesFacts ==
    ASSUME NEW args \in Seq(Argument), WellFormed(args)
    PROVE  Parses(args) <=>
                \A k \in Before(args) + 1 .. Len(args) - 1 : PairParsed(args, k)
<1> DEFINE rest == AfterTarget(args)
           b == Before(args)
<1>1. /\ b \in {0, 1}
      /\ b < Len(args)
      /\ Len(rest) = Len(args) - b
      /\ \A k \in 1 .. Len(args) - b : rest[k] = args[k + b]
      /\ Len(args) \in Nat \ {0}
  BY RestFacts, MessageIsLast
<1>2. Parses(args) <=>
        \E n \in 0 .. Len(rest) : KvpArgs(rest, n) /\ rest[n + 1].token = "message"
  BY DEF Parses
<1> HIDE DEF rest, b
<1>3. ASSUME NEW n \in 0 .. Len(rest), KvpArgs(rest, n), rest[n + 1].token = "message",
             NEW k \in b + 1 .. Len(args) - 1
      PROVE  PairParsed(args, k)
  <2>1. n < Len(rest)
    BY <1>3 DEF KvpArgs
  <2>2. /\ n + 1 \in 1 .. Len(args) - b
        /\ rest[n + 1] = args[n + 1 + b]
        /\ n + 1 + b \in DOMAIN args
    BY <1>1, <2>1
  <2>3. n + 1 + b = Len(args)
    BY <1>3, <2>2 DEF WellFormed
  <2>4. k - b \in 1 .. n /\ k - b \in 1 .. Len(args) - b /\ (k - b) + b = k
    BY <1>1, <2>3
  <2>5. rest[k - b] = args[k]
    BY <1>1, <2>4
  <2>6. k - b = n <=> k = Len(args) - 1
    BY <1>1, <2>3
  <2>7. /\ rest[k - b].token = "kvp"
        /\ rest[k - b].value # Opaque
        /\ rest[k - b].sep = ";" <=> k - b = n
    BY <1>3, <2>4 DEF KvpArgs
  <2> QED
    BY <2>5, <2>6, <2>7 DEF PairParsed
<1>4. ASSUME \A k \in b + 1 .. Len(args) - 1 : PairParsed(args, k)
      PROVE  \E n \in 0 .. Len(rest) : KvpArgs(rest, n) /\ rest[n + 1].token = "message"
  <2> DEFINE n == Len(args) - b - 1
  <2>1. n \in 0 .. Len(rest) /\ n < Len(rest) /\ n + 1 + b = Len(args)
    BY <1>1
  <2>2. n + 1 \in 1 .. Len(args) - b
    BY <1>1
  <2>3. rest[n + 1].token = "message"
    BY <1>1, <2>1, <2>2, MessageIsLast
  <2>4. ASSUME NEW k \in 1 .. n
        PROVE  /\ rest[k].token = "kvp"
               /\ rest[k].value # Opaque
               /\ rest[k].sep = ";" <=> k = n
    <3>1. /\ k \in 1 .. Len(args) - b
          /\ k + b \in b + 1 .. Len(args) - 1
          /\ k + b = Len(args) - 1 <=> k = n
      BY <1>1
    <3>2. rest[k] = args[k + b]
      BY <1>1, <3>1
    <3>3. PairParsed(args, k + b)
      BY <1>4, <3>1
    <3> QED
      BY <3>1, <3>2, <3>3 DEF PairParsed
  <2>5. KvpArgs(rest, n)
    BY <2>1, <2>4 DEF KvpArgs
  <2> QED
    BY <2>1, <2>3, <2>5
<1> QED
  BY <1>2, <1>3, <1>4 DEF b

(* What the log crate accepts, likewise.                                   *)
LEMMA AcceptedFacts ==
    ASSUME NEW args \in Seq(Argument), WellFormed(args)
    PROVE  Accepted(args) <=>
                \A k \in Before(args) + 1 .. Len(args) - 1 : PairTaken(args, k)
<1> DEFINE rest == AfterTarget(args)
           b == Before(args)
           Rest == \A k \in 1 .. Len(rest) - 1 :
                    /\ rest[k].token = "kvp"
                    /\ rest[k].sep = IF k = Len(rest) - 1 THEN ";" ELSE ","
<1>1. /\ b \in {0, 1}
      /\ b < Len(args)
      /\ Len(rest) = Len(args) - b
      /\ \A k \in 1 .. Len(args) - b : rest[k] = args[k + b]
      /\ Len(args) \in Nat \ {0}
  BY RestFacts, MessageIsLast
<1>2. Len(rest) \in Nat /\ 1 <= Len(rest)
  <2> HIDE DEF rest, b
  <2> QED
    BY <1>1
<1>3. rest[Len(rest)] = args[Len(args)]
  <2>1. Len(rest) \in 1 .. Len(args) - b /\ Len(rest) + b = Len(args)
    <3> HIDE DEF rest, b
    <3> QED
      BY <1>1, <1>2
  <2> QED
    BY <1>1, <2>1
<1>4. Accepted(args) <=> Rest
  BY <1>2, <1>3, AcceptedRest, MessageIsLast
<1> HIDE DEF rest, b
<1>5. ASSUME Rest, NEW k \in b + 1 .. Len(args) - 1
      PROVE  PairTaken(args, k)
  <2>1. /\ k - b \in 1 .. Len(rest) - 1
        /\ k - b \in 1 .. Len(args) - b
        /\ (k - b) + b = k
        /\ k - b = Len(rest) - 1 <=> k = Len(args) - 1
    BY <1>1
  <2>2. rest[k - b] = args[k]
    BY <1>1, <2>1
  <2> QED
    BY <1>5, <2>1, <2>2 DEF PairTaken
<1>6. ASSUME \A k \in b + 1 .. Len(args) - 1 : PairTaken(args, k),
             NEW k \in 1 .. Len(rest) - 1
      PROVE  /\ rest[k].token = "kvp"
             /\ rest[k].sep = IF k = Len(rest) - 1 THEN ";" ELSE ","
  <2>1. /\ k \in 1 .. Len(args) - b
        /\ k + b \in b + 1 .. Len(args) - 1
        /\ k + b = Len(args) - 1 <=> k = Len(rest) - 1
    BY <1>1
  <2>2. rest[k] = args[k + b]
    BY <1>1, <2>1
  <2>3. PairTaken(args, k + b)
    BY <1>6, <2>1
  <2> QED
    BY <2>1, <2>2, <2>3 DEF PairTaken
<1> QED
  BY <1>4, <1>5, <1>6 DEF b

-----------------------------------------------------------------------------
(***************************************************************************)
(* What insertable_reference_string does to a list of arguments.  A new    *)
(* pair comes first and moves the others by one.                           *)
(***************************************************************************)
LEMMA PairInsertion ==
    ASSUME NEW args \in Seq(Argument), WellFormed(args), NEW id \in U32,
           NEW new, new = WithInsertion(args, "StructuredNew", id)
    PROVE  /\ new \in Seq(Argument)
           /\ Len(new) = Len(args) + 1
           /\ new[1] = Kvp("ref", id, Suffix(args))
           /\ \A k \in 1 .. Len(args) : new[k + 1] = args[k]
           /\ WellFormed(new)
<1> DEFINE pair == Kvp("ref", id, Suffix(args))
<1>1. new = <<pair>> \o args
  BY DEF WithInsertion
<1>2. pair \in Argument /\ pair.token = "kvp"
  <2>1. Suffix(args) \in {",", ";"}
    BY DEF Suffix
  <2>2. id \in U32 \cup {None, Text, Opaque}
    OBVIOUS
  <2> DEFINE Values == U32 \cup {None, Text, Opaque}
  <2>3. pair \in [token : {"kvp"}, key : Keys, value : Values, sep : {",", ";"}]
    <3> HIDE DEF Values
    <3>1. id \in Values
      BY <2>2 DEF Values
    <3> QED
      BY <2>1, <3>1, KeysAssumption DEF Kvp
  <2>4. pair.token = "kvp"
    BY DEF Kvp
  <2> QED
    BY <2>3, <2>4 DEF Argument
<1> HIDE DEF pair
<1>3. /\ new \in Seq(Argument)
      /\ Len(new) = Len(args) + 1
      /\ new[1] = pair
      /\ \A k \in 1 .. Len(args) : new[k + 1] = args[k]
  <2>1. new \in Seq(Argument)
    BY <1>1, <1>2
  <2>2. Len(new) = Len(args) + 1
    BY <1>1, <1>2
  <2>3. new[1] = pair
    BY <1>1, <1>2
  <2>4. \A k \in 1 .. Len(args) : new[k + 1] = args[k]
    BY <1>1, <1>2
  <2> QED
    BY <2>1, <2>2, <2>3, <2>4
<1>4. ASSUME NEW k \in DOMAIN new
      PROVE  new[k].token = "message" <=> k = Len(new)
  <2>1. CASE k = 1
    <3>1. Len(new) # 1
      BY <1>3, MessageIsLast
    <3> QED
      BY <1>2, <1>3, <2>1, <3>1
  <2>2. CASE k # 1
    <3>1. /\ k - 1 \in DOMAIN args
          /\ new[k] = args[k - 1]
          /\ k - 1 = Len(args) <=> k = Len(new)
      BY <1>3, <2>2
    <3> QED
      BY <3>1 DEF WellFormed
  <2> QED
    BY <2>1, <2>2
<1>5. WellFormed(new)
  BY <1>3, <1>4 DEF WellFormed
<1> QED
  BY <1>3, <1>5 DEF pair

(* A tag changes the last argument, the message, only.                     *)
LEMMA MessageInsertion ==
    ASSUME NEW args \in Seq(Argument), WellFormed(args), NEW id \in U32,
           NEW kind, kind # "StructuredNew",
           NEW new, new = WithInsertion(args, kind, id)
    PROVE  /\ new \in Seq(Argument)
           /\ Len(new) = Len(args)
           /\ new[Len(args)] = Message(id)
           /\ \A k \in 1 .. Len(args) - 1 : new[k] = args[k]
           /\ WellFormed(new)
<1>1. new = [args EXCEPT ![Len(args)] = Message(id)]
  BY MessageIsLast DEF WithInsertion
<1>2. Message(id) \in Argument /\ Message(id).token = "message"
  BY DEF Message, Argument
<1>3. Len(args) \in Nat /\ Len(args) \in DOMAIN args
  BY MessageIsLast
<1>4. /\ new \in Seq(Argument)
      /\ Len(new) = Len(args)
      /\ new[Len(args)] = Message(id)
      /\ \A k \in DOMAIN args : k # Len(args) => new[k] = args[k]
  BY <1>1, <1>2, <1>3
<1>5. ASSUME NEW k \in DOMAIN new
      PROVE  new[k].token = "message" <=> k = Len(new)
  <2>1. CASE k = Len(args)
    BY <1>2, <1>4, <2>1
  <2>2. CASE k # Len(args)
    <3>1. k \in DOMAIN args /\ new[k] = args[k]
      BY <1>4, <2>2
    <3> QED
      BY <1>4, <2>2, <3>1 DEF WellFormed
  <2> QED
    BY <2>1, <2>2
<1>6. new # <<>>
  BY <1>3, <1>4, MessageIsLast
<1>7. \A k \in 1 .. Len(args) - 1 : k \in DOMAIN args /\ k # Len(args)
  OBVIOUS
<1> QED
  BY <1>4, <1>5, <1>6, <1>7 DEF WellFormed

(* The separator of a new pair: what follows it without a target.          *)
LEMMA SuffixFacts ==
    ASSUME NEW args \in Seq(Argument), WellFormed(args),
           \A k \in 1 .. Len(args) - 1 : args[k].token = "kvp"
    PROVE  Suffix(args) = IF Len(args) = 1 THEN ";" ELSE ","
<1> DEFINE n == Len(args)
<1>1. /\ n \in Nat \ {0}
      /\ DOMAIN args = 1 .. n
      /\ args[n].token = "message"
      /\ \A k \in 1 .. n - 1 : args[k].token = "kvp"
  BY MessageIsLast
<1> HIDE DEF n
<1>2. CASE n = 1
  <2>1. KvpSpans(args) = {}
    BY <1>1, <1>2 DEF KvpSpans
  <2> QED
    BY <1>2, <2>1 DEF Suffix, n
<1>3. CASE n # 1
  <2>1. 1 \in 1 .. n /\ 1 \in 1 .. n - 1
    BY <1>1, <1>3
  <2>2. 1 \in KvpSpans(args)
    BY <1>1, <2>1 DEF KvpSpans
  <2> QED
    BY <1>3, <2>2 DEF Suffix, n
<1> QED
  BY <1>2, <1>3

(* The list with a new pair parses if the old one did and has no target.   *)
LEMMA PairParses ==
    ASSUME NEW args \in Seq(Argument), WellFormed(args), NEW id \in U32,
           Parses(args), args[1] # Target,
           NEW new, new = WithInsertion(args, "StructuredNew", id)
    PROVE  Parses(new)
<1>1. /\ new \in Seq(Argument)
      /\ Len(new) = Len(args) + 1
      /\ new[1] = Kvp("ref", id, Suffix(args))
      /\ \A k \in 1 .. Len(args) : new[k + 1] = args[k]
      /\ WellFormed(new)
  BY PairInsertion
<1>2. Before(args) = 0
  BY DEF Before
<1>3. \A k \in 1 .. Len(args) - 1 : PairParsed(args, k)
  BY <1>2, ParsesFacts
<1>4. Len(args) \in Nat /\ Len(args) > 0
  BY MessageIsLast
<1>5. /\ new[1].token = "kvp"
      /\ new[1].value = id
      /\ new[1].sep = Suffix(args)
  BY <1>1 DEF Kvp
<1>6. new[1] # Target
  <2>1. Target.token = "target"
    BY DEF Target
  <2> QED
    BY <1>5, <2>1
<1>7. Before(new) = 0
  BY <1>6 DEF Before
<1>8. Suffix(args) = ";" <=> 1 = Len(new) - 1
  <2>1. Suffix(args) = IF Len(args) = 1 THEN ";" ELSE ","
    BY <1>3, SuffixFacts DEF PairParsed
  <2>2. \A m, n \in Nat : m = n + 1 => (1 = m - 1 <=> n = 1)
    OBVIOUS
  <2>3. /\ Len(new) \in Nat
        /\ Len(args) \in Nat
        /\ Len(new) = Len(args) + 1
    BY <1>1, <1>4
  <2>4. 1 = Len(new) - 1 <=> Len(args) = 1
    BY <2>2, <2>3, Zenon
  <2> QED
    BY <2>1, <2>4
<1>9. ASSUME NEW k \in 1 .. Len(new) - 1
      PROVE  PairParsed(new, k)
  <2>1. CASE k = 1
    <3>1. id \in Nat
      BY RefModAssumption DEF U32
    <3>2. id # Opaque
      BY <3>1, ValueAssumption
    <3> QED
      BY <1>5, <1>8, <2>1, <3>2 DEF PairParsed
  <2>2. CASE k # 1
    <3>1. /\ k - 1 \in 1 .. Len(args) - 1
          /\ k - 1 \in 1 .. Len(args)
          /\ k - 1 + 1 = k
          /\ k - 1 = Len(args) - 1 <=> k = Len(new) - 1
      BY <1>1, <1>4, <2>2
    <3>2. new[k] = args[k - 1]
      BY <1>1, <3>1
    <3>3. PairParsed(args, k - 1)
      BY <1>3, <3>1
    <3> QED
      BY <3>1, <3>2, <3>3 DEF PairParsed
  <2> QED
    BY <2>1, <2>2
<1> QED
  BY <1>1, <1>7, <1>9, ParsesFacts

(* Then the new pair is the reference that the next run finds.             *)
LEMMA PairFound ==
    ASSUME NEW args \in Seq(Argument), WellFormed(args), NEW id \in U32,
           NEW new, new = WithInsertion(args, "StructuredNew", id)
    PROVE  StructuredEntry(new) = [kind |-> "StructuredPreExisting", reference |-> id]
<1>1. /\ Len(new) = Len(args) + 1
      /\ new[1] = Kvp("ref", id, Suffix(args))
      /\ new \in Seq(Argument)
  BY PairInsertion
<1>2. new[1].token = "kvp" /\ new[1].key = "ref" /\ new[1].value = id
  BY <1>1 DEF Kvp
<1>3. id # None /\ 1 \in DOMAIN new
  BY <1>1, NoneAssumption, RefModAssumption, MessageIsLast DEF U32
<1>4. 1 \in RefKvps(new)
  BY <1>2, <1>3 DEF RefKvps, KvpSpans
<1>5. \A k \in RefKvps(new) : k \in Nat /\ 1 <= k
  BY <1>1 DEF RefKvps, KvpSpans
<1>6. FirstRefKvp(new) = 1
  BY <1>4, <1>5 DEF FirstRefKvp
<1> QED
  BY <1>2, <1>4, <1>6 DEF StructuredEntry

(* The list with a new pair is accepted if the old one was without target. *)
LEMMA PairAccepted ==
    ASSUME NEW args \in Seq(Argument), Accepted(args), NEW id \in U32,
           args[1] # Target,
           NEW new, new = WithInsertion(args, "StructuredNew", id)
    PROVE  Accepted(new)
<1>0. WellFormed(args)
  BY AcceptedWellFormed
<1>1. /\ new \in Seq(Argument)
      /\ Len(new) = Len(args) + 1
      /\ new[1] = Kvp("ref", id, Suffix(args))
      /\ \A k \in 1 .. Len(args) : new[k + 1] = args[k]
      /\ WellFormed(new)
  BY <1>0, PairInsertion
<1>2. Before(args) = 0
  BY DEF Before
<1>3. \A k \in 1 .. Len(args) - 1 : PairTaken(args, k)
  BY <1>0, <1>2, AcceptedFacts
<1>4. Len(args) \in Nat /\ Len(args) > 0
  BY <1>0, MessageIsLast
<1>5. new[1].token = "kvp" /\ new[1].sep = Suffix(args)
  BY <1>1 DEF Kvp
<1>6. new[1] # Target
  <2>1. Target.token = "target"
    BY DEF Target
  <2> QED
    BY <1>5, <2>1
<1>7. Before(new) = 0
  BY <1>6 DEF Before
<1>8. Suffix(args) = IF 1 = Len(new) - 1 THEN ";" ELSE ","
  <2>1. Suffix(args) = IF Len(args) = 1 THEN ";" ELSE ","
    BY <1>0, <1>3, SuffixFacts DEF PairTaken
  <2>2. \A m, n \in Nat : m = n + 1 => (1 = m - 1 <=> n = 1)
    OBVIOUS
  <2>3. /\ Len(new) \in Nat
        /\ Len(args) \in Nat
        /\ Len(new) = Len(args) + 1
    BY <1>1, <1>4
  <2>4. 1 = Len(new) - 1 <=> Len(args) = 1
    BY <2>2, <2>3, Zenon
  <2> QED
    BY <2>1, <2>4
<1>9. ASSUME NEW k \in 1 .. Len(new) - 1
      PROVE  PairTaken(new, k)
  <2>1. CASE k = 1
    BY <1>5, <1>8, <2>1 DEF PairTaken
  <2>2. CASE k # 1
    <3>1. /\ k - 1 \in 1 .. Len(args) - 1
          /\ k - 1 \in 1 .. Len(args)
          /\ k - 1 + 1 = k
          /\ k - 1 = Len(args) - 1 <=> k = Len(new) - 1
      BY <1>1, <1>4, <2>2
    <3>2. new[k] = args[k - 1]
      BY <1>1, <3>1
    <3>3. PairTaken(args, k - 1)
      BY <1>3, <3>1
    <3> QED
      BY <3>1, <3>2, <3>3 DEF PairTaken
  <2> QED
    BY <2>1, <2>2
<1> QED
  BY <1>1, <1>7, <1>9, AcceptedFacts

(***************************************************************************)
(* A tag in the message changes nothing for the parser and the log crate   *)
(* and is what the next run finds.                                         *)
(***************************************************************************)
LEMMA MessageTagged ==
    ASSUME NEW args \in Seq(Argument), WellFormed(args), NEW id \in U32,
           NEW kind, kind # "StructuredNew",
           NEW new, new = WithInsertion(args, kind, id)
    PROVE  /\ Parses(args) => Parses(new)
           /\ Accepted(args) => Accepted(new)
           /\ StringEntry(new) = [kind |-> "String", reference |-> id]
<1>1. /\ new \in Seq(Argument)
      /\ Len(new) = Len(args)
      /\ new[Len(args)] = Message(id)
      /\ \A k \in 1 .. Len(args) - 1 : new[k] = args[k]
      /\ WellFormed(new)
  BY MessageInsertion
<1>2. /\ Len(args) \in Nat /\ Len(args) > 0
      /\ args[Len(args)].token = "message"
  BY MessageIsLast
<1>3. Before(new) = Before(args)
  <2>1. CASE Len(args) = 1
    <3>1. new[1].token = "message" /\ args[1].token = "message"
      BY <1>1, <1>2, <2>1 DEF Message
    <3>2. Target.token = "target"
      BY DEF Target
    <3> QED
      BY <3>1, <3>2 DEF Before
  <2>2. CASE Len(args) # 1
    <3>1. 1 \in 1 .. Len(args) - 1
      BY <1>2, <2>2, MoreThanOne
    <3> QED
      BY <1>1, <3>1 DEF Before
  <2> QED
    BY <2>1, <2>2
<1>4. \A k \in Before(args) + 1 .. Len(args) - 1 : new[k] = args[k]
  <2>1. Before(args) \in {0, 1}
    BY RestFacts
  <2>2. \A k \in Before(args) + 1 .. Len(args) - 1 : k \in 1 .. Len(args) - 1
    BY <2>1
  <2> QED
    BY <1>1, <2>2
<1>5. Parses(args) => Parses(new)
  <2>1. SUFFICES ASSUME Parses(args)
                 PROVE  \A k \in Before(args) + 1 .. Len(args) - 1 : PairParsed(new, k)
    BY <1>1, <1>3, ParsesFacts
  <2>2. \A k \in Before(args) + 1 .. Len(args) - 1 : PairParsed(args, k)
    BY <2>1, ParsesFacts
  <2> QED
    BY <1>1, <1>4, <2>2 DEF PairParsed
<1>6. Accepted(args) => Accepted(new)
  <2>1. SUFFICES ASSUME Accepted(args)
                 PROVE  \A k \in Before(args) + 1 .. Len(args) - 1 : PairTaken(new, k)
    BY <1>1, <1>3, AcceptedFacts
  <2>2. \A k \in Before(args) + 1 .. Len(args) - 1 : PairTaken(args, k)
    BY <2>1, AcceptedFacts
  <2> QED
    BY <1>1, <1>4, <2>2 DEF PairTaken
<1>7. StringEntry(new) = [kind |-> "String", reference |-> id]
  <2>1. MessageOf(new) = Len(args)
    BY <1>1, MessageIsLast
  <2>2. new[Len(args)].reference = id
    BY <1>1 DEF Message
  <2> QED
    BY <2>1, <2>2 DEF StringEntry
<1> QED
  BY <1>5, <1>6, <1>7

(***************************************************************************)
(* Either insertion puts one number, id, at some place p; the arguments    *)
(* after it may have moved by one, and no target has gone.                 *)
(***************************************************************************)
LEMMA Insertion ==
    ASSUME NEW args \in Seq(Argument), WellFormed(args), NEW id \in U32, NEW kind,
           NEW new, new = WithInsertion(args, kind, id)
    PROVE  /\ new \in Seq(Argument)
           /\ WellFormed(new)
           /\ \E p \in DOMAIN new, s \in {0, 1} :
                /\ Number(new[p]) = id
                /\ \A k \in DOMAIN new : k # p =>
                    k - s \in DOMAIN args /\ new[k] = args[k - s]
           /\ \A k \in DOMAIN args : args[k] = Target =>
                \E l \in DOMAIN new : new[l] = Target
<1>1. /\ Len(args) \in Nat /\ Len(args) > 0
      /\ args[Len(args)].token = "message"
  BY MessageIsLast
<1>2. args[Len(args)] # Target
  <2>1. Target.token = "target"
    BY DEF Target
  <2> QED
    BY <1>1, <2>1
<1>3. CASE kind = "StructuredNew"
  <2>1. /\ new \in Seq(Argument)
        /\ Len(new) = Len(args) + 1
        /\ new[1] = Kvp("ref", id, Suffix(args))
        /\ \A k \in 1 .. Len(args) : new[k + 1] = args[k]
        /\ WellFormed(new)
    BY <1>3, PairInsertion
  <2>2. Number(new[1]) = id
    BY <2>1 DEF Number, Kvp
  <2>3. ASSUME NEW k \in DOMAIN new, k # 1
        PROVE  k - 1 \in DOMAIN args /\ new[k] = args[k - 1]
    <3>1. k - 1 \in 1 .. Len(args) /\ (k - 1) + 1 = k
      BY <2>1, <2>3
    <3> QED
      BY <2>1, <3>1
  <2>4. 1 \in DOMAIN new
    BY <1>1, <2>1
  <2>5. \A k \in DOMAIN args : k + 1 \in DOMAIN new /\ new[k + 1] = args[k]
    BY <2>1
  <2>6. \E p \in DOMAIN new, s \in {0, 1} :
            /\ Number(new[p]) = id
            /\ \A k \in DOMAIN new : k # p =>
                k - s \in DOMAIN args /\ new[k] = args[k - s]
    BY <2>2, <2>3, <2>4
  <2>7. \A k \in DOMAIN args : args[k] = Target =>
            \E l \in DOMAIN new : new[l] = Target
    BY <2>5
  <2> QED
    BY <2>1, <2>6, <2>7
<1>4. CASE kind # "StructuredNew"
  <2>1. /\ new \in Seq(Argument)
        /\ Len(new) = Len(args)
        /\ new[Len(args)] = Message(id)
        /\ \A k \in 1 .. Len(args) - 1 : new[k] = args[k]
        /\ WellFormed(new)
    BY <1>4, MessageInsertion
  <2>2. Number(new[Len(args)]) = id
    BY <2>1 DEF Number, Message
  <2>3. ASSUME NEW k \in DOMAIN new, k # Len(args)
        PROVE  k - 0 \in DOMAIN args /\ new[k] = args[k - 0]
    <3>1. k \in 1 .. Len(args) - 1 /\ k - 0 = k
      BY <2>1, <2>3
    <3> QED
      BY <2>1, <3>1
  <2>4. Len(args) \in DOMAIN new
    BY <1>1, <2>1
  <2>5. \A k \in DOMAIN args : args[k] = Target =>
            k \in DOMAIN new /\ new[k] = Target
    <3>1. \A k \in DOMAIN args : k # Len(args) => k \in 1 .. Len(args) - 1
      OBVIOUS
    <3> QED
      BY <1>2, <2>1, <3>1
  <2>6. \E p \in DOMAIN new, s \in {0, 1} :
            /\ Number(new[p]) = id
            /\ \A k \in DOMAIN new : k # p =>
                k - s \in DOMAIN args /\ new[k] = args[k - s]
    BY <2>2, <2>3, <2>4
  <2> QED
    BY <2>1, <2>5, <2>6
<1> QED
  BY <1>3, <1>4

-----------------------------------------------------------------------------
(* Facts about what find returns in a file.                                *)

Args(i) == lines[i].statement.args

(* What TypeOK says of the statement of a line.                           *)
LEMMA LineFacts ==
    ASSUME TypeOK, NEW i \in Lines, lines[i].statement # None
    PROVE  /\ lines[i] \in Line
           /\ lines[i].statement \in Statement
           /\ Args(i) \in Seq(Argument)
           /\ WellFormed(Args(i))
<1>1. lines[i] \in Line
  BY DEF TypeOK
<1>2. lines[i].statement \in Statement
  BY <1>1 DEF Line
<1>3. Args(i) \in Seq(Argument)
  BY <1>2 DEF Args, Statement
<1>4. WellFormed(Args(i))
  BY DEF TypeOK, Args
<1> QED
  BY <1>1, <1>2, <1>3, <1>4

(* A string entry has the reference of the message, a u32 or none.        *)
LEMMA MessageNumber ==
    ASSUME NEW args \in Seq(Argument), WellFormed(args)
    PROVE  /\ StringEntry(args).kind = "String"
           /\ StringEntry(args).reference \in U32 \cup {None}
<1>1. /\ MessageOf(args) = Len(args)
      /\ args[Len(args)].token = "message"
      /\ Len(args) \in DOMAIN args
  BY MessageIsLast
<1>2. args[Len(args)] \in Argument
  BY <1>1
<1>3. args[Len(args)].reference \in U32 \cup {None}
  BY <1>1, <1>2, ArgumentFacts
<1> QED
  BY <1>1, <1>3 DEF StringEntry

(* Every reference found is a u32.                                         *)
LEMMA FoundInU32 ==
    ASSUME TypeOK
    PROVE  Found \subseteq U32
<1>1. ASSUME NEW i \in Lines
      PROVE  Find(i).reference \in U32 \cup {None}
  <2>1. CASE Find(i) = AbsentEntry
    BY <2>1 DEF AbsentEntry
  <2>2. CASE lines[i].statement # None /\ Find(i) = StructuredEntry(Args(i))
    BY <2>2 DEF StructuredEntry
  <2>3. CASE lines[i].statement # None /\ Find(i) = StringEntry(Args(i))
    BY <2>3, LineFacts, MessageNumber
  <2> QED
    BY <2>1, <2>2, <2>3 DEF Find, FindIn, Args
<1> QED
  BY <1>1 DEF Found

(* What it means that find wants a reference for a line.                   *)
LEMMA MissingFacts ==
    ASSUME TypeOK, NEW i \in Missing
    PROVE  /\ i \in Lines
           /\ lines[i].statement # None
           /\ ~Directive(lines, i, "ignore")
           /\ MacroOfInterest(lines[i].statement.macro)
           /\ Parses(Args(i))
           /\ \/ /\ structured /\ ~Directive(lines, i, "no_kvp")
                 /\ Find(i).kind = "StructuredNew"
              \/ /\ ~(structured /\ ~Directive(lines, i, "no_kvp"))
                 /\ Find(i).kind = "String"
<1>1. i \in Lines /\ NeedsReference(Find(i))
  BY DEF Missing
<1>2. Find(i) # AbsentEntry
  BY <1>1 DEF NeedsReference, AbsentEntry
<1>3. /\ lines[i].statement # None
      /\ ~Directive(lines, i, "ignore")
      /\ MacroOfInterest(lines[i].statement.macro)
      /\ Parses(Args(i))
  BY <1>2 DEF Find, FindIn, Args
<1>4. Find(i) = IF structured /\ ~Directive(lines, i, "no_kvp")
                THEN StructuredEntry(Args(i)) ELSE StringEntry(Args(i))
  BY <1>3 DEF Find, FindIn, Args
<1>5. CASE structured /\ ~Directive(lines, i, "no_kvp")
  <2>1. Find(i) = StructuredEntry(Args(i))
    BY <1>4, <1>5
  <2>2. ~(Find(i).kind = "StructuredPreExisting" /\ Find(i).reference = None)
    BY <1>1 DEF NeedsReference, UsableReferencePosition, Exists
  <2>3. Find(i).reference = None
    BY <1>1 DEF NeedsReference, Exists
  <2>4. Find(i).kind = "StructuredNew"
    BY <2>1, <2>2, <2>3 DEF StructuredEntry
  <2> QED
    BY <1>1, <1>3, <1>5, <2>4
<1>6. CASE ~(structured /\ ~Directive(lines, i, "no_kvp"))
  <2>1. Find(i).kind = "String"
    BY <1>4, <1>6 DEF StringEntry
  <2> QED
    BY <1>1, <1>3, <1>6, <2>1
<1> QED
  BY <1>5, <1>6

-----------------------------------------------------------------------------
(* Facts about a run.                                                      *)

(* A run starts beyond every reference it found.                           *)
LEMMA FirstFreeFacts ==
    ASSUME TypeOK
    PROVE  /\ FirstFree \in Nat
           /\ lock # None => FirstFree = lock
           /\ lock = None => \A r \in Found : r < FirstFree
<1>1. CASE lock # None
  BY <1>1, RefModAssumption DEF FirstFree, TypeOK
<1>2. CASE lock = None
  <2>1. FirstFree = After(Found)
    BY <1>2 DEF FirstFree
  <2>2. After(Found) \in 1 .. RefMod /\ \A r \in Found : r < After(Found)
    BY FoundInU32, AfterIsBeyond
  <2> QED
    BY <1>2, <2>1, <2>2, RefModAssumption
<1> QED
  BY <1>1, <1>2

MissingBefore(i) == {j \in Missing : j < i}

(* The numbers that a run gives are consecutive: distinct, and below the   *)
(* number it leaves in the lock file.                                      *)
LEMMA NewReferenceFacts ==
    ASSUME TypeOK
    PROVE  /\ Cardinality(Missing) \in Nat
           /\ \A i \in Missing :
                /\ NewReference(i) \in Nat
                /\ FirstFree <= NewReference(i)
                /\ NewReference(i) < FirstFree + Cardinality(Missing)
           /\ \A i, j \in Missing : i # j => NewReference(i) # NewReference(j)
<1>1. Missing \subseteq Nat /\ Missing \subseteq Lines
  BY NumLinesAssumption DEF Missing, Lines
<1>2. IsFiniteSet(Missing)
  <2>1. IsFiniteSet(Lines)
    BY NumLinesAssumption, FS_Interval DEF Lines
  <2> QED
    BY <1>1, <2>1, FS_Subset
<1>3. Cardinality(Missing) \in Nat
  BY <1>2, FS_CardinalityType
<1>4. FirstFree \in Nat
  BY FirstFreeFacts
<1>5. ASSUME NEW i \in Missing
      PROVE  /\ MissingBefore(i) \in SUBSET Missing
             /\ i \notin MissingBefore(i)
             /\ IsFiniteSet(MissingBefore(i))
             /\ Cardinality(MissingBefore(i)) \in Nat
             /\ Cardinality(MissingBefore(i)) < Cardinality(Missing)
             /\ NewReference(i) = FirstFree + Cardinality(MissingBefore(i))
  <2>1. MissingBefore(i) \in SUBSET Missing /\ i \notin MissingBefore(i)
    BY <1>1 DEF MissingBefore
  <2>2. /\ IsFiniteSet(MissingBefore(i))
        /\ Cardinality(MissingBefore(i)) <= Cardinality(Missing)
        /\ Cardinality(Missing) = Cardinality(MissingBefore(i))
                => Missing = MissingBefore(i)
    BY <1>2, <2>1, FS_Subset
  <2>3. Cardinality(MissingBefore(i)) \in Nat
    BY <2>2, FS_CardinalityType
  <2>4. Cardinality(Missing) # Cardinality(MissingBefore(i))
    BY <2>1, <2>2
  <2>5. \A m, n \in Nat : m <= n /\ n # m => m < n
    OBVIOUS
  <2>6. Cardinality(MissingBefore(i)) < Cardinality(Missing)
    BY <1>3, <2>2, <2>3, <2>4, <2>5
  <2>7. NewReference(i) = FirstFree + Cardinality(MissingBefore(i))
    BY DEF NewReference, MissingBefore
  <2> QED
    BY <2>1, <2>2, <2>3, <2>6, <2>7
<1>6. ASSUME NEW i \in Missing, NEW j \in Missing, i < j
      PROVE  NewReference(i) # NewReference(j)
  <2>5. ASSUME NEW k \in MissingBefore(i)
        PROVE  k \in MissingBefore(j)
    <3>1. k \in Missing /\ k < i
      BY DEF MissingBefore
    <3>2. k \in Nat /\ i \in Nat /\ j \in Nat
      BY <1>1, <3>1
    <3>3. k < j
      BY <1>6, <3>1, <3>2
    <3> QED
      BY <3>1, <3>3 DEF MissingBefore
  <2>1. MissingBefore(i) \in SUBSET MissingBefore(j)
    BY <2>5
  <2>2. i \in MissingBefore(j) /\ i \notin MissingBefore(i)
    BY <1>5, <1>6 DEF MissingBefore
  <2>3. Cardinality(MissingBefore(i)) # Cardinality(MissingBefore(j))
    BY <1>5, <2>1, <2>2, FS_Subset
  <2>4. \A m, n \in Nat : m # n => FirstFree + m # FirstFree + n
    BY <1>4
  <2> QED
    BY <1>5, <2>3, <2>4
<1>7. ASSUME NEW i \in Missing
      PROVE  /\ NewReference(i) \in Nat
             /\ FirstFree <= NewReference(i)
             /\ NewReference(i) < FirstFree + Cardinality(Missing)
  <2>1. \A f, m, n \in Nat : m < n => /\ f + m \in Nat
                                      /\ f <= f + m
                                      /\ f + m < f + n
    OBVIOUS
  <2> QED
    BY <1>3, <1>4, <1>5, <2>1
<1>8. ASSUME NEW i \in Missing, NEW j \in Missing, i # j
      PROVE  NewReference(i) # NewReference(j)
  <2>1. i < j \/ j < i
    BY <1>1, <1>8
  <2> QED
    BY <1>6, <2>1
<1> QED
  BY <1>3, <1>7, <1>8

(* What a run writes into the file.                                        *)
LEMMA GenerateFacts ==
    ASSUME TypeOK, Generate
    PROVE  /\ \A i \in Missing : NewReference(i) \in U32
           /\ DOMAIN lines' = Lines
           /\ \A i \in Lines : i \notin Missing => lines'[i] = lines[i]
           /\ \A i \in Missing :
                /\ lines'[i].comment = lines[i].comment
                /\ lines'[i].statement.macro = lines[i].statement.macro
                /\ Args(i)' = WithInsertion(Args(i), Find(i).kind, NewReference(i))
                /\ Args(i)' \in Seq(Argument)
                /\ WellFormed(Args(i)')
                /\ lines'[i].statement \in Statement
                /\ lines'[i] \in Line
<1>1. ASSUME NEW i \in Missing
      PROVE  NewReference(i) \in U32
  <2>1. FirstFree + Cardinality(Missing) < RefMod
    BY DEF Generate
  <2>2. \A r, n \in Nat : r < n /\ n < RefMod => r \in U32
    BY RefModAssumption DEF U32
  <2> QED
    BY <2>1, <2>2, FirstFreeFacts, NewReferenceFacts
<1>2. lines' = [i \in Lines |->
        IF i \notin Missing THEN lines[i]
        ELSE [lines[i] EXCEPT !.statement.args =
                WithInsertion(@, Find(i).kind, NewReference(i))]]
  BY DEF Generate
<1>3. DOMAIN lines' = Lines
  BY <1>2
<1>4. ASSUME NEW i \in Lines, i \notin Missing
      PROVE  lines'[i] = lines[i]
  BY <1>2, <1>4
<1>5. ASSUME NEW i \in Missing
      PROVE  /\ lines'[i].comment = lines[i].comment
             /\ lines'[i].statement.macro = lines[i].statement.macro
             /\ Args(i)' = WithInsertion(Args(i), Find(i).kind, NewReference(i))
             /\ Args(i)' \in Seq(Argument)
             /\ WellFormed(Args(i)')
             /\ lines'[i].statement \in Statement
             /\ lines'[i] \in Line
  <2> DEFINE new == WithInsertion(Args(i), Find(i).kind, NewReference(i))
             old == lines[i].statement
  <2>1. i \in Lines /\ old # None
    BY MissingFacts
  <2>2. lines[i] \in Line /\ old \in Statement /\ Args(i) \in Seq(Argument)
        /\ WellFormed(Args(i))
    BY <2>1, LineFacts
  <2>3. new \in Seq(Argument) /\ WellFormed(new)
    BY <1>1, <2>2, Insertion
  <2>4. lines'[i] = [lines[i] EXCEPT !.statement = [old EXCEPT !.args = new]]
    BY <1>2, <2>1 DEF Args
  <2> HIDE DEF new, old
  <2>5. /\ [old EXCEPT !.args = new] \in Statement
        /\ [old EXCEPT !.args = new].macro = old.macro
        /\ [old EXCEPT !.args = new].args = new
    BY <2>2, <2>3 DEF Statement
  <2>6. /\ lines'[i] \in Line
        /\ lines'[i].comment = lines[i].comment
        /\ lines'[i].statement = [old EXCEPT !.args = new]
    BY <2>2, <2>4, <2>5 DEF Line
  <2>7. Args(i)' = new
    BY <2>5, <2>6 DEF Args
  <2> QED
    BY <2>3, <2>5, <2>6, <2>7 DEF new, old
<1> QED
  BY <1>1, <1>3, <1>4, <1>5

(* Insertions change no directive.                                         *)
LEMMA DirectivesStay ==
    ASSUME TypeOK, Generate, NEW i \in Lines, NEW name
    PROVE  Directive(lines, i, name)' <=> Directive(lines, i, name)
<1>1. ASSUME NEW j \in Lines
      PROVE  /\ lines'[j].comment = lines[j].comment
             /\ lines'[j].statement = None <=> lines[j].statement = None
  <2>1. CASE j \in Missing
    <3>1. lines'[j].statement # None
      BY <2>1, GenerateFacts, StatementsAssumption
    <3> QED
      BY <2>1, <3>1, GenerateFacts, MissingFacts
  <2>2. CASE j \notin Missing
    BY <2>2, GenerateFacts
  <2> QED
    BY <2>1, <2>2
<1>2. \A j \in 1 .. i - 1 : j \in Lines
  BY NumLinesAssumption DEF Lines
<1>3. \A j \in 1 .. i - 1 : \A l \in j + 1 .. i - 1 : l \in Lines
  BY NumLinesAssumption DEF Lines
<1>4. \A j \in Lines : Blank(lines'[j]) <=> Blank(lines[j])
  BY <1>1 DEF Blank
<1> QED
  BY <1>1, <1>2, <1>3, <1>4 DEF Directive

(***************************************************************************)
(* What the next run finds in a line, for each of the three cases.         *)
(***************************************************************************)
LEMMA OthersFoundAgain ==
    ASSUME TypeOK, Generate, NEW i \in Lines, i \notin Missing
    PROVE  Find(i)' = Find(i)
<1>1. lines'[i] = lines[i] /\ structured' = structured
  BY GenerateFacts DEF Generate
<1>2. /\ Directive(lines', i, "ignore") <=> Directive(lines, i, "ignore")
      /\ Directive(lines', i, "no_kvp") <=> Directive(lines, i, "no_kvp")
  BY DirectivesStay
<1> QED
  BY <1>1, <1>2 DEF Find, FindIn

(* What find returns, after a run, for a line that a reference was put into. *)
LEMMA NewFindIn ==
    ASSUME TypeOK, Generate, NEW i \in Missing, Parses(Args(i)')
    PROVE  Find(i)' = IF structured /\ ~Directive(lines, i, "no_kvp")
                      THEN StructuredEntry(Args(i)') ELSE StringEntry(Args(i)')
<1>1. /\ i \in Lines
      /\ ~Directive(lines, i, "ignore")
      /\ MacroOfInterest(lines[i].statement.macro)
  BY MissingFacts
<1>2. /\ lines'[i].statement # None
      /\ MacroOfInterest(lines'[i].statement.macro)
  BY <1>1, GenerateFacts, StatementsAssumption
<1>3. /\ Directive(lines', i, "ignore") <=> Directive(lines, i, "ignore")
      /\ Directive(lines', i, "no_kvp") <=> Directive(lines, i, "no_kvp")
  BY <1>1, DirectivesStay
<1>4. structured' = structured
  BY DEF Generate
<1>5. Parses(lines'[i].statement.args)
  BY DEF Args
<1>6. Find(i)' = IF structured' /\ ~Directive(lines', i, "no_kvp")
                 THEN StructuredEntry(lines'[i].statement.args)
                 ELSE StringEntry(lines'[i].statement.args)
  BY <1>1, <1>2, <1>3, <1>5 DEF Find, FindIn
<1> QED
  BY <1>3, <1>4, <1>6 DEF Args

(* A reference inserted is found, in the kind of entry it belongs to.     *)
LEMMA MissingFoundAgain ==
    ASSUME TypeOK, Generate, NEW i \in Missing,
           ~(Find(i).kind = "StructuredNew" /\ HasTarget(i))
    PROVE  Find(i)' = WithReference(Find(i), NewReference(i))
<1> DEFINE id == NewReference(i)
           kind == Find(i).kind
<1>1. /\ i \in Lines
      /\ lines[i].statement # None
      /\ Parses(Args(i))
      /\ \/ structured /\ ~Directive(lines, i, "no_kvp") /\ kind = "StructuredNew"
         \/ ~(structured /\ ~Directive(lines, i, "no_kvp")) /\ kind = "String"
  BY MissingFacts
<1>2. Args(i) \in Seq(Argument) /\ WellFormed(Args(i))
  BY <1>1, LineFacts
<1>3. id \in U32 /\ Args(i)' = WithInsertion(Args(i), kind, id)
  BY GenerateFacts
<1> HIDE DEF id, kind
<1>4. CASE structured /\ ~Directive(lines, i, "no_kvp") /\ kind = "StructuredNew"
  <2>1. Args(i)[1] # Target
    <3>1. 1 \in DOMAIN Args(i)
      BY <1>2, MessageIsLast
    <3>2. Args(i)[1] \in {Args(i)[k] : k \in DOMAIN Args(i)}
      BY <3>1
    <3>3. ~HasTarget(i)
      BY <1>4 DEF kind
    <3> QED
      BY <1>1, <3>2, <3>3 DEF HasTarget, Args
  <2>2. Parses(Args(i)')
    BY <1>1, <1>2, <1>3, <1>4, <2>1, PairParses
  <2>3. StructuredEntry(Args(i)') = [kind |-> "StructuredPreExisting", reference |-> id]
    BY <1>2, <1>3, <1>4, PairFound
  <2>4. Find(i)' = StructuredEntry(Args(i)')
    BY <1>4, <2>2, NewFindIn
  <2>5. WithReference(Find(i), id)
            = [kind |-> "StructuredPreExisting", reference |-> id]
    BY <1>4 DEF WithReference, ReferencedKind, kind
  <2> QED
    BY <2>3, <2>4, <2>5 DEF id
<1>5. CASE ~(structured /\ ~Directive(lines, i, "no_kvp")) /\ kind = "String"
  <2>1. /\ Parses(Args(i)')
        /\ StringEntry(Args(i)') = [kind |-> "String", reference |-> id]
    BY <1>1, <1>2, <1>3, <1>5, MessageTagged
  <2>2. Find(i)' = StringEntry(Args(i)')
    BY <1>5, <2>1, NewFindIn
  <2>3. WithReference(Find(i), id) = [kind |-> "String", reference |-> id]
    BY <1>5 DEF WithReference, ReferencedKind, kind
  <2> QED
    BY <2>1, <2>2, <2>3 DEF id
<1> QED
  BY <1>1, <1>4, <1>5

-----------------------------------------------------------------------------
(***************************************************************************)
(* Initially, and after every step, the file is well formed.               *)
(***************************************************************************)
LEMMA InitFileFacts ==
    ASSUME Init, NEW i \in Lines
    PROVE  /\ lines \in [Lines -> Line]
           /\ lines[i].statement # None =>
                /\ Accepted(lines[i].statement.args)
                /\ WellFormed(lines[i].statement.args)
<1>1. /\ lines \in [Lines -> Line]
      /\ lines[i].statement # None => Accepted(lines[i].statement.args)
  BY InitFilesAssumption DEF Init
<1>2. ASSUME lines[i].statement # None
      PROVE  lines[i].statement.args \in Seq(Argument)
  <2>1. lines[i].statement \in Statement
    BY <1>1, <1>2 DEF Line
  <2> QED
    BY <2>1 DEF Statement
<1> QED
  BY <1>1, <1>2, AcceptedWellFormed

(* The references in the text are u32s.                                    *)
LEMMA ReferencesInU32 ==
    ASSUME NEW line
    PROVE  References(line) \subseteq U32
  BY DEF References, Numbered

(* The variables have their types at the start.                           *)
LEMMA InitTypeOK ==
    ASSUME Init
    PROVE  TypeOK
<1>1. lines \in [Lines -> Line]
  BY InitFilesAssumption DEF Init
<1>2. \A i \in Lines : lines[i].statement # None => WellFormed(lines[i].statement.args)
  BY InitFileFacts
<1>3. lock \in 0 .. RefMod \cup {None}
  <2> DEFINE earlier == UNION {References(lines[i]) : i \in Lines}
  <2>1. earlier \subseteq U32
    BY ReferencesInU32
  <2>2. After(earlier) \in 1 .. RefMod
    BY <2>1, AfterIsBeyond
  <2>3. lock = IF use_cache /\ earlier # {} THEN After(earlier) ELSE None
    BY DEF Init
  <2> HIDE DEF earlier
  <2>4. After(earlier) \in 0 .. RefMod
    BY <2>2, RefModAssumption
  <2> QED
    BY <2>3, <2>4
<1>4. structured \in BOOLEAN /\ use_cache \in BOOLEAN
  BY DEF Init
<1>5. overlooked \in BOOLEAN
  BY DEF Init
<1>6. edits \in 0 .. MaxEdits
  BY MaxEditsAssumption DEF Init
<1> QED
  BY <1>1, <1>2, <1>3, <1>4, <1>5, <1>6 DEF TypeOK

(* Initially the lock file is ahead.                                       *)
LEMMA InitLockAhead ==
    ASSUME Init
    PROVE  LockAhead
<1> DEFINE earlier == UNION {References(lines[i]) : i \in Lines}
<1>1. earlier \subseteq U32
  BY ReferencesInU32
<1>2. \A r \in earlier : r < After(earlier)
  BY <1>1, AfterIsBeyond
<1>3. lock = IF use_cache /\ earlier # {} THEN After(earlier) ELSE None
  BY DEF Init
<1>4. After(earlier) # None
  <2>1. After(earlier) \in Nat
    BY <1>1, AfterIsBeyond, RefModAssumption
  <2> QED
    BY <2>1, NoneAssumption
<1>5. ASSUME use_cache, NEW i \in Lines, NEW r \in References(lines[i])
      PROVE  lock # None /\ r < lock
  <2>1. r \in earlier
    OBVIOUS
  <2> HIDE DEF earlier
  <2>2. lock = After(earlier)
    BY <1>3, <1>5, <2>1
  <2> QED
    BY <1>2, <1>4, <2>1, <2>2
<1>6. ~use_cache => lock = None
  BY <1>3
<1> QED
  BY <1>5, <1>6 DEF LockAhead

(* A developer's statement is well formed and carries no number.           *)
LEMMA StatementFacts ==
    ASSUME NEW s \in Statements
    PROVE  /\ s \in Statement
           /\ s # None
           /\ Accepted(s.args)
           /\ WellFormed(s.args)
           /\ \A k \in DOMAIN s.args : Number(s.args[k]) \notin U32
<1>1. s \in Statement /\ Accepted(s.args)
  BY StatementsAssumption
<1>2. s.args \in Seq(Argument)
  BY <1>1 DEF Statement
<1> QED
  BY <1>1, <1>2, AcceptedWellFormed, StatementsAssumption

(***************************************************************************)
(* An edit leaves every line as it was but one, which has another comment  *)
(* or another statement, without a number.                                 *)
(***************************************************************************)
EditedLine(i) ==
    \/ lines'[i].statement = lines[i].statement
    \/ lines'[i].statement = None
    \/ lines'[i].statement \in Statements

(* What a step of the developers leaves of the file.                      *)
LEMMA EditFacts ==
    ASSUME TypeOK, Next, ~Generate, ~DeleteLock
    PROVE  /\ lines' \in [Lines -> Line]
           /\ \A i \in Lines : EditedLine(i)
           /\ structured' \in BOOLEAN
           /\ edits' \in 0 .. MaxEdits
           /\ UNCHANGED <<use_cache, lock, overlooked>>
<1>1. ASSUME NEW text, NEW mode \in BOOLEAN, Edit(text, mode)
      PROVE  /\ lines' = text
             /\ structured' \in BOOLEAN
             /\ edits' \in 0 .. MaxEdits
             /\ UNCHANGED <<use_cache, lock, overlooked>>
  <2>1. edits \in 0 .. MaxEdits /\ edits < MaxEdits /\ edits' = edits + 1
    BY <1>1 DEF Edit, TypeOK
  <2>2. edits' \in 0 .. MaxEdits
    BY <2>1, MaxEditsAssumption
  <2> QED
    BY <1>1, <2>2 DEF Edit
<1>2. structured \in BOOLEAN /\ lines \in [Lines -> Line]
  BY DEF TypeOK
<1>3. ASSUME NEW i \in Lines, NEW s \in Statements \cup {None}, WriteLine(i, s)
      PROVE  /\ lines' \in [Lines -> Line]
             /\ \A j \in Lines : EditedLine(j)
             /\ structured' \in BOOLEAN
             /\ edits' \in 0 .. MaxEdits
             /\ UNCHANGED <<use_cache, lock, overlooked>>
  <2>1. Edit([lines EXCEPT ![i].statement = s], structured)
    BY <1>3 DEF WriteLine
  <2>2. lines' = [lines EXCEPT ![i] = [lines[i] EXCEPT !.statement = s]]
    BY <1>1, <1>2, <2>1
  <2>3. s \in Statement \cup {None}
    BY StatementFacts
  <2>4. lines[i] \in Line
    BY <1>2
  <2>5. [lines[i] EXCEPT !.statement = s] \in Line
    BY <2>3, <2>4 DEF Line
  <2>6. lines' \in [Lines -> Line]
    BY <1>2, <2>2, <2>5
  <2>7. [lines[i] EXCEPT !.statement = s].statement = s
    BY <2>4 DEF Line
  <2>8. \A j \in Lines : EditedLine(j)
    BY <1>2, <2>2, <2>7 DEF EditedLine
  <2> QED
    BY <1>1, <1>2, <2>1, <2>6, <2>8
<1>4. ASSUME NEW i \in Lines, NEW c \in Comments, WriteComment(i, c)
      PROVE  /\ lines' \in [Lines -> Line]
             /\ \A j \in Lines : EditedLine(j)
             /\ structured' \in BOOLEAN
             /\ edits' \in 0 .. MaxEdits
             /\ UNCHANGED <<use_cache, lock, overlooked>>
  <2>1. Edit([lines EXCEPT ![i].comment = c], structured)
    BY <1>4 DEF WriteComment
  <2>2. lines' = [lines EXCEPT ![i] = [lines[i] EXCEPT !.comment = c]]
    BY <1>1, <1>2, <2>1
  <2>3. lines[i] \in Line
    BY <1>2
  <2>4. /\ [lines[i] EXCEPT !.comment = c] \in Line
        /\ [lines[i] EXCEPT !.comment = c].statement = lines[i].statement
    BY <2>3 DEF Line
  <2>5. lines' \in [Lines -> Line]
    BY <1>2, <2>2, <2>4
  <2>6. \A j \in Lines : EditedLine(j)
    BY <1>2, <2>2, <2>4 DEF EditedLine
  <2> QED
    BY <1>1, <1>2, <2>1, <2>5, <2>6
<1>5. ASSUME SwitchStructured
      PROVE  /\ lines' \in [Lines -> Line]
             /\ \A j \in Lines : EditedLine(j)
             /\ structured' \in BOOLEAN
             /\ edits' \in 0 .. MaxEdits
             /\ UNCHANGED <<use_cache, lock, overlooked>>
  <2>1. Edit(lines, ~structured) /\ (~structured) \in BOOLEAN
    BY <1>2, <1>5 DEF SwitchStructured
  <2>2. lines' = lines
    BY <1>1, <2>1
  <2>3. \A j \in Lines : EditedLine(j)
    BY <2>2 DEF EditedLine
  <2> QED
    BY <1>1, <1>2, <2>1, <2>2, <2>3
<1> QED
  BY <1>3, <1>4, <1>5 DEF Next

(* What a run does to the history: only one without a number scans.        *)
LEMMA GenerateScans ==
    ASSUME Generate
    PROVE  /\ lock # None => overlooked' = overlooked
           /\ lock = None => (overlooked' <=>
                ~(NothingOverlooked /\ DistinctIn(lines))
                    /\ (overlooked \/ ~NothingOverlooked))
           /\ overlooked' \in {overlooked, TRUE, FALSE}
<1>1. ASSUME lock # None
      PROVE  overlooked' = overlooked
  BY <1>1 DEF Generate
<1>2. ASSUME lock = None
      PROVE  /\ overlooked' <=> ~(NothingOverlooked /\ DistinctIn(lines))
                                  /\ (overlooked \/ ~NothingOverlooked)
             /\ overlooked' \in {TRUE, FALSE}
  <2>1. overlooked' = IF NothingOverlooked /\ DistinctIn(lines) THEN FALSE
                      ELSE overlooked \/ ~NothingOverlooked
    BY <1>2 DEF Generate, Scan
  <2>2. CASE NothingOverlooked /\ DistinctIn(lines)
    BY <2>1, <2>2
  <2>3. CASE ~(NothingOverlooked /\ DistinctIn(lines))
    <3>1. overlooked' = (overlooked \/ ~NothingOverlooked)
      BY <2>1, <2>3
    <3> QED
      BY <2>3, <3>1, Zenon
  <2> QED
    BY <2>2, <2>3
<1> QED
  BY <1>1, <1>2, Zenon

(* Every step keeps the types.                                             *)
LEMMA NextTypeOK ==
    ASSUME TypeOK, [Next]_vars
    PROVE  TypeOK'
<1>1. CASE Generate
  <2>1. lines' \in [Lines -> Line]
    <3>1. \A i \in Lines : lines'[i] \in Line
      BY <1>1, GenerateFacts DEF TypeOK
    <3>2. lines' = [i \in Lines |-> lines'[i]]
      BY <1>1 DEF Generate
    <3> QED
      BY <3>1, <3>2
  <2>2. ASSUME NEW i \in Lines, lines'[i].statement # None
        PROVE  WellFormed(lines'[i].statement.args)
    <3>1. CASE i \in Missing
      <4>1. WellFormed(Args(i)')
        BY <1>1, <3>1, GenerateFacts
      <4> QED
        BY <4>1 DEF Args
    <3>2. CASE i \notin Missing
      BY <1>1, <2>2, <3>2, GenerateFacts DEF TypeOK
    <3> QED
      BY <3>1, <3>2
  <2>3. UNCHANGED <<structured, use_cache, edits>>
    BY <1>1 DEF Generate
  <2>4. lock' \in 0 .. RefMod \cup {None}
    <3> DEFINE next == FirstFree + Cardinality(Missing)
    <3>1. next \in Nat /\ next < RefMod
      BY <1>1, FirstFreeFacts, NewReferenceFacts DEF Generate
    <3>2. lock' = IF use_cache THEN next ELSE None
      BY <1>1 DEF Generate, Cached
    <3> HIDE DEF next
    <3>3. next \in 0 .. RefMod
      BY <3>1, RefModAssumption
    <3> QED
      BY <3>2, <3>3
  <2>5. overlooked' \in BOOLEAN
    BY <1>1, GenerateScans, Zenon DEF TypeOK
  <2> QED
    BY <2>1, <2>2, <2>3, <2>4, <2>5 DEF TypeOK
<1>2. CASE Next /\ ~Generate /\ ~DeleteLock
  <2>1. /\ lines' \in [Lines -> Line]
        /\ \A i \in Lines : EditedLine(i)
        /\ structured' \in BOOLEAN
        /\ edits' \in 0 .. MaxEdits
        /\ UNCHANGED <<use_cache, lock, overlooked>>
    BY <1>2, EditFacts
  <2>2. ASSUME NEW i \in Lines, lines'[i].statement # None
        PROVE  WellFormed(lines'[i].statement.args)
    BY <2>1, <2>2, StatementFacts DEF EditedLine, TypeOK
  <2> QED
    BY <2>1, <2>2 DEF TypeOK
<1>3. CASE UNCHANGED vars
  BY <1>3 DEF vars, TypeOK
<1>4. CASE DeleteLock
  <2>1. edits \in 0 .. MaxEdits /\ edits < MaxEdits /\ edits' = edits + 1
    BY <1>4 DEF DeleteLock, TypeOK
  <2>2. edits' \in 0 .. MaxEdits
    BY <2>1, MaxEditsAssumption
  <2> QED
    BY <1>4, <2>2 DEF DeleteLock, TypeOK
<1> QED
  BY <1>1, <1>2, <1>3, <1>4

-----------------------------------------------------------------------------
(* Facts about the numbers in the text.                                    *)

NumberAt(line, k) == Number(Arguments(line)[k])

(* An edit adds no number, and moves none.                                 *)
LEMMA EditNumbers ==
    ASSUME NEW i \in Lines, EditedLine(i), NEW k \in Numbered(lines'[i])
    PROVE  k \in Numbered(lines[i]) /\ NumberAt(lines'[i], k) = NumberAt(lines[i], k)
<1>1. k \in DOMAIN Arguments(lines'[i]) /\ Number(Arguments(lines'[i])[k]) \in U32
  BY DEF Numbered
<1>2. lines'[i].statement # None
  <2>1. ASSUME lines'[i].statement = None
        PROVE  FALSE
    <3>1. Arguments(lines'[i]) = <<>>
      BY <2>1 DEF Arguments
    <3> QED
      BY <1>1, <3>1
  <2> QED
    BY <2>1
<1>3. Arguments(lines'[i]) = lines'[i].statement.args
  BY <1>2 DEF Arguments
<1>4. lines'[i].statement \notin Statements
  BY <1>1, <1>3, StatementFacts
<1>5. lines'[i].statement = lines[i].statement
  BY <1>2, <1>4 DEF EditedLine
<1>6. Arguments(lines'[i]) = Arguments(lines[i])
  BY <1>5 DEF Arguments
<1> QED
  BY <1>1, <1>6 DEF Numbered, NumberAt

(* Where numbers stand.                                                    *)
LEMMA NumberedInts ==
    ASSUME NEW line \in Line, NEW k \in Numbered(line)
    PROVE  k \in Int
<1>1. k \in DOMAIN Arguments(line)
  BY DEF Numbered
<1>2. CASE line.statement = None
  <2>1. Arguments(line) = <<>>
    BY <1>2 DEF Arguments
  <2> QED
    BY <1>1, <2>1
<1>3. CASE line.statement # None
  <2>1. line.statement \in Statement
    BY <1>3 DEF Line
  <2>2. Arguments(line) \in Seq(Argument)
    BY <1>3, <2>1 DEF Arguments, Statement
  <2> QED
    BY <1>1, <2>2
<1> QED
  BY <1>2, <1>3

(***************************************************************************)
(* After a run every number in a line stood there before, possibly one     *)
(* place to the left, except for one at place p if the line got one.       *)
(***************************************************************************)
Kept(i, p, s) ==
    \A k \in Numbered(lines'[i]) :
        \/ i \in Missing /\ k = p /\ NumberAt(lines'[i], k) = NewReference(i)
        \/ /\ k - s \in Numbered(lines[i])
           /\ NumberAt(lines'[i], k) = NumberAt(lines[i], k - s)

(* A run keeps the numbers of a line, at most one place on, and adds one. *)
LEMMA GenerateNumbers ==
    ASSUME TypeOK, Generate, NEW i \in Lines
    PROVE  \E p \in Nat, s \in {0, 1} : Kept(i, p, s)
<1>1. CASE i \notin Missing
  <2>1. lines'[i] = lines[i]
    BY <1>1, GenerateFacts
  <2>2. \A k \in Numbered(lines[i]) : k - 0 = k
    <3>1. \A k \in Numbered(lines[i]) : k \in Int
      BY NumberedInts DEF TypeOK
    <3> QED
      BY <3>1
  <2>3. Kept(i, 0, 0)
    BY <2>1, <2>2 DEF Kept
  <2> QED
    BY <2>3
<1>2. CASE i \in Missing
  <2> DEFINE old == Args(i)
             new == Args(i)'
             id == NewReference(i)
  <2>1. old \in Seq(Argument) /\ WellFormed(old) /\ lines[i].statement # None
    BY <1>2, MissingFacts, LineFacts
  <2>2. id \in U32 /\ new = WithInsertion(old, Find(i).kind, id)
    BY <1>2, GenerateFacts
  <2>3. lines'[i].statement # None
    BY <1>2, GenerateFacts, StatementsAssumption
  <2>4. Arguments(lines'[i]) = new /\ Arguments(lines[i]) = old
    BY <2>1, <2>3 DEF Arguments, Args
  <2> HIDE DEF old, new, id
  <2>5. PICK p \in DOMAIN new, s \in {0, 1} :
            /\ Number(new[p]) = id
            /\ \A k \in DOMAIN new : k # p =>
                k - s \in DOMAIN old /\ new[k] = old[k - s]
    BY <2>1, <2>2, Insertion
  <2>6. p \in Nat
    <3>1. new \in Seq(Argument)
      BY <2>1, <2>2, Insertion
    <3> QED
      BY <3>1
  <2>7. ASSUME NEW k \in Numbered(lines'[i])
        PROVE  \/ k = p /\ NumberAt(lines'[i], k) = id
               \/ /\ k - s \in Numbered(lines[i])
                  /\ NumberAt(lines'[i], k) = NumberAt(lines[i], k - s)
    <3>1. k \in DOMAIN new /\ Number(new[k]) \in U32
      BY <2>4 DEF Numbered
    <3>2. NumberAt(lines'[i], k) = Number(new[k])
      BY <2>4 DEF NumberAt
    <3>3. CASE k = p
      BY <2>5, <3>2, <3>3
    <3>4. CASE k # p
      <4>1. k - s \in DOMAIN old /\ new[k] = old[k - s]
        BY <2>5, <3>1, <3>4
      <4> QED
        BY <2>4, <3>1, <3>2, <4>1 DEF Numbered, NumberAt
    <3> QED
      BY <3>3, <3>4
  <2>8. Kept(i, p, s)
    BY <1>2, <2>7 DEF Kept, id
  <2> QED
    BY <2>6, <2>8
<1> QED
  BY <1>1, <1>2

(* A run is safe if it starts from the lock file or overlooks nothing.     *)
Safe == IF lock # None THEN ~overlooked ELSE NothingOverlooked

(* A run after which nothing has been overlooked was safe, and found the   *)
(* file without duplicates.                                                *)
LEMMA TrustNeedsSafe ==
    ASSUME TextDistinct, Generate, ~overlooked'
    PROVE  Safe /\ DistinctIn(lines)
<1>1. CASE lock # None
  <2>1. ~overlooked
    BY <1>1, GenerateScans, Zenon
  <2> QED
    BY <1>1, <2>1 DEF Safe, TextDistinct
<1>2. CASE lock = None
  <2>1. \/ NothingOverlooked /\ DistinctIn(lines)
        \/ ~overlooked /\ NothingOverlooked
    BY <1>2, GenerateScans, Zenon
  <2> QED
    BY <1>2, <2>1 DEF Safe, TextDistinct
<1> QED
  BY <1>1, <1>2

(***************************************************************************)
(* The numbers in the text, found or not, are below those a run gives: by  *)
(* the lock file, or because all of them were found.                       *)
(***************************************************************************)
LEMMA TextBelow ==
    ASSUME TypeOK, LockAhead, Safe,
           NEW i \in Lines, NEW r \in References(lines[i])
    PROVE  r < FirstFree
<1>1. CASE lock # None
  BY <1>1, FirstFreeFacts DEF LockAhead, Safe
<1>2. CASE lock = None
  <2>1. lock = None
    BY <1>2
  <2>2. NothingOverlooked
    BY <1>2 DEF Safe
  <2>3. r \in U32 /\ r = Find(i).reference
    BY <2>2, ReferencesInU32 DEF NothingOverlooked
  <2>4. r # None
    BY <2>3, NoneAssumption, RefModAssumption DEF U32
  <2>5. r \in Found
    BY <2>3, <2>4 DEF Found
  <2> QED
    BY <2>1, <2>5, FirstFreeFacts
<1> QED
  BY <1>1, <1>2

(* A number in the text is one of the references of its line.             *)
LEMMA NumberInReferences ==
    ASSUME NEW line, NEW k \in Numbered(line)
    PROVE  NumberAt(line, k) \in References(line)
  BY DEF References, NumberAt

(* Every step keeps the lock file ahead of the text.                       *)
LEMMA NextLockAhead ==
    ASSUME TypeOK, LockAhead, TextDistinct, [Next]_vars
    PROVE  LockAhead'
<1>1. CASE Generate
  <2> DEFINE next == FirstFree + Cardinality(Missing)
  <2>1. /\ lock' = IF use_cache THEN next ELSE None
        /\ use_cache' = use_cache
    BY <1>1 DEF Generate, Cached
  <2>2. next \in Nat /\ FirstFree <= next
    BY FirstFreeFacts, NewReferenceFacts
  <2>3. \A i \in Missing : NewReference(i) < next
    BY NewReferenceFacts
  <2> HIDE DEF next
  <2>4. ASSUME ~overlooked', NEW i \in Lines, NEW r \in References(lines'[i])
        PROVE  r < next
    <3>1. PICK p \in Nat, s \in {0, 1} : Kept(i, p, s)
      BY <1>1, GenerateNumbers
    <3>2. PICK k \in Numbered(lines'[i]) : r = NumberAt(lines'[i], k)
      BY DEF References, NumberAt
    <3>3. CASE i \in Missing /\ NumberAt(lines'[i], k) = NewReference(i)
      BY <2>3, <3>2, <3>3
    <3>4. CASE k - s \in Numbered(lines[i]) /\ r = NumberAt(lines[i], k - s)
      <4>1. r \in References(lines[i])
        BY <3>4, NumberInReferences
      <4>2. r < FirstFree /\ r \in U32
        BY <1>1, <2>4, <4>1, TextBelow, ReferencesInU32, TrustNeedsSafe
      <4> QED
        BY <2>2, <4>2, FirstFreeFacts, RefModAssumption DEF U32
    <3> QED
      BY <3>1, <3>2, <3>3, <3>4 DEF Kept
  <2> QED
    BY <2>1, <2>4 DEF LockAhead
<1>2. CASE Next /\ ~Generate /\ ~DeleteLock
  <2>1. /\ \A i \in Lines : EditedLine(i)
        /\ UNCHANGED <<use_cache, lock, overlooked>>
    BY <1>2, EditFacts
  <2>2. ASSUME NEW i \in Lines, NEW r \in References(lines'[i])
        PROVE  r \in References(lines[i])
    <3>1. PICK k \in Numbered(lines'[i]) : r = NumberAt(lines'[i], k)
      BY DEF References, NumberAt
    <3>2. k \in Numbered(lines[i]) /\ r = NumberAt(lines[i], k)
      BY <2>1, <3>1, EditNumbers
    <3> QED
      BY <3>2, NumberInReferences
  <2> QED
    BY <2>1, <2>2 DEF LockAhead
<1>3. CASE UNCHANGED vars
  BY <1>3 DEF vars, LockAhead
<1>4. CASE DeleteLock
  BY <1>4 DEF DeleteLock, LockAhead
<1> QED
  BY <1>1, <1>2, <1>3, <1>4

-----------------------------------------------------------------------------
(* Every line is a line after a run.                                      *)
LEMMA NextLine ==
    ASSUME TypeOK, Generate, NEW i \in Lines
    PROVE  lines'[i] \in Line
  BY GenerateFacts DEF TypeOK

(* A run keeps the references of the text distinct.                        *)
LEMMA GenerateDistinct ==
    ASSUME TypeOK, LockAhead, Generate, Safe, DistinctIn(lines)
    PROVE  DistinctIn(lines')
<1>1. ASSUME NEW i \in Lines, NEW k \in Numbered(lines[i])
      PROVE  NumberAt(lines[i], k) \in Nat /\ NumberAt(lines[i], k) < FirstFree
  <2>1. NumberAt(lines[i], k) \in References(lines[i])
    BY NumberInReferences
  <2> QED
    BY <2>1, TextBelow, ReferencesInU32, RefModAssumption DEF U32
<1>2. ASSUME NEW i \in Lines, NEW j \in Lines, i \in Missing, NEW k \in Numbered(lines[j])
      PROVE  NewReference(i) # NumberAt(lines[j], k)
  <2>1. /\ FirstFree \in Nat
        /\ NewReference(i) \in Nat
        /\ FirstFree <= NewReference(i)
    BY <1>2, FirstFreeFacts, NewReferenceFacts
  <2>2. NumberAt(lines[j], k) \in Nat /\ NumberAt(lines[j], k) < FirstFree
    BY <1>1
  <2>3. \A m, f, n \in Nat : m < f /\ f <= n => n # m
    OBVIOUS
  <2> QED
    BY <2>1, <2>2, <2>3
<1>3. \A i, j \in Lines : \A k \in Numbered(lines[i]), l \in Numbered(lines[j]) :
        NumberAt(lines[i], k) = NumberAt(lines[j], l) => i = j /\ k = l
  BY DEF DistinctIn, NumberAt
<1>4. ASSUME NEW i \in Lines, NEW j \in Lines,
             NEW k \in Numbered(lines'[i]), NEW l \in Numbered(lines'[j]),
             NumberAt(lines'[i], k) = NumberAt(lines'[j], l)
      PROVE  i = j /\ k = l
  <2>1. CASE i = j
    <3>1. PICK p \in Nat, s \in {0, 1} : Kept(i, p, s)
      BY <1>4, GenerateNumbers
    <3>2. \/ i \in Missing /\ k = p /\ NumberAt(lines'[i], k) = NewReference(i)
          \/ /\ k - s \in Numbered(lines[i])
             /\ NumberAt(lines'[i], k) = NumberAt(lines[i], k - s)
      BY <3>1 DEF Kept
    <3>3. \/ i \in Missing /\ l = p /\ NumberAt(lines'[i], l) = NewReference(i)
          \/ /\ l - s \in Numbered(lines[i])
             /\ NumberAt(lines'[i], l) = NumberAt(lines[i], l - s)
      BY <2>1, <3>1 DEF Kept
    <3>4. CASE k = p /\ l = p
      BY <2>1, <3>4
    <3>5. CASE /\ k - s \in Numbered(lines[i]) /\ l - s \in Numbered(lines[i])
               /\ NumberAt(lines'[i], k) = NumberAt(lines[i], k - s)
               /\ NumberAt(lines'[i], l) = NumberAt(lines[i], l - s)
      <4>1. k - s = l - s
        BY <1>3, <1>4, <2>1, <3>5
      <4>2. k \in Int /\ l \in Int
        BY <2>1, NumberedInts, NextLine
      <4>3. k = l
        BY <4>1, <4>2
      <4> QED
        BY <2>1, <4>3
    <3> QED
      BY <1>2, <1>4, <2>1, <3>2, <3>3, <3>4, <3>5
  <2>2. CASE i # j
    <3>1. PICK p \in Nat, s \in {0, 1} : Kept(i, p, s)
      BY <1>4, GenerateNumbers
    <3>2. PICK q \in Nat, t \in {0, 1} : Kept(j, q, t)
      BY <1>4, GenerateNumbers
    <3>3. \/ i \in Missing /\ k = p /\ NumberAt(lines'[i], k) = NewReference(i)
          \/ /\ k - s \in Numbered(lines[i])
             /\ NumberAt(lines'[i], k) = NumberAt(lines[i], k - s)
      BY <3>1 DEF Kept
    <3>4. \/ j \in Missing /\ l = q /\ NumberAt(lines'[j], l) = NewReference(j)
          \/ /\ l - t \in Numbered(lines[j])
             /\ NumberAt(lines'[j], l) = NumberAt(lines[j], l - t)
      BY <3>2 DEF Kept
    <3>5. CASE i \in Missing /\ NumberAt(lines'[i], k) = NewReference(i)
      <4>1. CASE j \in Missing /\ NumberAt(lines'[j], l) = NewReference(j)
        BY <1>4, <2>2, <3>5, <4>1, NewReferenceFacts
      <4>2. CASE /\ l - t \in Numbered(lines[j])
                 /\ NumberAt(lines'[j], l) = NumberAt(lines[j], l - t)
        BY <1>2, <1>4, <3>5, <4>2
      <4> QED
        BY <3>4, <4>1, <4>2
    <3>6. CASE /\ k - s \in Numbered(lines[i])
               /\ NumberAt(lines'[i], k) = NumberAt(lines[i], k - s)
      <4>1. CASE j \in Missing /\ NumberAt(lines'[j], l) = NewReference(j)
        BY <1>2, <1>4, <3>6, <4>1
      <4>2. CASE /\ l - t \in Numbered(lines[j])
                 /\ NumberAt(lines'[j], l) = NumberAt(lines[j], l - t)
        BY <1>3, <1>4, <2>2, <3>6, <4>2
      <4> QED
        BY <3>4, <4>1, <4>2
    <3> QED
      BY <3>3, <3>5, <3>6
  <2> QED
    BY <2>1, <2>2
<1> QED
  BY <1>4 DEF DistinctIn, NumberAt

(* Every step keeps the references distinct.                               *)
LEMMA NextTextDistinct ==
    ASSUME TypeOK, LockAhead, TextDistinct, [Next]_vars
    PROVE  TextDistinct'
<1>1. CASE Generate
  BY <1>1, TrustNeedsSafe, GenerateDistinct DEF TextDistinct
<1>2. CASE DeleteLock
  BY <1>2 DEF DeleteLock, TextDistinct
<1>3. CASE Next /\ ~Generate /\ ~DeleteLock
  <2>1. \A i \in Lines : EditedLine(i)
    BY <1>3, EditFacts
  <2>2. ASSUME DistinctIn(lines)
        PROVE  DistinctIn(lines')
    <3>1. \A i \in Lines : \A k \in Numbered(lines'[i]) :
            /\ k \in Numbered(lines[i])
            /\ NumberAt(lines'[i], k) = NumberAt(lines[i], k)
      BY <2>1, EditNumbers
    <3> QED
      BY <2>2, <3>1 DEF DistinctIn, NumberAt
  <2> QED
    BY <1>3, <2>2, EditFacts DEF TextDistinct
<1>4. CASE UNCHANGED vars
  BY <1>4 DEF vars, TextDistinct
<1> QED
  BY <1>1, <1>2, <1>3, <1>4

-----------------------------------------------------------------------------
(* Every step keeps the statements acceptable that have no target.         *)
LEMMA NextAccepted ==
    ASSUME TypeOK, AcceptedWithoutTarget, [Next]_vars
    PROVE  AcceptedWithoutTarget'
<1>1. SUFFICES ASSUME NEW i \in Lines, lines'[i].statement # None, ~HasTarget(i)'
               PROVE  Accepted(Args(i)')
  BY DEF AcceptedWithoutTarget, Args
<1>2. CASE Generate /\ i \in Missing
  <2>1. /\ lines[i].statement # None
        /\ Args(i) \in Seq(Argument) /\ WellFormed(Args(i))
    BY <1>2, MissingFacts, LineFacts
  <2>2. /\ NewReference(i) \in U32
        /\ Args(i)' = WithInsertion(Args(i), Find(i).kind, NewReference(i))
    BY <1>2, GenerateFacts
  <2>3. \A k \in DOMAIN Args(i) : Args(i)[k] = Target =>
            \E l \in DOMAIN Args(i)' : Args(i)'[l] = Target
    BY <2>1, <2>2, Insertion
  <2>4. \A l \in DOMAIN Args(i)' : Args(i)'[l] # Target
    BY <1>1 DEF HasTarget, Args
  <2>5. \A k \in DOMAIN Args(i) : Args(i)[k] # Target
    BY <2>3, <2>4
  <2>6. Accepted(Args(i))
    BY <2>1, <2>5 DEF AcceptedWithoutTarget, HasTarget, Args
  <2>7. 1 \in DOMAIN Args(i)
    BY <2>1, MessageIsLast
  <2>8. CASE Find(i).kind = "StructuredNew"
    BY <2>1, <2>2, <2>5, <2>6, <2>7, <2>8, PairAccepted
  <2>9. CASE Find(i).kind # "StructuredNew"
    BY <2>1, <2>2, <2>6, <2>9, MessageTagged
  <2> QED
    BY <2>8, <2>9
<1>3. CASE \/ Generate /\ i \notin Missing
           \/ DeleteLock
           \/ UNCHANGED vars
  <2>1. lines'[i] = lines[i]
    BY <1>3, GenerateFacts DEF vars, DeleteLock
  <2> QED
    BY <1>1, <2>1 DEF AcceptedWithoutTarget, HasTarget, Args
<1>4. CASE Next /\ ~Generate /\ ~DeleteLock
  <2>1. EditedLine(i)
    BY <1>4, EditFacts
  <2>2. CASE lines'[i].statement = lines[i].statement
    BY <1>1, <2>2 DEF AcceptedWithoutTarget, HasTarget, Args
  <2>3. CASE lines'[i].statement \in Statements
    BY <2>3, StatementFacts DEF Args
  <2> QED
    BY <1>1, <2>1, <2>2, <2>3 DEF EditedLine
<1> QED
  BY <1>2, <1>3, <1>4

(***************************************************************************)
(* How far from the end of the arguments a number stands: the same before  *)
(* and after a run, whatever is inserted.                                  *)
(***************************************************************************)
LEMMA InsertionFromEnd ==
    ASSUME NEW args \in Seq(Argument), WellFormed(args), NEW kind, NEW id \in U32,
           kind # "StructuredNew" => Number(args[Len(args)]) \notin U32
    PROVE  \E s \in {0, 1} :
            LET new == WithInsertion(args, kind, id) IN
            /\ new \in Seq(Argument)
            /\ Len(new) = Len(args) + s
            /\ \A k \in 1 .. Len(args) :
                Number(args[k]) \in U32 => new[k + s] = args[k]
            /\ \A k \in 1 .. Len(new) :
                \/ k - s \in 1 .. Len(args) /\ new[k] = args[k - s]
                \/ Number(new[k]) = id
<1> DEFINE new == WithInsertion(args, kind, id)
<1>1. Len(args) \in Nat /\ new \in Seq(Argument)
  BY Insertion
<1>2. CASE kind = "StructuredNew"
  <2> DEFINE pair == Kvp("ref", id, Suffix(args))
  <2>1. new = <<pair>> \o args
    BY <1>2 DEF WithInsertion
  <2>3. Number(pair) = id
    BY DEF Number, Kvp
  <2> HIDE DEF pair, new
  <2>2. /\ Len(new) = Len(args) + 1
        /\ \A k \in 1 .. Len(args) : new[k + 1] = args[k]
        /\ \A k \in 1 .. Len(new) : k # 1 => k - 1 \in 1 .. Len(args) /\ new[k] = args[k - 1]
        /\ new[1] = pair
    BY <1>1, <2>1
  <2> QED
    BY <1>1, <2>2, <2>3 DEF new
<1>3. CASE kind # "StructuredNew"
  <2>1. MessageOf(args) = Len(args) /\ Len(args) \in DOMAIN args
    BY MessageIsLast
  <2>2. new = [args EXCEPT ![Len(args)] = Message(id)]
    BY <1>3, <2>1 DEF WithInsertion
  <2> HIDE DEF new
  <2>3. /\ Len(new) = Len(args) + 0
        /\ \A k \in 1 .. Len(args) : k # Len(args) => new[k] = args[k]
        /\ new[Len(args)] = Message(id)
    BY <1>1, <2>1, <2>2
  <2>4. \A k \in 1 .. Len(args) : k + 0 = k /\ k - 0 = k
    BY <1>1
  <2>5. Number(new[Len(args)]) = id
    BY <2>3 DEF Number, Message
  <2> QED
    BY <1>1, <1>3, <2>3, <2>4, <2>5 DEF new
<1> QED
  BY <1>2, <1>3

(* The statements at the start are accepted.                              *)
LEMMA InitAccepted ==
    ASSUME Init
    PROVE  AcceptedWithoutTarget
  BY InitFileFacts DEF AcceptedWithoutTarget

(* The references at the start are distinct.                              *)
LEMMA InitTextDistinct ==
    ASSUME Init
    PROVE  TextDistinct
  BY InitFilesAssumption DEF Init, TextDistinct

-----------------------------------------------------------------------------
(***************************************************************************)
(* The file stays well formed: every list of arguments ends with its only  *)
(* message, whatever is inserted into it.                                  *)
(***************************************************************************)
THEOREM FinderTypeCorrect == Spec => []TypeOK
<1>1. Init => TypeOK
  BY InitTypeOK
<1>2. TypeOK /\ [Next]_vars => TypeOK'
  BY NextTypeOK
<1> QED
  BY <1>1, <1>2, PTL DEF Spec

(***************************************************************************)
(* The lock file ahead of the text and the text without duplicates: each   *)
(* is what a run needs to keep the other.                                  *)
(***************************************************************************)
THEOREM FinderInductive == Spec => [](TypeOK /\ LockAhead /\ TextDistinct)
<1>1. Init => LockAhead /\ TextDistinct
  BY InitLockAhead, InitTextDistinct
<1>2. TypeOK /\ LockAhead /\ TextDistinct /\ [Next]_vars
            => LockAhead' /\ TextDistinct'
  BY NextLockAhead, NextTextDistinct
<1> QED
  BY <1>1, <1>2, FinderTypeCorrect, PTL DEF Spec

(***************************************************************************)
(* A number in the lock file is above every number in the text, also above *)
(* those that the current mode and directives hide from find, unless a     *)
(* scan has overlooked one since the last that found them all.             *)
(***************************************************************************)
THEOREM LockStaysAhead == Spec => []LockAhead
  BY FinderInductive, PTL

(***************************************************************************)
(* No two references in the text of a file are equal, whatever is edited   *)
(* and also if the lock file is deleted, unless a scan has overlooked one, *)
(* and then again from the first that finds them all and no two equal.     *)
(***************************************************************************)
THEOREM TextStaysDistinct == Spec => []TextDistinct
  BY FinderInductive, PTL

(***************************************************************************)
(* Statements without a target remain what the log crate accepts.          *)
(***************************************************************************)
THEOREM StatementsStayAccepted == Spec => []AcceptedWithoutTarget
<1>1. Init => AcceptedWithoutTarget
  BY InitAccepted
<1>2. TypeOK /\ AcceptedWithoutTarget /\ [Next]_vars => AcceptedWithoutTarget'
  BY NextAccepted
<1> QED
  BY <1>1, <1>2, FinderTypeCorrect, PTL DEF Spec

(***************************************************************************)
(* After a run find returns the entries that module Breadlog assumes, with *)
(* the references inserted, except where a pair was put before a target.   *)
(***************************************************************************)
THEOREM InsertedIsFound == Spec => FoundAgain
<1> DEFINE Again ==
            Generate => \A i \in Lines :
                IF i \in Missing
                THEN \/ Find(i).kind = "StructuredNew" /\ HasTarget(i)
                     \/ \E id \in U32 : Find(i)' = WithReference(Find(i), id)
                ELSE Find(i)' = Find(i)
<1>1. TypeOK /\ [Next]_vars => [Again]_vars
  <2>1. SUFFICES ASSUME TypeOK, Generate, NEW i \in Lines
                 PROVE  IF i \in Missing
                        THEN \/ Find(i).kind = "StructuredNew" /\ HasTarget(i)
                             \/ \E id \in U32 : Find(i)' = WithReference(Find(i), id)
                        ELSE Find(i)' = Find(i)
    OBVIOUS
  <2>2. CASE i \in Missing
    <3>1. NewReference(i) \in U32
      BY <2>1, <2>2, GenerateFacts
    <3> QED
      BY <2>1, <2>2, <3>1, MissingFoundAgain
  <2>3. CASE i \notin Missing
    BY <2>1, <2>3, OthersFoundAgain
  <2> QED
    BY <2>2, <2>3
<1> QED
  BY <1>1, FinderTypeCorrect, PTL DEF Spec, FoundAgain

(* Where a number goes in the line that gets one.                          *)
LEMMA MissingNumbersStay ==
    ASSUME TypeOK, Generate, NEW i \in Missing, NEW d \in Nat
    PROVE  \/ FromEnd(lines'[i], d) = FromEnd(lines[i], d)
           \/ /\ FromEnd(lines[i], d) = None
              /\ FromEnd(lines'[i], d) = NewReference(i)
<1> DEFINE old == Args(i)
           new == Args(i)'
           id == NewReference(i)
           kind == Find(i).kind
<1>1. /\ i \in Lines
      /\ lines[i].statement # None
      /\ old \in Seq(Argument) /\ WellFormed(old)
  BY MissingFacts, LineFacts
<1>2. /\ id \in U32
      /\ new = WithInsertion(old, kind, id)
      /\ lines'[i].statement # None
  BY GenerateFacts, StatementsAssumption
<1>3. kind # "StructuredNew" => Number(old[Len(old)]) \notin U32
  <2>1. SUFFICES ASSUME kind # "StructuredNew"
                 PROVE  Number(old[Len(old)]) = None
    BY NoneAssumption, RefModAssumption DEF U32
  <2>2. Find(i).reference = None
    BY DEF Missing, NeedsReference, Exists
  <2>3. Find(i) = StringEntry(old)
    BY <2>1, <2>2, MissingFacts DEF Find, FindIn, Args
  <2>4. old[Len(old)].reference = None
    BY <1>1, <2>2, <2>3, MessageIsLast DEF StringEntry
  <2> QED
    BY <1>1, <2>4, MessageIsLast DEF Number
<1>4. Arguments(lines[i]) = old /\ Arguments(lines'[i]) = new
  BY <1>1, <1>2 DEF Arguments, Args
<1> HIDE DEF old, new, id, kind
<1>5. PICK s \in {0, 1} :
        /\ new \in Seq(Argument)
        /\ Len(new) = Len(old) + s
        /\ \A k \in 1 .. Len(old) : Number(old[k]) \in U32 => new[k + s] = old[k]
        /\ \A k \in 1 .. Len(new) :
            \/ k - s \in 1 .. Len(old) /\ new[k] = old[k - s]
            \/ Number(new[k]) = id
  BY <1>1, <1>2, <1>3, InsertionFromEnd
<1> DEFINE k == Len(old) - d
<1>6. /\ Len(old) \in Nat /\ k \in Int
      /\ Len(new) - d = k + s
      /\ DOMAIN old = 1 .. Len(old) /\ DOMAIN new = 1 .. Len(new)
  BY <1>1, <1>5
<1>7. /\ FromEnd(lines[i], d) =
            IF k \in DOMAIN old /\ Number(old[k]) \in U32 THEN Number(old[k]) ELSE None
      /\ FromEnd(lines'[i], d) =
            IF k + s \in DOMAIN new /\ Number(new[k + s]) \in U32
            THEN Number(new[k + s]) ELSE None
  BY <1>4, <1>6 DEF FromEnd, Numbered
<1> HIDE DEF k
<1>8. CASE k \in DOMAIN old /\ Number(old[k]) \in U32
  <2>1. new[k + s] = old[k] /\ k + s \in 1 .. Len(new)
    BY <1>5, <1>6, <1>8
  <2> QED
    BY <1>6, <1>7, <1>8, <2>1
<1>9. CASE ~(k \in DOMAIN old /\ Number(old[k]) \in U32)
  <2>1. CASE k + s \in DOMAIN new /\ Number(new[k + s]) \in U32
    <3>1. k + s - s = k
      BY <1>6
    <3>2. Number(new[k + s]) = id
      BY <1>5, <1>6, <1>9, <2>1, <3>1
    <3> QED
      BY <1>7, <1>9, <2>1, <3>2 DEF id
  <2>2. CASE ~(k + s \in DOMAIN new /\ Number(new[k + s]) \in U32)
    BY <1>7, <1>9, <2>2
  <2> QED
    BY <2>1, <2>2
<1> QED
  BY <1>8, <1>9

(***************************************************************************)
(* A run takes no number out of the text and changes none, also those that *)
(* find does not report: see NumbersStay.                                  *)
(***************************************************************************)
THEOREM NumbersStayInText == Spec => NumbersStay
<1> DEFINE Stay ==
            Generate => \A i \in Lines :
                \A d \in Distances(lines[i]) \cup Distances(lines'[i]) :
                    \/ FromEnd(lines'[i], d) = FromEnd(lines[i], d)
                    \/ /\ FromEnd(lines[i], d) = None
                       /\ i \in Missing
                       /\ FromEnd(lines'[i], d) = NewReference(i)
<1>1. TypeOK /\ [Next]_vars => [Stay]_vars
  <2>1. SUFFICES ASSUME TypeOK, Generate, NEW i \in Lines,
                        NEW d \in Distances(lines[i]) \cup Distances(lines'[i])
                 PROVE  \/ FromEnd(lines'[i], d) = FromEnd(lines[i], d)
                        \/ /\ FromEnd(lines[i], d) = None
                           /\ i \in Missing
                           /\ FromEnd(lines'[i], d) = NewReference(i)
    OBVIOUS
  <2>2. d \in Nat
    BY DEF Distances
  <2>3. CASE i \in Missing
    BY <2>1, <2>2, <2>3, MissingNumbersStay
  <2>4. CASE i \notin Missing
    BY <2>1, <2>4, GenerateFacts
  <2> QED
    BY <2>3, <2>4
<1> QED
  BY <1>1, FinderTypeCorrect, PTL DEF Spec, NumbersStay
=============================================================================

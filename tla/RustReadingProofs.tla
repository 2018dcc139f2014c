------------------------- MODULE RustReadingProofs --------------------------
(***************************************************************************)
(* Proofs about module RustGrammar, for texts of any length: in a text     *)
(* that Rust accepts, with none of the four peculiarities, the loop of     *)
(* find comes to every log statement and to nothing else, and a run leaves *)
(* such a text, with a reference for each of them.                         *)
(***************************************************************************)
EXTENDS RustGrammarProofs, FunctionTheorems

Kinds == {"code", "string", "escape", "line", "block"}

ModeRecords == [in : Kinds, depth : Nat]

(* The recursive function of Modes exists. *)
LEMMA ModesEquation ==
    ASSUME NEW t \in Texts
    PROVE  /\ Modes(t)[1] = Code
           /\ \A p \in 1 .. Len(t) : Modes(t)[p + 1] = After(Modes(t)[p], t[p])
<1> DEFINE n == Len(t) + 1
           Read(g, q) == IF q = 1 THEN Code ELSE After(g[q - 1], t[q - 1])
           Solves(g, q) == g[q] = Read(g, q)
           S == {q \in 1 .. n : \E g : \A r \in 1 .. q : Solves(g, r)}
<1>1. n \in Nat /\ Positions(t) = 1 .. n /\ 1 \in 1 .. n /\ n - 1 = Len(t)
  BY DEF Positions, Texts
<1>2. ASSUME NEW q \in 1 .. n, NEW g, NEW h, q # 1 => h[q - 1] = g[q - 1]
      PROVE  Read(h, q) = Read(g, q)
  BY <1>2
<1>3. \A g : Read(g, 1) = Code
  OBVIOUS
<1> HIDE DEF n, Read
<1>4. 1 \in S
  <2> DEFINE g == [r \in 1 .. n |-> Code]
  <2>1. \A r \in 1 .. 1 : r = 1
    OBVIOUS
  <2>2. g[1] = Code
    BY <1>1
  <2> HIDE DEF g
  <2>3. \A r \in 1 .. 1 : Solves(g, r)
    BY <1>3, <2>1, <2>2
  <2> QED
    BY <1>1, <2>3
<1>5. ASSUME NEW q \in 1 .. n - 1, q \in S
      PROVE  q + 1 \in S
  <2>1. PICK g : \A r \in 1 .. q : Solves(g, r)
    BY <1>5
  <2> DEFINE h == [r \in 1 .. n |-> IF r = q + 1 THEN Read(g, q + 1) ELSE g[r]]
  <2>2. q + 1 \in 1 .. n /\ q + 1 # 1 /\ (q + 1) - 1 = q /\ q \in 1 .. q /\ q # q + 1
    BY <1>1
  <2>3. h[q + 1] = Read(g, q + 1) /\ \A r \in 1 .. n : r # q + 1 => h[r] = g[r]
    BY <2>2
  <2> HIDE DEF h
  <2>4. \A r \in 1 .. q : r \in 1 .. n /\ h[r] = g[r] /\ (r # 1 => r - 1 \in 1 .. q)
    BY <1>1, <2>3
  <2>5. Solves(h, q + 1)
    <3>1. h[(q + 1) - 1] = g[(q + 1) - 1]
      BY <2>2, <2>4
    <3> QED
      BY <1>2, <2>2, <2>3, <3>1
  <2>6. ASSUME NEW r \in 1 .. q
        PROVE  Solves(h, r)
    <3>1. Read(h, r) = Read(g, r)
      BY <1>2, <2>4
    <3> QED
      BY <2>1, <2>4, <3>1
  <2>7. \A r \in 1 .. q + 1 : r = q + 1 \/ r \in 1 .. q
    BY <1>1
  <2> HIDE DEF Solves
  <2>8. \A r \in 1 .. q + 1 : Solves(h, r)
    BY <2>5, <2>6, <2>7
  <2> QED
    BY <2>2, <2>8
<1>6. n \in S
  <2> HIDE DEF S
  <2>1. 1 \in Nat
    OBVIOUS
  <2>2. \A q \in 1 .. n : q \in S
    BY <1>1, <1>4, <1>5, <2>1, Upwards
  <2>3. n \in 1 .. n
    BY <1>1
  <2> QED
    BY <2>2, <2>3
<1>7. PICK g : \A q \in 1 .. n : Solves(g, q)
  BY <1>6
<1> DEFINE f == [q \in 1 .. n |-> g[q]]
<1>8. ASSUME NEW q \in 1 .. n
      PROVE  f[q] = Read(f, q)
  <2>1. q # 1 => f[q - 1] = g[q - 1]
    BY <1>1
  <2> HIDE DEF f
  <2>2. Read(f, q) = Read(g, q)
    BY <1>2, <2>1
  <2> QED
    BY <1>7, <2>2 DEF f
<1>9. f = [q \in Positions(t) |-> Read(f, q)]
  BY <1>1, <1>8
<1>10. Modes(t) = CHOOSE h : h = [q \in Positions(t) |-> Read(h, q)]
  BY DEF Modes, Read
<1> HIDE DEF f
<1>11. Modes(t) = [q \in Positions(t) |-> Read(Modes(t), q)]
  BY <1>9, <1>10
<1>12. \A q \in 1 .. n : Modes(t)[q] = Read(Modes(t), q)
  BY <1>1, <1>11
<1>13. Modes(t)[1] = Code
  BY <1>1, <1>3, <1>12
<1>14. ASSUME NEW p \in 1 .. Len(t)
       PROVE  Modes(t)[p + 1] = After(Modes(t)[p], t[p])
  <2>1. p + 1 \in 1 .. n /\ p + 1 # 1 /\ (p + 1) - 1 = p
    BY <1>1
  <2>2. Modes(t)[p + 1] = Read(Modes(t), p + 1)
    BY <1>12, <2>1
  <2> QED
    BY <2>1, <2>2 DEF Read
<1> QED
  BY <1>13, <1>14

(* How a lexeme changes the mode, for records as Modes has them. *)
LEMMA AfterFacts ==
    ASSUME NEW m \in ModeRecords, m.in = "block" => m.depth = 1, NEW x,
           ~(m.in = "block" /\ x = "open")
    PROVE  LET k == After(m, x) IN
           /\ k \in ModeRecords /\ (k.in = "block" => k.depth = 1)
           /\ m.in = "code" =>
                k.in = CASE x = "quote" -> "string"
                         [] x = "line" -> "line"
                         [] x = "open" -> "block"
                         [] OTHER -> "code"
           /\ m.in = "string" =>
                k.in = CASE x = "quote" -> "code"
                         [] x = "esc" -> "escape"
                         [] OTHER -> "string"
           /\ m.in = "escape" => k.in = "string"
           /\ m.in = "line" => k.in = IF x = "newline" THEN "code" ELSE "line"
           /\ m.in = "block" => k.in = IF x = "close" THEN "code" ELSE "block"
<1>1. CASE m.in = "code"
  BY <1>1 DEF After, Code, ModeRecords, Kinds
<1>2. CASE m.in = "string"
  BY <1>2 DEF After, Code, ModeRecords, Kinds
<1>3. CASE m.in = "escape"
  BY <1>3 DEF After, Code, ModeRecords, Kinds
<1>4. CASE m.in = "line"
  BY <1>4 DEF After, Code, ModeRecords, Kinds
<1>5. CASE m.in = "block"
  BY <1>5 DEF After, Code, ModeRecords, Kinds
<1> QED
  BY <1>1, <1>2, <1>3, <1>4, <1>5 DEF ModeRecords, Kinds

(* Where lexeme p stands. *)
Inside(t, p) == Modes(t)[p].in

(* Without nested comments, what a lexeme changes depends on nothing else. *)
LEMMA InsideFacts ==
    ASSUME NEW t \in Texts, ~NestedComment(t)
    PROVE  /\ Inside(t, 1) = "code"
           /\ \A p \in Positions(t) : Inside(t, p) \in Kinds
           /\ \A p \in 1 .. Len(t) :
                /\ Inside(t, p) = "code" =>
                    Inside(t, p + 1) = CASE t[p] = "quote" -> "string"
                                         [] t[p] = "line" -> "line"
                                         [] t[p] = "open" -> "block"
                                         [] OTHER -> "code"
                /\ Inside(t, p) = "string" =>
                    Inside(t, p + 1) = CASE t[p] = "quote" -> "code"
                                         [] t[p] = "esc" -> "escape"
                                         [] OTHER -> "string"
                /\ Inside(t, p) = "escape" => Inside(t, p + 1) = "string"
                /\ Inside(t, p) = "line" =>
                    Inside(t, p + 1) = IF t[p] = "newline" THEN "code" ELSE "line"
                /\ Inside(t, p) = "block" =>
                    Inside(t, p + 1) = IF t[p] = "close" THEN "code" ELSE "block"
<1> DEFINE n == Len(t) + 1
           m(p) == Modes(t)[p]
           S == {p \in 1 .. n : /\ m(p) \in ModeRecords
                                /\ m(p).in = "block" => m(p).depth = 1}
<1>1. n \in Nat /\ Positions(t) = 1 .. n /\ 1 \in 1 .. n /\ n - 1 = Len(t) /\ DOMAIN t = 1 .. Len(t)
  BY DEF Positions, Texts
<1>2. /\ m(1) = Code
      /\ \A p \in 1 .. Len(t) : m(p + 1) = After(m(p), t[p])
  BY ModesEquation
<1>3. ASSUME NEW p \in 1 .. Len(t)
      PROVE  ~(m(p).in = "block" /\ t[p] = "open")
  BY <1>1 DEF NestedComment, In
<1> HIDE DEF m, n
<1>4. 1 \in S
  BY <1>1, <1>2 DEF Code, ModeRecords, Kinds
<1>5. ASSUME NEW p \in 1 .. n - 1, p \in S
      PROVE  p + 1 \in S
  <2>1. p \in 1 .. Len(t) /\ p + 1 \in 1 .. n
    BY <1>1
  <2>2. m(p) \in ModeRecords /\ (m(p).in = "block" => m(p).depth = 1)
    BY <1>5
  <2>3. /\ After(m(p), t[p]) \in ModeRecords
        /\ After(m(p), t[p]).in = "block" => After(m(p), t[p]).depth = 1
    BY <1>3, <2>1, <2>2, AfterFacts
  <2> QED
    BY <1>2, <2>1, <2>3
<1>6. \A p \in 1 .. n : /\ m(p) \in ModeRecords
                        /\ m(p).in = "block" => m(p).depth = 1
  <2> HIDE DEF S
  <2>1. 1 \in Nat
    OBVIOUS
  <2>2. \A p \in 1 .. n : p \in S
    BY <1>1, <1>4, <1>5, <2>1, Upwards
  <2> QED
    BY <2>2 DEF S
<1>7. \A p \in 1 .. n : m(p).in \in Kinds
  BY <1>6 DEF ModeRecords
<1>8. m(1).in = "code"
  BY <1>2 DEF Code
<1>9. ASSUME NEW p \in 1 .. Len(t)
      PROVE  /\ m(p).in = "code" =>
                    m(p + 1).in = CASE t[p] = "quote" -> "string"
                                         [] t[p] = "line" -> "line"
                                         [] t[p] = "open" -> "block"
                                         [] OTHER -> "code"
             /\ m(p).in = "string" =>
                    m(p + 1).in = CASE t[p] = "quote" -> "code"
                                         [] t[p] = "esc" -> "escape"
                                         [] OTHER -> "string"
             /\ m(p).in = "escape" => m(p + 1).in = "string"
             /\ m(p).in = "line" =>
                    m(p + 1).in = IF t[p] = "newline" THEN "code" ELSE "line"
             /\ m(p).in = "block" =>
                    m(p + 1).in = IF t[p] = "close" THEN "code" ELSE "block"
  <2>1. p \in 1 .. n
    BY <1>1
  <2>2. m(p) \in ModeRecords /\ (m(p).in = "block" => m(p).depth = 1)
    BY <1>6, <2>1
  <2>3. m(p + 1) = After(m(p), t[p]) /\ ~(m(p).in = "block" /\ t[p] = "open")
    BY <1>2, <1>3
  <2> QED
    BY <2>2, <2>3, AfterFacts
<1> QED
  BY <1>1, <1>7, <1>8, <1>9 DEF m, Inside

-----------------------------------------------------------------------------
(* Texts in which find has to see what Rust sees. *)
Accepted(t) == t \in Texts /\ WellFormed(t) /\ Tame(t)

Literal == {"string", "escape"}

(* An accepted text begins and ends in code. *)
LEMMA AcceptedFacts ==
    ASSUME NEW t, Accepted(t)
    PROVE  /\ t \in Texts /\ Len(t) \in Nat
           /\ Positions(t) = 1 .. Len(t) + 1 /\ DOMAIN t = 1 .. Len(t)
           /\ 1 \in Positions(t) /\ Len(t) + 1 \in Positions(t)
           /\ Inside(t, 1) = "code" /\ Inside(t, Len(t) + 1) = "code"
<1>1. t \in Texts /\ ~NestedComment(t)
  BY DEF Accepted, Tame
<1>2. Inside(t, 1) = "code"
  BY <1>1, InsideFacts
<1>3. Inside(t, Len(t) + 1) = "code"
  BY DEF Accepted, WellFormed, In, Inside
<1> QED
  BY <1>1, <1>2, <1>3 DEF Texts, Positions

(* From one lexeme of an accepted text to the next. *)
LEMMA StepFacts ==
    ASSUME NEW t, Accepted(t), NEW p \in 1 .. Len(t)
    PROVE  /\ p \in Positions(t) /\ p + 1 \in Positions(t) /\ At(t, p) = t[p]
           /\ Inside(t, p) \in Kinds
           /\ Inside(t, p) = "code" =>
                /\ t[p] = "quote" => Inside(t, p + 1) = "string"
                /\ t[p] = "line" => Inside(t, p + 1) = "line"
                /\ t[p] = "open" => Inside(t, p + 1) = "block"
                /\ t[p] \notin {"quote", "line", "open"} => Inside(t, p + 1) = "code"
           /\ Inside(t, p) = "string" =>
                /\ t[p] = "quote" => Inside(t, p + 1) = "code"
                /\ t[p] = "esc" => Inside(t, p + 1) = "escape"
                /\ t[p] \notin {"quote", "esc"} => Inside(t, p + 1) = "string"
           /\ Inside(t, p) = "escape" => Inside(t, p + 1) = "string"
           /\ Inside(t, p) = "line" =>
                Inside(t, p + 1) = IF t[p] = "newline" THEN "code" ELSE "line"
           /\ Inside(t, p) = "block" =>
                Inside(t, p + 1) = IF t[p] = "close" THEN "code" ELSE "block"
           /\ Inside(t, p) \in Literal => t[p] \notin {"line", "open"}
<1>1. t \in Texts /\ ~NestedComment(t) /\ ~CommentInString(t)
  BY DEF Accepted, Tame
<1>2. p \in Positions(t) /\ p + 1 \in Positions(t) /\ p \in DOMAIN t
  BY <1>1 DEF Texts, Positions
<1>3. At(t, p) = t[p]
  BY <1>2 DEF At
<1>4. Inside(t, p) \in Literal => t[p] \notin {"line", "open"}
  BY <1>1, <1>2 DEF CommentInString, In, Inside, Literal
<1>5. Inside(t, p) \in Kinds
  BY <1>1, <1>2, InsideFacts
<1>6. Inside(t, p) = "code" =>
                /\ t[p] = "quote" => Inside(t, p + 1) = "string"
                /\ t[p] = "line" => Inside(t, p + 1) = "line"
                /\ t[p] = "open" => Inside(t, p + 1) = "block"
                /\ t[p] \notin {"quote", "line", "open"} => Inside(t, p + 1) = "code"
  BY <1>1, InsideFacts
<1>7. Inside(t, p) = "string" =>
                /\ t[p] = "quote" => Inside(t, p + 1) = "code"
                /\ t[p] = "esc" => Inside(t, p + 1) = "escape"
                /\ t[p] \notin {"quote", "esc"} => Inside(t, p + 1) = "string"
  BY <1>1, InsideFacts
<1>8. /\ Inside(t, p) = "escape" => Inside(t, p + 1) = "string"
      /\ Inside(t, p) = "line" =>
                Inside(t, p + 1) = IF t[p] = "newline" THEN "code" ELSE "line"
      /\ Inside(t, p) = "block" =>
                Inside(t, p + 1) = IF t[p] = "close" THEN "code" ELSE "block"
  BY <1>1, InsideFacts
<1> QED
  BY <1>2, <1>3, <1>4, <1>5, <1>6, <1>7, <1>8

(* What only certain lexemes end does end, and at the first of them. *)
LEMMA EndFacts ==
    ASSUME NEW t, Accepted(t), NEW p \in Positions(t), NEW kinds, NEW ends,
           Inside(t, p) \in kinds, "code" \notin kinds,
           \A q \in 1 .. Len(t) :
                Inside(t, q) \in kinds /\ t[q] \notin ends => Inside(t, q + 1) \in kinds
    PROVE  LET f == FirstOf(t, p, ends) IN
           /\ f # None /\ f \in p .. Len(t) /\ t[f] \in ends
           /\ \A r \in p .. f : Inside(t, r) \in kinds
<1> DEFINE f == FirstOf(t, p, ends)
           N == Len(t)
           S == {r \in 1 .. N + 1 : Inside(t, r) \in kinds}
<1>1. /\ t \in Texts /\ N \in Nat /\ Positions(t) = 1 .. N + 1
      /\ Inside(t, N + 1) = "code"
  BY AcceptedFacts
<1>2. p \in S
  BY <1>1
<1>3. ASSUME NEW q \in 1 .. N, q \in S, t[q] \notin ends
      PROVE  q + 1 \in S
  BY <1>1, <1>3
<1>4. f # None
  <2>1. SUFFICES ASSUME f = None
                 PROVE  FALSE
    OBVIOUS
  <2>2. \A q \in p .. N : t[q] \notin ends
    BY <1>1, <2>1, FirstOfFacts
  <2> HIDE DEF S, f, N
  <2>3. \A q \in p .. (N + 1) - 1 : q \in S => q + 1 \in S
    BY <1>1, <1>3, <2>2
  <2>4. p \in Nat /\ N + 1 \in Nat
    BY <1>1
  <2>5. \A q \in p .. N + 1 : q \in S
    BY <1>2, <2>3, <2>4, Upwards
  <2>6. N + 1 \in S
    BY <1>1, <2>5
  <2> QED
    BY <1>1, <2>6 DEF S
<1>5. /\ f \in p .. N /\ t[f] \in ends
      /\ \A q \in p .. f - 1 : t[q] \notin ends
  BY <1>1, <1>4, FirstOfFacts
<1>6. \A r \in p .. f : r \in S
  <2> HIDE DEF S, f, N
  <2>1. \A q \in p .. f - 1 : q \in S => q + 1 \in S
    BY <1>1, <1>3, <1>5
  <2>2. p \in Nat /\ f \in Nat
    BY <1>1, <1>5
  <2> QED
    BY <1>2, <2>1, <2>2, Upwards
<1> QED
  BY <1>4, <1>5, <1>6

(* What is skipped in code is blank or a comment for Rust too. *)
Passed(t, p) == t[p] = "newline" \/ Comment(t, p)

(* One blank or comment in code is followed by code. *)
LEMMA BlankInCode ==
    ASSUME NEW t, Accepted(t), NEW p \in 1 .. Len(t), Inside(t, p) = "code"
    PROVE  LET b == Blank(t, p) IN
           /\ b # p <=> Passed(t, p)
           /\ b \in p .. Len(t) + 1
           /\ Inside(t, b) = "code"
           /\ \A r \in p .. b - 1 : Passed(t, r)
<1> DEFINE N == Len(t)
           b == Blank(t, p)
<1>1. /\ t \in Texts /\ N \in Nat /\ Positions(t) = 1 .. N + 1
      /\ p \in Positions(t) /\ p + 1 \in Positions(t) /\ At(t, p) = t[p]
  BY AcceptedFacts, StepFacts
<1>2. Passed(t, p) <=> t[p] \in {"newline", "line", "open"}
  BY DEF Passed, Comment, In, Inside
<1>3. CASE t[p] = "newline"
  <2>1. b = p + 1
    BY <1>1, <1>3, CommentEndFacts DEF Blank
  <2>2. Inside(t, p + 1) = "code"
    BY <1>3, StepFacts
  <2> HIDE DEF b
  <2>3. \A r \in p .. b - 1 : r = p
    BY <2>1
  <2> QED
    BY <1>1, <1>2, <1>3, <2>1, <2>2, <2>3 DEF b
<1>4. ASSUME NEW kind \in {"line", "block"}, NEW x, CommentEnd[t[p]] = {x},
             t[p] \in {"line", "open"},
             Inside(t, p + 1) = kind,
             \A q \in 1 .. N : Inside(t, q) = kind =>
                Inside(t, q + 1) = IF t[q] = x THEN "code" ELSE kind
      PROVE  /\ b # p /\ b \in p .. N + 1 /\ Inside(t, b) = "code"
             /\ \A r \in p .. b - 1 : Passed(t, r)
  <2> DEFINE f == FirstOf(t, p + 1, {x})
             kinds == {kind}
  <2>1. \A q \in 1 .. N : Inside(t, q) \in kinds /\ t[q] \notin {x} => Inside(t, q + 1) \in kinds
    BY <1>4
  <2>2. Inside(t, p + 1) \in kinds /\ "code" \notin kinds
    BY <1>4
  <2> HIDE DEF kinds, N
  <2>3. /\ f # None /\ f \in p + 1 .. N /\ t[f] \in {x}
        /\ \A r \in p + 1 .. f : Inside(t, r) \in kinds
    BY <1>1, <2>1, <2>2, EndFacts DEF N
  <2>4. b = f + 1
    BY <1>1, <1>4, <2>3, CommentEndFacts DEF Blank
  <2> HIDE DEF f, b
  <2>5. Inside(t, f + 1) = "code"
    <3>1. f \in 1 .. N /\ f \in p + 1 .. f
      BY <1>1, <2>3
    <3>2. Inside(t, f) = kind
      BY <2>3, <3>1 DEF kinds
    <3> QED
      BY <1>4, <2>3, <3>1, <3>2
  <2>6. ASSUME NEW r \in p .. b - 1
        PROVE  Passed(t, r)
    <3>1. CASE r = p
      BY <1>2, <1>4, <3>1
    <3>2. CASE r # p
      <4>1. r \in p + 1 .. f
        BY <1>1, <2>3, <2>4, <3>2
      <4>2. Inside(t, r) \in {"line", "block"}
        BY <2>3, <4>1 DEF kinds
      <4> QED
        BY <4>2 DEF Passed, Comment, In, Inside
    <3> QED
      BY <3>1, <3>2
  <2> QED
    BY <1>1, <2>3, <2>4, <2>5, <2>6
<1>5. CASE t[p] = "line"
  <2>1. CommentEnd[t[p]] = {"newline"} /\ Inside(t, p + 1) = "line"
    BY <1>5, CommentEndFacts, StepFacts
  <2>2. \A q \in 1 .. N : Inside(t, q) = "line" =>
                Inside(t, q + 1) = IF t[q] = "newline" THEN "code" ELSE "line"
    BY StepFacts
  <2> HIDE DEF b, N
  <2> QED
    BY <1>2, <1>4, <1>5, <2>1, <2>2 DEF b, N
<1>6. CASE t[p] = "open"
  <2>1. CommentEnd[t[p]] = {"close"} /\ Inside(t, p + 1) = "block"
    BY <1>6, CommentEndFacts, StepFacts
  <2>2. \A q \in 1 .. N : Inside(t, q) = "block" =>
                Inside(t, q + 1) = IF t[q] = "close" THEN "code" ELSE "block"
    BY StepFacts
  <2> HIDE DEF b, N
  <2> QED
    BY <1>2, <1>4, <1>6, <2>1, <2>2 DEF b, N
<1>7. CASE t[p] \notin {"newline", "line", "open"}
  <2>1. b = p
    BY <1>1, <1>7, BlankFacts
  <2> HIDE DEF b
  <2>2. \A r \in p .. p - 1 : FALSE
    BY <1>1
  <2>3. \A r \in p .. b - 1 : Passed(t, r)
    BY <2>1, <2>2, Zenon
  <2> QED
    BY <1>1, <1>2, <1>7, <2>1, <2>3 DEF b
<1> QED
  BY <1>3, <1>5, <1>6, <1>7

(* Skipping in code ends in code, at what is significant for Rust. *)
LEMMA SkipInCode ==
    ASSUME NEW t, Accepted(t), NEW p \in Positions(t), Inside(t, p) = "code"
    PROVE  LET s == Skip(t, p) IN
           /\ s \in p .. Len(t) + 1 /\ s \in Positions(t)
           /\ Inside(t, s) = "code"
           /\ \A r \in p .. s - 1 : Passed(t, r)
           /\ s # Len(t) + 1 => s \in 1 .. Len(t) /\ ~Passed(t, s)
<1> DEFINE N == Len(t)
           Good(q) == /\ Inside(t, Skip(t, q)) = "code"
                      /\ \A r \in q .. Skip(t, q) - 1 : Passed(t, r)
           S == {q \in 1 .. N + 1 : Inside(t, q) = "code" => Good(q)}
<1>1. /\ t \in Texts /\ N \in Nat /\ Positions(t) = 1 .. N + 1
  BY AcceptedFacts
<1>2. ASSUME NEW q \in 1 .. N + 1, \A r \in q + 1 .. N + 1 : r \in S
      PROVE  q \in S
  <2> SUFFICES ASSUME Inside(t, q) = "code"
               PROVE  Good(q)
    OBVIOUS
  <2>1. CASE Blank(t, q) = q
    <3>1. Skip(t, q) = q
      BY <1>1, <2>1, SkipFacts
    <3>2. \A r \in q .. q - 1 : FALSE
      BY <1>1
    <3>3. \A r \in q .. Skip(t, q) - 1 : Passed(t, r)
      BY <3>1, <3>2, Zenon
    <3> QED
      BY <3>1, <3>3
  <2>2. CASE Blank(t, q) # q
    <3> DEFINE b == Blank(t, q)
    <3>1. q \in 1 .. N
      BY <1>1, <2>2, BlankFacts
    <3>2. b \in q .. N + 1 /\ Inside(t, b) = "code" /\ \A r \in q .. b - 1 : Passed(t, r)
      BY <3>1, BlankInCode
    <3>3. Skip(t, q) = Skip(t, b)
      BY <1>1, <2>2, SkipFacts
    <3>4. b # q
      BY <2>2
    <3> HIDE DEF b, Good
    <3>5. b \in q + 1 .. N + 1 /\ b \in 1 .. N + 1
      BY <1>1, <3>2, <3>4
    <3>6. Good(b)
      BY <1>2, <3>2, <3>5
    <3>7. ASSUME NEW r \in q .. Skip(t, q) - 1
          PROVE  Passed(t, r)
      <4>1. Skip(t, b) \in b .. N + 1
        BY <1>1, <3>5, SkipFacts
      <4>2. r \in q .. b - 1 \/ r \in b .. Skip(t, b) - 1
        BY <1>1, <3>3, <3>5, <4>1
      <4> QED
        BY <3>2, <3>6, <4>2 DEF Good
    <3> QED
      BY <3>3, <3>6, <3>7 DEF Good
  <2> QED
    BY <2>1, <2>2
<1>3. Good(p)
  <2> HIDE DEF S, Good
  <2>1. 1 \in Nat /\ N + 1 \in Nat
    BY <1>1
  <2>2. \A q \in 1 .. N + 1 : q \in S
    BY <1>2, <2>1, Downwards
  <2>3. p \in S
    BY <1>1, <2>2
  <2> QED
    BY <2>3 DEF S
<1>4. /\ Skip(t, p) \in p .. N + 1 /\ Skip(t, p) \in Positions(t)
      /\ Blank(t, Skip(t, p)) = Skip(t, p)
  BY <1>1, SkipFacts
<1>5. ASSUME Skip(t, p) # N + 1
      PROVE  Skip(t, p) \in 1 .. N /\ ~Passed(t, Skip(t, p))
  <2>1. Skip(t, p) \in 1 .. N
    BY <1>1, <1>4, <1>5
  <2> QED
    BY <1>3, <1>4, <2>1, BlankInCode
<1> QED
  BY <1>3, <1>4, <1>5

(* So what find skips to is what is significant for Rust. *)
LEMMA SkipToSignificant ==
    ASSUME NEW t, Accepted(t), NEW p \in Positions(t), Inside(t, p) = "code"
    PROVE  /\ Skip(t, p) = Len(t) + 1 => Significant(t, p) = None
           /\ Skip(t, p) # Len(t) + 1 =>
                Significant(t, p) = Skip(t, p) /\ Significant(t, p) # None
<1> DEFINE N == Len(t)
           s == Skip(t, p)
           ps == {q \in p .. N : t[q] # "newline" /\ ~Comment(t, q)}
<1>1. /\ N \in Nat /\ Positions(t) = 1 .. N + 1
      /\ s \in p .. N + 1
      /\ \A r \in p .. s - 1 : Passed(t, r)
      /\ s # N + 1 => s \in 1 .. N /\ ~Passed(t, s)
  BY AcceptedFacts, SkipInCode
<1>2. Significant(t, p) = IF ps = {} THEN None ELSE CHOOSE q \in ps : \A r \in ps : q <= r
  BY DEF Significant
<1> HIDE DEF s
<1>3. ASSUME NEW q \in ps
      PROVE  q \in p .. N /\ ~(q < s) /\ s # N + 1 /\ s <= q
  <2>1. q \in p .. N /\ ~Passed(t, q)
    BY DEF Passed
  <2>2. q \notin p .. s - 1
    BY <1>1, <2>1
  <2> QED
    BY <1>1, <2>1, <2>2
<1>4. CASE s = N + 1
  <2>1. ps = {}
    BY <1>3, <1>4
  <2> QED
    BY <1>2, <1>4, <2>1 DEF s
<1>5. CASE s # N + 1
  <2>1. s \in ps
    BY <1>1, <1>5 DEF Passed
  <2>2. \A r \in ps : s <= r
    BY <1>3
  <2>3. ASSUME NEW q \in ps, \A r \in ps : q <= r
        PROVE  q = s
    <3>1. q <= s /\ s <= q
      BY <2>1, <2>2, <2>3
    <3>2. q \in Nat /\ s \in Nat
      BY <1>1, <1>3
    <3> QED
      BY <3>1, <3>2
  <2> HIDE DEF ps
  <2>4. Significant(t, p) = s
    BY <1>2, <2>1, <2>2, <2>3
  <2>5. s # None
    BY <1>1, NoneAssumption
  <2> QED
    BY <1>5, <2>4, <2>5 DEF s
<1> QED
  BY <1>4, <1>5

(* In a literal only newlines are skipped, and skipping ends in it. *)
LEMMA SkipInLiteral ==
    ASSUME NEW t, Accepted(t), NEW p \in Positions(t), Inside(t, p) \in Literal
    PROVE  LET s == Skip(t, p) IN
           /\ s \in p .. Len(t) /\ s \in Positions(t)
           /\ \A r \in p .. s : Inside(t, r) \in Literal
           /\ Inside(t, p) = "string" => Inside(t, s) = "string"
           /\ \A r \in p .. s - 1 : t[r] = "newline"
<1> DEFINE N == Len(t)
           Good(q) == /\ \A r \in q .. Skip(t, q) : Inside(t, r) \in Literal
                      /\ Inside(t, q) = "string" => Inside(t, Skip(t, q)) = "string"
                      /\ \A r \in q .. Skip(t, q) - 1 : t[r] = "newline"
           S == {q \in 1 .. N + 1 : Inside(t, q) \in Literal => Good(q)}
<1>1. /\ t \in Texts /\ N \in Nat /\ Positions(t) = 1 .. N + 1
      /\ Inside(t, N + 1) = "code"
  BY AcceptedFacts
<1>2. ASSUME NEW q \in 1 .. N + 1, \A r \in q + 1 .. N + 1 : r \in S
      PROVE  q \in S
  <2> SUFFICES ASSUME Inside(t, q) \in Literal
               PROVE  Good(q)
    OBVIOUS
  <2>1. CASE Blank(t, q) = q
    <3>1. Skip(t, q) = q
      BY <1>1, <2>1, SkipFacts
    <3>2. \A r \in q .. q - 1 : FALSE
      BY <1>1
    <3>3. \A r \in q .. Skip(t, q) - 1 : t[r] = "newline"
      BY <3>1, <3>2, Zenon
    <3>4. \A r \in q .. q : r = q
      BY <1>1
    <3> QED
      BY <3>1, <3>3, <3>4
  <2>2. CASE Blank(t, q) # q
    <3>1. q \in 1 .. N /\ t[q] \in {"newline", "line", "open"}
      BY <1>1, <2>2, BlankFacts
    <3>2. t[q] = "newline" /\ At(t, q) = t[q] /\ Inside(t, q + 1) = "string"
      BY <3>1, StepFacts DEF Literal
    <3>3. Blank(t, q) = q + 1
      BY <3>2, CommentEndFacts DEF Blank
    <3>4. Skip(t, q) = Skip(t, q + 1)
      BY <1>1, <2>2, <3>3, SkipFacts
    <3>5. q + 1 \in q + 1 .. N + 1 /\ q + 1 \in Positions(t)
      BY <1>1, <3>1
    <3>6. Good(q + 1)
      BY <1>2, <3>2, <3>5 DEF Literal
    <3>7. ASSUME NEW r \in q .. Skip(t, q) - 1
          PROVE  t[r] = "newline"
      <4>1. Skip(t, q + 1) \in q + 1 .. N + 1
        BY <1>1, <3>5, SkipFacts
      <4>2. r = q \/ r \in q + 1 .. Skip(t, q + 1) - 1
        BY <1>1, <3>4, <3>5, <4>1
      <4> QED
        BY <3>2, <3>6, <4>2
    <3>8. ASSUME NEW r \in q .. Skip(t, q)
          PROVE  Inside(t, r) \in Literal
      <4>1. Skip(t, q + 1) \in q + 1 .. N + 1
        BY <1>1, <3>5, SkipFacts
      <4>2. r = q \/ r \in q + 1 .. Skip(t, q + 1)
        BY <1>1, <3>4, <3>5, <4>1
      <4> QED
        BY <3>6, <4>2
    <3> QED
      BY <3>2, <3>4, <3>6, <3>7, <3>8
  <2> QED
    BY <2>1, <2>2
<1>3. Good(p)
  <2> HIDE DEF S, Good
  <2>1. 1 \in Nat /\ N + 1 \in Nat
    BY <1>1
  <2>2. \A q \in 1 .. N + 1 : q \in S
    BY <1>2, <2>1, Downwards
  <2>3. p \in S
    BY <1>1, <2>2
  <2> QED
    BY <2>3 DEF S
<1>4. /\ Skip(t, p) \in p .. N + 1 /\ Skip(t, p) \in Positions(t)
  BY <1>1, SkipFacts
<1>5. Skip(t, p) # N + 1
  <2>1. Skip(t, p) \in p .. Skip(t, p)
    BY <1>1, <1>4
  <2>2. Inside(t, Skip(t, p)) \in Literal
    BY <1>3, <2>1
  <2> QED
    BY <1>1, <2>2 DEF Literal
<1>6. Skip(t, p) \in p .. N
  BY <1>1, <1>4, <1>5
<1> QED
  BY <1>3, <1>4, <1>6

-----------------------------------------------------------------------------
(* Between the bracket and the message, for a macro in code. *)
LEMMA MessageFacts ==
    ASSUME NEW t, Accepted(t), NEW b \in 1 .. Len(t),
           t[b] \in {"call", "other"}, Inside(t, b) = "code"
    PROVE  LET q == Quote(t, b) IN
           /\ q \in b + 1 .. Len(t) + 1
           /\ Inside(t, q) = "code"
           /\ \A r \in b + 1 .. q - 1 : Passed(t, r) \/ t[r] = "pair"
           /\ q = Len(t) + 1 => Message(t, b) = None
           /\ q # Len(t) + 1 => Message(t, b) = q /\ Message(t, b) # None
<1> DEFINE N == Len(t)
           s == Skip(t, b + 1)
           q == Quote(t, b)
           m == Message(t, b)
<1>1. /\ N \in Nat /\ Positions(t) = 1 .. N + 1 /\ DOMAIN t = 1 .. N
  BY AcceptedFacts
<1>2. b + 1 \in Positions(t) /\ Inside(t, b + 1) = "code"
  BY StepFacts
<1>3. /\ s \in b + 1 .. N + 1 /\ Inside(t, s) = "code"
      /\ \A r \in b + 1 .. s - 1 : Passed(t, r)
      /\ s # N + 1 => s \in 1 .. N
  BY <1>2, SkipInCode
<1>4. /\ s = N + 1 => Significant(t, b + 1) = None
      /\ s # N + 1 => Significant(t, b + 1) = s /\ Significant(t, b + 1) # None
  BY <1>2, SkipToSignificant
<1>5. CASE At(t, s) = "pair"
  <2>1. s \in 1 .. N /\ t[s] = "pair" /\ s # N + 1
    BY <1>1, <1>3, <1>5 DEF At
  <2>2. s + 1 \in Positions(t) /\ Inside(t, s + 1) = "code"
    BY <1>3, <2>1, StepFacts
  <2>3. q = Skip(t, s + 1)
    BY <1>5 DEF Quote
  <2>4. m = Significant(t, s + 1)
    BY <1>4, <2>1 DEF Message
  <2>5. /\ Skip(t, s + 1) \in s + 1 .. N + 1 /\ Inside(t, Skip(t, s + 1)) = "code"
        /\ \A r \in s + 1 .. Skip(t, s + 1) - 1 : Passed(t, r)
    BY <2>2, SkipInCode
  <2>6. /\ Skip(t, s + 1) = N + 1 => Significant(t, s + 1) = None
        /\ Skip(t, s + 1) # N + 1 =>
            Significant(t, s + 1) = Skip(t, s + 1) /\ Significant(t, s + 1) # None
    BY <2>2, SkipToSignificant
  <2> HIDE DEF s, q, m
  <2>7. \A r \in b + 1 .. q - 1 :
            r \in b + 1 .. s - 1 \/ r = s \/ r \in s + 1 .. q - 1
    BY <1>1, <1>3, <2>1
  <2>8. \A r \in b + 1 .. q - 1 : Passed(t, r) \/ t[r] = "pair"
    BY <1>3, <2>1, <2>3, <2>5, <2>7
  <2>9. q \in b + 1 .. N + 1
    BY <1>1, <1>3, <2>1, <2>3, <2>5
  <2> QED
    BY <2>3, <2>4, <2>5, <2>6, <2>8, <2>9 DEF q, m
<1>6. CASE At(t, s) # "pair"
  <2>1. q = s
    BY <1>6 DEF Quote
  <2>2. s # N + 1 => t[s] # "pair"
    BY <1>1, <1>3, <1>6 DEF At
  <2>3. m = Significant(t, b + 1)
    BY <1>4, <2>2 DEF Message
  <2> HIDE DEF s, q, m
  <2> QED
    BY <1>3, <1>4, <2>1, <2>3 DEF q, m
<1> QED
  BY <1>5, <1>6

(* From the message's quote in code to the next quote, which find takes for *)
(* the closing one. *)
LEMMA ValueFacts ==
    ASSUME NEW t, Accepted(t), NEW b \in 1 .. Len(t), Quote(t, b) \in 1 .. Len(t),
           t[Quote(t, b)] = "quote", Inside(t, Quote(t, b)) = "code"
    PROVE  LET q == Quote(t, b)
               v == ValueStart(t, b)
               e == ValueEnd(t, b)
           IN  /\ v \in q + 1 .. Len(t) /\ Inside(t, v) = "string"
               /\ \A r \in q + 1 .. v - 1 : t[r] = "newline"
               /\ e # None /\ e \in v .. Len(t)
               /\ \A r \in q + 1 .. e : Inside(t, r) \in Literal
               /\ Inside(t, e + 1) \in {"code", "string"}
<1> DEFINE N == Len(t)
           q == Quote(t, b)
           v == ValueStart(t, b)
           e == ValueEnd(t, b)
<1>1. /\ N \in Nat /\ Positions(t) = 1 .. N + 1
  BY AcceptedFacts
<1>2. q + 1 \in Positions(t) /\ Inside(t, q + 1) = "string"
  BY StepFacts
<1>3. v = Skip(t, q + 1)
  BY DEF ValueStart
<1>4. /\ v \in q + 1 .. N /\ v \in Positions(t) /\ Inside(t, v) = "string"
      /\ \A r \in q + 1 .. v : Inside(t, r) \in Literal
      /\ \A r \in q + 1 .. v - 1 : t[r] = "newline"
  BY <1>2, <1>3, SkipInLiteral DEF Literal
<1>5. e = FirstOf(t, v, {"quote"})
  BY DEF ValueEnd
<1> HIDE DEF v, e, q, N
<1>6. v \in q + 1 .. v
  BY <1>1, <1>4 DEF q, N
<1>7. Inside(t, v) \in Literal /\ "code" \notin Literal
  BY <1>4, <1>6 DEF Literal
<1>8. \A r \in 1 .. Len(t) :
        Inside(t, r) \in Literal /\ t[r] \notin {"quote"} => Inside(t, r + 1) \in Literal
  BY StepFacts DEF Literal
<1>9. /\ e # None /\ e \in v .. Len(t) /\ t[e] \in {"quote"}
      /\ \A r \in v .. e : Inside(t, r) \in Literal
  BY <1>4, <1>5, <1>7, <1>8, EndFacts
<1>10. q \in 1 .. N
  BY DEF q, N
<1>11. \A r \in q + 1 .. e : r \in q + 1 .. v \/ r \in v .. e
  BY <1>1, <1>4, <1>9, <1>10 DEF N
<1>12. \A r \in q + 1 .. e : Inside(t, r) \in Literal
  BY <1>4, <1>9, <1>11
<1>13. Inside(t, e + 1) \in {"code", "string"}
  <2>1. e \in 1 .. Len(t) /\ e \in v .. e
    BY <1>1, <1>4, <1>9, <1>10 DEF N
  <2>2. Inside(t, e) \in Literal
    BY <1>9, <2>1
  <2> QED
    BY <1>9, <2>1, <2>2, StepFacts DEF Literal
<1> QED
  BY <1>4, <1>9, <1>12, <1>13 DEF v, e, q, N

(* What comes before the name of a macro in code is no log statement. *)
Idle(t, r) == r \notin RustStatements(t)

(* Only a configured macro in code can be a log statement. *)
LEMMA IdleFacts ==
    ASSUME NEW t, NEW r,
           \/ t[r] # "call"
           \/ Inside(t, r) # "code"
           \/ Passed(t, r)
    PROVE  Idle(t, r)
<1>1. CASE Passed(t, r)
  BY <1>1 DEF Idle, RustStatements, Passed, Comment, In, Inside
<1>2. CASE t[r] # "call" \/ Inside(t, r) # "code"
  BY <1>2 DEF Idle, RustStatements, In, Inside
<1> QED
  BY <1>1, <1>2

(* Macro names in code, with the words before them. *)
LEMMA BracketInCode ==
    ASSUME NEW t, Accepted(t), NEW p \in Positions(t), Inside(t, p) = "code"
    PROVE  LET b == Bracket(t, p) IN
           /\ b \in p .. Len(t) + 1
           /\ Inside(t, b) = "code"
           /\ \A r \in p .. b - 1 : Idle(t, r)
           /\ At(t, p) = "word" => At(t, b) # "call"
<1> DEFINE N == Len(t)
           Good(q) == /\ Inside(t, Bracket(t, q)) = "code"
                      /\ \A r \in q .. Bracket(t, q) - 1 : Idle(t, r)
                      /\ At(t, q) = "word" => At(t, Bracket(t, q)) # "call"
           S == {q \in 1 .. N + 1 : Inside(t, q) = "code" => Good(q)}
<1>1. /\ t \in Texts /\ N \in Nat /\ Positions(t) = 1 .. N + 1 /\ DOMAIN t = 1 .. N
  BY AcceptedFacts
<1>2. ASSUME NEW q \in 1 .. N + 1, \A r \in q + 1 .. N + 1 : r \in S
      PROVE  q \in S
  <2> SUFFICES ASSUME Inside(t, q) = "code"
               PROVE  Good(q)
    OBVIOUS
  <2>1. CASE At(t, q) # "word"
    <3>1. Bracket(t, q) = q
      BY <1>1, <2>1, BracketFacts
    <3>2. \A r \in q .. q - 1 : FALSE
      BY <1>1
    <3>3. \A r \in q .. Bracket(t, q) - 1 : Idle(t, r)
      BY <3>1, <3>2, Zenon
    <3> QED
      BY <2>1, <3>1, <3>3
  <2>2. CASE At(t, q) = "word"
    <3> DEFINE s == Skip(t, q + 1)
    <3>1. /\ q \in 1 .. N /\ s \in q + 1 .. N + 1
          /\ Bracket(t, q) = Bracket(t, s)
      BY <1>1, <2>2, BracketFacts
    <3>2. t[q] = "word" /\ Inside(t, q + 1) = "code" /\ q + 1 \in Positions(t)
      BY <2>2, <3>1, StepFacts
    <3>3. /\ Inside(t, s) = "code"
          /\ \A r \in q + 1 .. s - 1 : Passed(t, r)
      BY <3>2, SkipInCode
    <3>4. At(t, s) # "call"
      <4>1. CASE s = N + 1
        BY <1>1, <4>1 DEF At
      <4>2. CASE s # N + 1
        <5>1. Significant(t, q + 1) = s /\ Significant(t, q + 1) # None
          BY <3>2, <4>2, SkipToSignificant
        <5>2. ~WordBefore(t)
          BY DEF Accepted, Tame
        <5>3. t[s] # "call" /\ s \in DOMAIN t
          BY <1>1, <3>1, <3>2, <4>2, <5>1, <5>2 DEF WordBefore
        <5> QED
          BY <5>3 DEF At
      <4> QED
        BY <4>1, <4>2
    <3> HIDE DEF s, Good
    <3>5. Good(s)
      BY <1>1, <1>2, <3>1, <3>3
    <3>6. At(t, Bracket(t, s)) # "call"
      <4>1. CASE At(t, s) = "word"
        BY <3>5, <4>1 DEF Good
      <4>2. CASE At(t, s) # "word"
        <5>1. s \in Positions(t)
          BY <1>1, <3>1
        <5>2. Bracket(t, s) = s
          BY <1>1, <4>2, <5>1, BracketFacts
        <5> QED
          BY <3>4, <5>2
      <4> QED
        BY <4>1, <4>2
    <3>7. ASSUME NEW r \in q .. Bracket(t, q) - 1
          PROVE  Idle(t, r)
      <4>1. s \in Positions(t)
        BY <1>1, <3>1
      <4>2. Bracket(t, s) \in s .. N + 1
        BY <1>1, <4>1, BracketFacts
      <4>3. r = q \/ r \in q + 1 .. s - 1 \/ r \in s .. Bracket(t, s) - 1
        BY <1>1, <3>1, <4>2
      <4>4. r = q => t[r] # "call"
        BY <3>2
      <4>5. r \in q + 1 .. s - 1 => Passed(t, r)
        BY <3>3
      <4>6. r \in s .. Bracket(t, s) - 1 => Idle(t, r)
        BY <3>5 DEF Good
      <4> QED
        BY <4>3, <4>4, <4>5, <4>6, IdleFacts
    <3> QED
      BY <3>1, <3>5, <3>6, <3>7 DEF Good
  <2> QED
    BY <2>1, <2>2
<1>3. Good(p)
  <2> HIDE DEF S, Good
  <2>1. 1 \in Nat /\ N + 1 \in Nat
    BY <1>1
  <2>2. \A q \in 1 .. N + 1 : q \in S
    BY <1>2, <2>1, Downwards
  <2>3. p \in S
    BY <1>1, <2>2
  <2> QED
    BY <2>3 DEF S
<1>4. Bracket(t, p) \in p .. N + 1
  BY <1>1, BracketFacts
<1> QED
  BY <1>3, <1>4

(* In a literal, the words before the name of a macro are of the literal. *)
LEMMA BracketInLiteral ==
    ASSUME NEW t, Accepted(t), NEW p \in Positions(t), Inside(t, p) \in Literal
    PROVE  Inside(t, Bracket(t, p)) \in Literal
<1> DEFINE N == Len(t)
           S == {q \in 1 .. N + 1 :
                    Inside(t, q) \in Literal => Inside(t, Bracket(t, q)) \in Literal}
<1>1. /\ t \in Texts /\ N \in Nat /\ Positions(t) = 1 .. N + 1
  BY AcceptedFacts
<1>2. ASSUME NEW q \in 1 .. N + 1, \A r \in q + 1 .. N + 1 : r \in S
      PROVE  q \in S
  <2> SUFFICES ASSUME Inside(t, q) \in Literal
               PROVE  Inside(t, Bracket(t, q)) \in Literal
    OBVIOUS
  <2>1. CASE At(t, q) # "word"
    BY <1>1, <2>1, BracketFacts
  <2>2. CASE At(t, q) = "word"
    <3> DEFINE s == Skip(t, q + 1)
    <3>1. /\ q \in 1 .. N /\ s \in q + 1 .. N + 1
          /\ Bracket(t, q) = Bracket(t, s)
      BY <1>1, <2>2, BracketFacts
    <3>2. Inside(t, q + 1) \in Literal /\ q + 1 \in Positions(t)
      BY <2>2, <3>1, StepFacts DEF Literal
    <3>3. s \in q + 1 .. s /\ \A r \in q + 1 .. s : Inside(t, r) \in Literal
      BY <1>1, <3>1, <3>2, SkipInLiteral
    <3> HIDE DEF s
    <3> QED
      BY <1>2, <3>1, <3>3
  <2> QED
    BY <2>1, <2>2
<1> HIDE DEF S
<1>3. 1 \in Nat /\ N + 1 \in Nat
  BY <1>1
<1>4. \A q \in 1 .. N + 1 : q \in S
  BY <1>2, <1>3, Downwards
<1>5. p \in S
  BY <1>1, <1>4
<1> QED
  BY <1>5 DEF S

(* What a literal contains is not read as a log statement. *)
LEMMA NoMacroInLiteral ==
    ASSUME NEW t, Accepted(t), NEW p \in 1 .. Len(t), Inside(t, p) \in Literal
    PROVE  ~LogMacro(t, p)
<1> SUFFICES ASSUME LogMacro(t, p)
             PROVE  FALSE
  OBVIOUS
<1> DEFINE N == Len(t)
           b == Bracket(t, p)
           s == Skip(t, b + 1)
           q == Quote(t, b)
<1>1. /\ t \in Texts /\ N \in Nat /\ Positions(t) = 1 .. N + 1 /\ DOMAIN t = 1 .. N
      /\ p \in Positions(t)
  BY AcceptedFacts, StepFacts
<1>2. /\ b \in p .. N /\ t[b] \in {"call", "other"}
      /\ q \in b + 1 .. N /\ t[q] = "quote"
  BY <1>1, StatementFacts
<1>3. Inside(t, b) \in Literal
  BY <1>1, BracketInLiteral
<1>4. b \in 1 .. N
  BY <1>1, <1>2
<1>5. Inside(t, b + 1) = "string" /\ b + 1 \in Positions(t)
  BY <1>2, <1>3, <1>4, StepFacts DEF Literal
<1>6. /\ s \in b + 1 .. N /\ s \in Positions(t) /\ Inside(t, s) = "string"
      /\ \A r \in b + 1 .. s - 1 : t[r] = "newline"
  BY <1>5, SkipInLiteral DEF Literal
<1>7. /\ Inside(t, q) = "string"
      /\ \A r \in b + 1 .. q - 1 : t[r] \in {"newline", "pair"}
  <2>1. CASE At(t, s) = "pair"
    <3>1. s \in 1 .. N /\ t[s] = "pair"
      BY <1>1, <1>4, <1>6, <2>1 DEF At
    <3>2. Inside(t, s + 1) = "string" /\ s + 1 \in Positions(t)
      BY <1>6, <3>1, StepFacts
    <3>3. q = Skip(t, s + 1)
      BY <2>1 DEF Quote
    <3>4. /\ Inside(t, Skip(t, s + 1)) = "string"
          /\ \A r \in s + 1 .. Skip(t, s + 1) - 1 : t[r] = "newline"
      BY <3>2, SkipInLiteral DEF Literal
    <3> HIDE DEF s, q, b, N
    <3>5. \A r \in b + 1 .. q - 1 :
                r \in b + 1 .. s - 1 \/ r = s \/ r \in s + 1 .. q - 1
      BY <1>1, <1>2, <1>4, <3>1
    <3> QED
      BY <1>6, <3>1, <3>3, <3>4, <3>5
  <2>2. CASE At(t, s) # "pair"
    <3>1. q = s
      BY <2>2 DEF Quote
    <3> HIDE DEF s, q
    <3> QED
      BY <1>6, <3>1
  <2> QED
    BY <2>1, <2>2
<1> HIDE DEF s, q, b, N
<1>8. b \in DOMAIN t /\ q \in DOMAIN t
  BY <1>1, <1>2, <1>4
<1>9. MacroInString(t)
  BY <1>2, <1>3, <1>7, <1>8 DEF MacroInString, In, Inside, Literal
<1> QED
  BY <1>9 DEF Accepted, Tame

(* In code, find and Rust agree on which configured macros log, and where *)
(* their message begins. *)
LEMMA StatementsAgree ==
    ASSUME NEW t, Accepted(t), NEW p \in 1 .. Len(t),
           t[p] = "call", Inside(t, p) = "code"
    PROVE  /\ LogMacro(t, p) <=> p \in RustStatements(t)
           /\ Bracket(t, p) = p
           /\ LogMacro(t, p) => Message(t, p) = Quote(t, p)
<1> DEFINE N == Len(t)
           q == Quote(t, p)
<1>1. /\ t \in Texts /\ N \in Nat /\ Positions(t) = 1 .. N + 1 /\ DOMAIN t = 1 .. N
      /\ p \in Positions(t) /\ At(t, p) = t[p]
  BY AcceptedFacts, StepFacts
<1>2. Bracket(t, p) = p
  BY <1>1, BracketFacts
<1>3. /\ q \in p + 1 .. N + 1 /\ Inside(t, q) = "code"
      /\ q = N + 1 => Message(t, p) = None
      /\ q # N + 1 => Message(t, p) = q /\ Message(t, p) # None
  BY MessageFacts
<1>4. LogMacro(t, p) <=> At(t, q) = "quote" /\ ValueEnd(t, p) # None
  BY <1>1, <1>2 DEF LogMacro, MacroArgs
<1>5. p \in RustStatements(t) <=> Message(t, p) # None /\ t[Message(t, p)] = "quote"
  BY <1>1 DEF RustStatements, In, Inside
<1>6. CASE q = N + 1
  <2>1. At(t, q) = "end"
    BY <1>1, <1>6 DEF At
  <2> QED
    BY <1>2, <1>3, <1>4, <1>5, <1>6, <2>1
<1>7. CASE q # N + 1
  <2>1. q \in 1 .. N
    BY <1>1, <1>3, <1>7
  <2>2. At(t, q) = t[q]
    BY <1>1, <2>1 DEF At
  <2>3. t[q] = "quote" => ValueEnd(t, p) # None
    BY <1>3, <2>1, ValueFacts
  <2> HIDE DEF q
  <2> QED
    BY <1>2, <1>3, <1>4, <1>5, <1>7, <2>2, <2>3 DEF q
<1> QED
  BY <1>6, <1>7

-----------------------------------------------------------------------------
(* Where the loop of find comes to: nothing to skip, code or a literal. *)
Visited(t, p) ==
    /\ p \in Positions(t)
    /\ Blank(t, p) = p
    /\ Inside(t, p) \in {"code"} \cup Literal

(* Skipping from code or from a literal, find passes no log statement. *)
LEMMA SkipVisits ==
    ASSUME NEW t, Accepted(t), NEW p \in Positions(t),
           Inside(t, p) \in {"code"} \cup Literal
    PROVE  /\ Visited(t, Skip(t, p))
           /\ Skip(t, p) \in p .. Len(t) + 1
           /\ \A r \in p .. Skip(t, p) - 1 : Idle(t, r)
<1> DEFINE s == Skip(t, p)
<1>1. /\ t \in Texts /\ Len(t) \in Nat /\ Positions(t) = 1 .. Len(t) + 1
  BY AcceptedFacts
<1>2. Blank(t, s) = s /\ s \in p .. Len(t) + 1 /\ s \in Positions(t)
  BY <1>1, SkipFacts
<1>3. CASE Inside(t, p) = "code"
  <2>1. Inside(t, s) = "code" /\ \A r \in p .. s - 1 : Passed(t, r)
    BY <1>3, SkipInCode
  <2> QED
    BY <1>2, <2>1, IdleFacts DEF Visited
<1>4. CASE Inside(t, p) \in Literal
  <2>1. /\ \A r \in p .. s : Inside(t, r) \in Literal
        /\ \A r \in p .. s - 1 : t[r] = "newline"
    BY <1>4, SkipInLiteral
  <2>2. s \in p .. s
    BY <1>1, <1>2
  <2>3. Inside(t, s) \in Literal
    BY <2>1, <2>2
  <2>4. \A r \in p .. s - 1 : t[r] # "call"
    BY <2>1
  <2> HIDE DEF s
  <2> QED
    BY <1>2, <2>3, <2>4, IdleFacts DEF Visited, s
<1> QED
  BY <1>3, <1>4

(* From one visited position to the next, find passes no log statement, and *)
(* takes for one exactly what is one. *)
LEMMA OnwardsVisits ==
    ASSUME NEW t, Accepted(t), NEW p \in 1 .. Len(t), Visited(t, p)
    PROVE  /\ Visited(t, Onwards(t, p))
           /\ Onwards(t, p) \in p + 1 .. Len(t) + 1
           /\ \A r \in p + 1 .. Onwards(t, p) - 1 : Idle(t, r)
           /\ ~Idle(t, p) <=> t[p] = "call" /\ LogMacro(t, p)
           /\ t[p] = "call" /\ LogMacro(t, p) => Inside(t, p) = "code"
<1> DEFINE N == Len(t)
           w == Onwards(t, p)
<1>1. /\ t \in Texts /\ N \in Nat /\ Positions(t) = 1 .. N + 1 /\ DOMAIN t = 1 .. N
      /\ p \in Positions(t) /\ p + 1 \in Positions(t)
  BY AcceptedFacts, StepFacts
<1>2. Inside(t, p) = "code" \/ Inside(t, p) \in Literal
  BY DEF Visited
<1>3. LogMacro(t, p) => Inside(t, p) = "code"
  BY <1>2, NoMacroInLiteral
<1>4. ~Idle(t, p) => t[p] = "call" /\ Inside(t, p) = "code"
  BY IdleFacts
<1>5. ~Idle(t, p) <=> t[p] = "call" /\ LogMacro(t, p)
  BY <1>3, <1>4, StatementsAgree DEF Idle
<1>6. w \in p + 1 .. N + 1
  BY <1>1, OnwardsFacts
<1>7. CASE ~LogMacro(t, p)
  <2>1. w = Skip(t, p + 1)
    BY <1>1, <1>7, OnwardsFacts
  <2>2. Inside(t, p + 1) \in {"code"} \cup Literal
    <3>1. CASE Inside(t, p) = "code"
      <4>1. ~Passed(t, p)
        BY <3>1, BlankInCode DEF Visited
      <4>2. t[p] \notin {"line", "open"}
        BY <3>1, <4>1 DEF Passed, Comment, In, Inside
      <4> QED
        BY <3>1, <4>2, StepFacts DEF Literal
    <3>2. CASE Inside(t, p) \in Literal
      BY <3>2, StepFacts DEF Literal
    <3> QED
      BY <1>2, <3>1, <3>2
  <2>3. /\ Visited(t, Skip(t, p + 1))
        /\ \A r \in p + 1 .. Skip(t, p + 1) - 1 : Idle(t, r)
    BY <1>1, <2>2, SkipVisits
  <2> QED
    BY <1>3, <1>5, <1>6, <2>1, <2>3
<1>8. CASE LogMacro(t, p)
  <2> DEFINE b == Bracket(t, p)
             q == Quote(t, b)
             v == ValueStart(t, b)
             e == ValueEnd(t, b)
  <2>1. /\ b \in p .. N /\ t[b] \in {"call", "other"}
        /\ q \in b + 1 .. N /\ t[q] = "quote"
        /\ w = Skip(t, e + 1)
    BY <1>1, <1>8, StatementFacts
  <2>2. /\ Inside(t, b) = "code"
        /\ \A r \in p .. b - 1 : Idle(t, r)
        /\ At(t, p) = "word" => At(t, b) # "call"
    BY <1>1, <1>3, <1>8, BracketInCode
  <2>3. b \in 1 .. N
    BY <1>1, <2>1
  <2>4. b # p => Idle(t, b)
    <3>1. At(t, p) # "word" => b = p
      BY <1>1, BracketFacts
    <3>2. At(t, b) = t[b]
      BY <2>3, StepFacts
    <3> QED
      BY <2>2, <3>1, <3>2, IdleFacts
  <2>5. /\ Inside(t, q) = "code"
        /\ \A r \in b + 1 .. q - 1 : Passed(t, r) \/ t[r] = "pair"
    BY <2>1, <2>2, <2>3, MessageFacts
  <2>6. q \in 1 .. N
    BY <1>1, <2>1, <2>3
  <2>7. /\ v \in q + 1 .. N /\ e \in v .. N
        /\ \A r \in q + 1 .. e : Inside(t, r) \in Literal
        /\ Inside(t, e + 1) \in {"code", "string"}
    BY <2>1, <2>3, <2>5, <2>6, ValueFacts
  <2> HIDE DEF b, q, v, e, w, N
  <2>8. e \in 1 .. N /\ e + 1 \in Positions(t)
    BY <1>1, <2>6, <2>7
  <2>9. Inside(t, e + 1) \in {"code"} \cup Literal
    BY <2>7 DEF Literal
  <2>10. /\ Visited(t, Skip(t, e + 1))
         /\ \A r \in e + 1 .. Skip(t, e + 1) - 1 : Idle(t, r)
    BY <2>8, <2>9, SkipVisits
  <2>11. ASSUME NEW r \in p + 1 .. w - 1
         PROVE  Idle(t, r)
    <3>1. \/ r \in p .. b - 1 \/ (r = b /\ b # p) \/ r \in b + 1 .. q - 1
          \/ r = q \/ r \in q + 1 .. e \/ r \in e + 1 .. w - 1
      BY <1>1, <2>1, <2>3, <2>6, <2>8, <1>6
    <3>2. r \in b + 1 .. q - 1 => Idle(t, r)
      <4>1. r \in b + 1 .. q - 1 => Passed(t, r) \/ t[r] # "call"
        BY <2>5
      <4> QED
        BY <4>1, IdleFacts
    <3>3. r = q => Idle(t, r)
      <4>1. r = q => t[r] # "call"
        BY <2>1
      <4> QED
        BY <4>1, IdleFacts
    <3>4. r \in q + 1 .. e => Idle(t, r)
      <4>1. r \in q + 1 .. e => Inside(t, r) # "code"
        BY <2>7 DEF Literal
      <4> QED
        BY <4>1, IdleFacts
    <3>5. r \in e + 1 .. w - 1 => Idle(t, r)
      BY <2>1, <2>10
    <3> QED
      BY <2>2, <2>4, <3>1, <3>2, <3>3, <3>4, <3>5
  <2> QED
    BY <1>3, <1>5, <1>6, <2>1, <2>10, <2>11 DEF w, N
<1> QED
  BY <1>7, <1>8

(* The entries of a list with one put before it. *)
LEMMA EntriesPrepended ==
    ASSUME NEW e \in Entries, NEW s \in Seq(Entries)
    PROVE  {(<<e>> \o s)[k] : k \in DOMAIN (<<e>> \o s)} =
                {e} \cup {s[k] : k \in DOMAIN s}
<1> DEFINE es == <<e>> \o s
<1>1. /\ Len(s) \in Nat
      /\ DOMAIN s = 1 .. Len(s)
      /\ DOMAIN es = 1 .. Len(s) + 1
      /\ es[1] = e
      /\ \A k \in 1 .. Len(s) : es[k + 1] = s[k]
      /\ \A k \in 1 .. Len(s) + 1 :
            k = 1 \/ (k - 1 \in 1 .. Len(s) /\ es[k] = s[k - 1])
  BY Prepended
<1> HIDE DEF es
<1>2. \A k \in DOMAIN es : es[k] = e \/ \E j \in DOMAIN s : es[k] = s[j]
  BY <1>1
<1>3. \E k \in DOMAIN es : es[k] = e
  BY <1>1
<1>4. ASSUME NEW j \in DOMAIN s
      PROVE  \E k \in DOMAIN es : es[k] = s[j]
  <2>1. j + 1 \in DOMAIN es /\ es[j + 1] = s[j]
    BY <1>1
  <2> QED
    BY <2>1
<1>5. {es[k] : k \in DOMAIN es} = {e} \cup {s[k] : k \in DOMAIN s}
  BY <1>2, <1>3, <1>4
<1> QED
  BY <1>5 DEF es

(* What find returns from p on. *)
Found(t, mode, p) ==
    {FindFrom(t, mode)[p][k] : k \in DOMAIN FindFrom(t, mode)[p]}

(* The entries of the log statements from p on. *)
Expected(t, mode, p) ==
    {Entry(t, mode, q) : q \in {r \in p .. Len(t) : ~Idle(t, r)}}

(* Find visits all log statements and nothing else. *)
LEMMA FoundExpected ==
    ASSUME NEW t, Accepted(t), NEW mode \in BOOLEAN, NEW p, Visited(t, p)
    PROVE  Found(t, mode, p) = Expected(t, mode, p)
<1> DEFINE N == Len(t)
           f == FindFrom(t, mode)
           S == {q \in 1 .. N + 1 :
                    Visited(t, q) => Found(t, mode, q) = Expected(t, mode, q)}
<1>1. /\ t \in Texts /\ N \in Nat /\ Positions(t) = 1 .. N + 1
  BY AcceptedFacts
<1>2. ASSUME NEW q \in 1 .. N + 1, \A r \in q + 1 .. N + 1 : r \in S
      PROVE  q \in S
  <2> SUFFICES ASSUME Visited(t, q)
               PROVE  Found(t, mode, q) = Expected(t, mode, q)
    OBVIOUS
  <2>1. CASE q = N + 1
    <3>1. f[q] = <<>>
      BY <1>1, <2>1, FindEquation
    <3>2. Found(t, mode, q) = {}
      BY <3>1 DEF Found
    <3>3. {r \in q .. Len(t) : ~Idle(t, r)} = {}
      BY <1>1, <2>1
    <3>4. Expected(t, mode, q) = {}
      BY <3>3 DEF Expected
    <3> QED
      BY <3>2, <3>4
  <2>2. CASE q # N + 1
    <3> DEFINE w == Onwards(t, q)
    <3>1. q \in 1 .. N
      BY <1>1, <2>2
    <3>2. /\ Visited(t, w) /\ w \in q + 1 .. N + 1
          /\ \A r \in q + 1 .. w - 1 : Idle(t, r)
          /\ ~Idle(t, q) <=> t[q] = "call" /\ LogMacro(t, q)
      BY <3>1, OnwardsVisits
    <3>3. f[q] = IF t[q] = "call" /\ LogMacro(t, q)
                 THEN <<Entry(t, mode, q)>> \o f[w]
                 ELSE f[w]
      BY <1>1, <2>2, FindEquation
    <3> HIDE DEF w, N
    <3>4. Found(t, mode, w) = Expected(t, mode, w)
      BY <1>2, <3>2
    <3>5. w \in Positions(t)
      BY <3>2 DEF Visited
    <3>6. {r \in q .. N : ~Idle(t, r)} =
            (IF Idle(t, q) THEN {} ELSE {q}) \cup {r \in w .. N : ~Idle(t, r)}
      <4>1. ASSUME NEW r \in q .. N
            PROVE  r = q \/ r \in q + 1 .. w - 1 \/ r \in w .. N
        BY <1>1, <3>1, <3>2
      <4>2. ASSUME NEW r \in w .. N
            PROVE  r \in q .. N
        BY <1>1, <3>1, <3>2
      <4>3. q \in q .. N
        BY <1>1, <3>1
      <4> QED
        BY <3>2, <4>1, <4>2, <4>3
    <3>7. Expected(t, mode, q) =
            (IF Idle(t, q) THEN {} ELSE {Entry(t, mode, q)})
                \cup Expected(t, mode, w)
      BY <3>6 DEF Expected, N
    <3>8. Found(t, mode, q) =
            (IF Idle(t, q) THEN {} ELSE {Entry(t, mode, q)})
                \cup Found(t, mode, w)
      <4>1. CASE Idle(t, q)
        <5>1. f[q] = f[w]
          BY <3>2, <3>3, <4>1
        <5> QED
          BY <4>1, <5>1 DEF Found
      <4>2. CASE ~Idle(t, q)
        <5>1. f[q] = <<Entry(t, mode, q)>> \o f[w]
          BY <3>2, <3>3, <4>2
        <5>2. f[w] \in Seq(Entries)
          BY <1>1, <3>5, FoundFacts
        <5>3. Entry(t, mode, q) \in Entries
          BY <1>1, <3>1, <3>2, <4>2, EntryFacts DEF N
        <5> DEFINE g == f[w]
                   e == Entry(t, mode, q)
        <5>4. {(<<e>> \o g)[k] : k \in DOMAIN (<<e>> \o g)} =
                {e} \cup {g[k] : k \in DOMAIN g}
          <6> HIDE DEF g, e
          <6> QED
            BY <5>2, <5>3, EntriesPrepended DEF g, e
        <5>5. Found(t, mode, q) =
                {(<<e>> \o g)[k] : k \in DOMAIN (<<e>> \o g)}
          BY <5>1 DEF Found
        <5>6. Found(t, mode, w) = {g[k] : k \in DOMAIN g}
          BY DEF Found
        <5> HIDE DEF g, e, f
        <5> QED
          BY <4>2, <5>4, <5>5, <5>6 DEF e
      <4> QED
        BY <4>1, <4>2
    <3> QED
      BY <3>4, <3>7, <3>8
  <2> QED
    BY <2>1, <2>2
<1> HIDE DEF S
<1>3. 1 \in Nat /\ N + 1 \in Nat
  BY <1>1
<1>4. \A q \in 1 .. N + 1 : q \in S
  BY <1>2, <1>3, Downwards
<1>5. p \in S
  BY <1>1, <1>4 DEF Visited
<1> QED
  BY <1>5 DEF S

(* Find returns the entries of all log statements, and no others. *)
LEMMA FindExpected ==
    ASSUME NEW t, Accepted(t), NEW mode \in BOOLEAN
    PROVE  LET entries == Find(t, mode) IN
           {entries[k] : k \in DOMAIN entries} =
                {Entry(t, mode, q) : q \in RustStatements(t)}
<1> DEFINE s == Skip(t, 1)
           N == Len(t)
<1>1. /\ N \in Nat /\ 1 \in Positions(t) /\ Inside(t, 1) = "code" /\ DOMAIN t = 1 .. N
  BY AcceptedFacts
<1>2. /\ Visited(t, s) /\ s \in 1 .. N + 1
      /\ \A r \in 1 .. s - 1 : Idle(t, r)
  BY <1>1, SkipVisits
<1> HIDE DEF s
<1>3. {r \in s .. N : ~Idle(t, r)} = RustStatements(t)
  <2>1. RustStatements(t) \subseteq 1 .. N
    BY <1>1 DEF RustStatements
  <2>2. ASSUME NEW r \in RustStatements(t)
        PROVE  r \in s .. N /\ ~Idle(t, r)
    <3>1. r \in 1 .. N /\ ~Idle(t, r)
      BY <2>1 DEF Idle
    <3> QED
      BY <1>1, <1>2, <3>1
  <2>3. ASSUME NEW r \in s .. N, ~Idle(t, r)
        PROVE  r \in RustStatements(t)
    BY <2>3 DEF Idle
  <2> QED
    BY <2>2, <2>3
<1>4. Found(t, mode, s) = Expected(t, mode, s)
  BY <1>2, FoundExpected
<1>5. Expected(t, mode, s) = {Entry(t, mode, q) : q \in RustStatements(t)}
  BY <1>3 DEF Expected
<1> QED
  BY <1>4, <1>5 DEF Found, Find, s

(* A log statement of an accepted text, for Rust and for find. *)
LEMMA PlaceFacts ==
    ASSUME NEW t, Accepted(t), NEW q \in RustStatements(t)
    PROVE  LET m == Message(t, q)
               v == ValueStart(t, q)
           IN  /\ q \in 1 .. Len(t) /\ m \in q + 1 .. Len(t)
               /\ m = Quote(t, q)
               /\ t[m] = "quote" /\ Inside(t, m) = "code"
               /\ \A r \in q + 1 .. m - 1 : Idle(t, r)
               /\ v \in m + 1 .. Len(t) /\ Inside(t, v) = "string"
               /\ \A r \in m + 1 .. v : Inside(t, r) \in Literal
               /\ \A r \in m + 1 .. v - 1 : t[r] = "newline"
<1> DEFINE N == Len(t)
           m == Message(t, q)
           v == ValueStart(t, q)
           e == ValueEnd(t, q)
<1>1. /\ t \in Texts /\ N \in Nat /\ Positions(t) = 1 .. N + 1 /\ DOMAIN t = 1 .. N
  BY AcceptedFacts
<1>2. /\ q \in 1 .. N /\ t[q] = "call" /\ Inside(t, q) = "code"
      /\ t[m] = "quote"
  BY <1>1 DEF RustStatements, In, Inside
<1>3. LogMacro(t, q) /\ Bracket(t, q) = q /\ m = Quote(t, q)
  BY <1>2, StatementsAgree
<1>4. q \in Positions(t)
  BY <1>2, StepFacts
<1>5. m \in q + 1 .. N
  BY <1>1, <1>3, <1>4, StatementFacts
<1>6. /\ Inside(t, m) = "code"
      /\ \A r \in q + 1 .. m - 1 : Passed(t, r) \/ t[r] = "pair"
  BY <1>2, <1>3, MessageFacts
<1>7. m \in 1 .. N
  BY <1>1, <1>2, <1>5
<1>8. /\ v \in m + 1 .. N /\ Inside(t, v) = "string"
      /\ \A r \in m + 1 .. v - 1 : t[r] = "newline"
      /\ e \in v .. N
      /\ \A r \in m + 1 .. e : Inside(t, r) \in Literal
  BY <1>2, <1>3, <1>6, <1>7, ValueFacts
<1> HIDE DEF m, v, e, N
<1>9. \A r \in m + 1 .. v : Inside(t, r) \in Literal
  <2>1. \A r \in m + 1 .. v : r \in m + 1 .. e
    BY <1>1, <1>7, <1>8
  <2> QED
    BY <1>8, <2>1
<1>10. ASSUME NEW r \in q + 1 .. m - 1
       PROVE  Idle(t, r)
  <2>1. Passed(t, r) \/ t[r] # "call"
    BY <1>6
  <2> QED
    BY <2>1, IdleFacts
<1> QED
  BY <1>2, <1>3, <1>5, <1>6, <1>8, <1>9, <1>10 DEF m, v, N

(* The position of a statement's entry is where its reference belongs. *)
LEMMA InPlace ==
    ASSUME NEW t, Accepted(t), NEW mode \in BOOLEAN, NEW q \in RustStatements(t)
    PROVE  Entry(t, mode, q).position \in Place(t, mode, q)
<1> DEFINE m == Message(t, q)
           v == ValueStart(t, q)
<1>1. CASE mode
  BY <1>1 DEF Entry, Place
<1>2. CASE ~mode
  <2>1. /\ q \in 1 .. Len(t) /\ m \in q + 1 .. Len(t)
        /\ v \in m + 1 .. Len(t)
        /\ \A r \in m + 1 .. v - 1 : t[r] = "newline"
        /\ Len(t) \in Nat /\ DOMAIN t = 1 .. Len(t)
    BY PlaceFacts, AcceptedFacts
  <2>2. v \in DOMAIN t /\ m < v
    BY <2>1
  <2>3. \A r \in m + 1 .. v - 1 : ~Closes(t, q, r)
    BY <2>1 DEF Closes
  <2>4. Entry(t, mode, q).position = v
    BY <1>2 DEF Entry
  <2> HIDE DEF v
  <2> QED
    BY <1>2, <2>2, <2>3, <2>4 DEF Place
<1> QED
  BY <1>1, <1>2

(* Two statements with the same message are one. *)
LEMMA MessagesDiffer ==
    ASSUME NEW t, Accepted(t), NEW q \in RustStatements(t), NEW r \in RustStatements(t),
           Message(t, q) = Message(t, r)
    PROVE  q = r
<1>1. /\ q \in 1 .. Len(t) /\ Message(t, q) \in q + 1 .. Len(t)
      /\ \A i \in q + 1 .. Message(t, q) - 1 : Idle(t, i)
  BY PlaceFacts
<1>2. /\ r \in 1 .. Len(t) /\ Message(t, r) \in r + 1 .. Len(t)
      /\ \A i \in r + 1 .. Message(t, r) - 1 : Idle(t, i)
  BY PlaceFacts
<1>3. ~Idle(t, q) /\ ~Idle(t, r) /\ Len(t) \in Nat
  BY AcceptedFacts DEF Idle
<1>4. q \notin r + 1 .. Message(t, r) - 1 /\ r \notin q + 1 .. Message(t, q) - 1
  BY <1>1, <1>2, <1>3
<1> QED
  BY <1>1, <1>2, <1>3, <1>4

(* What is in the place of a statement belongs to no other one. *)
LEMMA InOnePlace ==
    ASSUME NEW t, Accepted(t), NEW mode \in BOOLEAN,
           NEW q \in RustStatements(t), NEW r \in RustStatements(t),
           Entry(t, mode, r).position \in Place(t, mode, q)
    PROVE  q = r
<1>1. /\ q \in 1 .. Len(t) /\ r \in 1 .. Len(t) /\ Len(t) \in Nat
      /\ Positions(t) = 1 .. Len(t) + 1
  BY PlaceFacts, AcceptedFacts
<1>2. CASE mode
  <2>1. r + 1 = q + 1
    BY <1>2 DEF Entry, Place
  <2> QED
    BY <1>1, <2>1
<1>3. CASE ~mode
  <2> DEFINE m == Message(t, q)
             k == Message(t, r)
             v == ValueStart(t, r)
             S == {i \in 1 .. Len(t) + 1 : Inside(t, i) \in Literal}
  <2>1. /\ v \in DOMAIN t /\ m < v
        /\ \A i \in m + 1 .. v - 1 : ~Closes(t, q, i)
    BY <1>3 DEF Entry, Place
  <2>2. /\ m \in q + 1 .. Len(t) /\ t[m] = "quote" /\ Inside(t, m) = "code"
    BY PlaceFacts
  <2>3. /\ k \in r + 1 .. Len(t) /\ t[k] = "quote" /\ Inside(t, k) = "code"
        /\ v \in k + 1 .. Len(t)
        /\ \A i \in k + 1 .. v : Inside(t, i) \in Literal
    BY PlaceFacts
  <2> HIDE DEF m, k, v
  <2>4. m \in 1 .. Len(t) /\ k \in 1 .. Len(t) /\ v \in 1 .. Len(t)
    BY <1>1, <2>2, <2>3
  <2>5. ~(k < m)
    <3>1. k < m => m \in k + 1 .. v
      BY <2>1, <2>4
    <3> QED
      BY <2>2, <2>3, <3>1 DEF Literal
  <2>6. m + 1 \in S
    <3>1. Inside(t, m + 1) = "string" /\ m + 1 \in Positions(t)
      BY <2>2, <2>4, StepFacts
    <3> QED
      BY <1>1, <3>1 DEF Literal
  <2>7. ASSUME NEW i \in m + 1 .. v - 1, i \in S
        PROVE  i + 1 \in S
    <3>1. i \in 1 .. Len(t) /\ ~Closes(t, q, i)
      BY <2>1, <2>4
    <3>2. ~(t[i] = "quote" /\ Inside(t, i) = "string")
      BY <3>1 DEF Closes, In, Inside
    <3>3. Inside(t, i + 1) \in Literal /\ i + 1 \in Positions(t)
      BY <2>7, <3>1, <3>2, StepFacts DEF Literal
    <3> QED
      BY <1>1, <3>3
  <2>8. \A i \in m + 1 .. v : i \in S
    <3> HIDE DEF S
    <3>1. m + 1 \in Nat /\ v \in Nat
      BY <2>4
    <3> QED
      BY <2>6, <2>7, <3>1, Upwards
  <2>9. ~(m < k)
    <3>1. m < k => k \in m + 1 .. v
      BY <2>3, <2>4
    <3> QED
      BY <2>3, <2>8, <3>1 DEF Literal
  <2>10. m = k
    BY <2>4, <2>5, <2>9
  <2> QED
    BY <2>10, MessagesDiffer DEF m, k
<1> QED
  BY <1>2, <1>3

(* Find reads an accepted text as Rust does. *)
LEMMA AcceptedRead ==
    ASSUME NEW t, Accepted(t), NEW mode \in BOOLEAN
    PROVE  ReadAsRust(t, mode)
<1> DEFINE entries == Find(t, mode)
           found == {entries[k].position : k \in DOMAIN entries}
           places == {Place(t, mode, q) : q \in RustStatements(t)}
           at(q) == Entry(t, mode, q).position
<1>1. found = {at(q) : q \in RustStatements(t)}
  BY FindExpected
<1>2. \A q \in RustStatements(t) : at(q) \in Place(t, mode, q)
  BY InPlace
<1>3. \A q, r \in RustStatements(t) : at(r) \in Place(t, mode, q) => q = r
  BY InOnePlace
<1> HIDE DEF found, at
<1>4. \A p \in found : \E place \in places : p \in place
  BY <1>1, <1>2
<1>5. ASSUME NEW place \in places
      PROVE  Cardinality(place \cap found) = 1
  <2>1. PICK q \in RustStatements(t) : place = Place(t, mode, q)
    OBVIOUS
  <2>2. place \cap found = {at(q)}
    BY <1>1, <1>2, <1>3, <2>1
  <2> QED
    BY <2>2, FS_Singleton
<1> QED
  BY <1>4, <1>5 DEF ReadAsRust, found

(***************************************************************************)
(* ReadsAsRust, for texts of any length, before and after the runs: where  *)
(* Rust accepts the text and none of the four peculiarities is there, find *)
(* reports every log statement, once and in its place, and nothing else.   *)
(***************************************************************************)
THEOREM ReadingRight == Spec => []ReadsAsRust
<1>1. TextReferenced => ReadsAsRust
  BY AcceptedRead DEF TextReferenced, ReadsAsRust, Accepted
<1>2. Spec => []TextReferenced
  BY TextReferencedInvariant
<1> QED
  BY <1>1, <1>2, PTL

-----------------------------------------------------------------------------
(***************************************************************************)
(* A copy with references where they fit: pairs in code, tags in literals. *)
(***************************************************************************)
Fits(t, reference, positions) ==
    \A p \in positions : Inside(t, p) = IF reference = "pair" THEN "code" ELSE "string"

(* A lexeme of the copy is one of the text's or a reference, in the same order. *)
LEMMA CopyFacts ==
    ASSUME NEW t, NEW u, NEW reference, NEW positions, NEW to,
           Expands(t, u, reference, positions, to)
    PROVE  /\ \A p, q \in Positions(t) : p < q => to[p] < to[q]
           /\ \A i \in 1 .. Len(u) :
                \/ u[i] \in References
                \/ \E p \in 1 .. Len(t) : to[p] = i
<1> DEFINE N == Len(t)
           M == Len(u)
           before(p) == Before(positions, to, p)
<1>1. /\ N \in Nat /\ M \in Nat
      /\ Positions(t) = 1 .. N + 1 /\ Positions(u) = 1 .. M + 1
      /\ reference \in References
      /\ before(1) = 1 /\ before(N + 1) = M + 1
  <2>1. t \in Texts /\ u \in Texts
    BY DEF Expands
  <2>2. N + 1 \notin positions
    BY <2>1 DEF Expands, Texts
  <2> QED
    BY <2>1, <2>2 DEF Expands, Texts, Positions, Before
<1>2. ASSUME NEW p \in 1 .. N + 1
      PROVE  /\ to[p] \in 1 .. M + 1 /\ before(p) \in 1 .. M + 1
             /\ p \in 1 .. N => before(p + 1) = to[p] + 1
             /\ \/ before(p) = to[p]
                \/ before(p) = to[p] - 1 /\ u[before(p)] = reference
  <2>1. p \in Positions(t)
    BY <1>1
  <2>2. /\ to[p] \in Positions(u) /\ before(p) \in Positions(u)
        /\ p \in 1 .. N => before(p + 1) = to[p] + 1
        /\ p \notin positions => before(p) = to[p]
        /\ p \in positions => before(p) = to[p] - 1 /\ u[before(p)] = reference
    BY <2>1, ExpandsFacts
  <2> HIDE DEF before, N, M
  <2> QED
    BY <1>1, <2>2
<1> HIDE DEF before, N, M
<1>3. ASSUME NEW p \in 1 .. N + 1, NEW q \in 1 .. N + 1, p < q
      PROVE  to[p] < to[q]
  <2> DEFINE S == {r \in 1 .. N + 1 : to[p] < to[r]}
  <2>1. ASSUME NEW r \in 1 .. N, to[p] <= to[r]
        PROVE  r + 1 \in S
    <3>1. r + 1 \in 1 .. N + 1 /\ before(r + 1) = to[r] + 1
      BY <1>1, <1>2
    <3>2. before(r + 1) = to[r + 1] \/ before(r + 1) = to[r + 1] - 1
      BY <1>2, <3>1
    <3>3. to[p] \in Nat /\ to[r] \in Nat /\ to[r + 1] \in Nat
      BY <1>1, <1>2, <3>1
    <3> QED
      BY <2>1, <3>1, <3>2, <3>3
  <2>2. p \in 1 .. N /\ p + 1 \in Nat /\ q \in Nat /\ q \in p + 1 .. q
    BY <1>1, <1>3
  <2>3. to[p] <= to[p]
    BY <1>1, <1>2
  <2>4. p + 1 \in S
    BY <2>1, <2>2, <2>3
  <2>5. ASSUME NEW r \in p + 1 .. q - 1, r \in S
        PROVE  r + 1 \in S
    <3>1. r \in 1 .. N /\ to[p] < to[r]
      BY <1>1, <1>3, <2>2, <2>5
    <3>2. to[p] <= to[r]
      BY <1>1, <1>2, <2>5, <3>1
    <3> QED
      BY <2>1, <3>1, <3>2
  <2> HIDE DEF S
  <2>6. \A r \in p + 1 .. q : r \in S
    BY <2>2, <2>4, <2>5, Upwards
  <2> QED
    BY <2>2, <2>6 DEF S
<1>4. ASSUME NEW i \in 1 .. M
      PROVE  u[i] \in References \/ \E p \in 1 .. N : to[p] = i
  <2> DEFINE Known(j) == u[j] \in References \/ \E p \in 1 .. N : to[p] = j
             S == {p \in 1 .. N + 1 : \A j \in 1 .. before(p) - 1 : Known(j)}
  <2>1. 1 \in S
    <3>1. \A j \in 1 .. before(1) - 1 : FALSE
      BY <1>1
    <3>2. \A j \in 1 .. before(1) - 1 : Known(j)
      BY <3>1, Zenon
    <3> QED
      BY <1>1, <3>2
  <2>2. ASSUME NEW p \in 1 .. (N + 1) - 1, p \in S
        PROVE  p + 1 \in S
    <3>1. p \in 1 .. N /\ p + 1 \in 1 .. N + 1 /\ before(p + 1) = to[p] + 1
      BY <1>1, <1>2
    <3>2. /\ to[p] \in Nat /\ before(p) \in Nat
          /\ \/ before(p) = to[p]
             \/ before(p) = to[p] - 1 /\ u[before(p)] \in References
      BY <1>1, <1>2, <3>1
    <3>3. ASSUME NEW j \in 1 .. before(p + 1) - 1
          PROVE  Known(j)
      <4>1. \/ j \in 1 .. before(p) - 1
            \/ j = to[p]
            \/ j = before(p) /\ u[before(p)] \in References
        BY <3>1, <3>2
      <4> QED
        BY <2>2, <3>1, <4>1
    <3> QED
      BY <3>1, <3>3
  <2> HIDE DEF S
  <2>3. 1 \in Nat /\ N + 1 \in Nat
    BY <1>1
  <2>4. \A p \in 1 .. N + 1 : p \in S
    BY <2>1, <2>2, <2>3, Upwards
  <2>5. N + 1 \in S
    BY <1>1, <2>4
  <2>6. i \in 1 .. before(N + 1) - 1
    BY <1>1
  <2> QED
    BY <2>5, <2>6 DEF S
<1> QED
  BY <1>1, <1>3, <1>4 DEF N, M

(* A reference in its place changes no mode. *)
LEMMA ReferenceNeutral ==
    ASSUME NEW m, NEW reference \in References,
           m.in = IF reference = "pair" THEN "code" ELSE "string"
    PROVE  After(m, reference) = m
  BY DEF After, References

(* Where they fit, references leave each lexeme where it stood. *)
LEMMA ModesStay ==
    ASSUME NEW t, NEW u, NEW reference, NEW positions, NEW to,
           Expands(t, u, reference, positions, to),
           Fits(t, reference, positions)
    PROVE  \A p \in Positions(t) : Modes(u)[to[p]] = Modes(t)[p]
<1> DEFINE N == Len(t)
           before(p) == Before(positions, to, p)
           S == {p \in 1 .. N + 1 : Modes(u)[before(p)] = Modes(t)[p]}
<1>1. /\ t \in Texts /\ u \in Texts /\ N \in Nat /\ Positions(t) = 1 .. N + 1
      /\ reference \in References
      /\ before(1) = 1
  BY DEF Expands, Texts, Positions
<1>2. /\ Modes(t)[1] = Code /\ Modes(u)[1] = Code
      /\ \A p \in 1 .. N : Modes(t)[p + 1] = After(Modes(t)[p], t[p])
      /\ \A i \in 1 .. Len(u) : Modes(u)[i + 1] = After(Modes(u)[i], u[i])
  BY <1>1, ModesEquation
<1>3. ASSUME NEW p \in 1 .. N + 1
      PROVE  /\ p \in 1 .. N => /\ to[p] \in 1 .. Len(u) /\ u[to[p]] = t[p]
                                /\ p + 1 \in 1 .. N + 1 /\ before(p + 1) = to[p] + 1
             /\ p \notin positions => before(p) = to[p]
             /\ p \in positions => /\ before(p) = to[p] - 1
                                   /\ before(p) \in 1 .. Len(u) /\ u[before(p)] = reference
             /\ to[p] \in Nat
  <2>1. p \in Positions(t)
    BY <1>1
  <2>2. Positions(u) \subseteq Nat
    BY DEF Positions
  <2> QED
    BY <1>1, <2>1, <2>2, ExpandsFacts
<1> HIDE DEF before, N
<1>4. ASSUME NEW p \in 1 .. N + 1, p \in S
      PROVE  Modes(u)[to[p]] = Modes(t)[p]
  <2>1. CASE p \notin positions
    BY <1>3, <1>4, <2>1
  <2>2. CASE p \in positions
    <3> DEFINE i == before(p)
    <3>1. Modes(u)[i] = Modes(t)[p]
      BY <1>4
    <3>2. i \in 1 .. Len(u) /\ u[i] = reference /\ i + 1 = to[p]
      BY <1>3, <2>2
    <3> HIDE DEF i
    <3>3. Modes(u)[i].in = IF reference = "pair" THEN "code" ELSE "string"
      BY <2>2, <3>1 DEF Fits, Inside
    <3>4. After(Modes(u)[i], reference) = Modes(u)[i]
      BY <1>1, <3>3, ReferenceNeutral
    <3>5. Modes(u)[i + 1] = After(Modes(u)[i], u[i])
      BY <1>2, <3>2
    <3> QED
      BY <3>1, <3>2, <3>4, <3>5
  <2> QED
    BY <2>1, <2>2
<1>5. 1 \in S
  BY <1>1, <1>2
<1>6. ASSUME NEW p \in 1 .. (N + 1) - 1, p \in S
      PROVE  p + 1 \in S
  <2>1. p \in 1 .. N /\ p \in 1 .. N + 1
    BY <1>1
  <2>2. /\ to[p] \in 1 .. Len(u) /\ u[to[p]] = t[p]
        /\ p + 1 \in 1 .. N + 1 /\ before(p + 1) = to[p] + 1
    BY <1>3, <2>1
  <2>3. Modes(u)[to[p]] = Modes(t)[p]
    BY <1>4, <1>6, <2>1
  <2>4. Modes(u)[to[p] + 1] = After(Modes(u)[to[p]], u[to[p]])
    BY <1>2, <2>2
  <2>5. Modes(t)[p + 1] = After(Modes(t)[p], t[p])
    BY <1>2, <2>1
  <2> QED
    BY <2>2, <2>3, <2>4, <2>5
<1>7. \A p \in 1 .. N + 1 : p \in S
  <2> HIDE DEF S
  <2>1. 1 \in Nat /\ N + 1 \in Nat
    BY <1>1
  <2> QED
    BY <1>5, <1>6, <2>1, Upwards
<1> QED
  BY <1>1, <1>4, <1>7

(* What is significant is the first that is neither blank nor comment. *)
LEMMA SignificantFacts ==
    ASSUME NEW t \in Texts, NEW p \in Positions(t)
    PROVE  /\ LET s == Significant(t, p) IN
              s # None => /\ s \in p .. Len(t) /\ ~Passed(t, s)
                          /\ \A r \in p .. s - 1 : Passed(t, r)
           /\ \A s \in p .. Len(t) :
                ~Passed(t, s) /\ (\A r \in p .. s - 1 : Passed(t, r))
                    => Significant(t, p) = s /\ Significant(t, p) # None
<1> DEFINE ps == {q \in p .. Len(t) : t[q] # "newline" /\ ~Comment(t, q)}
<1>1. Significant(t, p) = IF ps = {} THEN None ELSE CHOOSE q \in ps : \A r \in ps : q <= r
  BY DEF Significant
<1>2. Len(t) \in Nat /\ p \in Nat
  BY DEF Texts, Positions
<1>3. \A q : q \in ps <=> q \in p .. Len(t) /\ ~Passed(t, q)
  BY DEF Passed
<1> HIDE DEF ps
<1>4. ASSUME Significant(t, p) # None
      PROVE  LET s == Significant(t, p) IN
             /\ s \in p .. Len(t) /\ ~Passed(t, s)
             /\ \A r \in p .. s - 1 : Passed(t, r)
  <2>1. ps # {} /\ ps \subseteq Nat
    BY <1>1, <1>2, <1>3, <1>4
  <2>2. \E q \in ps : \A r \in ps : q <= r
    BY <2>1, LeastNatural
  <2>3. PICK s : s = Significant(t, p) /\ s \in ps /\ \A r \in ps : s <= r
    BY <1>1, <2>1, <2>2
  <2>4. ASSUME NEW r \in p .. s - 1
        PROVE  Passed(t, r)
    <3>1. s \in p .. Len(t)
      BY <1>3, <2>3
    <3>2. r \in p .. Len(t) /\ ~(s <= r)
      BY <1>2, <3>1
    <3> QED
      BY <1>3, <2>3, <3>2
  <2> QED
    BY <1>3, <2>3, <2>4
<1>5. ASSUME NEW s \in p .. Len(t), ~Passed(t, s), \A r \in p .. s - 1 : Passed(t, r)
      PROVE  Significant(t, p) = s /\ Significant(t, p) # None
  <2>1. s \in ps
    BY <1>3, <1>5
  <2>2. ASSUME NEW r \in ps
        PROVE  s <= r
    <3>1. r \in p .. Len(t) /\ r \notin p .. s - 1
      BY <1>3, <1>5
    <3> QED
      BY <1>2, <3>1
  <2>3. ASSUME NEW q \in ps, \A r \in ps : q <= r
        PROVE  q = s
    <3>1. q <= s /\ s <= q /\ q \in p .. Len(t)
      BY <1>3, <2>1, <2>2, <2>3
    <3> QED
      BY <1>2, <3>1
  <2>4. Significant(t, p) = s
    BY <1>1, <2>1, <2>2, <2>3
  <2> QED
    BY <1>2, <2>4, NoneAssumption
<1> QED
  BY <1>4, <1>5

(* Where references fit, an accepted text stays one. *)
LEMMA AcceptedStays ==
    ASSUME NEW t, NEW u, NEW reference, NEW positions, NEW to,
           Expands(t, u, reference, positions, to),
           Fits(t, reference, positions),
           Accepted(t)
    PROVE  Accepted(u)
<1> DEFINE N == Len(t)
           M == Len(u)
<1>1. /\ u \in Texts /\ t \in Texts /\ N \in Nat /\ M \in Nat
      /\ Positions(t) = 1 .. N + 1 /\ DOMAIN t = 1 .. N
      /\ Positions(u) = 1 .. M + 1 /\ DOMAIN u = 1 .. M
      /\ to[N + 1] = M + 1
  BY DEF Expands, Texts, Positions
<1>2. ASSUME NEW p \in 1 .. N + 1
      PROVE  /\ Inside(u, to[p]) = Inside(t, p)
             /\ to[p] \in 1 .. M + 1
             /\ p \in 1 .. N => to[p] \in 1 .. M /\ u[to[p]] = t[p]
  <2>1. p \in Positions(t)
    BY <1>1
  <2>2. Modes(u)[to[p]] = Modes(t)[p]
    BY <2>1, ModesStay
  <2> QED
    BY <1>1, <2>1, <2>2, ExpandsFacts DEF Inside
<1>3. ASSUME NEW p \in 1 .. N + 1, NEW q \in 1 .. N + 1
      PROVE  /\ p < q <=> to[p] < to[q]
  <2>1. /\ p < q => to[p] < to[q]
        /\ q < p => to[q] < to[p]
    BY <1>1, CopyFacts
  <2>2. to[p] \in Nat /\ to[q] \in Nat
    BY <1>1, <1>2
  <2> QED
    BY <2>1, <2>2
<1>4. ASSUME NEW i \in 1 .. M, u[i] \notin References
      PROVE  \E p \in 1 .. N : to[p] = i /\ t[p] = u[i] /\ Inside(t, p) = Inside(u, i)
  <2>1. PICK p \in 1 .. N : to[p] = i
    BY <1>4, CopyFacts
  <2>2. p \in 1 .. N + 1
    BY <1>1
  <2> QED
    BY <1>2, <2>1, <2>2
<1>5. ASSUME NEW p \in 1 .. N
      PROVE  Passed(u, to[p]) <=> Passed(t, p)
  <2>1. p \in 1 .. N + 1
    BY <1>1
  <2>2. Inside(u, to[p]) = Inside(t, p) /\ u[to[p]] = t[p]
    BY <1>2, <2>1
  <2> QED
    BY <2>2 DEF Passed, Comment, In, Inside
<1> HIDE DEF N, M
<1>6. WellFormed(u)
  <2>1. Inside(t, N + 1) = "code" /\ \A p \in 1 .. N : t[p] = "esc" => Inside(t, p) # "code"
    BY <1>1 DEF Accepted, WellFormed, In, Inside, N
  <2>2. Inside(u, M + 1) = "code"
    <3>1. N + 1 \in 1 .. N + 1
      BY <1>1
    <3> QED
      BY <1>1, <1>2, <2>1, <3>1
  <2>3. \A i \in 1 .. M : u[i] = "esc" => Inside(u, i) # "code"
    BY <1>4, <2>1 DEF References
  <2> QED
    BY <1>1, <2>2, <2>3 DEF WellFormed, In, Inside, M
<1>7. ~CommentInString(u)
  <2>1. \A p \in 1 .. N : ~(t[p] \in {"line", "open"} /\ Inside(t, p) \in {"string", "escape"})
    BY <1>1 DEF Accepted, Tame, CommentInString, In, Inside
  <2>2. \A i \in 1 .. M : ~(u[i] \in {"line", "open"} /\ Inside(u, i) \in {"string", "escape"})
    BY <1>4, <2>1 DEF References
  <2> QED
    BY <1>1, <2>2 DEF CommentInString, In, Inside
<1>8. ~NestedComment(u)
  <2>1. \A p \in 1 .. N : ~(t[p] = "open" /\ Inside(t, p) = "block")
    BY <1>1 DEF Accepted, Tame, NestedComment, In, Inside
  <2>2. \A i \in 1 .. M : ~(u[i] = "open" /\ Inside(u, i) = "block")
    BY <1>4, <2>1 DEF References
  <2> QED
    BY <1>1, <2>2 DEF NestedComment, In, Inside
<1>9. ~WordBefore(u)
  <2> SUFFICES ASSUME NEW i \in 1 .. M, u[i] = "word",
                      Significant(u, i + 1) # None,
                      u[Significant(u, i + 1)] = "call"
               PROVE  FALSE
    BY <1>1 DEF WordBefore
  <2> DEFINE j == Significant(u, i + 1)
  <2>1. i + 1 \in Positions(u)
    BY <1>1
  <2>2. /\ j \in i + 1 .. M /\ ~Passed(u, j)
        /\ \A r \in i + 1 .. j - 1 : Passed(u, r)
    BY <1>1, <2>1, SignificantFacts DEF M
  <2>3. u[j] = "call" /\ j \in 1 .. M
    BY <1>1, <2>2
  <2> HIDE DEF j
  <2>4. PICK p \in 1 .. N : to[p] = i /\ t[p] = "word"
    BY <1>4 DEF References
  <2>5. PICK s \in 1 .. N : to[s] = j /\ t[s] = "call"
    BY <1>4, <2>3 DEF References
  <2>6. p \in 1 .. N + 1 /\ s \in 1 .. N + 1 /\ p + 1 \in Positions(t)
    BY <1>1
  <2>7. p < s
    BY <1>3, <2>2, <2>4, <2>5, <2>6
  <2>8. s \in p + 1 .. N /\ ~Passed(t, s)
    BY <1>1, <1>5, <2>2, <2>5, <2>7
  <2>9. ASSUME NEW r \in p + 1 .. s - 1
        PROVE  Passed(t, r)
    <3>1. r \in 1 .. N /\ r \in 1 .. N + 1 /\ p < r /\ r < s
      BY <1>1, <2>4, <2>5
    <3>2. to[p] < to[r] /\ to[r] < to[s] /\ to[r] \in 1 .. M
      BY <1>2, <1>3, <2>6, <3>1
    <3>3. to[r] \in i + 1 .. j - 1
      BY <1>1, <2>2, <2>4, <2>5, <3>2
    <3> QED
      BY <1>5, <2>2, <3>1, <3>3
  <2>10. Significant(t, p + 1) = s /\ Significant(t, p + 1) # None
    BY <1>1, <2>6, <2>8, <2>9, SignificantFacts DEF N
  <2>11. p \in DOMAIN t /\ ~WordBefore(t)
    BY <1>1 DEF Accepted, Tame
  <2> QED
    BY <2>4, <2>5, <2>10, <2>11 DEF WordBefore
<1>10. ~MacroInString(u)
  <2> SUFFICES ASSUME NEW i \in 1 .. M, NEW j \in 1 .. M,
                      u[i] \in {"call", "other"}, u[j] = "quote",
                      Inside(u, i) \in {"string", "escape"},
                      Inside(u, j) = "string",
                      \A r \in i + 1 .. j - 1 : u[r] \in {"newline", "pair"}
               PROVE  FALSE
    BY <1>1 DEF MacroInString, In, Inside
  <2>1. PICK p \in 1 .. N : to[p] = i /\ t[p] = u[i] /\ Inside(t, p) = Inside(u, i)
    BY <1>4 DEF References
  <2>2. PICK q \in 1 .. N : to[q] = j /\ t[q] = u[j] /\ Inside(t, q) = Inside(u, j)
    BY <1>4 DEF References
  <2>3. ASSUME NEW r \in p + 1 .. q - 1
        PROVE  t[r] \in {"newline", "pair"}
    <3>1. /\ r \in 1 .. N /\ r \in 1 .. N + 1 /\ p < r /\ r < q
          /\ p \in 1 .. N + 1 /\ q \in 1 .. N + 1
      BY <1>1, <2>1, <2>2
    <3>2. to[p] < to[r] /\ to[r] < to[q] /\ to[r] \in 1 .. M /\ u[to[r]] = t[r]
      BY <1>2, <1>3, <3>1
    <3>3. to[r] \in i + 1 .. j - 1
      BY <1>1, <2>1, <2>2, <3>2
    <3> QED
      BY <3>2, <3>3
  <2>4. p \in DOMAIN t /\ q \in DOMAIN t /\ ~MacroInString(t)
    BY <1>1 DEF Accepted, Tame
  <2> QED
    BY <2>1, <2>2, <2>3, <2>4 DEF MacroInString, In, Inside
<1> QED
  BY <1>1, <1>6, <1>7, <1>8, <1>9, <1>10 DEF Accepted, Tame

(* Find wants references where they fit. *)
LEMMA WantedFits ==
    ASSUME NEW t, Accepted(t), NEW mode \in BOOLEAN
    PROVE  Fits(t, Reference(mode), Wanted(t, mode, Skip(t, 1)))
<1> DEFINE entries == Find(t, mode)
<1>1. \A p \in Wanted(t, mode, Skip(t, 1)) :
        \E k \in DOMAIN entries : p = entries[k].position
  BY DEF Wanted, Missing, Find
<1>2. {entries[k] : k \in DOMAIN entries} = {Entry(t, mode, q) : q \in RustStatements(t)}
  BY FindExpected
<1> HIDE DEF entries
<1>3. ASSUME NEW p \in Wanted(t, mode, Skip(t, 1))
      PROVE  Inside(t, p) = IF Reference(mode) = "pair" THEN "code" ELSE "string"
  <2>1. PICK q \in RustStatements(t) : p = Entry(t, mode, q).position
    BY <1>1, <1>2
  <2>2. CASE mode
    <3>1. p = q + 1 /\ Reference(mode) = "pair"
      BY <2>1, <2>2 DEF Entry, Reference
    <3>2. q \in 1 .. Len(t) /\ t[q] = "call" /\ Inside(t, q) = "code"
      BY AcceptedFacts DEF RustStatements, In, Inside
    <3>3. Inside(t, q + 1) = "code"
      BY <3>2, StepFacts
    <3> QED
      BY <3>1, <3>3
  <2>3. CASE ~mode
    <3>1. p = ValueStart(t, q) /\ Reference(mode) = "tag"
      BY <2>1, <2>3 DEF Entry, Reference
    <3>2. Inside(t, ValueStart(t, q)) = "string"
      BY PlaceFacts
    <3> QED
      BY <3>1, <3>2
  <2> QED
    BY <2>2, <2>3
<1> QED
  BY <1>3 DEF Fits

(* Find returns as many entries as there are log statements. *)
LEMMA StatementsCounted ==
    ASSUME NEW t, Accepted(t), NEW mode \in BOOLEAN
    PROVE  Cardinality(RustStatements(t)) = Len(Find(t, mode))
<1> DEFINE entries == Find(t, mode)
           n == Len(entries)
           R == RustStatements(t)
           entry(q) == Entry(t, mode, q)
           f == [k \in 1 .. n |-> CHOOSE q \in R : entry(q) = entries[k]]
<1>1. /\ t \in Texts /\ Skip(t, 1) \in Positions(t)
  <2>1. t \in Texts /\ 1 \in Positions(t)
    BY AcceptedFacts
  <2> QED
    BY <2>1, SkipFacts
<1>2. /\ entries \in Seq(Entries)
      /\ \A j, k \in DOMAIN entries : j < k => entries[j].position < entries[k].position
      /\ \A k \in DOMAIN entries : entries[k].position \in Skip(t, 1) + 1 .. Len(t)
  BY <1>1, FoundFacts DEF Find
<1>3. {entries[k] : k \in DOMAIN entries} = {entry(q) : q \in R}
  BY FindExpected
<1>4. \A q, r \in R : entry(q) = entry(r) => q = r
  BY InPlace, InOnePlace
<1> HIDE DEF entries, entry, R, n
<1>5. n \in Nat /\ DOMAIN entries = 1 .. n
  BY <1>2 DEF n
<1>6. ASSUME NEW k \in 1 .. n
      PROVE  f[k] \in R /\ entry(f[k]) = entries[k]
  <2>1. \E q \in R : entry(q) = entries[k]
    BY <1>3, <1>5
  <2> QED
    BY <2>1
<1>7. f \in [1 .. n -> R]
  BY <1>6
<1>8. ASSUME NEW q \in R
      PROVE  \E k \in 1 .. n : f[k] = q
  <2>1. PICK k \in 1 .. n : entries[k] = entry(q)
    BY <1>3, <1>5
  <2> QED
    BY <1>4, <1>6, <2>1
<1> HIDE DEF f
<1>9. ASSUME NEW j \in 1 .. n, NEW k \in 1 .. n, f[j] = f[k]
      PROVE  j = k
  <2>1. entries[j] = entries[k]
    BY <1>6, <1>9
  <2>2. ~(entries[j].position < entries[k].position) /\ ~(entries[k].position < entries[j].position)
    <3>1. entries[j].position \in Skip(t, 1) + 1 .. Len(t)
      BY <1>2, <1>5
    <3> QED
      BY <2>1, <3>1
  <2>3. ~(j < k) /\ ~(k < j)
    BY <1>2, <1>5, <2>2
  <2> QED
    BY <1>5, <2>3
<1>10. f \in Bijection(1 .. n, R)
  BY <1>7, <1>8, <1>9, Fun_IsBij
<1>11. Cardinality(R) = n
  BY <1>5, <1>10, FS_CountingElements DEF ExistsBijection
<1> QED
  BY <1>11 DEF R, n, entries

(* What find takes for a reference of a statement is one for Rust. *)
LEMMA ExistsReferenced ==
    ASSUME NEW t, Accepted(t), NEW mode \in BOOLEAN, AllThere(Find(t, mode)),
           NEW q \in RustStatements(t)
    PROVE  Referenced(t, mode, q)
<1> DEFINE entries == Find(t, mode)
<1>1. Entry(t, mode, q).exists
  <2>1. {entries[k] : k \in DOMAIN entries} = {Entry(t, mode, r) : r \in RustStatements(t)}
    BY FindExpected
  <2>2. \A k \in DOMAIN entries : entries[k].exists
    BY DEF AllThere
  <2> HIDE DEF entries
  <2>3. PICK k \in DOMAIN entries : entries[k] = Entry(t, mode, q)
    BY <2>1
  <2> QED
    BY <2>2, <2>3
<1>2. /\ q \in 1 .. Len(t) /\ t[q] = "call" /\ Inside(t, q) = "code"
      /\ Len(t) \in Nat /\ DOMAIN t = 1 .. Len(t)
  BY AcceptedFacts DEF RustStatements, In, Inside
<1>3. CASE mode
  <2>1. At(t, Skip(t, q + 1)) = "pair"
    BY <1>1, <1>3 DEF Entry
  <2>2. q + 1 \in Positions(t) /\ Inside(t, q + 1) = "code"
    BY <1>2, StepFacts
  <2>3. Skip(t, q + 1) \in DOMAIN t /\ t[Skip(t, q + 1)] = "pair"
    BY <2>1 DEF At
  <2>4. Skip(t, q + 1) # Len(t) + 1
    BY <1>2, <2>3
  <2>5. Significant(t, q + 1) = Skip(t, q + 1)
    BY <2>2, <2>4, SkipToSignificant
  <2> QED
    BY <1>3, <2>3, <2>5 DEF Referenced
<1>4. CASE ~mode
  <2> DEFINE v == ValueStart(t, q)
  <2>1. t[v] = "tag" /\ Entry(t, mode, q).position = v
    BY <1>1, <1>4 DEF Entry
  <2>2. v \in Place(t, mode, q)
    BY <2>1, InPlace
  <2>3. \A r \in Message(t, q) + 1 .. v - 1 : t[r] = "newline"
    BY PlaceFacts
  <2> HIDE DEF v
  <2> QED
    BY <1>4, <2>1, <2>2, <2>3 DEF Referenced
<1> QED
  BY <1>3, <1>4

(***************************************************************************)
(* RunsCompleteText, for texts of any length: Breadlog keeps what Rust     *)
(* accepts accepted, its log statements as many as they were, and leaves   *)
(* none of them without a reference.                                       *)
(***************************************************************************)
THEOREM RunsComplete == Spec => RunsCompleteText
<1> DEFINE Completed == Generate /\ WellFormed(text) /\ Tame(text)
                => /\ WellFormed(text') /\ Tame(text')
                   /\ Cardinality(RustStatements(text')) = Cardinality(RustStatements(text))
                   /\ \A q \in RustStatements(text') : Referenced(text', structured, q)
<1>1. TextReferenced /\ [Next]_vars => [Completed]_vars
  <2> SUFFICES ASSUME TextReferenced, Generate, WellFormed(text), Tame(text)
               PROVE  /\ WellFormed(text') /\ Tame(text')
                      /\ Cardinality(RustStatements(text')) = Cardinality(RustStatements(text))
                      /\ \A q \in RustStatements(text') : Referenced(text', structured, q)
    OBVIOUS
  <2>1. /\ text' = Insert(text, structured)
        /\ text \in Texts /\ structured \in BOOLEAN /\ Accepted(text)
    BY DEF Generate, TextReferenced, Accepted
  <2>2. PICK to : Expands(text, text', Reference(structured),
                          Wanted(text, structured, Skip(text, 1)), to)
    BY <2>1, InsertExpands
  <2>3. Fits(text, Reference(structured), Wanted(text, structured, Skip(text, 1)))
    BY <2>1, WantedFits
  <2>4. Accepted(text')
    BY <2>1, <2>2, <2>3, AcceptedStays
  <2>5. /\ Len(Find(text', structured)) = Len(Find(text, structured))
        /\ AllThere(Find(text', structured))
    BY <2>1, InsertStays
  <2>6. Cardinality(RustStatements(text')) = Cardinality(RustStatements(text))
    BY <2>1, <2>4, <2>5, StatementsCounted
  <2>7. \A q \in RustStatements(text') : Referenced(text', structured, q)
    BY <2>1, <2>4, <2>5, ExistsReferenced
  <2> QED
    BY <2>4, <2>6, <2>7 DEF Accepted
<1>2. Spec => []TextReferenced
  BY TextReferencedInvariant
<1>3. RunsCompleteText <=> [][Completed]_vars
  BY DEF RunsCompleteText
<1> QED
  BY <1>1, <1>2, <1>3, PTL DEF Spec
=============================================================================

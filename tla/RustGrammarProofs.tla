------------------------- MODULE RustGrammarProofs --------------------------
(***************************************************************************)
(* Proofs about module RustGrammar, for texts of any length: what the      *)
(* copying loop of map inserts leaves the grammar's reading of the text as *)
(* it was, and a second run has nothing to do.                             *)
(***************************************************************************)
EXTENDS RustGrammar, Induction

(***************************************************************************)
(* Moves that never go back come to rest.                                  *)
(***************************************************************************)
Forward(next, n) ==
    /\ next \in [1 .. n -> 1 .. n]
    /\ \A p \in 1 .. n : p <= next[p]

(* The recursive function of Rest exists, from a position on down to 1.    *)
LEMMA RestEquation ==
    ASSUME NEW n \in Nat, NEW next, Forward(next, n)
    PROVE  Rest(next) =
            [p \in 1 .. n |-> IF next[p] = p THEN p ELSE Rest(next)[next[p]]]
<1> DEFINE Solves(g, q) == g[q] = IF next[q] = q THEN q ELSE g[next[q]]
           S == {p \in 1 .. n : \E g \in [1 .. n -> 1 .. n] :
                                    \A q \in p .. n : Solves(g, q)}
<1>1. ASSUME NEW p \in 1 .. n, \A q \in p + 1 .. n : q \in S
      PROVE  p \in S
  <2>1. PICK g \in [1 .. n -> 1 .. n] : \A q \in p + 1 .. n : Solves(g, q)
    <3>1. CASE p = n
      <4>1. [q \in 1 .. n |-> q] \in [1 .. n -> 1 .. n]
        OBVIOUS
      <4>2. \A q \in p + 1 .. n : FALSE
        BY <3>1
      <4> QED
        BY <4>1, <4>2, Zenon
    <3>2. CASE p # n
      <4>1. p + 1 \in p + 1 .. n
        BY <3>2
      <4> QED
        BY <1>1, <4>1
    <3> QED
      BY <3>1, <3>2
  <2> DEFINE v == IF next[p] = p THEN p ELSE g[next[p]]
             h == [g EXCEPT ![p] = v]
  <2>2. h \in [1 .. n -> 1 .. n] /\ h[p] = v
    BY DEF Forward
  <2>3. \A q \in 1 .. n : q # p => h[q] = g[q]
    OBVIOUS
  <2> HIDE DEF h
  <2>4. Solves(h, p)
    <3>1. next[p] \in 1 .. n
      BY DEF Forward
    <3> QED
      BY <2>2, <2>3, <3>1
  <2>5. ASSUME NEW q \in p + 1 .. n
        PROVE  Solves(h, q)
    <3>1. /\ q \in 1 .. n /\ q # p
          /\ next[q] \in 1 .. n /\ next[q] # p
      BY DEF Forward
    <3>2. h[q] = g[q] /\ h[next[q]] = g[next[q]]
      BY <2>3, <3>1
    <3>3. Solves(g, q)
      BY <2>1
    <3> QED
      BY <3>2, <3>3
  <2>6. \A q \in p .. n : q = p \/ q \in p + 1 .. n
    OBVIOUS
  <2> HIDE DEF Solves
  <2>7. \A q \in p .. n : Solves(h, q)
    BY <2>4, <2>5, <2>6
  <2> QED
    BY <2>2, <2>7
<1>2. \A p \in 1 .. n : p \in S
  <2> HIDE DEF S
  <2> QED
    BY <1>1, Downwards
<1>3. PICK g \in [1 .. n -> 1 .. n] : \A q \in 1 .. n : Solves(g, q)
  <2>1. CASE n = 0
    <3>1. [q \in 1 .. n |-> q] \in [1 .. n -> 1 .. n]
      OBVIOUS
    <3>2. \A q \in 1 .. n : FALSE
      BY <2>1
    <3> QED
      BY <3>1, <3>2, Zenon
  <2>2. CASE n # 0
    <3>1. 1 \in S
      BY <1>2, <2>2
    <3> QED
      BY <3>1
  <2> QED
    BY <2>1, <2>2
<1>4. g = [p \in 1 .. n |-> IF next[p] = p THEN p ELSE g[next[p]]]
  BY <1>3
<1> HIDE DEF Solves, S
<1>5. DOMAIN next = 1 .. n
  BY DEF Forward
<1>6. Rest(next) = CHOOSE f : f = [p \in 1 .. n |-> IF next[p] = p THEN p ELSE f[next[p]]]
  BY <1>5 DEF Rest
<1> QED
  BY <1>4, <1>6

(***************************************************************************)
(* Where the moves come to rest is a position ahead, from which they do    *)
(* not move, and it is the same from wherever they pass.                   *)
(***************************************************************************)
LEMMA RestFacts ==
    ASSUME NEW n \in Nat, NEW next, Forward(next, n), NEW p \in 1 .. n
    PROVE  /\ Rest(next)[p] \in p .. n
           /\ Rest(next)[p] \in 1 .. n
           /\ next[Rest(next)[p]] = Rest(next)[p]
           /\ next[p] = p => Rest(next)[p] = p
           /\ next[p] # p => Rest(next)[p] = Rest(next)[next[p]]
           /\ Rest(next)[next[p]] = Rest(next)[p]
<1> DEFINE r == Rest(next)
           S == {q \in 1 .. n : r[q] \in q .. n /\ next[r[q]] = r[q]}
<1>1. \A q \in 1 .. n : r[q] = IF next[q] = q THEN q ELSE r[next[q]]
  BY RestEquation
<1> HIDE DEF r
<1>2. ASSUME NEW q \in 1 .. n, \A m \in q + 1 .. n : m \in S
      PROVE  q \in S
  <2>1. next[q] \in q .. n
    BY DEF Forward
  <2>2. CASE next[q] = q
    BY <1>1, <2>2
  <2>3. CASE next[q] # q
    <3>1. next[q] \in S /\ r[q] = r[next[q]]
      BY <1>1, <1>2, <2>1, <2>3
    <3> QED
      BY <2>1, <3>1
  <2> QED
    BY <2>2, <2>3
<1>3. p \in S
  <2> HIDE DEF S
  <2> QED
    BY <1>2, Downwards
<1>4. next[p] = p => r[p] = p
  BY <1>1
<1>5. next[p] # p => r[p] = r[next[p]]
  BY <1>1
<1> QED
  BY <1>3, <1>4, <1>5 DEF r

-----------------------------------------------------------------------------
Texts == Seq(LexemeKinds \cup References)

(* What FirstOf returns: None, or a position with nothing before it. *)
LEMMA FirstOfFacts ==
    ASSUME NEW t \in Texts, NEW p \in Positions(t), NEW lexemes
    PROVE  LET f == FirstOf(t, p, lexemes) IN
           \/ f = None /\ \A q \in p .. Len(t) : t[q] \notin lexemes
           \/ /\ f \in p .. Len(t) /\ f # None
              /\ t[f] \in lexemes
              /\ \A q \in p .. f - 1 : t[q] \notin lexemes
<1> DEFINE f == FirstOf(t, p, lexemes)
           T == {q \in p .. Len(t) : t[q] \in lexemes}
<1>1. CASE T = {}
  BY <1>1 DEF FirstOf
<1>2. CASE T # {}
  <2>1. T \subseteq Nat
    BY DEF Positions, Texts
  <2>2. PICK q \in T : \A r \in T : q <= r
    BY <1>2, <2>1, LeastNatural
  <2>3. q \in p .. Len(t) /\ t[q] \in lexemes
    BY <2>2
  <2>4. \A r \in p .. q - 1 : t[r] \notin lexemes
    <3>1. SUFFICES ASSUME NEW r \in p .. q - 1, t[r] \in lexemes
                   PROVE  FALSE
      OBVIOUS
    <3>2. r \in p .. Len(t) /\ ~(q <= r)
      BY <2>3, <3>1 DEF Positions, Texts
    <3>3. r \in T
      BY <3>1, <3>2
    <3> QED
      BY <2>2, <3>2, <3>3
  <2>5. f = CHOOSE r \in p .. Len(t) :
              t[r] \in lexemes /\ \A s \in p .. r - 1 : t[s] \notin lexemes
    BY <2>3 DEF FirstOf
  <2>6. /\ f \in p .. Len(t)
        /\ t[f] \in lexemes /\ \A s \in p .. f - 1 : t[s] \notin lexemes
    BY <2>3, <2>4, <2>5
  <2>7. f # None
    BY <2>6, NoneAssumption DEF Positions, Texts
  <2> QED
    BY <2>6, <2>7
<1> QED
  BY <1>1, <1>2

(* A position that holds one of the lexemes, with none before it, is the first. *)
LEMMA FirstOfIs ==
    ASSUME NEW t \in Texts, NEW p \in Positions(t), NEW lexemes,
           NEW f \in p .. Len(t), t[f] \in lexemes,
           \A q \in p .. f - 1 : t[q] \notin lexemes
    PROVE  FirstOf(t, p, lexemes) = f
<1> DEFINE g == FirstOf(t, p, lexemes)
<1>1. /\ g \in p .. Len(t) /\ t[g] \in lexemes
      /\ \A q \in p .. g - 1 : t[q] \notin lexemes
  BY FirstOfFacts
<1> HIDE DEF g
<1>2. ~(g < f) /\ ~(f < g)
  <2>1. /\ g < f => g \in p .. f - 1
        /\ f < g => f \in p .. g - 1
    BY <1>1 DEF Positions, Texts
  <2> QED
    BY <1>1, <2>1
<1>3. g = f
  BY <1>1, <1>2 DEF Positions, Texts
<1> QED
  BY <1>3 DEF g

(* How the two kinds of comment end. *)
LEMMA CommentEndFacts ==
    /\ DOMAIN CommentEnd = {"line", "open"}
    /\ CommentEnd["line"] = {"newline"}
    /\ CommentEnd["open"] = {"close"}
  BY DEF CommentEnd

(* Blanks and comments end after what ends them. *)
LEMMA BlankFacts ==
    ASSUME NEW t \in Texts, NEW p \in Positions(t)
    PROVE  /\ Blank(t, p) \in p .. Len(t) + 1
           /\ Blank(t, p) # p =>
                /\ p \in 1 .. Len(t)
                /\ t[p] \in {"newline", "line", "open"}
                /\ Blank(t, p) - 1 \in p .. Len(t)
                /\ t[Blank(t, p) - 1] \in {"newline", "close"}
<1>1. CASE p = Len(t) + 1
  BY <1>1, CommentEndFacts DEF Blank, At, Positions, Texts
<1>2. CASE p \in 1 .. Len(t)
  <2>1. At(t, p) = t[p] /\ p + 1 \in Positions(t)
    BY <1>2 DEF At, Positions, Texts
  <2>2. CASE t[p] = "newline"
    <3>1. Blank(t, p) = p + 1
      BY <2>1, <2>2, CommentEndFacts DEF Blank
    <3>2. p \in Int /\ (p + 1) - 1 = p /\ p + 1 # p
      BY <1>2
    <3> QED
      BY <1>2, <2>2, <3>1, <3>2
  <2>3. CASE t[p] \in {"line", "open"} /\ FirstOf(t, p + 1, CommentEnd[t[p]]) # None
    <3> DEFINE f == FirstOf(t, p + 1, CommentEnd[t[p]])
    <3>1. f \in p + 1 .. Len(t) /\ t[f] \in CommentEnd[t[p]]
      BY <2>1, <2>3, FirstOfFacts
    <3>2. t[f] \in {"newline", "close"}
      BY <2>3, <3>1, CommentEndFacts
    <3>3. Blank(t, p) = f + 1
      BY <2>1, <2>3, CommentEndFacts DEF Blank
    <3> HIDE DEF f
    <3>4. f \in Int /\ (f + 1) - 1 = f
      BY <3>1
    <3> QED
      BY <1>2, <2>3, <3>1, <3>2, <3>3, <3>4
  <2>4. CASE /\ t[p] # "newline"
             /\ ~(t[p] \in {"line", "open"} /\ FirstOf(t, p + 1, CommentEnd[t[p]]) # None)
    BY <1>2, <2>1, <2>4, CommentEndFacts DEF Blank
  <2> QED
    BY <2>2, <2>3, <2>4
<1> QED
  BY <1>1, <1>2 DEF Positions, Texts

(* Skipping goes ahead, and ends where there is nothing to skip. *)
LEMMA SkipFacts ==
    ASSUME NEW t \in Texts, NEW p \in Positions(t)
    PROVE  /\ Skip(t, p) \in p .. Len(t) + 1
           /\ Skip(t, p) \in Positions(t)
           /\ Blank(t, Skip(t, p)) = Skip(t, p)
           /\ Blank(t, p) = p => Skip(t, p) = p
           /\ Blank(t, p) # p => Skip(t, p) = Skip(t, Blank(t, p))
<1> DEFINE next == [q \in Positions(t) |-> Blank(t, q)]
           n == Len(t) + 1
<1>1. n \in Nat /\ Positions(t) = 1 .. n
  BY DEF Positions, Texts
<1>2. ASSUME NEW q \in Positions(t)
      PROVE  next[q] = Blank(t, q) /\ next[q] \in q .. n
  BY BlankFacts
<1>3. Forward(next, n)
  BY <1>1, <1>2 DEF Forward
<1>4. Skip(t, p) = Rest(next)[p] /\ Skip(t, next[p]) = Rest(next)[next[p]]
  BY DEF Skip
<1>5. Skip(t, p) \in p .. n /\ Skip(t, p) \in 1 .. n
  BY <1>1, <1>3, <1>4, RestFacts
<1>6. next[Rest(next)[p]] = Rest(next)[p]
  BY <1>1, <1>3, RestFacts
<1>7. next[p] = p => Skip(t, p) = p
  BY <1>1, <1>3, <1>4, RestFacts
<1>8. next[p] # p => Skip(t, p) = Skip(t, next[p])
  BY <1>1, <1>3, <1>4, RestFacts
<1> HIDE DEF next
<1> QED
  BY <1>1, <1>2, <1>4, <1>5, <1>6, <1>7, <1>8

(* The words before a macro's name are swallowed one by one. *)
LEMMA BracketFacts ==
    ASSUME NEW t \in Texts, NEW p \in Positions(t)
    PROVE  /\ Bracket(t, p) \in p .. Len(t) + 1
           /\ At(t, p) # "word" => Bracket(t, p) = p
           /\ At(t, p) = "word" =>
                /\ p \in 1 .. Len(t)
                /\ Skip(t, p + 1) \in p + 1 .. Len(t) + 1
                /\ Bracket(t, p) = Bracket(t, Skip(t, p + 1))
                /\ Skip(t, p + 1) <= Bracket(t, p)
<1> DEFINE next == [q \in Positions(t) |->
                        IF At(t, q) = "word" THEN Skip(t, q + 1) ELSE q]
           n == Len(t) + 1
<1>1. n \in Nat /\ Positions(t) = 1 .. n
  BY DEF Positions, Texts
<1>2. ASSUME NEW q \in Positions(t), At(t, q) = "word"
      PROVE  /\ q \in 1 .. Len(t)
             /\ next[q] = Skip(t, q + 1) /\ Skip(t, q + 1) \in q + 1 .. n
  <2>1. q \in 1 .. Len(t) /\ q + 1 \in Positions(t)
    BY <1>2 DEF At, Positions, Texts
  <2> QED
    BY <1>2, <2>1, SkipFacts
<1>3. ASSUME NEW q \in Positions(t), At(t, q) # "word"
      PROVE  next[q] = q
  BY <1>3
<1>4. \A q \in Positions(t) : Bracket(t, q) = Rest(next)[q]
  BY DEF Bracket
<1> HIDE DEF next
<1>5. DOMAIN next = Positions(t)
  BY DEF next
<1>6. \A q \in Positions(t) : next[q] \in 1 .. n /\ q <= next[q]
  BY <1>1, <1>2, <1>3
<1>7. Forward(next, n)
  <2>1. next = [q \in Positions(t) |-> next[q]]
    BY DEF next
  <2> QED
    BY <1>1, <1>6, <2>1 DEF Forward
<1>8. Bracket(t, p) \in p .. n
  BY <1>1, <1>4, <1>7, RestFacts
<1>9. At(t, p) # "word" => Bracket(t, p) = p
  BY <1>1, <1>3, <1>4, <1>7, RestFacts
<1>10. ASSUME At(t, p) = "word"
       PROVE  /\ Bracket(t, p) = Bracket(t, Skip(t, p + 1))
              /\ Skip(t, p + 1) <= Bracket(t, p)
  <2>1. next[p] = Skip(t, p + 1) /\ next[p] \in Positions(t)
    BY <1>1, <1>2, <1>10
  <2>2. Rest(next)[next[p]] = Rest(next)[p] /\ Rest(next)[next[p]] \in next[p] .. n
    BY <1>1, <1>7, <2>1, RestFacts
  <2> QED
    BY <1>4, <2>1, <2>2
<1> QED
  BY <1>2, <1>8, <1>9, <1>10

(* What comes before the message is at or after what follows the bracket. *)
LEMMA QuoteFacts ==
    ASSUME NEW t \in Texts, NEW b \in 1 .. Len(t)
    PROVE  /\ Skip(t, b + 1) \in b + 1 .. Len(t) + 1
           /\ Quote(t, b) \in Skip(t, b + 1) .. Len(t) + 1
           /\ Quote(t, b) \in b + 1 .. Len(t) + 1
<1> DEFINE s == Skip(t, b + 1)
<1>1. Len(t) \in Nat /\ Positions(t) = 1 .. Len(t) + 1 /\ b + 1 \in Positions(t)
  BY DEF Positions, Texts
<1>2. s \in b + 1 .. Len(t) + 1 /\ s \in Positions(t)
  BY <1>1, SkipFacts
<1>3. Quote(t, b) \in s .. Len(t) + 1
  <2>1. CASE At(t, s) = "pair"
    <3>1. s \in 1 .. Len(t) /\ s + 1 \in Positions(t)
      BY <1>1, <1>2, <2>1 DEF At
    <3>2. Quote(t, b) = Skip(t, s + 1)
      BY <2>1 DEF Quote
    <3>3. Quote(t, b) \in s + 1 .. Len(t) + 1
      BY <1>1, <3>1, <3>2, SkipFacts
    <3> HIDE DEF s
    <3> QED
      BY <1>1, <3>1, <3>3
  <2>2. CASE At(t, s) # "pair"
    BY <1>1, <1>2, <2>2 DEF Quote
  <2> QED
    BY <2>1, <2>2
<1> HIDE DEF s
<1>4. Quote(t, b) \in b + 1 .. Len(t) + 1
  BY <1>1, <1>2, <1>3
<1> QED
  BY <1>2, <1>3, <1>4 DEF s

(* The parts of a log statement, one after the other. *)
LEMMA StatementFacts ==
    ASSUME NEW t \in Texts, NEW p \in Positions(t), LogMacro(t, p)
    PROVE  LET b == Bracket(t, p) IN
           /\ b \in p .. Len(t)
           /\ t[b] \in {"call", "other"}
           /\ Skip(t, b + 1) \in b + 1 .. Quote(t, b)
           /\ Quote(t, b) \in b + 1 .. Len(t)
           /\ t[Quote(t, b)] = "quote"
           /\ ValueStart(t, b) \in Quote(t, b) + 1 .. Len(t)
           /\ ValueEnd(t, b) \in ValueStart(t, b) .. Len(t)
           /\ Onwards(t, p) = Skip(t, ValueEnd(t, b) + 1)
           /\ Onwards(t, p) \in ValueEnd(t, b) + 1 .. Len(t) + 1
<1> DEFINE b == Bracket(t, p)
           s == Skip(t, b + 1)
           q == Quote(t, b)
           v == ValueStart(t, b)
           e == ValueEnd(t, b)
           N == Len(t)
<1>1. N \in Nat /\ p \in 1 .. N + 1 /\ Positions(t) = 1 .. N + 1
  BY DEF Positions, Texts
<1>2. /\ b \in p .. N + 1 /\ At(t, b) \in {"call", "other"}
      /\ At(t, q) = "quote" /\ e # None
  BY BracketFacts DEF LogMacro, MacroArgs
<1>3. b \in p .. N /\ b \in 1 .. N /\ t[b] \in {"call", "other"}
  BY <1>1, <1>2 DEF At
<1>4. s \in b + 1 .. N + 1
  BY <1>3, QuoteFacts
<1>5. q \in s .. N + 1
  BY <1>3, QuoteFacts
<1>6. q \in b + 1 .. N /\ t[q] = "quote" /\ q + 1 \in Positions(t)
  BY <1>1, <1>2, <1>3, <1>4, <1>5 DEF At
<1>7. v \in q + 1 .. N + 1 /\ v \in Positions(t)
  BY <1>1, <1>6, SkipFacts DEF ValueStart
<1>8. e \in v .. N
  BY <1>2, <1>7, FirstOfFacts DEF ValueEnd
<1>9. e + 1 \in Positions(t)
  BY <1>1, <1>7, <1>8
<1>10. Onwards(t, p) = Skip(t, e + 1)
  BY DEF Onwards
<1>11. Onwards(t, p) \in e + 1 .. N + 1
  BY <1>9, <1>10, SkipFacts
<1> HIDE DEF b, s, q, v, e
<1>12. v \in q + 1 .. N /\ s \in b + 1 .. q
  BY <1>1, <1>3, <1>4, <1>5, <1>6, <1>7, <1>8
<1> QED
  BY <1>1, <1>3, <1>6, <1>8, <1>10, <1>11, <1>12 DEF b, s, q, v, e

(* The loop of find goes ahead. *)
LEMMA OnwardsFacts ==
    ASSUME NEW t \in Texts, NEW p \in 1 .. Len(t)
    PROVE  /\ Onwards(t, p) \in p + 1 .. Len(t) + 1
           /\ Onwards(t, p) \in Positions(t)
           /\ ~LogMacro(t, p) => Onwards(t, p) = Skip(t, p + 1)
<1>1. p \in Positions(t) /\ p + 1 \in Positions(t) /\ Len(t) \in Nat
  BY DEF Positions, Texts
<1>2. CASE LogMacro(t, p)
  <2> DEFINE b == Bracket(t, p)
             e == ValueEnd(t, b)
  <2>1. /\ b \in p .. Len(t)
        /\ Quote(t, b) \in b + 1 .. Len(t)
        /\ ValueStart(t, b) \in Quote(t, b) + 1 .. Len(t)
        /\ e \in ValueStart(t, b) .. Len(t)
        /\ Onwards(t, p) \in e + 1 .. Len(t) + 1
    BY <1>1, <1>2, StatementFacts
  <2> HIDE DEF b, e
  <2> QED
    BY <1>1, <1>2, <2>1 DEF Positions
<1>3. CASE ~LogMacro(t, p)
  <2>1. Onwards(t, p) = Skip(t, p + 1)
    BY <1>3 DEF Onwards
  <2> QED
    BY <1>1, <1>3, <2>1, SkipFacts
<1> QED
  BY <1>2, <1>3

(* The recursive function of FindFrom exists. *)
LEMMA FindEquation ==
    ASSUME NEW t \in Texts, NEW mode, NEW p \in Positions(t)
    PROVE  FindFrom(t, mode)[p] =
            IF p = Len(t) + 1 THEN <<>>
            ELSE IF t[p] = "call" /\ LogMacro(t, p)
                 THEN <<Entry(t, mode, p)>> \o FindFrom(t, mode)[Onwards(t, p)]
                 ELSE FindFrom(t, mode)[Onwards(t, p)]
<1> DEFINE n == Len(t) + 1
           Found(g, q) == IF q = n THEN <<>>
                          ELSE IF t[q] = "call" /\ LogMacro(t, q)
                               THEN <<Entry(t, mode, q)>> \o g[Onwards(t, q)]
                               ELSE g[Onwards(t, q)]
           Solves(g, q) == g[q] = Found(g, q)
           S == {q \in 1 .. n : \E g : \A r \in q .. n : Solves(g, r)}
<1>1. n \in Nat /\ Positions(t) = 1 .. n /\ 1 \in 1 .. n
  BY DEF Positions, Texts
<1>2. ASSUME NEW q \in 1 .. n, q # n
      PROVE  Onwards(t, q) \in q + 1 .. n
  <2>1. q \in 1 .. Len(t)
    BY <1>1, <1>2 DEF Texts
  <2> QED
    BY <2>1, OnwardsFacts
<1>3. ASSUME NEW q \in 1 .. n, NEW g, NEW h,
             \A r \in q + 1 .. n : h[r] = g[r]
      PROVE  Found(h, q) = Found(g, q)
  <2>1. CASE q = n
    BY <2>1
  <2>2. CASE q # n
    <3>1. h[Onwards(t, q)] = g[Onwards(t, q)]
      BY <1>2, <1>3, <2>2
    <3> QED
      BY <2>2, <3>1
  <2> QED
    BY <2>1, <2>2
<1> HIDE DEF Found, n
<1>4. ASSUME NEW q \in 1 .. n, \A r \in q + 1 .. n : r \in S
      PROVE  q \in S
  <2>1. PICK g : \A r \in q + 1 .. n : Solves(g, r)
    <3>1. CASE q = n
      <4>1. \A r \in q + 1 .. n : FALSE
        BY <1>1, <3>1
      <4> QED
        BY <4>1, Zenon
    <3>2. CASE q # n
      <4>1. q + 1 \in q + 1 .. n
        BY <1>1, <3>2
      <4> QED
        BY <1>4, <4>1
    <3> QED
      BY <3>1, <3>2
  <2> DEFINE h == [r \in 1 .. n |-> IF r = q THEN Found(g, q) ELSE g[r]]
  <2>2. h[q] = Found(g, q) /\ \A r \in 1 .. n : r # q => h[r] = g[r]
    OBVIOUS
  <2> HIDE DEF h
  <2>3. \A r \in q + 1 .. n : r \in 1 .. n /\ h[r] = g[r]
    BY <1>1, <2>2
  <2>4. Solves(h, q)
    BY <1>3, <2>2, <2>3
  <2>5. ASSUME NEW r \in q + 1 .. n
        PROVE  Solves(h, r)
    <3>1. r \in 1 .. n /\ \A s \in r + 1 .. n : s \in q + 1 .. n
      BY <1>1
    <3>2. Found(h, r) = Found(g, r)
      BY <1>3, <2>3, <3>1
    <3> QED
      BY <2>1, <2>3, <3>2
  <2>6. \A r \in q .. n : r = q \/ r \in q + 1 .. n
    BY <1>1
  <2> HIDE DEF Solves
  <2>7. \A r \in q .. n : Solves(h, r)
    BY <2>4, <2>5, <2>6
  <2> QED
    BY <2>7
<1>5. 1 \in S
  <2> HIDE DEF S
  <2> QED
    BY <1>1, <1>4, Downwards
<1>6. PICK g : \A q \in 1 .. n : Solves(g, q)
  BY <1>5
<1> DEFINE f == [q \in 1 .. n |-> g[q]]
<1>7. ASSUME NEW q \in 1 .. n
      PROVE  f[q] = Found(f, q)
  <2>1. \A r \in q + 1 .. n : f[r] = g[r]
    BY <1>1
  <2> HIDE DEF f
  <2>2. Found(f, q) = Found(g, q)
    BY <1>3, <2>1
  <2> QED
    BY <1>6, <2>2 DEF f
<1>8. f = [q \in Positions(t) |-> Found(f, q)]
  BY <1>1, <1>7
<1>9. FindFrom(t, mode) = CHOOSE h : h = [q \in Positions(t) |-> Found(h, q)]
  BY DEF FindFrom, Found, n
<1> HIDE DEF f
<1>10. FindFrom(t, mode) = [q \in Positions(t) |-> Found(FindFrom(t, mode), q)]
  BY <1>8, <1>9
<1>11. FindFrom(t, mode)[p] = Found(FindFrom(t, mode), p)
  BY <1>10
<1> QED
  BY <1>11 DEF Found, n

(* What the copying loop puts before lexeme p. *)
Nothing == <<>>

Put(reference, positions, p) == IF p \in positions THEN <<reference>> ELSE <<>>

(* The recursive function of Copied exists. *)
LEMMA CopiedEquation ==
    ASSUME NEW t \in Texts, NEW reference, NEW positions
    PROVE  LET c == Copied(t, reference, positions) IN
           /\ c[0] = Nothing
           /\ \A p \in 1 .. Len(t) :
                c[p] = c[p - 1] \o Put(reference, positions, p) \o <<t[p]>>
<1> DEFINE n == Len(t)
           Written(g, q) ==
                IF q = 0 THEN <<>>
                ELSE g[q - 1] \o (IF q \in positions THEN <<reference>> ELSE <<>>)
                              \o <<t[q]>>
           Solves(g, q) == g[q] = Written(g, q)
           S == {q \in 0 .. n : \E g : \A r \in 0 .. q : Solves(g, r)}
<1>1. n \in Nat
  BY DEF Texts
<1>2. ASSUME NEW q \in 0 .. n, NEW g, NEW h, q # 0 => h[q - 1] = g[q - 1]
      PROVE  Written(h, q) = Written(g, q)
  BY <1>2
<1>3. \A g : Written(g, 0) = <<>>
  OBVIOUS
<1> HIDE DEF n, Written
<1>4. 0 \in S
  <2> DEFINE g == [r \in 0 .. n |-> <<>>]
  <2>1. \A r \in 0 .. 0 : r = 0
    OBVIOUS
  <2>2. g[0] = <<>> /\ 0 \in 0 .. n
    BY <1>1
  <2> HIDE DEF g
  <2>3. \A r \in 0 .. 0 : Solves(g, r)
    BY <1>3, <2>1, <2>2
  <2> QED
    BY <2>2, <2>3
<1>5. ASSUME NEW q \in 0 .. n - 1, q \in S
      PROVE  q + 1 \in S
  <2>1. PICK g : \A r \in 0 .. q : Solves(g, r)
    BY <1>5
  <2> DEFINE h == [r \in 0 .. n |-> IF r = q + 1 THEN Written(g, q + 1) ELSE g[r]]
  <2>2. q + 1 \in 0 .. n /\ q + 1 # 0 /\ (q + 1) - 1 = q /\ q \in 0 .. q /\ q # q + 1
    BY <1>1
  <2>3. h[q + 1] = Written(g, q + 1) /\ \A r \in 0 .. n : r # q + 1 => h[r] = g[r]
    BY <2>2
  <2> HIDE DEF h
  <2>4. \A r \in 0 .. q : r \in 0 .. n /\ h[r] = g[r] /\ (r # 0 => r - 1 \in 0 .. q)
    BY <1>1, <2>3
  <2>5. Solves(h, q + 1)
    <3>1. h[(q + 1) - 1] = g[(q + 1) - 1]
      BY <2>2, <2>4
    <3> QED
      BY <1>2, <2>2, <2>3, <3>1
  <2>6. ASSUME NEW r \in 0 .. q
        PROVE  Solves(h, r)
    <3>1. Written(h, r) = Written(g, r)
      BY <1>2, <2>4
    <3> QED
      BY <2>1, <2>4, <3>1
  <2>7. \A r \in 0 .. q + 1 : r = q + 1 \/ r \in 0 .. q
    BY <1>1
  <2> HIDE DEF Solves
  <2>8. \A r \in 0 .. q + 1 : Solves(h, r)
    BY <2>5, <2>6, <2>7
  <2> QED
    BY <2>2, <2>8
<1>6. n \in S
  <2> HIDE DEF S
  <2>1. \A q \in 0 .. n : q \in S
    BY <1>1, <1>4, <1>5, Upwards
  <2> QED
    BY <1>1, <2>1
<1>7. PICK g : \A q \in 0 .. n : Solves(g, q)
  BY <1>6
<1> DEFINE f == [q \in 0 .. n |-> g[q]]
           c == Copied(t, reference, positions)
<1>8. ASSUME NEW q \in 0 .. n
      PROVE  f[q] = Written(f, q)
  <2>1. q # 0 => f[q - 1] = g[q - 1]
    BY <1>1
  <2> HIDE DEF f
  <2>2. Written(f, q) = Written(g, q)
    BY <1>2, <2>1
  <2> QED
    BY <1>7, <2>2 DEF f
<1>9. f = [q \in 0 .. n |-> Written(f, q)]
  BY <1>8
<1>10. c = CHOOSE h : h = [q \in 0 .. n |-> Written(h, q)]
  BY DEF Copied, Written, n
<1> HIDE DEF f, c
<1>11. c = [q \in 0 .. n |-> Written(c, q)]
  BY <1>9, <1>10
<1>12. \A q \in 0 .. n : c[q] = Written(c, q)
  BY <1>11
<1>13. c[0] = Nothing
  BY <1>1, <1>3, <1>12 DEF Nothing
<1>14. ASSUME NEW q \in 1 .. n
       PROVE  c[q] = c[q - 1] \o Put(reference, positions, q) \o <<t[q]>>
  <2>1. q \in 0 .. n /\ q # 0
    BY <1>1
  <2>2. c[q] = Written(c, q)
    BY <1>12, <2>1
  <2> QED
    BY <2>1, <2>2, Zenon DEF Written, Put
<1> QED
  BY <1>13, <1>14 DEF c, n

-----------------------------------------------------------------------------
(***************************************************************************)
(* Text u is t with a reference before each of some positions: lexeme p of *)
(* t is lexeme to[p] of u, and Before is where what precedes it ends.      *)
(***************************************************************************)
Before(positions, to, p) == IF p \in positions THEN to[p] - 1 ELSE to[p]

Expands(t, u, reference, positions, to) ==
    /\ t \in Texts /\ u \in Texts
    /\ reference \in References
    /\ positions \subseteq 1 .. Len(t)
    /\ to \in [Positions(t) -> Positions(u)]
    /\ to[Len(t) + 1] = Len(u) + 1
    /\ Before(positions, to, 1) = 1
    /\ \A p \in 1 .. Len(t) : /\ Before(positions, to, p + 1) = to[p] + 1
                              /\ u[to[p]] = t[p]
    /\ \A p \in positions : u[Before(positions, to, p)] = reference

(* The lexemes of t are in u as they were, what is between them is a reference. *)
LEMMA ExpandsFacts ==
    ASSUME NEW t, NEW u, NEW reference, NEW positions, NEW to,
           Expands(t, u, reference, positions, to),
           NEW p \in Positions(t)
    PROVE  LET before == Before(positions, to, p) IN
           /\ t \in Texts /\ u \in Texts
           /\ Len(t) \in Nat /\ Len(u) \in Nat
           /\ Positions(t) = 1 .. Len(t) + 1 /\ Positions(u) = 1 .. Len(u) + 1
           /\ to[p] \in Positions(u) /\ before \in Positions(u)
           /\ At(u, to[p]) = At(t, p)
           /\ p \in 1 .. Len(t) => /\ to[p] \in 1 .. Len(u)
                                   /\ u[to[p]] = t[p]
                                   /\ p + 1 \in Positions(t)
                                   /\ Before(positions, to, p + 1) = to[p] + 1
           /\ p = Len(t) + 1 => to[p] = Len(u) + 1
           /\ p \notin positions => before = to[p]
           /\ p \in positions => /\ p \in 1 .. Len(t)
                                 /\ before = to[p] - 1
                                 /\ before \in 1 .. Len(u)
                                 /\ u[before] = reference
           /\ reference \in {"tag", "pair"}
<1> DEFINE N == Len(t)
           M == Len(u)
           before(q) == Before(positions, to, q)
<1>1. /\ N \in Nat /\ M \in Nat
      /\ Positions(t) = 1 .. N + 1 /\ Positions(u) = 1 .. M + 1
      /\ t \in Texts /\ u \in Texts /\ reference \in {"tag", "pair"}
      /\ DOMAIN t = 1 .. N /\ DOMAIN u = 1 .. M
  BY DEF Expands, Positions, Texts, References
<1>2. /\ positions \subseteq 1 .. N
      /\ to \in [1 .. N + 1 -> 1 .. M + 1] /\ to[N + 1] = M + 1
      /\ before(1) = 1
      /\ \A q \in 1 .. N : before(q + 1) = to[q] + 1 /\ u[to[q]] = t[q]
      /\ \A q \in positions : u[before(q)] = reference
  BY <1>1 DEF Expands
<1>3. /\ p \notin positions => before(p) = to[p]
      /\ p \in positions => before(p) = to[p] - 1
  BY DEF Before
<1> HIDE DEF before, N, M
<1>4. before(p) \in 1 .. M + 1
  <2>1. CASE p = 1
    BY <1>1, <1>2, <2>1
  <2>2. CASE p # 1
    <3>1. p - 1 \in 1 .. N /\ (p - 1) + 1 = p /\ p - 1 \in 1 .. N + 1
      BY <1>1, <2>2
    <3>2. before(p) = to[p - 1] + 1
      BY <1>2, <3>1
    <3>3. to[p - 1] \in 1 .. M + 1 /\ to[p] \in 1 .. M + 1
      BY <1>1, <1>2, <3>1
    <3> QED
      BY <1>1, <1>3, <3>2, <3>3
  <2> QED
    BY <2>1, <2>2
<1>5. ASSUME p \in 1 .. N
      PROVE  to[p] \in 1 .. M
  <2>1. before(p + 1) = to[p] + 1 /\ p + 1 \in 1 .. N + 1
    BY <1>1, <1>2, <1>5
  <2>2. /\ to[p] \in 1 .. M + 1 /\ to[p + 1] \in 1 .. M + 1
        /\ (before(p + 1) = to[p + 1] \/ before(p + 1) = to[p + 1] - 1)
    BY <1>1, <1>2, <2>1 DEF before, Before
  <2> QED
    BY <1>1, <2>1, <2>2
<1>6. At(u, to[p]) = At(t, p)
  <2>1. CASE p \in 1 .. N
    BY <1>1, <1>2, <1>5, <2>1 DEF At
  <2>2. CASE p = N + 1
    BY <1>1, <1>2, <2>2 DEF At
  <2> QED
    BY <1>1, <2>1, <2>2
<1>7. p \in positions => before(p) \in 1 .. M
  BY <1>1, <1>2, <1>3, <1>4, <1>5
<1>8. p \in 1 .. N => p + 1 \in 1 .. N + 1
  BY <1>1
<1> QED
  BY <1>1, <1>2, <1>3, <1>4, <1>5, <1>6, <1>7, <1>8 DEF before, N, M

(* The first of some lexemes is the same, if references are not among them. *)
LEMMA FirstStays ==
    ASSUME NEW t, NEW u, NEW reference, NEW positions, NEW to,
           Expands(t, u, reference, positions, to),
           NEW p \in Positions(t), NEW lexemes, reference \notin lexemes,
           NEW i, i = to[p] \/ i = Before(positions, to, p)
    PROVE  FirstOf(u, i, lexemes) =
            IF FirstOf(t, p, lexemes) = None THEN None ELSE to[FirstOf(t, p, lexemes)]
<1> DEFINE N == Len(t)
           M == Len(u)
           before(q) == Before(positions, to, q)
           f == FirstOf(t, p, lexemes)
           S == {q \in 1 .. N + 1 : \A j \in i .. to[q] - 1 : u[j] \notin lexemes}
<1>1. /\ t \in Texts /\ u \in Texts /\ N \in Nat /\ M \in Nat
      /\ Positions(t) = 1 .. N + 1 /\ Positions(u) = 1 .. M + 1
      /\ p \in 1 .. N + 1
  BY ExpandsFacts
<1>2. ASSUME NEW q \in 1 .. N + 1
      PROVE  /\ to[q] \in 1 .. M + 1 /\ before(q) \in 1 .. M + 1
             /\ q \in 1 .. N => /\ to[q] \in 1 .. M
                                /\ u[to[q]] = t[q] /\ q + 1 \in 1 .. N + 1
                                /\ before(q + 1) = to[q] + 1
             /\ \/ before(q) = to[q]
                \/ before(q) = to[q] - 1 /\ u[before(q)] = reference
             /\ q = N + 1 => to[q] = M + 1
  <2>1. q \in Positions(t)
    BY <1>1
  <2>2. /\ to[q] \in Positions(u) /\ before(q) \in Positions(u)
        /\ q \in 1 .. N => /\ to[q] \in 1 .. M
                           /\ u[to[q]] = t[q] /\ q + 1 \in Positions(t)
                           /\ before(q + 1) = to[q] + 1
        /\ q \notin positions => before(q) = to[q]
        /\ q \in positions => before(q) = to[q] - 1 /\ u[before(q)] = reference
        /\ q = N + 1 => to[q] = M + 1
    BY <2>1, ExpandsFacts
  <2> HIDE DEF before, N, M
  <2> QED
    BY <1>1, <2>2
<1> HIDE DEF before, N, M
<1>3. i \in 1 .. M + 1
  BY <1>1, <1>2 DEF before
<1>4. p \in S
  <2>1. ASSUME NEW j \in i .. to[p] - 1
        PROVE  u[j] \notin lexemes
    BY <1>1, <1>2, <1>3, <2>1 DEF before
  <2> QED
    BY <1>1, <2>1
<1>5. ASSUME NEW q \in 1 .. N, q \in S, t[q] \notin lexemes
      PROVE  q + 1 \in S
  <2>1. /\ to[q] \in 1 .. M /\ u[to[q]] = t[q] /\ q + 1 \in 1 .. N + 1
        /\ before(q + 1) = to[q] + 1
    BY <1>1, <1>2
  <2>2. /\ to[q + 1] \in 1 .. M + 1
        /\ \/ before(q + 1) = to[q + 1]
           \/ before(q + 1) = to[q + 1] - 1 /\ u[before(q + 1)] = reference
    BY <1>2, <2>1
  <2>3. ASSUME NEW j \in i .. to[q + 1] - 1
        PROVE  u[j] \notin lexemes
    <3>1. \/ j \in i .. to[q] - 1
          \/ j = to[q]
          \/ j = before(q + 1) /\ u[before(q + 1)] = reference
      BY <1>3, <2>1, <2>2, <2>3
    <3> QED
      BY <1>5, <2>1, <3>1
  <2> QED
    BY <2>1, <2>3
<1> HIDE DEF S
<1>6. CASE f = None
  <2>1. \A q \in p .. N : t[q] \notin lexemes
    BY <1>1, <1>6, FirstOfFacts DEF N
  <2>2. \A q \in p .. (N + 1) - 1 : q \in S => q + 1 \in S
    BY <1>1, <1>5, <2>1
  <2>3. N + 1 \in S
    <3>1. p \in Nat /\ N + 1 \in Nat
      BY <1>1
    <3>2. \A q \in p .. N + 1 : q \in S
      BY <1>4, <2>2, <3>1, Upwards
    <3> QED
      BY <1>1, <3>2
  <2>4. \A j \in i .. M : u[j] \notin lexemes
    <3>1. to[N + 1] - 1 = M
      <4>1. N + 1 \in 1 .. N + 1
        BY <1>1
      <4>2. to[N + 1] = M + 1
        BY <1>2, <4>1
      <4> QED
        BY <1>1, <4>2
    <3>2. \A j \in i .. to[N + 1] - 1 : u[j] \notin lexemes
      BY <2>3 DEF S
    <3> QED
      BY <3>1, <3>2
  <2>5. FirstOf(u, i, lexemes) = None
    BY <2>4 DEF FirstOf, M
  <2> QED
    BY <1>6, <2>5
<1>7. CASE f # None
  <2>1. /\ f \in p .. N /\ t[f] \in lexemes
        /\ \A q \in p .. f - 1 : t[q] \notin lexemes
    BY <1>1, <1>7, FirstOfFacts DEF N
  <2> HIDE DEF f
  <2>2. \A q \in p .. f - 1 : q \in S => q + 1 \in S
    BY <1>1, <1>5, <2>1
  <2>3. f \in S
    <3>1. p \in Nat /\ f \in Nat
      BY <1>1, <2>1
    <3>2. \A q \in p .. f : q \in S
      BY <1>4, <2>2, <3>1, Upwards
    <3> QED
      BY <1>1, <2>1, <3>2
  <2>4. /\ f \in 1 .. N /\ to[f] \in 1 .. M /\ u[to[f]] \in lexemes
        /\ \A j \in i .. to[f] - 1 : u[j] \notin lexemes
    BY <1>1, <1>2, <2>1, <2>3 DEF S
  <2>5. to[f] \in i .. M
    <3> DEFINE R == {q \in 1 .. N + 1 : i <= to[q]}
    <3>1. p \in R
      BY <1>1, <1>2, <1>3 DEF before
    <3>2. ASSUME NEW q \in 1 .. N, q \in R
          PROVE  q + 1 \in R
      <4>1. /\ to[q] \in 1 .. M /\ q + 1 \in 1 .. N + 1
            /\ before(q + 1) = to[q] + 1
        BY <1>1, <1>2
      <4>2. /\ to[q + 1] \in 1 .. M + 1
            /\ before(q + 1) = to[q + 1] \/ before(q + 1) = to[q + 1] - 1
        BY <1>2, <4>1
      <4> QED
        BY <1>3, <3>2, <4>1, <4>2
    <3> HIDE DEF R
    <3>3. \A q \in p .. f - 1 : q \in R => q + 1 \in R
      BY <1>1, <2>1, <3>2
    <3>4. \A q \in p .. f : q \in R
      <4>1. p \in Nat /\ f \in Nat
        BY <1>1, <2>1
      <4> QED
        BY <3>1, <3>3, <4>1, Upwards
    <3>5. f \in R
      BY <1>1, <2>1, <3>4
    <3> QED
      BY <1>3, <2>4, <3>5 DEF R
  <2>6. FirstOf(u, i, lexemes) = to[f]
    BY <1>1, <1>3, <2>4, <2>5, FirstOfIs DEF M
  <2> QED
    BY <1>7, <2>6 DEF f
<1> QED
  BY <1>6, <1>7

(* Blanks and comments end where they ended. *)
LEMMA BlankStays ==
    ASSUME NEW t, NEW u, NEW reference, NEW positions, NEW to,
           Expands(t, u, reference, positions, to),
           NEW p \in Positions(t)
    PROVE  Blank(u, to[p]) =
            IF Blank(t, p) = p THEN to[p] ELSE Before(positions, to, Blank(t, p))
<1> DEFINE N == Len(t)
           before(q) == Before(positions, to, q)
<1>1. /\ t \in Texts /\ u \in Texts /\ N \in Nat
      /\ Positions(t) = 1 .. N + 1
      /\ p \in 1 .. N + 1
      /\ to[p] \in Positions(u)
      /\ At(u, to[p]) = At(t, p)
      /\ reference \in {"tag", "pair"}
  BY ExpandsFacts
<1>2. ASSUME p \in 1 .. N
      PROVE  /\ At(t, p) = t[p] /\ u[to[p]] = t[p]
             /\ p + 1 \in Positions(t) /\ before(p + 1) = to[p] + 1
  BY <1>1, <1>2, ExpandsFacts DEF At
<1> HIDE DEF before
<1>3. CASE p = N + 1
  <2>1. At(t, p) = "end"
    BY <1>1, <1>3 DEF At, Texts
  <2> QED
    BY <1>1, <2>1, CommentEndFacts DEF Blank
<1>4. CASE p \in 1 .. N /\ t[p] = "newline"
  <2>1. Blank(u, to[p]) = to[p] + 1 /\ Blank(t, p) = p + 1
    BY <1>1, <1>2, <1>4, CommentEndFacts DEF Blank
  <2> QED
    BY <1>1, <1>2, <1>4, <2>1 DEF before
<1>5. CASE p \in 1 .. N /\ t[p] \in {"line", "open"}
  <2> DEFINE ends == CommentEnd[t[p]]
             f == FirstOf(t, p + 1, ends)
             g == FirstOf(u, to[p] + 1, ends)
  <2>1. reference \notin ends
    BY <1>1, <1>5, CommentEndFacts
  <2>2. g = IF f = None THEN None ELSE to[f]
    BY <1>2, <1>5, <2>1, FirstStays DEF before
  <2>3. /\ f = None => Blank(t, p) = p
        /\ f # None => Blank(t, p) = f + 1
    BY <1>1, <1>2, <1>5, CommentEndFacts DEF Blank
  <2>4. /\ g = None => Blank(u, to[p]) = to[p]
        /\ g # None => Blank(u, to[p]) = g + 1
    BY <1>1, <1>2, <1>5, CommentEndFacts DEF Blank
  <2>5. CASE f = None
    BY <2>2, <2>3, <2>4, <2>5
  <2>6. CASE f # None
    <3>1. f \in p + 1 .. N
      BY <1>1, <1>2, <1>5, <2>6, FirstOfFacts
    <3> HIDE DEF f, g
    <3>2. f \in 1 .. N /\ f \in Positions(t) /\ f + 1 # p
      BY <1>1, <3>1
    <3>3. before(f + 1) = to[f] + 1 /\ to[f] \in Positions(u) /\ Positions(u) \subseteq Nat
      BY <3>2, ExpandsFacts DEF before
    <3>4. to[f] # None
      BY <3>3, NoneAssumption
    <3> QED
      BY <2>2, <2>3, <2>4, <2>6, <3>2, <3>3, <3>4 DEF before
  <2> QED
    BY <2>5, <2>6
<1>6. CASE p \in 1 .. N /\ t[p] \notin {"newline", "line", "open"}
  <2>1. Blank(t, p) = p
    BY <1>1, <1>6, BlankFacts
  <2>2. Blank(u, to[p]) = to[p]
    BY <1>1, <1>2, <1>6, BlankFacts
  <2> QED
    BY <2>1, <2>2
<1> QED
  BY <1>1, <1>3, <1>4, <1>5, <1>6

(* Nothing is skipped where a reference is. *)
LEMMA SkipReference ==
    ASSUME NEW u \in Texts, NEW i \in Positions(u), At(u, i) \in References
    PROVE  Skip(u, i) = i
<1>1. ~(At(u, i) \in {"newline", "line", "open"})
  BY DEF References
<1>2. Blank(u, i) = i
  <2>1. i \in 1 .. Len(u) => At(u, i) = u[i]
    BY DEF At, Texts
  <2> QED
    BY <1>1, <2>1, BlankFacts
<1> QED
  BY <1>2, SkipFacts

(* What is skipped is what was skipped, up to the first reference. *)
LEMMA SkipStays ==
    ASSUME NEW t, NEW u, NEW reference, NEW positions, NEW to,
           Expands(t, u, reference, positions, to),
           NEW p \in Positions(t),
           \A q \in p .. Skip(t, p) - 1 : q \notin positions
    PROVE  Skip(u, Before(positions, to, p)) = Before(positions, to, Skip(t, p))
<1> DEFINE N == Len(t)
           before(q) == Before(positions, to, q)
           S == {q \in 1 .. N + 1 :
                    (\A r \in q .. Skip(t, q) - 1 : r \notin positions)
                        => Skip(u, before(q)) = before(Skip(t, q))}
<1>1. /\ t \in Texts /\ u \in Texts /\ N \in Nat
      /\ Positions(t) = 1 .. N + 1
      /\ reference \in References
  BY ExpandsFacts DEF References
<1>2. ASSUME NEW q \in 1 .. N + 1
      PROVE  /\ to[q] \in Positions(u)
             /\ before(q) \in Positions(u)
             /\ q \notin positions => before(q) = to[q]
             /\ q \in positions => At(u, before(q)) = reference
  <2>1. q \in Positions(t)
    BY <1>1
  <2>2. /\ to[q] \in Positions(u)
        /\ before(q) \in Positions(u)
        /\ q \notin positions => before(q) = to[q]
        /\ q \in positions => before(q) \in 1 .. Len(u) /\ u[before(q)] = reference
    BY <2>1, ExpandsFacts
  <2> QED
    BY <1>1, <2>2 DEF At, Texts
<1> HIDE DEF before
<1>3. ASSUME NEW q \in 1 .. N + 1, \A r \in q + 1 .. N + 1 : r \in S,
             \A r \in q .. Skip(t, q) - 1 : r \notin positions
      PROVE  Skip(u, before(q)) = before(Skip(t, q))
  <2> DEFINE s == Skip(t, q)
             b == Blank(t, q)
  <2>1. s \in q .. N + 1 /\ q \in Positions(t)
    BY <1>1, SkipFacts
  <2>2. CASE q \in positions
    <3>1. s = q
      <4> HIDE DEF s
      <4>1. s # q => q \in q .. s - 1
        BY <1>1, <2>1
      <4> QED
        BY <1>3, <2>2, <4>1 DEF s
    <3>2. Skip(u, before(q)) = before(q)
      BY <1>1, <1>2, <2>2, SkipReference
    <3> QED
      BY <3>1, <3>2
  <2>3. CASE q \notin positions /\ b = q
    <3>1. s = q /\ before(q) = to[q]
      BY <1>1, <1>2, <2>1, <2>3, SkipFacts
    <3>2. Blank(u, to[q]) = to[q]
      BY <2>1, <2>3, BlankStays
    <3>3. Skip(u, to[q]) = to[q]
      BY <1>1, <1>2, <3>2, SkipFacts
    <3> QED
      BY <3>1, <3>3
  <2>4. CASE q \notin positions /\ b # q
    <3>1. b \in q + 1 .. N + 1 /\ b \in Positions(t)
      BY <1>1, <2>1, <2>4, BlankFacts
    <3>2. s = Skip(t, b) /\ Skip(t, b) \in b .. N + 1
      BY <1>1, <2>1, <2>4, <3>1, SkipFacts
    <3>3. Blank(u, to[q]) = before(b)
      BY <2>1, <2>4, BlankStays DEF before
    <3>4. Skip(u, to[q]) = Skip(u, before(b))
      BY <1>1, <1>2, <3>3, SkipFacts
    <3> HIDE DEF b, s
    <3>5. \A r \in b .. Skip(t, b) - 1 : r \in q .. s - 1
      BY <1>1, <3>1, <3>2
    <3>6. Skip(u, before(b)) = before(Skip(t, b))
      BY <1>3, <3>1, <3>5 DEF s
    <3> QED
      BY <1>2, <2>4, <3>2, <3>4, <3>6 DEF s
  <2> QED
    BY <2>2, <2>3, <2>4
<1>4. \A q \in 1 .. N + 1 : (\A r \in q + 1 .. N + 1 : r \in S) => q \in S
  BY <1>3
<1>5. p \in S
  <2> HIDE DEF S
  <2>1. 1 \in Nat /\ N + 1 \in Nat /\ p \in 1 .. N + 1
    BY <1>1
  <2>2. \A q \in 1 .. N + 1 : q \in S
    BY <1>4, <2>1, Downwards
  <2> QED
    BY <2>1, <2>2
<1> QED
  BY <1>5 DEF before

(* So it is from the lexeme after a reference on. *)
LEMMA SkipStaysAfter ==
    ASSUME NEW t, NEW u, NEW reference, NEW positions, NEW to,
           Expands(t, u, reference, positions, to),
           NEW p \in Positions(t),
           \A q \in p + 1 .. Skip(t, p) : q \notin positions
    PROVE  Skip(u, to[p]) = to[Skip(t, p)]
<1> DEFINE b == Blank(t, p)
           s == Skip(t, p)
<1>1. /\ t \in Texts /\ u \in Texts /\ Len(t) \in Nat
      /\ Positions(t) = 1 .. Len(t) + 1
      /\ to[p] \in Positions(u)
  BY ExpandsFacts
<1>2. CASE b = p
  <2>1. s = p
    BY <1>1, <1>2, SkipFacts
  <2>2. Blank(u, to[p]) = to[p]
    BY <1>2, BlankStays
  <2>3. Skip(u, to[p]) = to[p]
    BY <1>1, <2>2, SkipFacts
  <2> QED
    BY <2>1, <2>3
<1>3. CASE b # p
  <2>1. b \in p + 1 .. Len(t) + 1 /\ b \in Positions(t)
    BY <1>1, <1>3, BlankFacts
  <2>2. s = Skip(t, b) /\ Skip(t, b) \in b .. Len(t) + 1
    BY <1>1, <1>3, <2>1, SkipFacts
  <2>3. Blank(u, to[p]) = Before(positions, to, b)
    BY <1>3, BlankStays
  <2>4. Skip(u, to[p]) = Skip(u, Before(positions, to, b))
    <3>1. /\ Blank(u, to[p]) # to[p] => Skip(u, to[p]) = Skip(u, Blank(u, to[p]))
          /\ Blank(u, to[p]) = to[p] => Skip(u, to[p]) = Skip(u, Blank(u, to[p]))
      BY <1>1, SkipFacts
    <3> QED
      BY <2>3, <3>1
  <2> HIDE DEF b, s
  <2>5. \A q \in b .. Skip(t, b) - 1 : q \in p + 1 .. s
    BY <1>1, <2>1, <2>2
  <2>6. Skip(u, Before(positions, to, b)) = Before(positions, to, Skip(t, b))
    BY <2>1, <2>5, SkipStays DEF s
  <2>7. s \in p + 1 .. s
    BY <1>1, <2>1, <2>2
  <2>8. Before(positions, to, s) = to[s]
    BY <2>7 DEF s, Before
  <2> QED
    BY <2>2, <2>4, <2>6, <2>8 DEF s
<1> QED
  BY <1>2, <1>3

(* The words before the name of a macro are those there were. *)
LEMMA BracketStays ==
    ASSUME NEW t, NEW u, NEW reference, NEW positions, NEW to,
           Expands(t, u, reference, positions, to),
           NEW p \in Positions(t),
           \A q \in p + 1 .. Bracket(t, p) : q \notin positions
    PROVE  Bracket(u, to[p]) = to[Bracket(t, p)]
<1> DEFINE N == Len(t)
           S == {q \in 1 .. N + 1 :
                    (\A r \in q + 1 .. Bracket(t, q) : r \notin positions)
                        => Bracket(u, to[q]) = to[Bracket(t, q)]}
<1>1. /\ t \in Texts /\ u \in Texts /\ N \in Nat
      /\ Positions(t) = 1 .. N + 1
  BY ExpandsFacts
<1>2. ASSUME NEW q \in 1 .. N + 1, \A r \in q + 1 .. N + 1 : r \in S,
             \A r \in q + 1 .. Bracket(t, q) : r \notin positions
      PROVE  Bracket(u, to[q]) = to[Bracket(t, q)]
  <2>1. q \in Positions(t)
    BY <1>1
  <2>2. to[q] \in Positions(u) /\ At(u, to[q]) = At(t, q)
    BY <2>1, ExpandsFacts
  <2>3. CASE At(t, q) # "word"
    BY <1>1, <2>1, <2>2, <2>3, BracketFacts
  <2>4. CASE At(t, q) = "word"
    <3> DEFINE n == Skip(t, q + 1)
    <3>1. /\ q \in 1 .. N
          /\ n \in q + 1 .. N + 1
          /\ Bracket(t, q) = Bracket(t, n)
          /\ n <= Bracket(t, q)
          /\ Bracket(t, q) \in q .. N + 1
      BY <1>1, <2>1, <2>4, BracketFacts
    <3>2. q + 1 \in Positions(t) /\ Before(positions, to, q + 1) = to[q] + 1
      BY <2>1, <3>1, ExpandsFacts
    <3>3. Bracket(u, to[q]) = Bracket(u, Skip(u, to[q] + 1))
      BY <1>1, <2>2, <2>4, BracketFacts
    <3> HIDE DEF n
    <3>4. n \in q + 1 .. Bracket(t, q) /\ n \in Positions(t)
      BY <1>1, <3>1
    <3>5. n \notin positions
      BY <1>2, <3>4
    <3>6. \A r \in q + 1 .. n - 1 : r \in q + 1 .. Bracket(t, q)
      BY <1>1, <3>1
    <3>7. Skip(u, to[q] + 1) = Before(positions, to, n)
      BY <1>2, <3>2, <3>6, SkipStays DEF n
    <3>8. Skip(u, to[q] + 1) = to[n]
      BY <3>5, <3>7 DEF Before
    <3>9. \A r \in n + 1 .. Bracket(t, n) : r \in q + 1 .. Bracket(t, q)
      BY <1>1, <3>1
    <3>10. Bracket(u, to[n]) = to[Bracket(t, n)]
      BY <1>2, <3>1, <3>9
    <3> QED
      BY <3>1, <3>3, <3>8, <3>10
  <2> QED
    BY <2>3, <2>4
<1>3. \A q \in 1 .. N + 1 : (\A r \in q + 1 .. N + 1 : r \in S) => q \in S
  BY <1>2
<1>4. p \in S
  <2> HIDE DEF S
  <2>1. 1 \in Nat /\ N + 1 \in Nat /\ p \in 1 .. N + 1
    BY <1>1
  <2>2. \A q \in 1 .. N + 1 : q \in S
    BY <1>3, <2>1, Downwards
  <2> QED
    BY <2>1, <2>2
<1> QED
  BY <1>4

(* What follows a bracket is what followed it, up to the first reference. *)
LEMMA QuoteStays ==
    ASSUME NEW t, NEW u, NEW reference, NEW positions, NEW to,
           Expands(t, u, reference, positions, to),
           NEW b \in 1 .. Len(t),
           \A q \in b + 1 .. Quote(t, b) : q \notin positions
    PROVE  /\ Quote(u, to[b]) = to[Quote(t, b)]
           /\ At(u, Skip(u, to[b] + 1)) = At(t, Skip(t, b + 1))
<1> DEFINE s == Skip(t, b + 1)
           before(q) == Before(positions, to, q)
<1>1. /\ t \in Texts /\ u \in Texts /\ Len(t) \in Nat
      /\ Positions(t) = 1 .. Len(t) + 1
      /\ b \in Positions(t) /\ b + 1 \in Positions(t)
      /\ before(b + 1) = to[b] + 1
  <2>1. b \in Positions(t)
    BY DEF Positions, Expands, Texts
  <2> QED
    BY <2>1, ExpandsFacts
<1>2. /\ s \in b + 1 .. Len(t) + 1
      /\ Quote(t, b) \in s .. Len(t) + 1
  BY <1>1, QuoteFacts
<1>3. Skip(u, to[b] + 1) = to[s]
  <2>1. \A q \in b + 1 .. s - 1 : q \in b + 1 .. Quote(t, b)
    <3> HIDE DEF s
    <3> QED
      BY <1>1, <1>2
  <2>2. Skip(u, before(b + 1)) = before(s)
    BY <1>1, <2>1, SkipStays
  <2>3. s \in b + 1 .. Quote(t, b)
    <3> HIDE DEF s
    <3> QED
      BY <1>1, <1>2
  <2> QED
    BY <1>1, <2>2, <2>3 DEF Before
<1> HIDE DEF s
<1>4. s \in Positions(t) /\ At(u, to[s]) = At(t, s)
  <2>1. s \in Positions(t)
    BY <1>1, <1>2
  <2> QED
    BY <2>1, ExpandsFacts
<1>5. CASE At(t, s) # "pair"
  <2>1. Quote(t, b) = s
    BY <1>5 DEF Quote, s
  <2>2. Quote(u, to[b]) = to[s]
    BY <1>3, <1>4, <1>5 DEF Quote
  <2> QED
    BY <1>3, <1>4, <2>1, <2>2 DEF s
<1>6. CASE At(t, s) = "pair"
  <2>1. s \in 1 .. Len(t) /\ s + 1 \in Positions(t)
    BY <1>1, <1>4, <1>6 DEF At
  <2>2. Quote(t, b) = Skip(t, s + 1)
    BY <1>6 DEF Quote, s
  <2>3. Quote(u, to[b]) = Skip(u, to[s] + 1)
    BY <1>3, <1>4, <1>6 DEF Quote
  <2>4. before(s + 1) = to[s] + 1
    BY <1>4, <2>1, ExpandsFacts
  <2>5. Skip(t, s + 1) \in s + 1 .. Len(t) + 1
    BY <1>1, <2>1, SkipFacts
  <2>6. \A q \in s + 1 .. Skip(t, s + 1) : q \in b + 1 .. Quote(t, b)
    BY <1>1, <1>2, <2>2, <2>5
  <2>7. Skip(u, before(s + 1)) = before(Skip(t, s + 1))
    <3>1. \A q \in s + 1 .. Skip(t, s + 1) - 1 : q \in s + 1 .. Skip(t, s + 1)
      BY <1>1, <2>1, <2>5
    <3> QED
      BY <2>1, <2>6, <3>1, SkipStays
  <2>8. before(Skip(t, s + 1)) = to[Skip(t, s + 1)]
    <3>1. Skip(t, s + 1) \in s + 1 .. Skip(t, s + 1)
      BY <1>1, <2>1, <2>5
    <3> QED
      BY <2>6, <3>1 DEF Before
  <2> QED
    BY <1>3, <1>4, <2>2, <2>3, <2>4, <2>7, <2>8 DEF s
<1> QED
  BY <1>5, <1>6

(* A pair put after a bracket is read as one, and what follows it stays. *)
LEMMA QuoteBehindPair ==
    ASSUME NEW t, NEW u, NEW reference, NEW positions, NEW to,
           Expands(t, u, reference, positions, to), reference = "pair",
           NEW b \in 1 .. Len(t), b + 1 \in positions,
           At(t, Skip(t, b + 1)) # "pair",
           \A q \in b + 2 .. Skip(t, b + 1) : q \notin positions
    PROVE  /\ Quote(u, to[b]) = to[Quote(t, b)]
           /\ At(u, Skip(u, to[b] + 1)) = "pair"
<1> DEFINE before(q) == Before(positions, to, q)
<1>1. /\ t \in Texts /\ u \in Texts /\ Len(t) \in Nat /\ Len(u) \in Nat
      /\ Positions(t) = 1 .. Len(t) + 1 /\ Positions(u) = 1 .. Len(u) + 1
      /\ b \in Positions(t) /\ b + 1 \in Positions(t)
      /\ before(b + 1) = to[b] + 1
  <2>1. b \in Positions(t)
    BY DEF Positions, Expands, Texts
  <2> QED
    BY <2>1, ExpandsFacts
<1>2. /\ before(b + 1) \in 1 .. Len(u)
      /\ u[before(b + 1)] = "pair"
      /\ before(b + 1) = to[b + 1] - 1
      /\ to[b + 1] \in Positions(u)
  BY <1>1, ExpandsFacts
<1>3. before(b + 1) \in Positions(u) /\ At(u, before(b + 1)) = "pair"
  BY <1>1, <1>2 DEF At, Texts
<1>4. Skip(u, before(b + 1)) = before(b + 1)
  BY <1>1, <1>3, SkipReference DEF References
<1>5. before(b + 1) + 1 = to[b + 1]
  <2> HIDE DEF before
  <2> QED
    BY <1>1, <1>2
<1>6. Quote(u, to[b]) = Skip(u, to[b + 1])
  BY <1>1, <1>3, <1>4, <1>5 DEF Quote
<1>7. (b + 1) + 1 = b + 2
  OBVIOUS
<1>8. Skip(u, to[b + 1]) = to[Skip(t, b + 1)]
  BY <1>1, <1>7, SkipStaysAfter
<1>9. Quote(t, b) = Skip(t, b + 1)
  BY DEF Quote
<1> QED
  BY <1>1, <1>3, <1>4, <1>6, <1>8, <1>9

(* The message begins where it began, if need be with the reference, and ends *)
(* where it ended.                                                             *)
LEMMA ValueStays ==
    ASSUME NEW t, NEW u, NEW reference, NEW positions, NEW to,
           Expands(t, u, reference, positions, to),
           NEW b \in 1 .. Len(t),
           Quote(u, to[b]) = to[Quote(t, b)],
           At(t, Quote(t, b)) = "quote",
           \A q \in Quote(t, b) + 1 .. ValueStart(t, b) - 1 : q \notin positions
    PROVE  /\ ValueStart(u, to[b]) = Before(positions, to, ValueStart(t, b))
           /\ ValueEnd(u, to[b]) = IF ValueEnd(t, b) = None THEN None
                                   ELSE to[ValueEnd(t, b)]
           /\ MacroArgs(u, to[b]) <=> MacroArgs(t, b)
<1> DEFINE q == Quote(t, b)
           v == ValueStart(t, b)
           e == ValueEnd(t, b)
           before(p) == Before(positions, to, p)
<1>1. /\ t \in Texts /\ u \in Texts /\ Len(t) \in Nat
      /\ Positions(t) = 1 .. Len(t) + 1
      /\ reference \in {"tag", "pair"}
  <2>1. 1 \in Positions(t)
    BY DEF Positions, Expands, Texts
  <2> QED
    BY <2>1, ExpandsFacts
<1>2. q \in 1 .. Len(t) /\ q \in Positions(t)
  <2>1. q \in b + 1 .. Len(t) + 1
    BY <1>1, QuoteFacts
  <2> HIDE DEF q
  <2>2. q \in Positions(t)
    BY <1>1, <2>1
  <2>3. q \in DOMAIN t
    BY DEF At, q
  <2> QED
    BY <1>1, <2>2, <2>3 DEF Texts
<1>3. q + 1 \in Positions(t) /\ before(q + 1) = to[q] + 1 /\ At(u, to[q]) = "quote"
  BY <1>2, ExpandsFacts
<1>4. ValueStart(u, to[b]) = before(v)
  BY <1>3, SkipStays DEF ValueStart
<1>5. v \in Positions(t)
  BY <1>1, <1>3, SkipFacts DEF ValueStart
<1>6. ValueEnd(u, to[b]) = IF e = None THEN None ELSE to[e]
  BY <1>1, <1>4, <1>5, FirstStays DEF ValueEnd
<1>7. (IF e = None THEN None ELSE to[e]) # None <=> e # None
  <2>1. CASE e = None
    BY <2>1
  <2>2. CASE e # None
    <3>1. e \in v .. Len(t)
      BY <1>1, <1>5, <2>2, FirstOfFacts DEF ValueEnd
    <3> HIDE DEF e, v
    <3>2. e \in Positions(t)
      BY <1>1, <1>5, <3>1
    <3>3. to[e] \in Nat
      BY <3>2, ExpandsFacts
    <3> QED
      BY <2>2, <3>3, NoneAssumption
  <2> QED
    BY <2>1, <2>2
<1> HIDE DEF e, v, before
<1>8. MacroArgs(u, to[b]) <=> MacroArgs(t, b)
  BY <1>3, <1>6, <1>7 DEF MacroArgs, e
<1> QED
  BY <1>4, <1>6, <1>8 DEF e, v, before

-----------------------------------------------------------------------------
Entries == [position : Nat, exists : BOOLEAN]

(* A list with one entry put before it. *)
LEMMA Prepended ==
    ASSUME NEW X, NEW e \in X, NEW s \in Seq(X)
    PROVE  /\ <<e>> \o s \in Seq(X)
           /\ Len(s) \in Nat /\ Len(<<e>> \o s) = Len(s) + 1
           /\ DOMAIN s = 1 .. Len(s)
           /\ DOMAIN (<<e>> \o s) = 1 .. Len(s) + 1
           /\ (<<e>> \o s)[1] = e
           /\ \A k \in 1 .. Len(s) : (<<e>> \o s)[k + 1] = s[k]
           /\ \A k \in 1 .. Len(s) + 1 :
                k = 1 \/ (k - 1 \in 1 .. Len(s) /\ (<<e>> \o s)[k] = s[k - 1])
<1>1. <<e>> \in Seq(X) /\ Len(<<e>>) = 1 /\ <<e>>[1] = e
  OBVIOUS
<1>2. <<e>> \o s \in Seq(X) /\ Len(<<e>> \o s) = Len(s) + 1 /\ Len(s) \in Nat
  BY <1>1
<1>3. DOMAIN s = 1 .. Len(s) /\ DOMAIN (<<e>> \o s) = 1 .. Len(s) + 1
  BY <1>2
<1>4. (<<e>> \o s)[1] = e
  BY <1>1, <1>2
<1>5. \A k \in 1 .. Len(s) : (<<e>> \o s)[k + 1] = s[k]
  BY <1>1, <1>2
<1>6. \A k \in 1 .. Len(s) + 1 :
        k = 1 \/ (k - 1 \in 1 .. Len(s) /\ (k - 1) + 1 = k)
  BY <1>2
<1> QED
  BY <1>2, <1>3, <1>4, <1>5, <1>6

(* The entry of a log statement lies behind its bracket and in it. *)
LEMMA EntryFacts ==
    ASSUME NEW t \in Texts, NEW mode \in BOOLEAN, NEW p \in 1 .. Len(t),
           t[p] = "call", LogMacro(t, p)
    PROVE  /\ Bracket(t, p) = p
           /\ Entry(t, mode, p) \in Entries
           /\ Entry(t, mode, p).position \in p + 1 .. Len(t)
           /\ Entry(t, mode, p).position < Onwards(t, p)
<1>1. Len(t) \in Nat /\ p \in Positions(t) /\ At(t, p) # "word"
  BY DEF Positions, At, Texts
<1>2. Bracket(t, p) = p
  BY <1>1, BracketFacts
<1>3. /\ Quote(t, p) \in p + 1 .. Len(t)
      /\ ValueStart(t, p) \in Quote(t, p) + 1 .. Len(t)
      /\ ValueEnd(t, p) \in ValueStart(t, p) .. Len(t)
      /\ Onwards(t, p) \in ValueEnd(t, p) + 1 .. Len(t) + 1
  BY <1>1, <1>2, StatementFacts
<1>4. CASE mode
  <2>1. Entry(t, mode, p) = [position |-> p + 1,
                             exists |-> At(t, Skip(t, p + 1)) = "pair"]
    BY <1>4 DEF Entry
  <2>2. p + 1 \in p + 1 .. Len(t) /\ p + 1 < Onwards(t, p)
    BY <1>1, <1>3
  <2> QED
    BY <1>1, <1>2, <2>1, <2>2 DEF Entries
<1>5. CASE ~mode
  <2>1. Entry(t, mode, p) = [position |-> ValueStart(t, p),
                             exists |-> t[ValueStart(t, p)] = "tag"]
    BY <1>5 DEF Entry
  <2>2. ValueStart(t, p) \in p + 1 .. Len(t) /\ ValueStart(t, p) < Onwards(t, p)
    BY <1>1, <1>3
  <2> QED
    BY <1>1, <1>2, <2>1, <2>2 DEF Entries
<1> QED
  BY <1>4, <1>5

(* Find returns the entries in the order of their positions. *)
LEMMA FoundFacts ==
    ASSUME NEW t \in Texts, NEW mode \in BOOLEAN, NEW p \in Positions(t)
    PROVE  LET found == FindFrom(t, mode)[p] IN
           /\ found \in Seq(Entries)
           /\ \A k \in DOMAIN found : found[k].position \in p + 1 .. Len(t)
           /\ \A j, k \in DOMAIN found :
                j < k => found[j].position < found[k].position
<1> DEFINE N == Len(t)
           F(q) == FindFrom(t, mode)[q]
           S == {q \in 1 .. N + 1 :
                    /\ F(q) \in Seq(Entries)
                    /\ \A k \in DOMAIN F(q) : F(q)[k].position \in q + 1 .. N
                    /\ \A j, k \in DOMAIN F(q) :
                            j < k => F(q)[j].position < F(q)[k].position}
<1>1. N \in Nat /\ Positions(t) = 1 .. N + 1
  BY DEF Positions, Texts
<1>2. ASSUME NEW q \in 1 .. N + 1
      PROVE  F(q) = IF q = N + 1 THEN <<>>
                    ELSE IF t[q] = "call" /\ LogMacro(t, q)
                         THEN <<Entry(t, mode, q)>> \o F(Onwards(t, q))
                         ELSE F(Onwards(t, q))
  BY <1>1, FindEquation
<1> HIDE DEF F, N
<1>3. ASSUME NEW q \in 1 .. N + 1, \A r \in q + 1 .. N + 1 : r \in S
      PROVE  q \in S
  <2> DEFINE w == Onwards(t, q)
             e == Entry(t, mode, q)
  <2>1. CASE q = N + 1
    <3>1. F(q) = <<>>
      BY <1>2, <2>1
    <3>2. /\ <<>> \in Seq(Entries)
          /\ \A k \in DOMAIN <<>> : FALSE
      OBVIOUS
    <3>3. F(q) \in Seq(Entries) /\ \A k \in DOMAIN F(q) : FALSE
      BY <3>1, <3>2
    <3> QED
      BY <3>3
  <2>2. ASSUME q # N + 1
        PROVE  /\ q \in 1 .. N
               /\ w \in q + 1 .. N + 1
               /\ w \in 1 .. N + 1
               /\ F(w) \in Seq(Entries)
               /\ \A k \in DOMAIN F(w) : F(w)[k].position \in w + 1 .. N
               /\ \A j, k \in DOMAIN F(w) :
                    j < k => F(w)[j].position < F(w)[k].position
    <3>1. q \in 1 .. N
      BY <1>1, <2>2
    <3>2. w \in q + 1 .. N + 1
      BY <3>1, OnwardsFacts DEF N
    <3>3. w \in S
      BY <1>3, <3>2
    <3> QED
      BY <3>1, <3>2, <3>3
  <2> HIDE DEF w, e
  <2>3. CASE q # N + 1 /\ ~(t[q] = "call" /\ LogMacro(t, q))
    <3>1. F(q) = F(w)
      BY <1>2, <2>3 DEF w
    <3>2. ASSUME NEW k \in DOMAIN F(w)
          PROVE  F(w)[k].position \in q + 1 .. N
      <4>1. F(w)[k].position \in w + 1 .. N
        BY <2>2, <2>3
      <4> QED
        BY <1>1, <2>2, <2>3, <4>1
    <3> QED
      BY <2>2, <2>3, <3>1, <3>2
  <2>4. CASE q # N + 1 /\ t[q] = "call" /\ LogMacro(t, q)
    <3> DEFINE s == F(w)
               es == <<e>> \o s
    <3>1. F(q) = es
      BY <1>2, <2>4 DEF w, e
    <3>2. /\ q \in 1 .. N /\ w \in q + 1 .. N + 1
          /\ s \in Seq(Entries)
          /\ \A k \in DOMAIN s : s[k].position \in w + 1 .. N
          /\ \A j, k \in DOMAIN s : j < k => s[j].position < s[k].position
      BY <2>2, <2>4
    <3>3. e \in Entries /\ e.position \in q + 1 .. N /\ e.position < w
      BY <2>4, <3>2, EntryFacts DEF e, w, N
    <3>4. /\ es \in Seq(Entries)
          /\ Len(s) \in Nat
          /\ DOMAIN s = 1 .. Len(s)
          /\ DOMAIN es = 1 .. Len(s) + 1
          /\ es[1] = e
          /\ \A k \in 1 .. Len(s) + 1 :
                k = 1 \/ (k - 1 \in 1 .. Len(s) /\ es[k] = s[k - 1])
      BY <3>2, <3>3, Prepended
    <3> HIDE DEF es, s
    <3>5. ASSUME NEW k \in DOMAIN es
          PROVE  es[k].position \in q + 1 .. N
      <4>1. CASE k = 1
        BY <3>3, <3>4, <4>1
      <4>2. CASE k # 1
        <5>1. k - 1 \in 1 .. Len(s) /\ es[k] = s[k - 1]
          BY <3>4, <3>5, <4>2
        <5>2. s[k - 1].position \in w + 1 .. N
          BY <3>2, <3>4, <5>1
        <5> QED
          BY <1>1, <3>2, <5>1, <5>2
      <4> QED
        BY <4>1, <4>2
    <3>6. ASSUME NEW j \in DOMAIN es, NEW k \in DOMAIN es, j < k
          PROVE  es[j].position < es[k].position
      <4>1. k # 1 /\ k - 1 \in 1 .. Len(s) /\ es[k] = s[k - 1]
        BY <3>4, <3>6
      <4>2. CASE j = 1
        <5>1. s[k - 1].position \in w + 1 .. N
          BY <3>2, <3>4, <4>1
        <5>2. es[j].position = e.position
          BY <3>4, <4>2
        <5> QED
          BY <1>1, <3>2, <3>3, <4>1, <5>1, <5>2
      <4>3. CASE j # 1
        <5>1. j - 1 \in 1 .. Len(s) /\ es[j] = s[j - 1]
          BY <3>4, <3>6, <4>3
        <5>2. j - 1 < k - 1
          BY <3>4, <3>6
        <5>3. s[j - 1].position < s[k - 1].position
          BY <3>2, <3>4, <4>1, <5>1, <5>2
        <5> QED
          BY <4>1, <5>1, <5>3
      <4> QED
        BY <4>2, <4>3
    <3>7. F(q) \in Seq(Entries)
      BY <3>1, <3>4
    <3> QED
      BY <3>1, <3>5, <3>6, <3>7
  <2> QED
    BY <2>1, <2>3, <2>4
<1>4. p \in S
  <2> HIDE DEF S
  <2>1. 1 \in Nat /\ N + 1 \in Nat /\ p \in 1 .. N + 1
    BY <1>1
  <2>2. \A q \in 1 .. N + 1 : q \in S
    BY <1>3, <2>1, Downwards
  <2> QED
    BY <2>1, <2>2
<1> QED
  BY <1>4 DEF F, N

(* So the copying loop of map never finds a position before its cursor and *)
(* never gives up, whatever the text.                                      *)
THEOREM AlwaysInOrder ==
    ASSUME NEW t \in Texts, NEW mode \in BOOLEAN
    PROVE  InOrder(Find(t, mode))
<1> DEFINE found == Find(t, mode)
<1>1. 1 \in Positions(t) /\ Len(t) \in Nat
  BY DEF Positions, Texts
<1>2. Skip(t, 1) \in Positions(t) /\ Positions(t) \subseteq Nat
  BY <1>1, SkipFacts DEF Positions
<1>3. /\ \A k \in DOMAIN found : found[k].position \in Skip(t, 1) + 1 .. Len(t)
      /\ \A j, k \in DOMAIN found : j < k => found[j].position < found[k].position
  BY <1>2, FoundFacts DEF Find
<1> HIDE DEF found
<1>4. ASSUME NEW j \in Missing(found), NEW k \in Missing(found), j < k
      PROVE  found[j].position <= found[k].position
  <2>1. j \in DOMAIN found /\ k \in DOMAIN found
    BY DEF Missing
  <2>2. found[j].position \in Int /\ found[k].position \in Int
    BY <1>2, <1>3, <2>1
  <2>3. found[j].position < found[k].position
    BY <1>3, <1>4, <2>1
  <2> QED
    BY <2>2, <2>3
<1> QED
  BY <1>4 DEF InOrder, found

(* Where find, from a position on, says that references are to be put. *)
Wanted(t, mode, p) ==
    LET found == FindFrom(t, mode)[p]
    IN  {found[k].position : k \in Missing(found)}

Misses(t, mode, p) ==
    t[p] = "call" /\ LogMacro(t, p) /\ ~Entry(t, mode, p).exists

(* They are those from the next position on, and perhaps that of one entry. *)
LEMMA WantedFacts ==
    ASSUME NEW t \in Texts, NEW mode \in BOOLEAN, NEW p \in Positions(t)
    PROVE  /\ Wanted(t, mode, p) \subseteq p + 1 .. Len(t)
           /\ p # Len(t) + 1 =>
                Wanted(t, mode, p) =
                    Wanted(t, mode, Onwards(t, p)) \cup
                    (IF Misses(t, mode, p) THEN {Entry(t, mode, p).position} ELSE {})
<1> DEFINE F(q) == FindFrom(t, mode)[q]
           w == Onwards(t, p)
           e == Entry(t, mode, p)
           N == Len(t)
<1>1. N \in Nat /\ Positions(t) = 1 .. N + 1
  BY DEF Positions, Texts
<1>2. F(p) = IF p = N + 1 THEN <<>>
             ELSE IF t[p] = "call" /\ LogMacro(t, p) THEN <<e>> \o F(w)
                  ELSE F(w)
  BY <1>1, FindEquation
<1>3. \A q \in Positions(t) :
        Wanted(t, mode, q) = {F(q)[k].position : k \in Missing(F(q))}
  BY DEF Wanted
<1>4. Wanted(t, mode, p) \subseteq p + 1 .. N
  BY <1>3, FoundFacts DEF Missing
<1>5. ASSUME p # N + 1
      PROVE  p \in 1 .. N /\ w \in Positions(t) /\ F(w) \in Seq(Entries)
  <2>1. p \in 1 .. N
    BY <1>1, <1>5
  <2> QED
    BY <2>1, OnwardsFacts, FoundFacts
<1> HIDE DEF F, w
<1>6. CASE p # N + 1 /\ ~(t[p] = "call" /\ LogMacro(t, p))
  <2>1. F(p) = F(w)
    BY <1>2, <1>6
  <2> QED
    BY <1>3, <1>4, <1>5, <1>6, <2>1 DEF w, Misses
<1>7. CASE p # N + 1 /\ t[p] = "call" /\ LogMacro(t, p)
  <2> DEFINE s == F(w)
             es == <<e>> \o s
  <2>1. F(p) = es
    BY <1>2, <1>7
  <2>2. /\ Len(s) \in Nat
        /\ DOMAIN s = 1 .. Len(s)
        /\ DOMAIN es = 1 .. Len(s) + 1
        /\ es[1] = e
        /\ \A k \in 1 .. Len(s) : es[k + 1] = s[k]
        /\ \A k \in 1 .. Len(s) + 1 :
              k = 1 \/ (k - 1 \in 1 .. Len(s) /\ es[k] = s[k - 1])
    BY <1>5, <1>7, EntryFacts, Prepended
  <2> HIDE DEF es, s, e
  <2>3. ASSUME NEW k \in Missing(es)
        PROVE  \/ ~e.exists /\ es[k].position = e.position
               \/ \E j \in Missing(s) : es[k].position = s[j].position
    <3>1. k \in 1 .. Len(s) + 1 /\ ~es[k].exists
      BY <2>2 DEF Missing
    <3>2. CASE k = 1
      BY <2>2, <3>1, <3>2
    <3>3. CASE k # 1
      <4>1. k - 1 \in 1 .. Len(s) /\ es[k] = s[k - 1]
        BY <2>2, <3>1, <3>3
      <4>2. k - 1 \in Missing(s)
        BY <2>2, <3>1, <4>1 DEF Missing
      <4> QED
        BY <4>1, <4>2
    <3> QED
      BY <3>2, <3>3
  <2>4. ASSUME NEW j \in Missing(s)
        PROVE  \E k \in Missing(es) : es[k].position = s[j].position
    <3>1. j \in 1 .. Len(s) /\ ~s[j].exists
      BY <2>2 DEF Missing
    <3>2. j + 1 \in 1 .. Len(s) + 1 /\ es[j + 1] = s[j]
      BY <2>2, <3>1
    <3>3. j + 1 \in Missing(es)
      BY <2>2, <3>1, <3>2 DEF Missing
    <3> QED
      BY <3>2, <3>3
  <2>5. ASSUME ~e.exists
        PROVE  \E k \in Missing(es) : es[k].position = e.position
    <3>1. 1 \in Missing(es)
      BY <2>2, <2>5 DEF Missing
    <3> QED
      BY <2>2, <3>1
  <2>6. /\ Wanted(t, mode, p) = {es[k].position : k \in Missing(es)}
        /\ Wanted(t, mode, w) = {s[k].position : k \in Missing(s)}
    BY <1>3, <1>5, <1>7, <2>1 DEF s
  <2>7. {es[k].position : k \in Missing(es)} =
            {s[k].position : k \in Missing(s)} \cup
            (IF ~e.exists THEN {e.position} ELSE {})
    <3>1. CASE e.exists
      BY <2>3, <2>4, <3>1
    <3>2. CASE ~e.exists
      BY <2>3, <2>4, <2>5, <3>2
    <3> QED
      BY <3>1, <3>2
  <2> QED
    BY <1>4, <1>7, <2>6, <2>7 DEF w, e, Misses
<1> QED
  BY <1>4, <1>6, <1>7

-----------------------------------------------------------------------------
(***************************************************************************)
(* From p on, the positions are those that find wants there.  It stays so  *)
(* from one position the loop of find looks at to the next.                *)
(***************************************************************************)
AsWanted(t, mode, positions, p) ==
    positions \cap (p .. Len(t)) = Wanted(t, mode, p)

(* There is at most one up to the next, and it is that of the statement's entry. *)
LEMMA AsWantedOnwards ==
    ASSUME NEW t \in Texts, NEW mode \in BOOLEAN,
           NEW positions \in SUBSET (1 .. Len(t)),
           NEW p \in 1 .. Len(t), AsWanted(t, mode, positions, p)
    PROVE  /\ p \notin positions
           /\ AsWanted(t, mode, positions, Onwards(t, p))
           /\ Onwards(t, p) \notin positions
           /\ \A q \in p .. Onwards(t, p) :
                q \in positions <=>
                    Misses(t, mode, p) /\ q = Entry(t, mode, p).position
<1> DEFINE N == Len(t)
           w == Onwards(t, p)
           e == Entry(t, mode, p)
           missing == Misses(t, mode, p)
<1>1. N \in Nat /\ p \in Positions(t) /\ p # N + 1
  BY DEF Positions, Texts
<1>2. w \in p + 1 .. N + 1 /\ w \in Positions(t)
  BY OnwardsFacts
<1>3. missing => e.position \in p + 1 .. N /\ e.position < w
  BY EntryFacts DEF Misses
<1>4. /\ Wanted(t, mode, p) \subseteq p + 1 .. N
      /\ Wanted(t, mode, w) \subseteq w + 1 .. N
      /\ Wanted(t, mode, p) =
            Wanted(t, mode, w) \cup (IF missing THEN {e.position} ELSE {})
  BY <1>1, <1>2, WantedFacts
<1>5. positions \cap (p .. N) = Wanted(t, mode, p)
  BY DEF AsWanted
<1> HIDE DEF N, w, e, missing
<1>6. p \notin positions
  BY <1>1, <1>4, <1>5 DEF N
<1>7. positions \cap (w .. N) = Wanted(t, mode, w)
  <2>1. ASSUME NEW q \in w .. N
        PROVE  q \in positions <=> q \in Wanted(t, mode, w)
    <3>1. q \in p .. N
      BY <1>1, <1>2
    <3>2. q \in positions <=> q \in Wanted(t, mode, p)
      BY <1>5, <3>1
    <3>3. missing => q # e.position
      BY <1>1, <1>2, <1>3
    <3> QED
      BY <1>4, <3>2, <3>3
  <2>2. Wanted(t, mode, w) \subseteq w .. N
    BY <1>1, <1>2, <1>4
  <2> QED
    BY <2>1, <2>2
<1>8. w \notin positions
  <2>1. w \in positions => w \in w .. N
    BY <1>1, <1>2 DEF N
  <2>2. w \notin w + 1 .. N
    BY <1>1, <1>2
  <2> QED
    BY <1>4, <1>7, <2>1, <2>2
<1>9. ASSUME NEW q \in p .. w
      PROVE  q \in positions <=> missing /\ q = e.position
  <2>1. CASE q = w
    BY <1>1, <1>2, <1>3, <1>8, <2>1
  <2>2. CASE q # w
    <3>1. q \in p .. N /\ q \notin w + 1 .. N
      BY <1>1, <1>2, <2>2
    <3>2. q \in positions <=> q \in Wanted(t, mode, p)
      BY <1>5, <3>1
    <3> QED
      BY <1>4, <3>1, <3>2
  <2> QED
    BY <2>1, <2>2
<1> QED
  BY <1>6, <1>7, <1>8, <1>9 DEF AsWanted, N, w, e, missing

Reference(mode) == IF mode THEN "pair" ELSE "tag"

(* A log statement stays one, ends where it ended, and has a reference. *)
LEMMA StatementStays ==
    ASSUME NEW t, NEW u, NEW mode \in BOOLEAN, NEW positions, NEW to,
           Expands(t, u, Reference(mode), positions, to),
           NEW p \in 1 .. Len(t), AsWanted(t, mode, positions, p),
           LogMacro(t, p)
    PROVE  /\ LogMacro(u, to[p])
           /\ Onwards(u, to[p]) = to[Onwards(t, p)]
           /\ t[p] = "call" => Bracket(u, to[p]) = to[p]
                               /\ Entry(u, mode, to[p]).exists
<1> DEFINE N == Len(t)
           b == Bracket(t, p)
           s == Skip(t, b + 1)
           q == Quote(t, b)
           v == ValueStart(t, b)
           e == ValueEnd(t, b)
           w == Onwards(t, p)
           x == Entry(t, mode, p)
           missing == Misses(t, mode, p)
           before(r) == Before(positions, to, r)
<1>1. /\ t \in Texts /\ u \in Texts /\ N \in Nat
      /\ Positions(t) = 1 .. N + 1
      /\ positions \in SUBSET (1 .. N)
      /\ DOMAIN t = 1 .. N
      /\ p \in Positions(t)
  BY DEF Positions, Expands, Texts
<1>2. /\ b \in p .. N /\ t[b] \in {"call", "other"}
      /\ s \in b + 1 .. q
      /\ q \in b + 1 .. N /\ t[q] = "quote"
      /\ v \in q + 1 .. N
      /\ e \in v .. N
      /\ w = Skip(t, e + 1)
      /\ w \in e + 1 .. N + 1
  BY <1>1, StatementFacts
<1>3. /\ w \notin positions
      /\ \A r \in p .. w : r \in positions <=> missing /\ r = x.position
  <2>1. /\ positions \in SUBSET (1 .. Len(t))
        /\ AsWanted(t, mode, positions, p)
    BY <1>1
  <2> HIDE DEF N, w, x, missing
  <2>2. /\ Onwards(t, p) \notin positions
        /\ \A r \in p .. Onwards(t, p) :
            r \in positions <=> Misses(t, mode, p) /\ r = Entry(t, mode, p).position
    BY <1>1, <2>1, AsWantedOnwards
  <2> QED
    BY <2>2 DEF w, x, missing
<1>4. t[p] = "call" => b = p
  BY <1>1, EntryFacts
<1>5. t[p] = "call" =>
        /\ mode => x.position = b + 1 /\ (missing <=> At(t, s) # "pair")
        /\ ~mode => x.position = v /\ (missing <=> t[v] # "tag")
  BY <1>4 DEF Entry, Misses
<1>6. /\ missing /\ mode => x.position = b + 1
      /\ missing /\ ~mode => x.position = v
      /\ missing => t[p] = "call"
  BY <1>5 DEF Misses
<1> HIDE DEF N, b, s, q, v, e, w, x, missing, before
<1>7. /\ b \in 1 .. N /\ p \in 1 .. N /\ b <= q /\ e \in 1 .. N
      /\ b \in Positions(t) /\ v \in Positions(t) /\ e \in Positions(t)
      /\ At(t, q) = "quote" /\ At(t, b) \in {"call", "other"}
  BY <1>1, <1>2 DEF At, N
<1>8. Bracket(u, to[p]) = to[b]
  <2>1. ASSUME NEW r \in p + 1 .. b
        PROVE  r \notin positions
    <3>1. r \in p .. w /\ b # p
      BY <1>1, <1>2
    <3> QED
      BY <1>3, <1>4, <1>6, <3>1
  <2> QED
    BY <1>1, <2>1, BracketStays DEF b
<1>9. /\ Quote(u, to[b]) = to[q]
      /\ t[p] = "call" /\ mode => At(u, Skip(u, to[b] + 1)) = "pair"
  <2>1. CASE missing /\ mode
    <3>1. b + 1 \in p .. w /\ b + 1 \in positions
      BY <1>1, <1>2, <1>3, <1>6, <2>1
    <3>2. At(t, s) # "pair"
      BY <1>5, <1>6, <2>1
    <3>3. ASSUME NEW r \in b + 2 .. s
          PROVE  r \notin positions
      <4>1. r \in p .. w /\ r # b + 1
        BY <1>1, <1>2, <1>7
      <4> QED
        BY <1>3, <1>6, <2>1, <4>1
    <3>4. Reference(mode) = "pair"
      BY <2>1 DEF Reference
    <3> QED
      BY <1>7, <3>1, <3>2, <3>3, <3>4, QuoteBehindPair DEF N, s, q
  <2>2. CASE ~(missing /\ mode)
    <3>1. ASSUME NEW r \in b + 1 .. q
          PROVE  r \notin positions
      <4>1. r \in p .. w /\ r # v
        BY <1>1, <1>2, <1>7
      <4> QED
        BY <1>3, <1>6, <2>2, <4>1
    <3>2. /\ Quote(u, to[b]) = to[q]
          /\ At(u, Skip(u, to[b] + 1)) = At(t, s)
      BY <1>7, <3>1, QuoteStays DEF N, s, q
    <3>3. t[p] = "call" /\ mode => At(t, s) = "pair"
      BY <1>5, <2>2
    <3> QED
      BY <3>2, <3>3
  <2> QED
    BY <2>1, <2>2
<1>10. /\ ValueStart(u, to[b]) = before(v)
       /\ ValueEnd(u, to[b]) = to[e]
       /\ MacroArgs(u, to[b])
  <2>1. ASSUME NEW r \in q + 1 .. v - 1
        PROVE  r \notin positions
    <3>1. r \in p .. w /\ r # v /\ r # b + 1
      BY <1>1, <1>2, <1>7
    <3> QED
      BY <1>3, <1>6, <3>1
  <2>2. e # None
    BY <1>7, NoneAssumption
  <2>3. MacroArgs(t, b)
    BY <1>7, <2>2 DEF MacroArgs, q, e
  <2> QED
    BY <1>7, <1>9, <2>1, <2>2, <2>3, ValueStays DEF N, q, v, e, before
<1>11. LogMacro(u, to[p])
  <2>1. At(u, to[b]) = At(t, b)
    BY <1>7, ExpandsFacts
  <2> QED
    BY <1>7, <1>8, <1>10, <2>1 DEF LogMacro
<1>12. Onwards(u, to[p]) = to[w]
  <2>1. Onwards(u, to[p]) = Skip(u, to[e] + 1)
    BY <1>8, <1>10, <1>11 DEF Onwards
  <2>2. e + 1 \in Positions(t) /\ before(e + 1) = to[e] + 1
    BY <1>7, ExpandsFacts DEF N, before
  <2>3. ASSUME NEW r \in e + 1 .. w - 1
        PROVE  r \notin positions
    <3>1. r \in p .. w /\ r # v /\ r # b + 1
      BY <1>1, <1>2, <1>7
    <3> QED
      BY <1>3, <1>6, <3>1
  <2>4. Skip(u, before(e + 1)) = before(w)
    BY <1>2, <2>2, <2>3, SkipStays DEF before
  <2> QED
    BY <1>3, <2>1, <2>2, <2>4 DEF before, Before
<1>13. ASSUME t[p] = "call"
       PROVE  Entry(u, mode, to[p]).exists
  <2>1. b = p
    BY <1>4, <1>13
  <2>2. CASE mode
    BY <1>9, <1>13, <2>1, <2>2 DEF Entry
  <2>3. CASE ~mode
    <3>1. Entry(u, mode, to[p]).exists <=> u[before(v)] = "tag"
      BY <1>10, <2>1, <2>3 DEF Entry
    <3>2. CASE missing
      <4>1. v \in p .. w /\ v \in positions
        BY <1>1, <1>2, <1>3, <1>6, <2>3, <3>2
      <4>2. u[before(v)] = Reference(mode)
        BY <1>7, <4>1, ExpandsFacts DEF before
      <4> QED
        BY <2>3, <3>1, <4>2 DEF Reference
    <3>3. CASE ~missing
      <4>1. t[v] = "tag"
        BY <1>5, <1>13, <2>3, <3>3
      <4>2. v \in p .. w
        BY <1>1, <1>2
      <4>3. v \notin positions
        BY <1>3, <3>3, <4>2
      <4>4. before(v) = to[v]
        BY <4>3 DEF before, Before
      <4>5. v \in 1 .. Len(t)
        BY <1>1, <1>2 DEF N
      <4>6. u[to[v]] = t[v]
        BY <1>7, <4>5, ExpandsFacts
      <4> QED
        BY <3>1, <4>1, <4>4, <4>6
    <3> QED
      BY <3>2, <3>3
  <2> QED
    BY <2>2, <2>3
<1> QED
  BY <1>4, <1>8, <1>11, <1>12, <1>13 DEF w

(* What is no log statement becomes none. *)
LEMMA FailureStays ==
    ASSUME NEW t, NEW u, NEW mode \in BOOLEAN, NEW positions, NEW to,
           Expands(t, u, Reference(mode), positions, to),
           NEW p \in 1 .. Len(t), AsWanted(t, mode, positions, p),
           ~LogMacro(t, p),
           LogMacro(u, to[Onwards(t, p)]) => LogMacro(t, Onwards(t, p))
    PROVE  /\ ~LogMacro(u, to[p])
           /\ Onwards(u, to[p]) = to[Onwards(t, p)]
<1> DEFINE N == Len(t)
           w == Onwards(t, p)
           before(r) == Before(positions, to, r)
<1>1. /\ t \in Texts /\ u \in Texts /\ N \in Nat
      /\ Positions(t) = 1 .. N + 1
      /\ positions \in SUBSET (1 .. N)
      /\ DOMAIN t = 1 .. N
      /\ p \in Positions(t)
  BY DEF Positions, Expands, Texts
<1>2. ASSUME NEW r \in 1 .. N, AsWanted(t, mode, positions, r), ~LogMacro(t, r)
      PROVE  /\ Onwards(t, r) = Skip(t, r + 1)
             /\ AsWanted(t, mode, positions, Skip(t, r + 1))
             /\ Skip(t, r + 1) \in r + 1 .. N + 1
             /\ \A i \in r .. Skip(t, r + 1) : i \notin positions
  <2>1. Onwards(t, r) = Skip(t, r + 1) /\ Onwards(t, r) \in r + 1 .. N + 1
    BY <1>1, <1>2, OnwardsFacts
  <2> HIDE DEF N
  <2>2. /\ AsWanted(t, mode, positions, Onwards(t, r))
        /\ \A i \in r .. Onwards(t, r) : i \in positions <=>
                Misses(t, mode, r) /\ i = Entry(t, mode, r).position
    BY <1>1, <1>2, AsWantedOnwards DEF N
  <2>3. ~Misses(t, mode, r)
    BY <1>2 DEF Misses
  <2> QED
    BY <2>1, <2>2, <2>3
<1>3. /\ w = Skip(t, p + 1) /\ w \in p + 1 .. N + 1
      /\ AsWanted(t, mode, positions, w)
      /\ \A i \in p .. w : i \notin positions
  BY <1>2
<1> HIDE DEF w, N, before
<1>4. /\ to[p] \in Positions(u) /\ At(u, to[p]) = At(t, p)
      /\ p + 1 \in Positions(t) /\ before(p + 1) = to[p] + 1
  BY <1>1, ExpandsFacts DEF before
<1>5. Skip(u, to[p] + 1) = to[w]
  <2>1. \A i \in p + 1 .. w - 1 : i \in p .. w
    BY <1>1, <1>3
  <2>2. Skip(u, before(p + 1)) = before(w)
    BY <1>3, <1>4, <2>1, SkipStays DEF before
  <2>3. w \in p .. w
    BY <1>1, <1>3
  <2> QED
    BY <1>3, <1>4, <2>2, <2>3 DEF before, Before
<1>6. ~LogMacro(u, to[p])
  <2>1. CASE At(t, p) = "word"
    <3>1. Bracket(t, p) = Bracket(t, w) /\ Bracket(u, to[p]) = Bracket(u, to[w])
      BY <1>1, <1>3, <1>4, <1>5, <2>1, BracketFacts
    <3>2. ~LogMacro(t, w)
      BY <3>1 DEF LogMacro
    <3> QED
      BY <3>1, <3>2 DEF LogMacro, w
  <2>2. CASE At(t, p) \notin {"word", "call", "other"}
    BY <1>1, <1>4, <2>2, BracketFacts DEF LogMacro
  <2>3. CASE At(t, p) \in {"call", "other"}
    <3> DEFINE q == Quote(t, p)
    <3>1. Bracket(t, p) = p /\ Bracket(u, to[p]) = to[p]
      BY <1>1, <1>4, <2>3, BracketFacts
    <3>2. ~MacroArgs(t, p)
      BY <2>3, <3>1 DEF LogMacro
    <3>3. /\ AsWanted(t, mode, positions, q)
          /\ \A i \in p + 1 .. q : i \notin positions
      <4>1. CASE At(t, w) # "pair"
        <5>1. q = w
          BY <1>3, <4>1 DEF Quote
        <5>2. \A i \in p + 1 .. w : i \in p .. w
          BY <1>1, <1>3
        <5> QED
          BY <1>3, <5>1, <5>2
      <4>2. CASE At(t, w) = "pair"
        <5>1. w \in 1 .. N /\ w \in Positions(t)
          BY <1>1, <1>3, <4>2 DEF At
        <5>2. ~LogMacro(t, w)
          BY <1>1, <4>2, <5>1, BracketFacts DEF LogMacro
        <5>3. q = Skip(t, w + 1)
          BY <1>3, <4>2 DEF Quote
        <5>4. /\ AsWanted(t, mode, positions, q)
              /\ q \in w + 1 .. N + 1
              /\ \A i \in w .. q : i \notin positions
          BY <1>2, <1>3, <5>1, <5>2, <5>3
        <5> HIDE DEF q
        <5>5. \A i \in p + 1 .. q : i \in p .. w \/ i \in w .. q
          BY <1>1, <1>3, <5>4
        <5> QED
          BY <1>3, <5>4, <5>5
      <4> QED
        BY <4>1, <4>2
    <3>4. Quote(u, to[p]) = to[q]
      BY <3>3, QuoteStays
    <3>5. q \in Positions(t)
      <4>1. q \in p + 1 .. N + 1
        BY <1>1, QuoteFacts DEF N
      <4> HIDE DEF q
      <4> QED
        BY <1>1, <4>1
    <3>6. At(u, to[q]) = At(t, q)
      BY <3>5, ExpandsFacts
    <3>7. ~MacroArgs(u, to[p])
      <4>1. CASE At(t, q) # "quote"
        BY <3>4, <3>6, <4>1 DEF MacroArgs
      <4>2. CASE At(t, q) = "quote"
        <5>1. q \in 1 .. N
          BY <1>1, <3>5, <4>2 DEF At
        <5>2. ~LogMacro(t, q)
          BY <1>1, <3>5, <4>2, BracketFacts DEF LogMacro
        <5>3. /\ ValueStart(t, p) \in q + 1 .. N + 1
              /\ \A i \in q .. ValueStart(t, p) : i \notin positions
          BY <1>2, <3>3, <5>1, <5>2 DEF ValueStart
        <5>4. \A i \in q + 1 .. ValueStart(t, p) - 1 : i \in q .. ValueStart(t, p)
          <6> HIDE DEF q
          <6> QED
            BY <1>1, <5>1, <5>3
        <5>5. \A i \in q + 1 .. ValueStart(t, p) - 1 : i \notin positions
          BY <5>3, <5>4
        <5> QED
          BY <3>2, <3>4, <4>2, <5>5, ValueStays
      <4> QED
        BY <4>1, <4>2
    <3> QED
      BY <3>1, <3>7 DEF LogMacro
  <2> QED
    BY <2>1, <2>2, <2>3
<1>7. Onwards(u, to[p]) = to[w]
  BY <1>5, <1>6 DEF Onwards
<1> QED
  BY <1>6, <1>7 DEF w

(* Entries that all have a reference. *)
AllThere(found) == \A k \in DOMAIN found : found[k].exists

(* From wherever the loop of find looks at, it returns as many entries as *)
(* before, and none without a reference.                                  *)
LEMMA FindStays ==
    ASSUME NEW t, NEW u, NEW mode \in BOOLEAN, NEW positions, NEW to,
           Expands(t, u, Reference(mode), positions, to),
           NEW p \in Positions(t), AsWanted(t, mode, positions, p)
    PROVE  /\ Len(FindFrom(u, mode)[to[p]]) = Len(FindFrom(t, mode)[p])
           /\ AllThere(FindFrom(u, mode)[to[p]])
<1> DEFINE N == Len(t)
           M == Len(u)
           F(r) == FindFrom(t, mode)[r]
           G(i) == FindFrom(u, mode)[i]
           Same(r) == /\ LogMacro(u, to[r]) <=> LogMacro(t, r)
                      /\ Len(G(to[r])) = Len(F(r))
                      /\ AllThere(G(to[r]))
           S == {r \in 1 .. N + 1 : AsWanted(t, mode, positions, r) => Same(r)}
<1>1. /\ t \in Texts /\ u \in Texts /\ N \in Nat /\ M \in Nat
      /\ Positions(t) = 1 .. N + 1 /\ Positions(u) = 1 .. M + 1
      /\ positions \in SUBSET (1 .. N)
  BY DEF Positions, Expands, Texts
<1>2. ASSUME NEW r \in 1 .. N + 1
      PROVE  /\ to[r] \in 1 .. M + 1
             /\ r \in 1 .. N => to[r] \in 1 .. M /\ u[to[r]] = t[r]
             /\ r = N + 1 => to[r] = M + 1
             /\ At(u, to[r]) = At(t, r)
  <2>1. r \in Positions(t)
    BY <1>1
  <2>2. /\ to[r] \in Positions(u)
        /\ r \in 1 .. Len(t) => to[r] \in 1 .. Len(u) /\ u[to[r]] = t[r]
        /\ r = Len(t) + 1 => to[r] = Len(u) + 1
        /\ At(u, to[r]) = At(t, r)
    BY <2>1, ExpandsFacts
  <2> QED
    BY <1>1, <2>2
<1>3. ASSUME NEW r \in 1 .. N + 1
      PROVE  /\ F(r) = IF r = N + 1 THEN <<>>
                       ELSE IF t[r] = "call" /\ LogMacro(t, r)
                            THEN <<Entry(t, mode, r)>> \o F(Onwards(t, r))
                            ELSE F(Onwards(t, r))
             /\ F(r) \in Seq(Entries)
  BY <1>1, FindEquation, FoundFacts
<1>4. ASSUME NEW i \in 1 .. M + 1
      PROVE  /\ G(i) = IF i = M + 1 THEN <<>>
                       ELSE IF u[i] = "call" /\ LogMacro(u, i)
                            THEN <<Entry(u, mode, i)>> \o G(Onwards(u, i))
                            ELSE G(Onwards(u, i))
             /\ G(i) \in Seq(Entries)
  BY <1>1, FindEquation, FoundFacts
<1> HIDE DEF F, G, N, M
<1>5. ASSUME NEW r \in 1 .. N + 1, \A i \in r + 1 .. N + 1 : i \in S,
             AsWanted(t, mode, positions, r)
      PROVE  Same(r)
  <2> DEFINE w == Onwards(t, r)
  <2>1. CASE r = N + 1
    <3>1. At(t, r) = "end" /\ r \in Positions(t)
      BY <1>1, <2>1 DEF At, N, Texts
    <3>2. ~LogMacro(t, r)
      BY <1>1, <3>1, BracketFacts DEF LogMacro
    <3>3. to[r] \in Positions(u) /\ At(u, to[r]) = "end"
      BY <1>1, <1>2, <3>1
    <3>4. ~LogMacro(u, to[r])
      BY <1>1, <3>3, BracketFacts DEF LogMacro
    <3>5. F(r) = <<>> /\ G(to[r]) = <<>>
      <4>1. to[r] = M + 1 /\ to[r] \in 1 .. M + 1
        BY <1>2, <2>1
      <4> QED
        BY <1>3, <1>4, <2>1, <4>1
    <3>6. AllThere(<<>>)
      BY DEF AllThere
    <3> QED
      BY <3>2, <3>4, <3>5, <3>6
  <2>2. ASSUME r # N + 1
        PROVE  /\ r \in 1 .. N
               /\ w \in r + 1 .. N + 1 /\ w \in 1 .. N + 1
               /\ LogMacro(u, to[w]) <=> LogMacro(t, w)
               /\ Len(G(to[w])) = Len(F(w))
               /\ AllThere(G(to[w]))
    <3>1. r \in 1 .. N
      BY <1>1, <2>2
    <3>2. w \in r + 1 .. N + 1 /\ AsWanted(t, mode, positions, w)
      <4>1. w \in r + 1 .. N + 1
        BY <1>1, <3>1, OnwardsFacts DEF N
      <4>2. AsWanted(t, mode, positions, Onwards(t, r))
        <5>1. r \in 1 .. Len(t) /\ positions \in SUBSET (1 .. Len(t))
          BY <1>1, <3>1 DEF N
        <5>2. t \in Texts /\ AsWanted(t, mode, positions, r)
          BY <1>1, <1>5
        <5> HIDE DEF w
        <5> QED
          BY <5>1, <5>2, AsWantedOnwards
      <4> QED
        BY <4>1, <4>2
    <3>3. w \in S
      BY <1>5, <3>2
    <3> HIDE DEF w
    <3>4. w \in 1 .. N + 1
      BY <1>1, <3>2
    <3>5. Same(w)
      BY <3>2, <3>3
    <3> QED
      BY <3>1, <3>2, <3>4, <3>5
  <2>3. CASE r # N + 1 /\ ~LogMacro(t, r)
    <3>1. ~LogMacro(u, to[r]) /\ Onwards(u, to[r]) = to[w]
      BY <1>5, <2>2, <2>3, FailureStays DEF N
    <3>2. F(r) = F(w)
      BY <1>3, <2>3
    <3>3. to[r] \in 1 .. M /\ to[r] \in 1 .. M + 1 /\ to[r] # M + 1
      BY <1>1, <1>2, <2>2, <2>3
    <3>4. G(to[r]) = G(to[w])
      BY <1>4, <3>1, <3>3
    <3> QED
      BY <2>2, <2>3, <3>1, <3>2, <3>4
  <2>4. CASE r # N + 1 /\ LogMacro(t, r)
    <3>1. /\ LogMacro(u, to[r]) /\ Onwards(u, to[r]) = to[w]
          /\ t[r] = "call" => Entry(u, mode, to[r]).exists
                              /\ Bracket(u, to[r]) = to[r]
      BY <1>5, <2>2, <2>4, StatementStays DEF N
    <3>2. to[r] \in 1 .. M /\ to[r] \in 1 .. M + 1 /\ to[r] # M + 1 /\ u[to[r]] = t[r]
      BY <1>1, <1>2, <2>2, <2>4
    <3>3. CASE t[r] # "call"
      <4>1. F(r) = F(w)
        BY <1>3, <2>4, <3>3
      <4>2. G(to[r]) = G(to[w])
        BY <1>4, <3>1, <3>2, <3>3
      <4> QED
        BY <2>2, <2>4, <3>1, <4>1, <4>2
    <3>4. CASE t[r] = "call"
      <4> DEFINE e == Entry(t, mode, r)
                 d == Entry(u, mode, to[r])
                 es == <<e>> \o F(w)
                 ds == <<d>> \o G(to[w])
      <4>1. F(r) = es
        BY <1>3, <2>4, <3>4
      <4>2. G(to[r]) = ds
        BY <1>4, <3>1, <3>2, <3>4
      <4>3. e \in Entries
        BY <1>1, <2>2, <2>4, <3>4, EntryFacts DEF N
      <4>4. d \in Entries
        BY <1>1, <3>1, <3>2, <3>4, EntryFacts DEF M
      <4>5. F(w) \in Seq(Entries) /\ G(to[w]) \in Seq(Entries)
        <5>1. w \in 1 .. N + 1 /\ to[w] \in 1 .. M + 1
          BY <1>2, <2>2, <2>4
        <5> QED
          BY <1>3, <1>4, <5>1
      <4>6. Len(es) = Len(F(w)) + 1 /\ Len(ds) = Len(G(to[w])) + 1
        BY <4>3, <4>4, <4>5, Prepended
      <4>7. AllThere(ds)
        <5> DEFINE g == G(to[w])
        <5>1. /\ DOMAIN g = 1 .. Len(g)
              /\ DOMAIN ds = 1 .. Len(g) + 1
              /\ ds[1] = d
              /\ \A k \in 1 .. Len(g) + 1 :
                    k = 1 \/ (k - 1 \in 1 .. Len(g) /\ ds[k] = g[k - 1])
          BY <4>4, <4>5, Prepended
        <5>2. AllThere(g) /\ d.exists
          BY <2>2, <2>4, <3>1, <3>4
        <5> HIDE DEF g, ds, d
        <5>3. ASSUME NEW k \in DOMAIN ds
              PROVE  ds[k].exists
          <6>1. CASE k = 1
            BY <5>1, <5>2, <6>1
          <6>2. CASE k # 1
            <7>1. k - 1 \in DOMAIN g /\ ds[k] = g[k - 1]
              BY <5>1, <5>3, <6>2
            <7> QED
              BY <5>2, <7>1 DEF AllThere
          <6> QED
            BY <6>1, <6>2
        <5> QED
          BY <5>3 DEF AllThere
      <4> HIDE DEF es, ds
      <4> QED
        BY <2>2, <2>4, <3>1, <4>1, <4>2, <4>6, <4>7
    <3> QED
      BY <3>3, <3>4
  <2> QED
    BY <2>1, <2>3, <2>4
<1>6. \A r \in 1 .. N + 1 : (\A i \in r + 1 .. N + 1 : i \in S) => r \in S
  BY <1>5
<1>7. p \in S
  <2> HIDE DEF S
  <2>1. 1 \in Nat /\ N + 1 \in Nat /\ p \in 1 .. N + 1
    BY <1>1
  <2>2. \A r \in 1 .. N + 1 : r \in S
    BY <1>6, <2>1, Downwards
  <2> QED
    BY <2>1, <2>2
<1> QED
  BY <1>7 DEF F, G

-----------------------------------------------------------------------------
(* One more lexeme at the end of a text. *)
LEMMA Appended ==
    ASSUME NEW X, NEW s \in Seq(X), NEW x \in X
    PROVE  /\ s \o <<x>> \in Seq(X)
           /\ Len(s) \in Nat
           /\ Len(s \o <<x>>) = Len(s) + 1
           /\ (s \o <<x>>)[Len(s) + 1] = x
           /\ \A i \in 1 .. Len(s) : (s \o <<x>>)[i] = s[i]
  OBVIOUS

(* One more lexeme, perhaps with a reference before it. *)
LEMMA Extended ==
    ASSUME NEW X, NEW s \in Seq(X), NEW r \in X, NEW x \in X, NEW with \in BOOLEAN,
           NEW e, e = IF with THEN (s \o <<r>>) \o <<x>> ELSE s \o <<x>>
    PROVE  /\ e \in Seq(X)
           /\ Len(s) \in Nat
           /\ Len(e) = Len(s) + (IF with THEN 2 ELSE 1)
           /\ e[Len(e)] = x
           /\ with => e[Len(e) - 1] = r
           /\ \A i \in 1 .. Len(s) : e[i] = s[i]
<1>1. CASE with
  <2> DEFINE a == s \o <<r>>
  <2>1. /\ a \in Seq(X) /\ Len(s) \in Nat /\ Len(a) = Len(s) + 1
        /\ a[Len(s) + 1] = r
        /\ \A i \in 1 .. Len(s) : a[i] = s[i]
    BY Appended
  <2>2. e = a \o <<x>>
    BY <1>1
  <2> HIDE DEF a
  <2>3. /\ e \in Seq(X) /\ Len(e) = Len(a) + 1 /\ e[Len(a) + 1] = x
        /\ \A i \in 1 .. Len(a) : e[i] = a[i]
    BY <2>1, <2>2, Appended
  <2>4. Len(e) = Len(s) + 2 /\ Len(e) - 1 = Len(s) + 1 /\ Len(s) + 1 \in 1 .. Len(a)
    BY <2>1, <2>3
  <2>5. \A i \in 1 .. Len(s) : i \in 1 .. Len(a)
    BY <2>1
  <2> QED
    BY <1>1, <2>1, <2>3, <2>4, <2>5
<1>2. CASE ~with
  <2>1. e = s \o <<x>>
    BY <1>2
  <2>2. /\ e \in Seq(X) /\ Len(s) \in Nat /\ Len(e) = Len(s) + 1
        /\ e[Len(s) + 1] = x
        /\ \A i \in 1 .. Len(s) : e[i] = s[i]
    BY <2>1, Appended
  <2> QED
    BY <1>2, <2>2
<1> QED
  BY <1>1, <1>2

(* The copying loop expands the text: nothing is lost, nothing is moved. *)
LEMMA CopiedExpands ==
    ASSUME NEW t \in Texts, NEW reference \in References,
           NEW positions \in SUBSET (1 .. Len(t))
    PROVE  LET c == Copied(t, reference, positions)
               u == c[Len(t)]
               to == [p \in Positions(t) |->
                        IF p = Len(t) + 1 THEN Len(u) + 1 ELSE Len(c[p])]
           IN  u \in Texts /\ Expands(t, u, reference, positions, to)
<1> DEFINE X == LexemeKinds \cup References
           N == Len(t)
           c == Copied(t, reference, positions)
           u == c[N]
           to == [p \in Positions(t) |-> IF p = N + 1 THEN Len(u) + 1 ELSE Len(c[p])]
           before(p) == Before(positions, to, p)
           S == {p \in 0 .. N : c[p] \in Seq(X)}
           T == {p \in 0 .. N : /\ Len(c[p]) <= Len(u)
                                /\ \A i \in 1 .. Len(c[p]) : u[i] = c[p][i]}
<1>1. /\ N \in Nat /\ Positions(t) = 1 .. N + 1
      /\ \A p \in 1 .. N : t[p] \in X
      /\ reference \in X
  BY DEF Positions, Texts
<1>2. /\ c[0] = Nothing
      /\ \A p \in 1 .. N :
            c[p] = c[p - 1] \o Put(reference, positions, p) \o <<t[p]>>
  BY CopiedEquation
<1> HIDE DEF X, N, c
<1>3. ASSUME NEW p \in 1 .. N, c[p - 1] \in Seq(X)
      PROVE  /\ c[p] \in Seq(X)
             /\ Len(c[p - 1]) \in Nat
             /\ Len(c[p]) = Len(c[p - 1]) + (IF p \in positions THEN 2 ELSE 1)
             /\ c[p][Len(c[p])] = t[p]
             /\ p \in positions => c[p][Len(c[p]) - 1] = reference
             /\ \A i \in 1 .. Len(c[p - 1]) : c[p][i] = c[p - 1][i]
  <2> DEFINE with == p \in positions
             s == c[p - 1]
  <2>1. with \in BOOLEAN
    OBVIOUS
  <2>2. t[p] \in X /\ s \in Seq(X)
    BY <1>1, <1>3
  <2>3. c[p] = IF with THEN (s \o <<reference>>) \o <<t[p]>> ELSE s \o <<t[p]>>
    <3>1. /\ with => c[p] = s \o <<reference>> \o <<t[p]>>
          /\ ~with => c[p] = s \o Nothing \o <<t[p]>>
      BY <1>2, Zenon DEF Put, Nothing
    <3>2. s \o Nothing = s
      BY <2>2 DEF Nothing
    <3> HIDE DEF s, with
    <3> QED
      BY <3>1, <3>2, Zenon
  <2> HIDE DEF with, s
  <2>4. /\ c[p] \in Seq(X)
        /\ Len(s) \in Nat
        /\ Len(c[p]) = Len(s) + (IF with THEN 2 ELSE 1)
        /\ c[p][Len(c[p])] = t[p]
        /\ with => c[p][Len(c[p]) - 1] = reference
        /\ \A i \in 1 .. Len(s) : c[p][i] = s[i]
    BY <1>1, <2>1, <2>2, <2>3, Extended
  <2> QED
    BY <2>4 DEF with, s
<1>4. \A p \in 0 .. N : c[p] \in Seq(X)
  <2>1. 0 \in S
    <3>1. Nothing \in Seq(X)
      BY DEF Nothing
    <3>2. 0 \in 0 .. N
      BY <1>1
    <3> QED
      BY <1>2, <3>1, <3>2
  <2>2. ASSUME NEW p \in 0 .. N - 1, p \in S
        PROVE  p + 1 \in S
    <3>1. p + 1 \in 1 .. N /\ p + 1 \in 0 .. N /\ (p + 1) - 1 = p
      BY <1>1
    <3> QED
      BY <1>3, <2>2, <3>1
  <2> HIDE DEF S
  <2>3. 0 \in Nat /\ N \in Nat
    BY <1>1
  <2>4. \A p \in 0 .. N : p \in S
    BY <2>1, <2>2, <2>3, Upwards
  <2> QED
    BY <2>4 DEF S
<1>5. ASSUME NEW p \in 1 .. N
      PROVE  /\ p - 1 \in 0 .. N
             /\ Len(c[p - 1]) \in Nat /\ Len(c[p]) \in Nat
             /\ Len(c[p - 1]) <= Len(c[p])
             /\ Len(c[p]) = Len(c[p - 1]) + (IF p \in positions THEN 2 ELSE 1)
             /\ c[p][Len(c[p])] = t[p]
             /\ p \in positions => c[p][Len(c[p]) - 1] = reference
             /\ \A i \in 1 .. Len(c[p - 1]) : c[p][i] = c[p - 1][i]
  <2>1. p - 1 \in 0 .. N /\ p \in 0 .. N
    BY <1>1
  <2>2. c[p - 1] \in Seq(X) /\ c[p] \in Seq(X)
    BY <1>4, <2>1
  <2> HIDE DEF u
  <2>3. Len(c[p]) \in Nat /\ Len(c[p - 1]) \in Nat
    BY <2>2
  <2>4. \/ Len(c[p]) = Len(c[p - 1]) + 2
        \/ Len(c[p]) = Len(c[p - 1]) + 1
    BY <1>3, <2>2
  <2>5. Len(c[p - 1]) <= Len(c[p])
    BY <2>3, <2>4
  <2> QED
    BY <1>3, <2>1, <2>2, <2>3, <2>5
<1>6. \A p \in 0 .. N : /\ Len(c[p]) <= Len(u)
                        /\ \A i \in 1 .. Len(c[p]) : u[i] = c[p][i]
  <2>1. ASSUME NEW p \in 0 .. N, \A q \in p + 1 .. N : q \in T
        PROVE  p \in T
    <3>1. CASE p = N
      <4>1. Len(u) \in Nat
        BY <1>1, <1>4
      <4> QED
        BY <3>1, <4>1
    <3>2. CASE p # N
      <4>1. p + 1 \in 1 .. N /\ (p + 1) - 1 = p /\ p + 1 \in T
        BY <1>1, <2>1, <3>2
      <4>2. /\ Len(c[p]) \in Nat /\ Len(c[p + 1]) \in Nat
            /\ Len(c[p]) <= Len(c[p + 1])
            /\ \A i \in 1 .. Len(c[p]) : c[p + 1][i] = c[p][i]
        <5>1. /\ Len(c[(p + 1) - 1]) \in Nat /\ Len(c[p + 1]) \in Nat
              /\ Len(c[(p + 1) - 1]) <= Len(c[p + 1])
              /\ \A i \in 1 .. Len(c[(p + 1) - 1]) : c[p + 1][i] = c[(p + 1) - 1][i]
          BY <1>5, <4>1
        <5>2. c[(p + 1) - 1] = c[p]
          BY <4>1
        <5> QED
          BY <5>1, <5>2, Zenon
      <4>3. /\ Len(c[p + 1]) <= Len(u)
            /\ \A i \in 1 .. Len(c[p + 1]) : u[i] = c[p + 1][i]
        BY <4>1
      <4>4. Len(u) \in Nat
        BY <1>1, <1>4
      <4>5. \A i \in 1 .. Len(c[p]) : i \in 1 .. Len(c[p + 1])
        BY <4>2
      <4> HIDE DEF u
      <4>6. Len(c[p]) <= Len(u)
        BY <4>2, <4>3, <4>4
      <4>7. \A i \in 1 .. Len(c[p]) : u[i] = c[p][i]
        BY <4>2, <4>3, <4>5
      <4> QED
        BY <4>6, <4>7
    <3> QED
      BY <3>1, <3>2
  <2> HIDE DEF T
  <2>2. 0 \in Nat /\ N \in Nat
    BY <1>1
  <2>3. \A p \in 0 .. N : p \in T
    BY <2>1, <2>2, Downwards
  <2> QED
    BY <2>3 DEF T
<1> HIDE DEF S, T
<1>7. u \in Seq(X) /\ Len(u) \in Nat
  BY <1>1, <1>4
<1>8. /\ to[N + 1] = Len(u) + 1
      /\ \A p \in 1 .. N : to[p] = Len(c[p]) /\ p + 1 \in 1 .. N + 1
      /\ to \in [Positions(t) -> Nat]
  <2>1. N + 1 \in Positions(t) /\ \A p \in 1 .. N : p \in Positions(t) /\ p # N + 1
    BY <1>1
  <2>2. \A p \in Positions(t) : p = N + 1 \/ p \in 1 .. N
    BY <1>1
  <2>3. \A p \in 1 .. N : Len(c[p]) \in Nat
    BY <1>5
  <2>4. Len(u) + 1 \in Nat
    BY <1>7
  <2>5. \A p \in 1 .. N : p + 1 \in 1 .. N + 1
    BY <1>1
  <2> HIDE DEF u
  <2> QED
    BY <2>1, <2>2, <2>3, <2>4, <2>5
<1> HIDE DEF to
<1>9. Len(c[0]) = 0
  BY <1>2 DEF Nothing
<1>10. ASSUME NEW p \in 1 .. N
       PROVE  /\ to[p] \in 1 .. Len(u) /\ u[to[p]] = t[p]
              /\ before(p) = Len(c[p - 1]) + 1
              /\ p \in positions => u[before(p)] = reference
  <2>1. p \in 0 .. N
    BY <1>1
  <2>2. /\ Len(c[p]) <= Len(u)
        /\ \A i \in 1 .. Len(c[p]) : u[i] = c[p][i]
    BY <1>6, <2>1
  <2>3. to[p] = Len(c[p])
    BY <1>8
  <2> HIDE DEF u
  <2>4. CASE p \in positions
    <3>1. /\ Len(c[p]) = Len(c[p - 1]) + 2 /\ c[p][Len(c[p]) - 1] = reference
          /\ Len(c[p - 1]) \in Nat /\ c[p][Len(c[p])] = t[p]
      BY <1>5, <2>4
    <3>2. before(p) = Len(c[p]) - 1
      BY <2>3, <2>4 DEF Before
    <3>3. Len(c[p]) \in 1 .. Len(c[p]) /\ Len(c[p]) - 1 \in 1 .. Len(c[p])
      BY <3>1
    <3>4. /\ u[Len(c[p])] = t[p] /\ u[Len(c[p]) - 1] = reference
          /\ Len(c[p]) \in 1 .. Len(u)
      BY <1>7, <2>2, <3>1, <3>3
    <3> QED
      BY <2>3, <3>1, <3>2, <3>4
  <2>5. CASE p \notin positions
    <3>1. /\ Len(c[p]) = Len(c[p - 1]) + 1
          /\ Len(c[p - 1]) \in Nat /\ c[p][Len(c[p])] = t[p]
      BY <1>5, <2>5
    <3>2. before(p) = Len(c[p])
      BY <2>3, <2>5 DEF Before
    <3>3. Len(c[p]) \in 1 .. Len(c[p])
      BY <3>1
    <3>4. u[Len(c[p])] = t[p] /\ Len(c[p]) \in 1 .. Len(u)
      BY <1>7, <2>2, <3>1, <3>3
    <3> QED
      BY <2>3, <2>5, <3>1, <3>2, <3>4
  <2> QED
    BY <2>4, <2>5
<1>11. before(1) = 1
  <2>1. CASE N = 0
    <3>1. positions = {} /\ Len(u) = 0
      BY <1>2, <1>9, <2>1 DEF N
    <3>2. to[1] = 1
      BY <1>8, <2>1, <3>1
    <3> QED
      BY <3>1, <3>2 DEF Before
  <2>2. CASE N # 0
    <3>1. 1 \in 1 .. N /\ 1 - 1 = 0
      BY <1>1, <2>2
    <3>2. before(1) = Len(c[1 - 1]) + 1
      BY <1>10, <3>1
    <3> QED
      BY <1>9, <3>1, <3>2
  <2> QED
    BY <2>1, <2>2
<1>12. ASSUME NEW p \in 1 .. N
       PROVE  before(p + 1) = to[p] + 1
  <2>1. CASE p = N
    <3>1. N + 1 \notin positions
      BY <1>1 DEF N
    <3>2. before(N + 1) = Len(u) + 1 /\ to[N] = Len(u)
      BY <1>8, <2>1, <3>1 DEF Before
    <3> QED
      BY <2>1, <3>2
  <2>2. CASE p # N
    <3>1. p + 1 \in 1 .. N /\ (p + 1) - 1 = p
      BY <1>1, <2>2
    <3>2. before(p + 1) = Len(c[(p + 1) - 1]) + 1
      BY <1>10, <3>1
    <3> QED
      BY <1>8, <3>1, <3>2
  <2> QED
    BY <2>1, <2>2
<1> HIDE DEF u, before
<1>13. to \in [Positions(t) -> Positions(u)]
  <2>1. Positions(u) = 1 .. Len(u) + 1
    BY DEF Positions
  <2>2. ASSUME NEW p \in Positions(t)
        PROVE  to[p] \in Positions(u)
    <3>1. p \in 1 .. N \/ p = N + 1
      BY <1>1
    <3> QED
      BY <1>7, <1>8, <1>10, <2>1, <3>1
  <2> QED
    BY <1>8, <2>2
<1>14. u \in Texts
  BY <1>7 DEF Texts, X
<1>15. Expands(t, u, reference, positions, to)
  <2>1. positions \subseteq 1 .. N
    BY DEF N
  <2>2. \A p \in positions : u[before(p)] = reference
    BY <1>10, <2>1
  <2> QED
    BY <1>8, <1>10, <1>11, <1>12, <1>13, <1>14, <2>1, <2>2 DEF Expands, before, N
<1> QED
  BY <1>14, <1>15 DEF u, to, c, N

(* Without a position, the copy is the text. *)
LEMMA NothingPut ==
    ASSUME NEW t, NEW u, NEW reference, NEW to,
           Expands(t, u, reference, {}, to)
    PROVE  u = t
<1> DEFINE N == Len(t)
           S == {p \in 1 .. N + 1 : to[p] = p}
<1>1. /\ t \in Texts /\ u \in Texts /\ N \in Nat /\ Len(u) \in Nat
      /\ Positions(t) = 1 .. N + 1
  BY DEF Positions, Expands, Texts
<1>2. /\ to[N + 1] = Len(u) + 1
      /\ to[1] = 1
      /\ \A p \in 1 .. N : to[p + 1] = to[p] + 1 /\ u[to[p]] = t[p]
  BY DEF Expands, Before
<1>3. \A p \in 1 .. N + 1 : to[p] = p
  <2>1. 1 \in S
    BY <1>1, <1>2
  <2>2. \A p \in 1 .. (N + 1) - 1 : p \in S => p + 1 \in S
    BY <1>1, <1>2
  <2>3. 1 \in Nat /\ N + 1 \in Nat
    BY <1>1
  <2> HIDE DEF S
  <2>4. \A p \in 1 .. N + 1 : p \in S
    BY <2>1, <2>2, <2>3, Upwards
  <2> QED
    BY <2>4 DEF S
<1>4. Len(u) = N
  <2>1. N + 1 \in 1 .. N + 1
    BY <1>1
  <2>2. N + 1 = Len(u) + 1
    BY <1>2, <1>3, <2>1
  <2> QED
    BY <1>1, <2>2
<1>5. \A p \in 1 .. N : u[p] = t[p]
  BY <1>1, <1>2, <1>3
<1> QED
  BY <1>1, <1>4, <1>5 DEF Texts

(* The copy that a run makes: a reference at each position find wants one. *)
LEMMA InsertExpands ==
    ASSUME NEW t \in Texts, NEW mode \in BOOLEAN
    PROVE  LET v == Skip(t, 1)
               positions == Wanted(t, mode, v)
           IN  /\ v \in 1 .. Len(t) + 1
               /\ positions \subseteq v + 1 .. Len(t)
               /\ \E to : Expands(t, Insert(t, mode), Reference(mode), positions, to)
<1> DEFINE v == Skip(t, 1)
           positions == Wanted(t, mode, v)
           c == Copied(t, Reference(mode), positions)
           u == c[Len(t)]
           to == [p \in Positions(t) |->
                    IF p = Len(t) + 1 THEN Len(u) + 1 ELSE Len(c[p])]
<1>1. Len(t) \in Nat /\ 1 \in Positions(t) /\ Positions(t) = 1 .. Len(t) + 1
  BY DEF Positions, Texts
<1>2. v \in Positions(t) /\ v \in 1 .. Len(t) + 1
  BY <1>1, SkipFacts
<1>3. Wanted(t, mode, v) \subseteq v + 1 .. Len(t)
  BY <1>2, WantedFacts
<1>4. Insert(t, mode) = u
  BY AlwaysInOrder DEF Insert, Find, Wanted, Reference
<1> HIDE DEF v, c, u, to, positions
<1>5. positions \in SUBSET (1 .. Len(t))
  <2>1. \A p \in v + 1 .. Len(t) : p \in 1 .. Len(t)
    BY <1>1, <1>2
  <2> QED
    BY <1>3, <2>1 DEF positions
<1>6. Reference(mode) \in References
  BY DEF Reference, References
<1>7. Expands(t, u, Reference(mode), positions, to)
  BY <1>5, <1>6, CopiedExpands DEF c, u, to
<1> QED
  BY <1>2, <1>3, <1>4, <1>7 DEF v, positions

(***************************************************************************)
(* One run: find reads the copy as it read the text, all entries have a    *)
(* reference, and copying once more changes nothing.                       *)
(***************************************************************************)
LEMMA InsertStays ==
    ASSUME NEW t \in Texts, NEW mode \in BOOLEAN
    PROVE  LET u == Insert(t, mode) IN
           /\ u \in Texts
           /\ Len(Find(u, mode)) = Len(Find(t, mode))
           /\ AllThere(Find(u, mode))
<1> DEFINE v == Skip(t, 1)
           positions == Wanted(t, mode, v)
           u == Insert(t, mode)
<1>1. Len(t) \in Nat /\ 1 \in Positions(t) /\ Positions(t) = 1 .. Len(t) + 1
  BY DEF Positions, Texts
<1>2. v \in Positions(t) /\ v \in 1 .. Len(t) + 1
  BY <1>1, SkipFacts
<1>3. Wanted(t, mode, v) \subseteq v + 1 .. Len(t)
  BY InsertExpands
<1>4. PICK to : Expands(t, u, Reference(mode), positions, to)
  BY InsertExpands
<1> HIDE DEF v, u, positions
<1>5. \A p \in 1 .. v : p \notin positions
  <2>1. ASSUME NEW p \in positions
        PROVE  p \notin 1 .. v
    <3>1. p \in v + 1 .. Len(t)
      BY <1>3 DEF positions
    <3> QED
      BY <1>1, <1>2, <3>1
  <2> QED
    BY <2>1
<1>6. u \in Texts
  BY <1>4 DEF Expands
<1>7. AsWanted(t, mode, positions, v)
  <2>1. positions \subseteq v .. Len(t)
    <3>1. \A p \in v + 1 .. Len(t) : p \in v .. Len(t)
      BY <1>1, <1>2
    <3> QED
      BY <1>3, <3>1 DEF positions
  <2> QED
    BY <2>1 DEF AsWanted, positions
<1>8. Find(u, mode) = FindFrom(u, mode)[to[v]]
  <2>1. Before(positions, to, 1) = 1
    BY <1>4 DEF Expands
  <2>2. \A q \in 1 .. v - 1 : q \in 1 .. v
    BY <1>1, <1>2
  <2>3. Skip(u, Before(positions, to, 1)) = Before(positions, to, v)
    BY <1>1, <1>4, <1>5, <2>2, SkipStays DEF v
  <2>4. v \notin positions
    BY <1>1, <1>2, <1>5
  <2> QED
    BY <2>1, <2>3, <2>4 DEF Find, Before
<1>9. /\ Len(FindFrom(u, mode)[to[v]]) = Len(FindFrom(t, mode)[v])
      /\ AllThere(FindFrom(u, mode)[to[v]])
  BY <1>2, <1>4, <1>7, FindStays
<1> QED
  BY <1>6, <1>8, <1>9 DEF Find, v, u

(* If no entry lacks a reference, nothing is inserted. *)
LEMMA NothingInserted ==
    ASSUME NEW t \in Texts, NEW mode \in BOOLEAN, AllThere(Find(t, mode))
    PROVE  Insert(t, mode) = t
<1> DEFINE c == Copied(t, Reference(mode), {})
           u == c[Len(t)]
           to == [p \in Positions(t) |->
                    IF p = Len(t) + 1 THEN Len(u) + 1 ELSE Len(c[p])]
<1>1. Missing(Find(t, mode)) = {}
  BY DEF Missing, AllThere
<1>2. Insert(t, mode) = u
  BY <1>1, AlwaysInOrder DEF Insert, Reference
<1> HIDE DEF c, u, to
<1>3. Reference(mode) \in References /\ {} \in SUBSET (1 .. Len(t))
  BY DEF Reference, References
<1>4. Expands(t, u, Reference(mode), {}, to)
  BY <1>3, CopiedExpands DEF c, u, to
<1>5. u = t
  BY <1>4, NothingPut
<1> QED
  BY <1>2, <1>5

-----------------------------------------------------------------------------
(* Texts stay texts, and after a run every entry has a reference. *)
TextReferenced ==
    /\ text \in Texts
    /\ structured \in BOOLEAN
    /\ runs \in Nat
    /\ runs # 0 => AllThere(Find(text, structured))

(* What developers write and what runs insert keeps TextReferenced. *)
LEMMA TextReferencedInvariant == Spec => []TextReferenced
<1>1. Init => TextReferenced
  BY InitTextsAssumption DEF Init, TextReferenced, Texts
<1>2. TextReferenced /\ [Next]_vars => TextReferenced'
  <2> SUFFICES ASSUME TextReferenced, [Next]_vars
               PROVE  TextReferenced'
    OBVIOUS
  <2>1. ASSUME NEW lexeme \in Lexemes, Write(lexeme)
        PROVE  TextReferenced'
    <3>1. lexeme \in LexemeKinds \cup References
      BY LexemesAssumption
    <3>2. text' \in Texts
      BY <2>1, <3>1 DEF Write, TextReferenced, Texts
    <3> QED
      BY <2>1, <3>2 DEF Write, TextReferenced
  <2>2. CASE Generate
    <3>1. text' = Insert(text, structured) /\ structured' = structured /\ runs' = runs + 1
      BY <2>2 DEF Generate
    <3>2. text \in Texts /\ structured \in BOOLEAN /\ runs \in Nat
      BY DEF TextReferenced
    <3>3. text' \in Texts /\ AllThere(Find(text', structured))
      BY <3>1, <3>2, InsertStays
    <3> QED
      BY <3>1, <3>2, <3>3 DEF TextReferenced
  <2>3. CASE UNCHANGED vars
    BY <2>3 DEF vars, TextReferenced
  <2> QED
    BY <2>1, <2>2, <2>3 DEF Next
<1> QED
  BY <1>1, <1>2, PTL DEF Spec

(***************************************************************************)
(* StillFound, for texts of any length and any sequence of lexemes: the    *)
(* run after a run finds the entries that run found, all with a reference. *)
(***************************************************************************)
THEOREM ReadingUnchanged == Spec => StillFound
<1> DEFINE Kept == Generate =>
                        LET entries == Find(text, structured)
                            again == Find(text', structured)
                        IN  /\ Len(again) = Len(entries)
                            /\ \A k \in DOMAIN again : again[k].exists
<1>1. TextReferenced /\ [Next]_vars => [Kept]_vars
  <2> SUFFICES ASSUME TextReferenced, Generate
               PROVE  LET entries == Find(text, structured)
                          again == Find(text', structured)
                      IN  /\ Len(again) = Len(entries)
                          /\ \A k \in DOMAIN again : again[k].exists
    OBVIOUS
  <2>1. text' = Insert(text, structured) /\ text \in Texts /\ structured \in BOOLEAN
    BY DEF Generate, TextReferenced
  <2> QED
    BY <2>1, InsertStays DEF AllThere
<1>2. Spec => []TextReferenced
  BY TextReferencedInvariant
<1>3. StillFound <=> [][Kept]_vars
  BY DEF StillFound
<1> QED
  BY <1>1, <1>2, <1>3, PTL DEF Spec

(***************************************************************************)
(* A second run leaves every file as the first left it: in edit mode       *)
(* Breadlog is idempotent, for any text and with either kind of reference. *)
(***************************************************************************)
THEOREM SecondRunChangesNothing == Spec => [][Generate /\ runs # 0 => text' = text]_vars
<1>1. TextReferenced /\ [Next]_vars => [Generate /\ runs # 0 => text' = text]_vars
  <2> SUFFICES ASSUME TextReferenced, Generate, runs # 0
               PROVE  text' = text
    OBVIOUS
  <2>1. text' = Insert(text, structured)
    BY DEF Generate
  <2>2. /\ text \in Texts /\ structured \in BOOLEAN
        /\ AllThere(Find(text, structured))
    BY DEF TextReferenced
  <2> QED
    BY <2>1, <2>2, NothingInserted
<1>2. Spec => []TextReferenced
  BY TextReferencedInvariant
<1> QED
  BY <1>1, <1>2, PTL DEF Spec
=============================================================================

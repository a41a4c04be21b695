------------------------ MODULE InputValidator_proofs ------------------------
(***************************************************************************)
(* Proofs about the lexer and the validator: for every code, every variable *)
(* has its type (LexerTyped), the lexer reads on past the end of the code   *)
(* only in a string literal that has no end (ReadsInside), and validate     *)
(* answers what the code means, in its verdict (VerdictsRight) and in the   *)
(* indentation of the next line (IndentsRight).                             *)
(*                                                                          *)
(* ReadsInside needs to know that the lexer and the reference of            *)
(* InputValidator (Mode) agree on what is code, comment and string wherever *)
(* a token begins: InStep.  What a token does to the mode is a lemma per    *)
(* kind of token; how far it reaches follows from the first position where  *)
(* something holds (Least), and for a string literal from the last one      *)
(* where it does not (Greatest).                                            *)
(*                                                                          *)
(* The verdict needs to know in addition that the stack agrees with the     *)
(* depths of the reference (Agrees, Templated) and the last token with its  *)
(* last symbol (Comma): Agreed while the loop runs, Ended after it.         *)
(***************************************************************************)
EXTENDS InputValidator, FiniteSetTheorems, SequenceTheorems, WellFoundedInduction, TLAPS

-----------------------------------------------------------------------------
(* Natural numbers: the first and the last of what there is.               *)

LEMMA Least ==
    ASSUME NEW S, S \subseteq Nat, S # {}
    PROVE  \E x \in S : \A y \in S : x <= y
<1> DEFINE R == {ss \in Nat \X Nat : ss[1] < ss[2]}
<1>1. IsWellFoundedOn(R, Nat)
  BY NatLessThanWellFounded DEF OpToRel
<1>2. \E x \in S : \A y \in S : ~ (<<y, x>> \in R)
  <2> HIDE DEF R
  <2> QED
    BY <1>1, WFMin
<1>3. PICK x \in S : \A y \in S : ~ (<<y, x>> \in R)
  BY <1>2
<1>4. ASSUME NEW y \in S PROVE x <= y
  <2>1. <<y, x>> \in Nat \X Nat
    OBVIOUS
  <2>2. ~ (y < x)
    BY <1>3, <2>1
  <2> QED
    BY <2>1, <2>2
<1> QED
  BY <1>4

LEMMA Greatest ==
    ASSUME NEW n \in Nat, NEW S, S \subseteq 0..n, S # {}
    PROVE  \E x \in S : \A y \in S : y <= x
<1> DEFINE T == {t \in Nat : n - t \in S}
<1>1. \A y \in S : y \in 0..n /\ n - y \in T
  OBVIOUS
<1>2. PICK t \in T : \A u \in T : t <= u
  <2>1. T \subseteq Nat
    OBVIOUS
  <2>2. T # {}
    BY <1>1
  <2> HIDE DEF T
  <2> QED
    BY <2>1, <2>2, Least
<1>3. PICK x \in S : t = n - x
  <2>1. t \in Nat /\ n - t \in S /\ t = n - (n - t)
    OBVIOUS
  <2> HIDE DEF T
  <2> QED
    BY <2>1
<1>4. ASSUME NEW y \in S PROVE y <= x
  <2>1. t <= n - y
    <3> HIDE DEF T
    <3> QED
      BY <1>1, <1>2
  <2> QED
    BY <1>1, <1>3, <2>1
<1> QED
  BY <1>4

\* A property of 0 that each number hands on to the next holds of all of them: a set
\* stands for the property, since a lemma cannot have an operator as its parameter.
LEMMA AllNat ==
    ASSUME NEW S, 0 \in S, \A n \in Nat : n \in S => n + 1 \in S
    PROVE  Nat \subseteq S
<1> SUFFICES ASSUME Nat \ S # {} PROVE FALSE
  OBVIOUS
<1> DEFINE B == Nat \ S
<1>1. PICK x \in B : \A y \in B : x <= y
  <2>1. B \subseteq Nat /\ B # {}
    OBVIOUS
  <2> HIDE DEF B
  <2> QED
    BY <2>1, Least
<1>2. x \in Nat /\ x # 0 /\ x - 1 \in Nat /\ ~ (x <= x - 1)
  OBVIOUS
<1>3. x - 1 \in S
  <2> HIDE DEF B
  <2>1. x - 1 \notin B
    BY <1>1, <1>2
  <2> QED
    BY <1>2, <2>1 DEF B
<1>4. (x - 1) + 1 = x
  BY <1>2
<1> QED
  BY <1>2, <1>3, <1>4

-----------------------------------------------------------------------------
(* The reference: what a symbol is part of.                                *)

\* The modes are defined: each follows from the one before it.
LEMMA ModeIs ==
    ASSUME input \in Seq(AllSymbols)
    PROVE  /\ Mode[0] = "code"
           /\ \A i \in 1..Len(input) : Mode[i] = ModeAfter(Mode[i - 1], input[i])
<1> DEFINE L == Len(input)
           B(f, i) == IF i = 0 THEN "code" ELSE ModeAfter(f[i - 1], input[i])
           S == {n \in Nat : \E f : f = [i \in 0..n |-> B(f, i)]}
<1>1. 0 \in S
  <2> DEFINE f == [i \in 0..0 |-> "code"]
  <2>1. \A i \in 0..0 : B(f, i) = "code"
    OBVIOUS
  <2>2. f = [i \in 0..0 |-> B(f, i)]
    BY <2>1
  <2> QED
    BY <2>2
<1>2. ASSUME NEW n \in Nat, n \in S PROVE n + 1 \in S
  <2>1. PICK f : f = [i \in 0..n |-> B(f, i)]
    BY <1>2
  <2> DEFINE g == [i \in 0..(n + 1) |-> IF i \in 0..n THEN f[i] ELSE B(f, i)]
  <2>2. \A i \in 0..n : g[i] = f[i]
    OBVIOUS
  <2>3. ASSUME NEW i \in 0..(n + 1) PROVE g[i] = B(g, i)
    <3>1. i = 0 \/ g[i - 1] = f[i - 1]
      <4>1. i = 0 \/ i - 1 \in 0..n
        OBVIOUS
      <4> QED
        BY <2>2, <4>1
    <3>2. B(g, i) = B(f, i)
      <4> HIDE DEF g
      <4> QED
        BY <3>1
    <3>3. CASE i \in 0..n
      <4>1. f[i] = B(f, i)
        <5> HIDE DEF B
        <5> QED
          BY <2>1, <3>3
      <4> QED
        BY <2>2, <3>2, <3>3, <4>1
    <3>4. CASE i \notin 0..n
      <4>1. g[i] = B(f, i)
        <5> HIDE DEF B
        <5> QED
          BY <3>4
      <4> QED
        BY <3>2, <4>1
    <3> QED
      BY <3>3, <3>4
  <2>4. g = [i \in 0..(n + 1) |-> B(g, i)]
    <3>1. DOMAIN g = 0..(n + 1) /\ g = [i \in DOMAIN g |-> g[i]]
      OBVIOUS
    <3> HIDE DEF g, B
    <3> QED
      BY <2>3, <3>1
  <2> HIDE DEF g, B
  <2>5. n + 1 \in Nat
    OBVIOUS
  <2> QED
    BY <2>4, <2>5
<1>3. L \in Nat
  OBVIOUS
<1>4. L \in S
  <2> HIDE DEF S, L
  <2> QED
    BY <1>1, <1>2, <1>3, AllNat
<1>5. \E f : f = [i \in 0..L |-> B(f, i)]
  <2> HIDE DEF B, L
  <2> QED
    BY <1>4
<1>6. Mode = CHOOSE f : f = [i \in 0..L |-> B(f, i)]
  BY DEF Mode
<1> HIDE DEF B, L
<1>7. Mode = [i \in 0..L |-> B(Mode, i)]
  BY <1>5, <1>6
<1>8. \A i \in 0..L : Mode[i] = B(Mode, i)
  BY <1>7
<1>9. 0 \in 0..L /\ \A i \in 1..L : i \in 0..L /\ i # 0
  BY <1>3
<1>10. Mode[0] = B(Mode, 0) /\ \A i \in 1..L : Mode[i] = B(Mode, i)
  BY <1>8, <1>9
<1> QED
  BY <1>9, <1>10 DEF B, L

\* How a symbol changes the mode.
LEMMA ModeTable ==
    ASSUME NEW c
    PROVE  /\ ModeAfter("code", c) =
                 IF c = "quote" THEN "string" ELSE IF c = "/" THEN "slash" ELSE "code"
           /\ ModeAfter("slash", c) =
                 IF c = "/" THEN "line" ELSE IF c = "*" THEN "block"
                 ELSE IF c = "quote" THEN "string" ELSE "code"
           /\ ModeAfter("line", c) = IF c = "newline" THEN "code" ELSE "line"
           /\ ModeAfter("block", c) = IF c = "*" THEN "star" ELSE "block"
           /\ ModeAfter("star", c) =
                 IF c = "/" THEN "code" ELSE IF c = "*" THEN "star" ELSE "block"
           /\ ModeAfter("string", c) =
                 IF c = "quote" THEN "code" ELSE IF c = "\\" THEN "escape" ELSE "string"
           /\ ModeAfter("escape", c) = "string"
BY DEF ModeAfter

\* Symbols that do not change the mode, however many they are.
LEMMA ModeRun ==
    ASSUME input \in Seq(AllSymbols), NEW m, NEW a \in 0..Len(input), NEW b \in a..Len(input),
           Mode[a] = m, \A r \in (a + 1)..b : ModeAfter(m, input[r]) = m
    PROVE  \A r \in a..b : Mode[r] = m
<1> SUFFICES ASSUME {r \in a..b : Mode[r] # m} # {} PROVE FALSE
  OBVIOUS
<1> DEFINE S == {r \in a..b : Mode[r] # m}
<1>1. PICK x \in S : \A y \in S : x <= y
  <2>1. S \subseteq Nat /\ S # {}
    OBVIOUS
  <2> HIDE DEF S
  <2> QED
    BY <2>1, Least
<1>2. x # a /\ x \in 1..Len(input) /\ x - 1 \in a..b /\ x \in (a + 1)..b
  OBVIOUS
<1>3. Mode[x - 1] = m
  BY <1>1, <1>2
<1>4. Mode[x] = ModeAfter(m, input[x])
  BY <1>2, <1>3, ModeIs
<1> QED
  BY <1>2, <1>4

-----------------------------------------------------------------------------
(* xlexer.                                                                 *)

\* What is at a position: the NUL behind the last symbol.
LEMMA AtIs ==
    ASSUME input \in Seq(AllSymbols), NEW p \in Nat
    PROVE  /\ Len(input) \in Nat
           /\ p \in 1..Len(input) => At(p) = input[p] /\ At(p) \in AllSymbols
           /\ p > Len(input) => At(p) = "eof"
           /\ At(p) # "eof" => p \in 1..Len(input)
<1>1. Len(input) \in Nat
  OBVIOUS
<1>2. "eof" \notin AllSymbols
  BY DEF AllSymbols, Brackets, Words, Quotes
<1> QED
  BY <1>1, <1>2 DEF At

\* A run of symbols ends at the first other one, at the latest at the NUL.
LEMMA SkipAllIs ==
    ASSUME input \in Seq(AllSymbols), NEW p \in 1..(Len(input) + 1), NEW symbols,
           "eof" \notin symbols
    PROVE  /\ SkipAll(p, symbols) \in p..(Len(input) + 1)
           /\ At(SkipAll(p, symbols)) \notin symbols
           /\ \A r \in p..(SkipAll(p, symbols) - 1) : At(r) \in symbols
<1> DEFINE S == {q \in p..(Len(input) + 1) : At(q) \notin symbols}
<1>1. Len(input) \in Nat /\ Len(input) + 1 \in Nat /\ At(Len(input) + 1) = "eof"
  BY AtIs
<1>2. PICK x \in S : \A y \in S : x <= y
  <2>1. Len(input) + 1 \in S
    BY <1>1
  <2>2. S \subseteq Nat /\ S # {}
    BY <1>1, <2>1
  <2> HIDE DEF S
  <2> QED
    BY <2>2, Least
<1>3. \A r \in p..(x - 1) : At(r) \in symbols
  BY <1>1, <1>2
<1>4. x \in p..(Len(input) + 1) /\ At(x) \notin symbols
  BY <1>2
<1> QED
  BY <1>3, <1>4 DEF SkipAll

\* How far the string literal reaches that begins at p: what the lexer finds from each
\* position in it.
QuoteFrom(f, p, q) ==
    CASE q > Len(input) -> Overrun
      [] At(q) = At(p)  -> q + 1
      [] At(q) = "\\"   -> f[q + 2]
      [] OTHER          -> f[q + 1]
QuoteEnds(f, p) ==
    /\ AfterQuote(p) = f[p + 1]
    /\ \A q \in (p + 1)..(Len(input) + 2) :
          /\ q > Len(input) => f[q] = Overrun
          /\ q <= Len(input) /\ At(q) = At(p) => f[q] = q + 1
          /\ q <= Len(input) /\ At(q) # At(p) /\ At(q) = "\\" => f[q] = f[q + 2]
          /\ q <= Len(input) /\ At(q) # At(p) /\ At(q) # "\\" => f[q] = f[q + 1]

\* From the NUL on the literal has no end; it ends behind the next quote; a backslash
\* takes the symbol behind it along.
LEMMA QuoteFromIs ==
    ASSUME input \in Seq(AllSymbols), NEW p \in 1..Len(input), At(p) # "\\",
           NEW f, NEW q \in Nat
    PROVE  /\ q > Len(input) => QuoteFrom(f, p, q) = Overrun
           /\ q <= Len(input) /\ At(q) = At(p) => QuoteFrom(f, p, q) = q + 1
           /\ q <= Len(input) /\ At(q) # At(p) /\ At(q) = "\\" =>
                 QuoteFrom(f, p, q) = f[q + 2]
           /\ q <= Len(input) /\ At(q) # At(p) /\ At(q) # "\\" =>
                 QuoteFrom(f, p, q) = f[q + 1]
<1>1. Len(input) \in Nat /\ p \in Nat
  OBVIOUS
<1>2. At(p) \in AllSymbols /\ At(p) # "eof"
  <2>1. "eof" \notin AllSymbols
    BY DEF AllSymbols, Brackets, Words, Quotes
  <2> QED
    BY <1>1, <2>1, AtIs
<1>3. CASE q > Len(input)
  <2>1. At(q) = "eof"
    BY <1>3, AtIs
  <2>2. At(q) # At(p) /\ At(q) # "\\" /\ ~ (q <= Len(input))
    BY <1>1, <1>2, <1>3, <2>1
  <2> QED
    BY <1>3, <2>2 DEF QuoteFrom
<1>4. CASE q <= Len(input)
  <2>1. ~ (q > Len(input))
    BY <1>1, <1>4
  <2> QED
    BY <1>4, <2>1 DEF QuoteFrom
<1> QED
  BY <1>1, <1>3, <1>4

LEMMA AfterQuoteIs ==
    ASSUME input \in Seq(AllSymbols), NEW p \in 1..Len(input), At(p) # "\\"
    PROVE  \E f : QuoteEnds(f, p)
<1> DEFINE L == Len(input)
           D == (p + 1)..(L + 2)
           E(n) == {q \in D : q >= L + 2 - n}
           B(f, q) == QuoteFrom(f, p, q)
           S == {n \in Nat : \E f : f = [q \in E(n) |-> B(f, q)]}
<1>1. L \in Nat /\ p \in Nat
  OBVIOUS
<1> HIDE DEF L
<1>2. 0 \in S
  <2> DEFINE f == [q \in E(0) |-> Overrun]
  <2>1. ASSUME NEW q \in E(0) PROVE B(f, q) = Overrun
    <3>1. q \in Nat /\ q > L
      BY <1>1
    <3> HIDE DEF f
    <3> QED
      BY <3>1, QuoteFromIs DEF L
  <2> HIDE DEF B
  <2>2. f = [q \in E(0) |-> B(f, q)]
    BY <2>1
  <2> QED
    BY <2>2
<1>3. ASSUME NEW n \in Nat, n \in S PROVE n + 1 \in S
  <2>1. PICK f : f = [q \in E(n) |-> B(f, q)]
    BY <1>3
  <2> DEFINE g == [q \in E(n + 1) |-> IF q \in E(n) THEN f[q] ELSE B(f, q)]
  <2>2. \A q \in E(n) : q \in E(n + 1) /\ g[q] = f[q]
    <3>1. \A q \in E(n) : q \in E(n + 1)
      BY <1>1
    <3> HIDE DEF E, B
    <3> QED
      BY <3>1
  <2>3. ASSUME NEW q \in E(n + 1) PROVE g[q] = B(g, q)
    <3>1. q \in D /\ (q <= L => q + 1 \in E(n) /\ q + 2 \in E(n))
      BY <1>1
    <3>2. B(g, q) = B(f, q)
      <4>1. q <= L => g[q + 1] = f[q + 1] /\ g[q + 2] = f[q + 2]
        BY <2>2, <3>1
      <4>2. q \in Nat /\ L \in Nat
        BY <1>1, <3>1
      <4> HIDE DEF g, E, D
      <4>3. CASE q <= L
        <5>1. g[q + 1] = f[q + 1] /\ g[q + 2] = f[q + 2]
          BY <4>1, <4>3
        <5> QED
          BY <5>1 DEF QuoteFrom
      <4>4. CASE q > L
        BY <4>2, <4>4, QuoteFromIs DEF L
      <4> QED
        BY <4>2, <4>3, <4>4
    <3>3. CASE q \in E(n)
      <4> HIDE DEF E, B, D
      <4>1. f[q] = B(f, q)
        BY <2>1, <3>3
      <4> QED
        BY <2>2, <3>2, <3>3, <4>1 
    <3>4. CASE q \notin E(n)
      <4> HIDE DEF E, B, D
      <4>1. g[q] = B(f, q)
        BY <2>3, <3>4
      <4> QED
        BY <3>2, <4>1
    <3> QED
      BY <3>3, <3>4
  <2>4. g = [q \in E(n + 1) |-> B(g, q)]
    <3>1. DOMAIN g = E(n + 1) /\ g = [q \in DOMAIN g |-> g[q]]
      OBVIOUS
    <3> HIDE DEF g, B, E
    <3> QED
      BY <2>3, <3>1
  <2>5. n + 1 \in Nat
    OBVIOUS
  <2> HIDE DEF g, B, E
  <2> QED
    BY <2>4, <2>5
<1>4. L + 2 - (p + 1) \in Nat
  BY DEF L
<1>5. L + 2 - (p + 1) \in S
  <2> HIDE DEF S
  <2> QED
    BY <1>2, <1>3, <1>4, AllNat
<1>6. E(L + 2 - (p + 1)) = D
  BY <1>1
<1>7. \E f : f = [q \in D |-> B(f, q)]
  <2> HIDE DEF B, E, D
  <2> QED
    BY <1>5, <1>6
<1> DEFINE end == CHOOSE f : f = [q \in D |-> B(f, q)]
<1>8. AfterQuote(p) = end[p + 1]
  BY DEF AfterQuote, QuoteFrom, L
<1>9. end = [q \in D |-> B(end, q)]
  <2> HIDE DEF B, D
  <2> QED
    BY <1>7
<1> HIDE DEF end, B, D
<1>10. \A q \in D : end[q] = B(end, q)
  BY <1>9
<1>11. QuoteEnds(end, p)
  <2> SUFFICES ASSUME NEW q \in D
               PROVE  /\ q > L => end[q] = Overrun
                      /\ q <= L /\ At(q) = At(p) => end[q] = q + 1
                      /\ q <= L /\ At(q) # At(p) /\ At(q) = "\\" => end[q] = end[q + 2]
                      /\ q <= L /\ At(q) # At(p) /\ At(q) # "\\" => end[q] = end[q + 1]
    BY <1>8 DEF QuoteEnds, D, L
  <2>1. end[q] = QuoteFrom(end, p, q)
    BY <1>10 DEF B
  <2>2. q \in Nat
    BY <1>1 DEF D
  <2> QED
    BY <2>1, <2>2, QuoteFromIs DEF L
<1> QED
  BY <1>11


\* The token kinds of single symbols, and their symbols.
PunctuatorKinds == {"l_square", "r_square", "l_paren", "r_paren", "l_brace", "r_brace",
                    "comma", "semicolon", "backslash", "hash", "slash", "asterik"}
LEMMA PunctuatorsAre ==
    /\ DOMAIN Punctuators = PunctuatorKinds
    /\ Punctuators["l_square"] = "[" /\ Punctuators["r_square"] = "]"
    /\ Punctuators["l_paren"] = "(" /\ Punctuators["r_paren"] = ")"
    /\ Punctuators["l_brace"] = "{" /\ Punctuators["r_brace"] = "}"
    /\ Punctuators["comma"] = "," /\ Punctuators["semicolon"] = ";"
    /\ Punctuators["backslash"] = "\\" /\ Punctuators["hash"] = "#"
    /\ Punctuators["slash"] = "/" /\ Punctuators["asterik"] = "*"
BY DEF Punctuators, PunctuatorKinds


\* From every position in it, a string literal goes on to one further on, or has no end.
LEMMA QuoteGoesOn ==
    ASSUME input \in Seq(AllSymbols), NEW p \in 1..Len(input), At(p) # "\\",
           NEW f, QuoteEnds(f, p)
    PROVE  \A q \in (p + 1)..(Len(input) + 2) :
              f[q] = Overrun \/ f[q] \in (q + 1)..(Len(input) + 1)
<1>1. Len(input) \in Nat /\ p \in Nat
  OBVIOUS
<1>2. QuoteEnds(f, p)
  OBVIOUS
<1> DEFINE Good(q) == f[q] = Overrun \/ f[q] \in (q + 1)..(Len(input) + 1)
           S == {q \in (p + 1)..(Len(input) + 2) : ~ Good(q)}
<1>3. S = {}
  <2> SUFFICES ASSUME S # {} PROVE FALSE
    OBVIOUS
  <2>1. PICK q \in S : \A y \in S : y <= q
    <3>1. S \subseteq 0..(Len(input) + 2) /\ Len(input) + 2 \in Nat
      BY <1>1
    <3> HIDE DEF S
    <3> QED
      BY <3>1, Greatest
  <2>2. q \in Nat /\ q \in (p + 1)..(Len(input) + 2) /\ ~ Good(q)
    BY <1>1
  <2>3. \A y \in (q + 1)..(Len(input) + 2) : Good(y)
    <3>1. \A y \in (q + 1)..(Len(input) + 2) :
             y \in (p + 1)..(Len(input) + 2) /\ ~ (y <= q)
      BY <1>1, <2>2
    <3> HIDE DEF Good
    <3> QED
      BY <2>1, <3>1
  <2>4. q <= Len(input) => Good(q + 1) /\ Good(q + 2)
    <3>1. q <= Len(input) => /\ q + 1 \in (q + 1)..(Len(input) + 2)
                             /\ q + 2 \in (q + 1)..(Len(input) + 2)
      BY <1>1, <2>2
    <3> HIDE DEF Good
    <3> QED
      BY <2>3, <3>1
  <2>5. /\ q > Len(input) => f[q] = Overrun
        /\ q <= Len(input) /\ At(q) = At(p) => f[q] = q + 1
        /\ q <= Len(input) /\ At(q) # At(p) /\ At(q) = "\\" => f[q] = f[q + 2]
        /\ q <= Len(input) /\ At(q) # At(p) /\ At(q) # "\\" => f[q] = f[q + 1]
    BY <1>2, <2>2 DEF QuoteEnds
  <2>6. q > Len(input) \/ q <= Len(input)
    BY <1>1, <2>2
  <2>7. CASE q > Len(input)
    BY <2>2, <2>5, <2>7
  <2>8. CASE q <= Len(input) /\ At(q) = At(p)
    <3>1. q + 1 \in (q + 1)..(Len(input) + 1)
      BY <1>1, <2>2, <2>8
    <3> QED
      BY <2>2, <2>5, <2>8, <3>1
  <2>9. CASE q <= Len(input) /\ At(q) # At(p) /\ At(q) = "\\"
    <3>1. f[q] = f[q + 2] /\ Good(q + 2)
      BY <2>4, <2>5, <2>9
    <3>2. (q + 2 + 1)..(Len(input) + 1) \subseteq (q + 1)..(Len(input) + 1)
      BY <1>1, <2>2
    <3>3. Good(q)
      BY <3>1, <3>2
    <3> QED
      BY <2>2, <3>3
  <2>10. CASE q <= Len(input) /\ At(q) # At(p) /\ At(q) # "\\"
    <3>1. f[q] = f[q + 1] /\ Good(q + 1)
      BY <2>4, <2>5, <2>10
    <3>2. (q + 1 + 1)..(Len(input) + 1) \subseteq (q + 1)..(Len(input) + 1)
      BY <1>1, <2>2
    <3>3. Good(q)
      BY <3>1, <3>2
    <3> QED
      BY <2>2, <3>3
  <2> QED
    BY <2>6, <2>7, <2>8, <2>9, <2>10
<1>4. \A q \in (p + 1)..(Len(input) + 2) : Good(q)
  <2> HIDE DEF Good
  <2> QED
    BY <1>3
<1> QED
  BY <1>4

\* Behind a string literal there is at most the NUL.
LEMMA QuoteReaches ==
    ASSUME input \in Seq(AllSymbols), NEW p \in 1..Len(input), At(p) # "\\"
    PROVE  AfterQuote(p) = Overrun \/ AfterQuote(p) \in (p + 2)..(Len(input) + 1)
<1>1. Len(input) \in Nat /\ p \in Nat
  OBVIOUS
<1>2. PICK f : QuoteEnds(f, p)
  BY AfterQuoteIs
<1>3. p + 1 \in (p + 1)..(Len(input) + 2)
  BY <1>1
<1>4. f[p + 1] = Overrun \/ f[p + 1] \in (p + 1 + 1)..(Len(input) + 1)
  BY <1>2, <1>3, QuoteGoesOn
<1>5. AfterQuote(p) = f[p + 1]
  BY <1>2 DEF QuoteEnds
<1>6. (p + 1 + 1)..(Len(input) + 1) = (p + 2)..(Len(input) + 1)
  BY <1>1
<1> QED
  BY <1>4, <1>5, <1>6

\* What has a meaning of its own, and a position where nothing of it is in the code.
Marks == Brackets \cup {";", ",", "\\", "#"}
Plain(r) == Mode[r] = "code" => At(r) \notin Marks

\* In a string, the lexer finds the quote that ends it, or there is none; the symbols up
\* to it have no meaning of their own.
LEMMA QuoteInside ==
    ASSUME input \in Seq(AllSymbols), NEW p \in 1..Len(input), At(p) = "quote",
           Mode[p] = "string"
    PROVE  IF AfterQuote(p) = Overrun THEN StringOpen
           ELSE /\ Mode[AfterQuote(p) - 1] = "code"
                /\ \A r \in p..(AfterQuote(p) - 1) : Plain(r)
<1>1. Len(input) \in Nat /\ p \in Nat /\ At(p) # "\\"
  OBVIOUS
<1>2. PICK f : QuoteEnds(f, p)
  BY <1>1, AfterQuoteIs
<1> DEFINE Good(q) == Mode[q - 1] = "string" =>
                          IF f[q] = Overrun THEN StringOpen
                          ELSE /\ Mode[f[q] - 1] = "code"
                               /\ \A r \in q..(f[q] - 1) : Plain(r)
           S == {q \in (p + 1)..(Len(input) + 1) : ~ Good(q)}
<1>3. S = {}
  <2> SUFFICES ASSUME S # {} PROVE FALSE
    OBVIOUS
  <2>1. PICK q \in S : \A y \in S : y <= q
    <3>1. S \subseteq 0..(Len(input) + 1) /\ Len(input) + 1 \in Nat
      BY <1>1
    <3> HIDE DEF S
    <3> QED
      BY <3>1, Greatest
  <2>2. q \in Nat /\ q \in (p + 1)..(Len(input) + 1) /\ ~ Good(q)
    <3>1. q \in (p + 1)..(Len(input) + 1) /\ ~ Good(q)
      OBVIOUS
    <3> HIDE DEF Good, S
    <3> QED
      BY <1>1, <3>1
  <2>3. \A y \in (q + 1)..(Len(input) + 1) : Good(y)
    <3>1. \A y \in (q + 1)..(Len(input) + 1) :
             y \in (p + 1)..(Len(input) + 1) /\ ~ (y <= q)
      BY <1>1, <2>2
    <3> HIDE DEF Good
    <3> QED
      BY <2>1, <3>1
  <2>4. /\ q > Len(input) => f[q] = Overrun
        /\ q <= Len(input) /\ At(q) = At(p) => f[q] = q + 1
        /\ q <= Len(input) /\ At(q) # At(p) /\ At(q) = "\\" => f[q] = f[q + 2]
        /\ q <= Len(input) /\ At(q) # At(p) /\ At(q) # "\\" => f[q] = f[q + 1]
    <3>1. q \in (p + 1)..(Len(input) + 2)
      BY <1>1, <2>2
    <3> QED
      BY <1>2, <3>1 DEF QuoteEnds
  <2>5. /\ Mode[q - 1] = "string"
        /\ ~ IF f[q] = Overrun THEN StringOpen
             ELSE Mode[f[q] - 1] = "code" /\ \A r \in q..(f[q] - 1) : Plain(r)
    BY <2>2
  <2>6. q > Len(input) \/ q <= Len(input)
    BY <1>1, <2>2
  <2>7. CASE q > Len(input)
    <3>1. q - 1 = Len(input)
      BY <1>1, <2>2, <2>7
    <3> QED
      BY <2>4, <2>5, <2>7, <3>1 DEF StringOpen
  <2>8. q <= Len(input) =>
           /\ q \in 1..Len(input) /\ q + 1 \in (q + 1)..(Len(input) + 1)
           /\ q + 1 - 1 = q /\ q + 2 - 1 = q + 1
           /\ At(q) = input[q] /\ Mode[q] = ModeAfter("string", At(q))
    <3>1. q <= Len(input) => q \in 1..Len(input) /\ q + 1 \in (q + 1)..(Len(input) + 1)
      BY <1>1, <2>2
    <3>2. q + 1 - 1 = q /\ q + 2 - 1 = q + 1
      BY <2>2
    <3> QED
      BY <2>2, <2>5, <3>1, <3>2, AtIs, ModeIs
  <2>12. f[q] \in Nat
    <3>1. q \in (p + 1)..(Len(input) + 2)
      BY <1>1, <2>2
    <3>2. f[q] = Overrun \/ f[q] \in (q + 1)..(Len(input) + 1)
      BY <1>1, <1>2, <3>1, QuoteGoesOn
    <3> QED
      BY <2>2, <3>2 DEF Overrun
  <2>9. CASE q <= Len(input) /\ At(q) = At(p)
    <3>1. f[q] = q + 1 /\ q + 1 # Overrun /\ q + 1 - 1 = q
      BY <2>2, <2>4, <2>9 DEF Overrun
    <3>2. Mode[q] = "code" /\ At(q) \notin Marks
      BY <2>8, <2>9, ModeTable DEF Marks, Brackets
    <3>3. \A r \in q..(f[q] - 1) : Plain(r)
      BY <2>2, <3>1, <3>2 DEF Plain
    <3> QED
      BY <2>5, <3>1, <3>2, <3>3
  <2>10. CASE q <= Len(input) /\ At(q) # At(p) /\ At(q) = "\\"
    <3>1. Mode[q] = "escape" /\ f[q] = f[q + 2]
      BY <2>4, <2>8, <2>10, ModeTable
    <3>2. CASE q = Len(input)
      <4>1. q + 2 \in (p + 1)..(Len(input) + 2) /\ q + 2 > Len(input)
        BY <1>1, <2>2, <3>2
      <4>2. f[q + 2] = Overrun
        BY <1>2, <4>1 DEF QuoteEnds
      <4> QED
        BY <2>5, <3>1, <3>2, <4>2 DEF StringOpen
    <3>3. CASE q # Len(input)
      <4>1. q + 1 \in 1..Len(input) /\ q + 2 \in (q + 1)..(Len(input) + 1)
        BY <1>1, <2>2, <2>10, <3>3
      <4>2. Mode[q + 1] = "string"
        BY <2>8, <2>10, <3>1, <4>1, ModeIs, ModeTable
      <4>3. Good(q + 2)
        <5> HIDE DEF Good
        <5> QED
          BY <2>3, <4>1
      <4>4. IF f[q] = Overrun THEN StringOpen
            ELSE Mode[f[q] - 1] = "code" /\ \A r \in (q + 2)..(f[q] - 1) : Plain(r)
        BY <2>8, <2>10, <3>1, <4>2, <4>3
      <4>5. \A r \in q..(f[q] - 1) : r = q \/ r = q + 1 \/ r \in (q + 2)..(f[q] - 1)
        BY <2>2, <2>12
      <4>6. Plain(q) /\ Plain(q + 1)
        BY <3>1, <4>2 DEF Plain
      <4> QED
        BY <2>5, <4>4, <4>5, <4>6
    <3> QED
      BY <3>2, <3>3
  <2>11. CASE q <= Len(input) /\ At(q) # At(p) /\ At(q) # "\\"
    <3>1. Mode[q] = "string" /\ f[q] = f[q + 1]
      BY <2>4, <2>8, <2>11, ModeTable
    <3>2. Good(q + 1)
      <4> HIDE DEF Good
      <4> QED
        BY <2>3, <2>8, <2>11
    <3>3. IF f[q] = Overrun THEN StringOpen
          ELSE Mode[f[q] - 1] = "code" /\ \A r \in (q + 1)..(f[q] - 1) : Plain(r)
      BY <2>8, <2>11, <3>1, <3>2
    <3>4. \A r \in q..(f[q] - 1) : r = q \/ r \in (q + 1)..(f[q] - 1)
      BY <2>2, <2>12
    <3>5. Plain(q)
      BY <3>1 DEF Plain
    <3> QED
      BY <2>5, <3>3, <3>4, <3>5
  <2> QED
    BY <2>6, <2>7, <2>9, <2>10, <2>11
<1>4. Good(p + 1)
  <2>1. p + 1 \in (p + 1)..(Len(input) + 1)
    BY <1>1
  <2> HIDE DEF Good
  <2> QED
    BY <1>3, <2>1
<1>5. AfterQuote(p) = f[p + 1] /\ p + 1 - 1 = p
  BY <1>1, <1>2 DEF QuoteEnds
<1>6. f[p + 1] \in Nat
  <2>1. p + 1 \in (p + 1)..(Len(input) + 2)
    BY <1>1
  <2>2. f[p + 1] = Overrun \/ f[p + 1] \in (p + 1 + 1)..(Len(input) + 1)
    BY <1>1, <1>2, <2>1, QuoteGoesOn
  <2> QED
    BY <1>1, <2>2 DEF Overrun
<1>7. IF AfterQuote(p) = Overrun THEN StringOpen
      ELSE /\ Mode[AfterQuote(p) - 1] = "code"
           /\ \A r \in (p + 1)..(AfterQuote(p) - 1) : Plain(r)
  BY <1>4, <1>5
<1>8. \A r \in p..(AfterQuote(p) - 1) : r = p \/ r \in (p + 1)..(AfterQuote(p) - 1)
  BY <1>1, <1>5, <1>6
<1>9. Plain(p)
  BY DEF Plain
<1> QED
  BY <1>7, <1>8, <1>9


\* The token at a position: its kind and where the next one begins.
Lexed(p, kind, next) ==
    LET c == At(p)  d == At(p + 1) IN
    \/ c \in Quotes /\ kind = "stringlit" /\ next = AfterQuote(p)
    \/ c = "/" /\ d = "/" /\ kind = "comment" /\ next = p + 2
    \/ c = "/" /\ d = "*" /\ kind = "l_comment" /\ next = p + 2
    \/ c = "*" /\ d = "/" /\ kind = "r_comment" /\ next = p + 1
    \/ c \in Words /\ kind = "ident" /\ next = SkipAll(p, Words)
    \/ c = "space" /\ kind = "space" /\ next = SkipAll(p, {"space"})
    \/ c = "eof" /\ kind = "eof" /\ next = p + 1
    \/ c = "newline" /\ kind = "unknown" /\ next = p + 1
    \/ c = "/" /\ d \notin {"/", "*"} /\ kind = "slash" /\ next = p + 1
    \/ c = "*" /\ d # "/" /\ kind = "asterik" /\ next = p + 1
    \/ c = "#" /\ kind = "hash" /\ next = p + 1
    \/ /\ c \in Brackets \cup {",", ";", "\\"} /\ next = p + 1
       /\ kind \in PunctuatorKinds \ {"slash", "asterik", "hash"} /\ Punctuators[kind] = c

LEMMA LexIs ==
    ASSUME input \in Seq(AllSymbols), NEW p \in 1..(Len(input) + 1)
    PROVE  Lexed(p, Lex(p).kind, Lex(p).next)
<1>1. Len(input) \in Nat /\ p \in Nat
  OBVIOUS
<1> DEFINE c == At(p)
           d == At(p + 1)
           Punctuator == CHOOSE k \in DOMAIN Punctuators : Punctuators[k] = c
<1>2. c \in AllSymbols \cup {"eof"}
  BY <1>1, AtIs
<1>3. \A k, l, n : Token(k, l, n).kind = k /\ Token(k, l, n).next = n
  BY DEF Token
<1> HIDE DEF c, d
<1>4. CASE c \in Quotes
  <2>1. Lex(p) = Token("stringlit", AfterQuote(p) - p, AfterQuote(p))
    BY <1>4 DEF Lex, c, d, Quotes, Words
  <2>2. /\ At(p) \in Quotes
        /\ Lex(p).kind = "stringlit" /\ Lex(p).next = AfterQuote(p)
    BY <1>3, <1>4, <2>1 DEF c
  <2> QED
    BY <2>2 DEF Lexed
<1>5. CASE c = "/" /\ d = "/"
  <2>1. Lex(p) = Token("comment", 2, p + 2)
    BY <1>5 DEF Lex, c, d, Quotes, Words
  <2>2. /\ At(p) = "/" /\ At(p + 1) = "/"
        /\ Lex(p).kind = "comment" /\ Lex(p).next = p + 2
    BY <1>3, <1>5, <2>1 DEF c, d
  <2> QED
    BY <2>2 DEF Lexed
<1>6. CASE c = "/" /\ d = "*"
  <2>1. Lex(p) = Token("l_comment", 2, p + 2)
    BY <1>6 DEF Lex, c, d, Quotes, Words
  <2>2. /\ At(p) = "/" /\ At(p + 1) = "*"
        /\ Lex(p).kind = "l_comment" /\ Lex(p).next = p + 2
    BY <1>3, <1>6, <2>1 DEF c, d
  <2> QED
    BY <2>2 DEF Lexed
<1>7. CASE c = "*" /\ d = "/"
  <2>1. Lex(p) = Token("r_comment", 2, p + 1)
    BY <1>7 DEF Lex, c, d, Quotes, Words
  <2>2. /\ At(p) = "*" /\ At(p + 1) = "/"
        /\ Lex(p).kind = "r_comment" /\ Lex(p).next = p + 1
    BY <1>3, <1>7, <2>1 DEF c, d
  <2> QED
    BY <2>2 DEF Lexed
<1>8. CASE c \in Words
  <2>1. Lex(p) = Token("ident", SkipAll(p, Words) - p, SkipAll(p, Words))
    BY <1>8 DEF Lex, c, d, Quotes, Words
  <2>2. /\ At(p) \in Words
        /\ Lex(p).kind = "ident" /\ Lex(p).next = SkipAll(p, Words)
    BY <1>3, <1>8, <2>1 DEF c
  <2> QED
    BY <2>2 DEF Lexed
<1>9. CASE c = "space"
  <2>1. Lex(p) = Token("space", SkipAll(p, {"space"}) - p, SkipAll(p, {"space"}))
    BY <1>9 DEF Lex, c, d, Quotes, Words
  <2>2. At(p) = "space" /\ Lex(p).kind = "space" /\ Lex(p).next = SkipAll(p, {"space"})
    BY <1>3, <1>9, <2>1 DEF c
  <2> QED
    BY <2>2 DEF Lexed
<1>10. CASE c = "eof"
  <2>1. Lex(p) = Token("eof", 1, p + 1)
    BY <1>10 DEF Lex, c, d, Quotes, Words
  <2>2. At(p) = "eof" /\ Lex(p).kind = "eof" /\ Lex(p).next = p + 1
    BY <1>3, <1>10, <2>1 DEF c
  <2> QED
    BY <2>2 DEF Lexed
<1>11. CASE c = "newline"
  <2>1. Lex(p) = Token("unknown", 0, p + 1)
    BY <1>11 DEF Lex, c, d, Quotes, Words
  <2>2. At(p) = "newline" /\ Lex(p).kind = "unknown" /\ Lex(p).next = p + 1
    BY <1>3, <1>11, <2>1 DEF c
  <2> QED
    BY <2>2 DEF Lexed
<1>12. CASE \/ c = "/" /\ d \notin {"/", "*"}
            \/ c = "*" /\ d # "/"
            \/ c \in Brackets \cup {",", ";", "\\", "#"}
  <2>1. c \in Brackets \cup {",", ";", "\\", "#", "/", "*"}
    BY <1>12
  <2>2. c \notin Words /\ c \notin Quotes /\ c \notin {"space", "newline", "eof"}
    BY <2>1 DEF Brackets, Words, Quotes
  <2>3. /\ ~ (c = "/" /\ d = "/") /\ ~ (c = "/" /\ d = "*") /\ ~ (c = "*" /\ d = "/")
    BY <1>12 DEF Brackets
  <2>4. Lex(p) = Token(Punctuator, 1, p + 1)
    BY <2>2, <2>3 DEF Lex, c, d
  <2>5. \E k \in PunctuatorKinds : Punctuators[k] = c
    BY <2>1, PunctuatorsAre DEF Brackets, PunctuatorKinds
  <2>6. Punctuator \in PunctuatorKinds /\ Punctuators[Punctuator] = c
    BY <2>5, PunctuatorsAre
  <2> HIDE DEF Punctuator
  <2>7. /\ Punctuator = "slash" <=> c = "/"
        /\ Punctuator = "asterik" <=> c = "*"
        /\ Punctuator = "hash" <=> c = "#"
    BY <2>6, PunctuatorsAre DEF PunctuatorKinds
  <2>8. Lex(p).kind = Punctuator /\ Lex(p).next = p + 1
    BY <1>3, <2>4
  <2> QED
    <3>1. CASE c = "/"
      <4>1. At(p) = "/" /\ At(p + 1) \notin {"/", "*"} /\ Lex(p).kind = "slash"
        BY <1>12, <2>7, <2>8, <3>1 DEF Brackets, c, d
      <4> QED
        BY <2>8, <4>1 DEF Lexed
    <3>2. CASE c = "*"
      <4>1. At(p) = "*" /\ At(p + 1) # "/" /\ Lex(p).kind = "asterik"
        BY <1>12, <2>7, <2>8, <3>2 DEF Brackets, c, d
      <4> QED
        BY <2>8, <4>1 DEF Lexed
    <3>3. CASE c = "#"
      <4>1. At(p) = "#" /\ Lex(p).kind = "hash"
        BY <2>7, <2>8, <3>3 DEF c
      <4> QED
        BY <2>8, <4>1 DEF Lexed
    <3>4. CASE c \in Brackets \cup {",", ";", "\\"}
      <4>1. Lex(p).kind \in PunctuatorKinds \ {"slash", "asterik", "hash"}
        BY <2>6, <2>7, <2>8, <3>4 DEF Brackets
      <4>2. At(p) \in Brackets \cup {",", ";", "\\"} /\ Punctuators[Lex(p).kind] = At(p)
        BY <2>6, <2>8, <3>4 DEF c
      <4> QED
        BY <2>8, <4>1, <4>2 DEF Lexed
    <3> QED
      BY <2>1, <3>1, <3>2, <3>3, <3>4
<1> QED
  BY <1>2, <1>4, <1>5, <1>6, <1>7, <1>8, <1>9, <1>10, <1>11, <1>12 DEF AllSymbols

\* A token is followed by a position, at most the one past the NUL, and by that one only
\* if it is the NUL.
LexReaches(p, kind, next) ==
    /\ kind \in TokenKinds
    /\ \/ next = Overrun /\ kind = "stringlit"
       \/ next \in (p + 1)..(Len(input) + 2) /\ (kind # "eof" => next <= Len(input) + 1)

LEMMA LexGoesOn ==
    ASSUME input \in Seq(AllSymbols), NEW p \in 1..(Len(input) + 1)
    PROVE  LexReaches(p, Lex(p).kind, Lex(p).next)
<1>1. Len(input) \in Nat /\ p \in Nat /\ p + 1 \in Nat
  OBVIOUS
<1> DEFINE c == At(p)
           d == At(p + 1)
           kind == Lex(p).kind
           next == Lex(p).next
<1>2. Lexed(p, kind, next)
  BY LexIs
<1>3. c # "eof" => p \in 1..Len(input)
  BY <1>1, AtIs
<1>4. d # "eof" => p + 1 \in 1..Len(input)
  BY <1>1, AtIs
<1>5. kind \in TokenKinds
  BY <1>2, PunctuatorsAre DEF Lexed, TokenKinds, PunctuatorKinds
<1> HIDE DEF c, d, kind, next
<1>6. CASE c \in Quotes /\ kind = "stringlit" /\ next = AfterQuote(p)
  <2>1. c # "eof" /\ c # "\\"
    BY <1>6 DEF Quotes
  <2>2. next = Overrun \/ next \in (p + 2)..(Len(input) + 1)
    BY <1>3, <1>6, <2>1, QuoteReaches DEF c
  <2>3. CASE next = Overrun
    BY <1>5, <1>6, <2>3 DEF LexReaches, kind, next
  <2>4. CASE next \in (p + 2)..(Len(input) + 1)
    <3>1. next \in (p + 1)..(Len(input) + 2) /\ next <= Len(input) + 1
      BY <1>1, <2>4
    <3> QED
      BY <1>5, <3>1 DEF LexReaches, kind, next
  <2> QED
    BY <2>2, <2>3, <2>4
<1>7. CASE c # "eof" /\ next = p + 1
  <2>1. next \in (p + 1)..(Len(input) + 2) /\ next <= Len(input) + 1
    BY <1>1, <1>3, <1>7
  <2> QED
    BY <1>5, <2>1 DEF LexReaches, kind, next
<1>8. CASE d # "eof" /\ next = p + 2
  <2>1. next \in (p + 1)..(Len(input) + 2) /\ next <= Len(input) + 1
    BY <1>1, <1>4, <1>8
  <2> QED
    BY <1>5, <2>1 DEF LexReaches, kind, next
<1>9. CASE kind = "eof" /\ next = p + 1
  <2>1. next \in (p + 1)..(Len(input) + 2)
    BY <1>1, <1>9
  <2> QED
    BY <1>5, <1>9, <2>1 DEF LexReaches, kind, next
<1>10. ASSUME NEW symbols, "eof" \notin symbols, c \in symbols, next = SkipAll(p, symbols)
       PROVE  LexReaches(p, kind, next)
  <2>1. next \in p..(Len(input) + 1) /\ At(next) \notin symbols
    BY <1>10, SkipAllIs
  <2>2. next # p
    BY <1>10, <2>1 DEF c
  <2>3. next \in (p + 1)..(Len(input) + 2) /\ next <= Len(input) + 1
    BY <1>1, <2>1, <2>2
  <2> QED
    BY <1>5, <2>3 DEF LexReaches
<1>11. CASE c \in Words /\ kind = "ident" /\ next = SkipAll(p, Words)
  <2>1. "eof" \notin Words
    BY DEF Words
  <2> QED
    BY <1>10, <1>11, <2>1 DEF kind, next
<1>12. CASE c = "space" /\ kind = "space" /\ next = SkipAll(p, {"space"})
  BY <1>10, <1>12 DEF kind, next
<1>13. \/ c \in Quotes /\ kind = "stringlit" /\ next = AfterQuote(p)
       \/ c # "eof" /\ next = p + 1
       \/ d # "eof" /\ next = p + 2
       \/ kind = "eof" /\ next = p + 1
       \/ c \in Words /\ kind = "ident" /\ next = SkipAll(p, Words)
       \/ c = "space" /\ kind = "space" /\ next = SkipAll(p, {"space"})
  BY <1>2 DEF Lexed, Brackets, c, d
<1> QED
  BY <1>6, <1>7, <1>8, <1>9, <1>11, <1>12, <1>13 DEF kind, next


-----------------------------------------------------------------------------
(* Every variable has its type, and the lexer stays within the code.       *)

\* What is open without the innermost.
LEMMA FrontIs ==
    ASSUME NEW S, NEW s \in Seq(S), s # << >>
    PROVE  /\ Len(s) \in Nat \ {0} /\ Last(s) = s[Len(s)] /\ Last(s) \in S
           /\ Front(s) \in Seq(S) /\ Len(Front(s)) = Len(s) - 1
           /\ \A i \in 1..(Len(s) - 1) : Front(s)[i] = s[i]
<1>1. Len(s) \in Nat \ {0} /\ Len(s) - 1 \in Nat /\ 1 \in 1..(Len(s) + 1)
  OBVIOUS
<1>2. Front(s) = SubSeq(s, 1, Len(s) - 1)
  BY DEF Front
<1>3. Last(s) = s[Len(s)] /\ s[Len(s)] \in S
  BY <1>1 DEF Last
<1>4. \A i \in 1..(Len(s) - 1) : s[i] \in S
  BY <1>1
<1>5. /\ SubSeq(s, 1, Len(s) - 1) \in Seq(S)
      /\ Len(SubSeq(s, 1, Len(s) - 1)) = Len(s) - 1
      /\ \A i \in 1..(Len(s) - 1) : SubSeq(s, 1, Len(s) - 1)[i] = s[i]
  <2> DEFINE n == Len(s) - 1
  <2>1. n \in Nat /\ \A i \in 1..n : s[i] \in S
    BY <1>1, <1>4
  <2>2. n \in Int /\ 1 \in Int
    BY <2>1
  <2> HIDE DEF n
  <2>3. /\ SubSeq(s, 1, n) \in Seq(S)
        /\ Len(SubSeq(s, 1, n)) = IF 1 <= n THEN n - 1 + 1 ELSE 0
        /\ \A i \in 1..(n - 1 + 1) : SubSeq(s, 1, n)[i] = s[1 + i - 1]
    BY <2>1, <2>2, SubSeqProperties
  <2>4. n - 1 + 1 = n /\ \A i \in 1..n : 1 + i - 1 = i
    BY <2>2
  <2>5. Len(SubSeq(s, 1, n)) = n
    BY <2>1, <2>3
  <2> QED
    BY <2>3, <2>4, <2>5 DEF n
<1> QED
  BY <1>1, <1>2, <1>3, <1>5

\* Until the loop begins nothing has been read; only behind the NUL is the lexer past
\* the end.
Within ==
    /\ pc = "template" =>
          p_curr_pos = 1 /\ tok = "unknown" /\ m_parent_stack = << >> /\ res = "complete"
    /\ tok # "eof" => p_curr_pos <= Len(input) + 1

\* What a step that handles a token does.
Step(kind, next, stack, result) ==
    /\ Loop
    /\ kind \in TokenKinds
    /\ next \in 1..(Len(input) + 2) /\ (kind # "eof" => next <= Len(input) + 1)
    /\ stack \in Seq(OpenKinds)
    /\ result \in {res, "mismatch"}
    /\ Round(kind, next, stack, result)

LEMMA CurrentIs ==
    ASSUME TypeOK, Within, Loop
    PROVE  /\ Len(input) \in Nat /\ input \in Seq(AllSymbols)
           /\ p_curr_pos \in 1..(Len(input) + 1)
           /\ LexReaches(p_curr_pos, Current.kind, Current.next)
           /\ Lexed(p_curr_pos, Current.kind, Current.next)
           /\ Current.next # Overrun =>
                 /\ Current.kind \in TokenKinds
                 /\ Current.next \in 1..(Len(input) + 2)
                 /\ Current.kind # "eof" => Current.next <= Len(input) + 1
<1>1. Len(input) \in Nat /\ input \in Seq(AllSymbols)
  BY DEF TypeOK
<1>2. p_curr_pos \in 1..(Len(input) + 1)
  BY <1>1 DEF TypeOK, Within, Loop
<1>3. /\ LexReaches(p_curr_pos, Current.kind, Current.next)
      /\ Lexed(p_curr_pos, Current.kind, Current.next)
  BY <1>1, <1>2, LexGoesOn, LexIs DEF Current
<1> DEFINE kind == Current.kind
           next == Current.next
<1>4. LexReaches(p_curr_pos, kind, next)
  BY <1>3
<1> HIDE DEF kind, next
<1>5. next # Overrun =>
         kind \in TokenKinds /\ next \in 1..(Len(input) + 2)
            /\ (kind # "eof" => next <= Len(input) + 1)
  <2>1. (p_curr_pos + 1)..(Len(input) + 2) \subseteq 1..(Len(input) + 2)
    BY <1>1, <1>2
  <2> QED
    BY <1>4, <2>1 DEF LexReaches
<1> QED
  BY <1>1, <1>2, <1>3, <1>5 DEF kind, next

\* What follows a line comment or a directive begins where the lexer stops.
LEMMA LinesEnd ==
    ASSUME input \in Seq(AllSymbols), NEW p \in 1..(Len(input) + 1), NEW s \in AllSymbols
    PROVE  /\ SkipTo(p, {s}) \in p..(Len(input) + 1)
           /\ SkipAll(p, {s}) \in p..(Len(input) + 1)
           /\ At(SkipTo(p, {s})) \in {s, "eof"}
           /\ At(SkipAll(p, {s})) # s
           /\ \A r \in p..(SkipTo(p, {s}) - 1) : At(r) # s
           /\ \A r \in p..(SkipAll(p, {s}) - 1) : At(r) = s
<1>1. "eof" \notin AllSymbols
  BY DEF AllSymbols, Brackets, Words, Quotes
<1>2. "eof" \notin AllSymbols \ {s} /\ "eof" \notin {s}
  BY <1>1
<1>3. /\ SkipTo(p, {s}) \in p..(Len(input) + 1)
      /\ At(SkipTo(p, {s})) \notin AllSymbols \ {s}
      /\ \A r \in p..(SkipTo(p, {s}) - 1) : At(r) \in AllSymbols \ {s}
  BY <1>2, SkipAllIs DEF SkipTo
<1>4. /\ SkipAll(p, {s}) \in p..(Len(input) + 1)
      /\ At(SkipAll(p, {s})) \notin {s}
      /\ \A r \in p..(SkipAll(p, {s}) - 1) : At(r) \in {s}
  BY <1>2, SkipAllIs
<1>5. At(SkipTo(p, {s})) \in AllSymbols \cup {"eof"}
  <2>1. SkipTo(p, {s}) \in Nat
    BY <1>3
  <2> QED
    BY <2>1, AtIs DEF At
<1> QED
  BY <1>3, <1>4, <1>5


\* The steps: the first one, the two that end, and those that handle a token.
Steps ==
    \/ Template
    \/ ReadPastEnd
    \/ Finish
    \/ \E kind, next, stack, result : Step(kind, next, stack, result)

LEMMA NextIs ==
    ASSUME TypeOK, Within, Next
    PROVE  Steps
<1>1. CASE Template \/ ReadPastEnd \/ Finish
  BY <1>1 DEF Steps
<1>2. ASSUME Loop,
             NEW kind \in TokenKinds, NEW next \in 1..(Len(input) + 2),
             kind # "eof" => next <= Len(input) + 1,
             NEW stack \in Seq(OpenKinds), NEW result \in {res, "mismatch"},
             Round(kind, next, stack, result)
      PROVE  Steps
  <2>1. Step(kind, next, stack, result)
    BY <1>2 DEF Step
  <2> QED
    BY <2>1 DEF Steps
<1> DEFINE kind == Current.kind
           next == Current.next
           open == m_parent_stack
<1>3. /\ "unknown" \in TokenKinds /\ "raw_ident" \in TokenKinds /\ "eof" \in TokenKinds
      /\ "r_comment" \in TokenKinds /\ "semicolon" \in TokenKinds
  BY PunctuatorsAre DEF TokenKinds, PunctuatorKinds
<1>4. open \in Seq(OpenKinds) /\ << >> \in Seq(OpenKinds)
  BY DEF TypeOK
<1>5. open # << >> => Front(open) \in Seq(OpenKinds)
  BY <1>4, FrontIs
<1>6. res \in {res, "mismatch"} /\ "mismatch" \in {res, "mismatch"}
  OBVIOUS
<1>7. Loop /\ next # Overrun =>
         kind \in TokenKinds /\ next \in 1..(Len(input) + 2)
            /\ (kind # "eof" => next <= Len(input) + 1)
  BY CurrentIs
<1>8. Loop => /\ input \in Seq(AllSymbols) /\ Len(input) \in Nat
              /\ p_curr_pos \in 1..(Len(input) + 1)
              /\ Lexed(p_curr_pos, kind, next)
  BY CurrentIs
<1> HIDE DEF kind, next, open
<1>9. CASE InComment
  BY <1>2, <1>4, <1>6, <1>7, <1>9 DEF InComment, kind, next, open
<1>10. CASE LineComment
  <2>1. /\ Loop /\ next # Overrun /\ kind = "comment"
        /\ Round("unknown", EndOfLine(next), open, res)
    BY <1>10 DEF LineComment, Counts, kind, next, open
  <2>2. next \in 1..(Len(input) + 1)
    BY <1>7, <1>8, <2>1
  <2>3. EndOfLine(next) \in next..(Len(input) + 1)
    <3>1. "newline" \in AllSymbols
      BY DEF AllSymbols
    <3> QED
      BY <1>8, <2>1, <2>2, <3>1, LinesEnd DEF EndOfLine
  <2>4. EndOfLine(next) \in 1..(Len(input) + 2) /\ EndOfLine(next) <= Len(input) + 1
    BY <1>8, <2>1, <2>2, <2>3
  <2> QED
    BY <1>2, <1>3, <1>4, <1>6, <2>1, <2>4
<1>11. CASE RightComment
  <2>1. /\ Loop /\ kind = "r_comment"
        /\ IF in_block_comment THEN Round("r_comment", next, Front(open), res)
                               ELSE Round("r_comment", next, open, "mismatch")
    BY <1>11 DEF RightComment, kind, next, open
  <2>2. next # Overrun
    BY <1>8, <2>1 DEF Lexed, Overrun, PunctuatorKinds
  <2>3. in_block_comment => open # << >>
    BY DEF in_block_comment, open
  <2> QED
    BY <1>2, <1>4, <1>5, <1>6, <1>7, <2>1, <2>2, <2>3
<1>12. CASE Open
  <2>1. /\ Loop /\ next # Overrun /\ kind \in {"l_square", "l_paren", "l_brace", "l_comment"}
        /\ Round(kind, next, Append(open, kind), res)
    BY <1>12 DEF Open, Counts, kind, next, open
  <2>2. kind \in OpenKinds
    BY <2>1 DEF OpenKinds
  <2>3. Append(open, kind) \in Seq(OpenKinds)
    BY <1>4, <2>2
  <2> QED
    BY <1>2, <1>6, <1>7, <2>1, <2>3
<1>13. CASE Close
  <2>1. /\ Loop /\ next # Overrun
        /\ \/ Round(kind, next, open, "mismatch")
           \/ open # << >> /\ Round(kind, next, << >>, res)
           \/ open # << >> /\ Round(kind, next, Front(open), res)
    BY <1>13 DEF Close, Counts, closes_brace, kind, next, open
  <2> QED
    BY <1>2, <1>4, <1>5, <1>6, <1>7, <2>1
<1>14. CASE Semicolon
  <2>1. /\ Loop /\ next # Overrun /\ kind = "semicolon"
        /\ Round(kind, next, << >>, res) \/ Round(kind, next, open, res)
    BY <1>14 DEF Semicolon, Counts, kind, next, open
  <2> QED
    BY <1>2, <1>4, <1>6, <1>7, <2>1
<1>15. CASE Hash
  <2> DEFINE start == SkipAll(next, {"space"})
             after == SkipTo(start, {"space"})
  <2>1. /\ Loop /\ next # Overrun /\ kind = "hash"
        /\ \/ Round("eof", start, open, res)
           \/ Round("raw_ident", after, Append(open, "hash"), res)
           \/ open # << >> /\ Round("raw_ident", after, Front(open), res)
           \/ Round("raw_ident", after, open, "mismatch")
           \/ Round("raw_ident", after, open, res)
    BY <1>15 DEF Hash, Counts, kind, next, open
  <2>2. "space" \in AllSymbols /\ next \in 1..(Len(input) + 1)
    <3>1. "space" \in AllSymbols
      BY DEF AllSymbols
    <3> QED
      BY <1>7, <1>8, <2>1, <3>1
  <2>3. start \in next..(Len(input) + 1)
    BY <1>8, <2>1, <2>2, LinesEnd
  <2>4. start \in 1..(Len(input) + 1)
    <3> HIDE DEF start
    <3> QED
      BY <1>8, <2>1, <2>2, <2>3
  <2> HIDE DEF start
  <2>5. after \in start..(Len(input) + 1)
    BY <1>8, <2>1, <2>2, <2>4, LinesEnd
  <2> HIDE DEF after
  <2>6. /\ start \in 1..(Len(input) + 2)
        /\ after \in 1..(Len(input) + 2) /\ after <= Len(input) + 1
    BY <1>8, <2>1, <2>4, <2>5
  <2>7. Append(open, "hash") \in Seq(OpenKinds)
    <3>1. "hash" \in OpenKinds
      BY DEF OpenKinds
    <3> QED
      BY <1>4, <3>1
  <2>8. CASE Round("eof", start, open, res)
    BY <1>2, <1>3, <1>4, <1>6, <2>1, <2>6, <2>8
  <2>9. CASE Round("raw_ident", after, Append(open, "hash"), res)
    BY <1>2, <1>3, <1>6, <2>1, <2>6, <2>7, <2>9
  <2>10. CASE open # << >> /\ Round("raw_ident", after, Front(open), res)
    BY <1>2, <1>3, <1>5, <1>6, <2>1, <2>6, <2>10
  <2>11. CASE Round("raw_ident", after, open, "mismatch")
    BY <1>2, <1>3, <1>4, <1>6, <2>1, <2>6, <2>11
  <2>12. CASE Round("raw_ident", after, open, res)
    BY <1>2, <1>3, <1>4, <1>6, <2>1, <2>6, <2>12
  <2> QED
    BY <2>1, <2>8, <2>9, <2>10, <2>11, <2>12
<1>16. CASE Other
  <2>1. Loop /\ next # Overrun /\ Round(kind, next, open, res)
    BY <1>16 DEF Other, Counts, kind, next, open
  <2> QED
    BY <1>2, <1>4, <1>6, <1>7, <2>1
<1> QED
  BY <1>1, <1>9, <1>10, <1>11, <1>12, <1>13, <1>14, <1>15, <1>16 DEF Next

LEMMA StepTypes ==
    TypeOK /\ Within /\ [Next]_vars => TypeOK' /\ Within'
<1> SUFFICES ASSUME TypeOK, Within, [Next]_vars
             PROVE  TypeOK' /\ Within'
  OBVIOUS
<1>1. CASE UNCHANGED vars
  BY <1>1 DEF vars, TypeOK, Within
<1>2. CASE Template
  <2> DEFINE start == SkipAll(1, {"space"})
  <2>1. start \in 1..(Len(input) + 1) /\ Len(input) \in Nat /\ input \in Seq(AllSymbols)
    <3>1. "space" \in AllSymbols
      BY DEF AllSymbols
    <3>2. input \in Seq(AllSymbols)
      BY DEF TypeOK
    <3>3. 1 \in 1..(Len(input) + 1) /\ Len(input) \in Nat
      BY <3>2
    <3> QED
      BY <3>1, <3>2, <3>3, LinesEnd
  <2>2. /\ p_curr_pos' = start /\ pc' \in {"undefined", "loop"}
        /\ m_parent_stack' \in {<<"less">>, << >>}
        /\ UNCHANGED <<input, tok, last_not_space_tok, res, m_indent>>
    BY <1>2 DEF Template
  <2>3. m_parent_stack' \in Seq(OpenKinds)
    <3>1. "less" \in OpenKinds
      BY DEF OpenKinds
    <3>2. <<"less">> \in Seq(OpenKinds) /\ << >> \in Seq(OpenKinds)
      BY <3>1
    <3> QED
      BY <2>2, <3>2
  <2> HIDE DEF start
  <2>4. start \in 1..(Len(input) + 2) /\ start <= Len(input) + 1
    BY <2>1
  <2> QED
    BY <2>2, <2>3, <2>4 DEF TypeOK, Within
<1>3. CASE ReadPastEnd
  BY <1>3 DEF ReadPastEnd, TypeOK, Within
<1>4. CASE Finish
  <2>1. SkipAll(1, {"space"}) \in Nat \ {0}
    <3>1. "space" \in AllSymbols
      BY DEF AllSymbols
    <3>2. input \in Seq(AllSymbols)
      BY DEF TypeOK
    <3>3. 1 \in 1..(Len(input) + 1) /\ Len(input) \in Nat
      BY <3>2
    <3>4. SkipAll(1, {"space"}) \in 1..(Len(input) + 1)
      BY <3>1, <3>2, <3>3, LinesEnd
    <3> QED
      BY <3>3, <3>4
  <2>2. Len(m_parent_stack) \in Nat
    BY DEF TypeOK
  <2>3. \A a, b \in Nat : a * b \in Nat
    OBVIOUS
  <2>4. Len(m_parent_stack) * CharsPerLevel \in Nat
    BY <2>2, <2>3, IndentAssumption
  <2>5. m_indent' = SkipAll(1, {"space"}) - 1 + Len(m_parent_stack) * CharsPerLevel
    BY <1>4 DEF Finish
  <2>6. m_indent' \in Nat
    BY <2>1, <2>4, <2>5
  <2>7. /\ res' \in {"incomplete", res} /\ pc' = "done" /\ pc # "template"
        /\ UNCHANGED <<input, p_curr_pos, m_parent_stack, tok, last_not_space_tok>>
    BY <1>4 DEF Finish
  <2> QED
    BY <2>6, <2>7 DEF TypeOK, Within
<1>5. ASSUME NEW kind, NEW next, NEW stack, NEW result, Step(kind, next, stack, result)
      PROVE  TypeOK' /\ Within'
  BY <1>5 DEF Step, Round, Loop, TypeOK, Within
<1>6. CASE Next
  BY <1>2, <1>3, <1>4, <1>5, <1>6, NextIs DEF Steps
<1> QED
  BY <1>1, <1>6

LEMMA InitTypes ==
    Init => TypeOK /\ Within
<1> SUFFICES ASSUME Init PROVE TypeOK /\ Within
  OBVIOUS
<1>1. input \in Seq(AllSymbols)
  BY InputsAssumption DEF Init
<1>2. "unknown" \in TokenKinds /\ Len(input) \in Nat /\ 1 \in 1..(Len(input) + 2)
  BY <1>1 DEF TokenKinds
<1>3. 1 <= Len(input) + 1
  BY <1>2
<1> QED
  BY <1>1, <1>2, <1>3 DEF Init, TypeOK, Within

\* Every variable has its type, whatever the code to validate: the lexer gets at most one
\* past the NUL (xlexer::lex and its helpers).
THEOREM LexerTyped == Spec => []TypeOK
<1>1. Spec => [](TypeOK /\ Within)
  BY InitTypes, StepTypes, PTL DEF Spec
<1> QED
  BY <1>1, PTL


LEMMA SameInput ==
    ASSUME input' = input
    PROVE  /\ Mode' = Mode /\ Tame' = Tame /\ StringOpen' = StringOpen
<1>1. Mode' = Mode
  BY DEF Mode, ModeAfter
<1>2. \A p : At(p)' = At(p)
  BY DEF At
<1>3. Tame' = Tame
  BY <1>1 DEF Tame, NextWord, SkipAll, At
<1>4. StringOpen' = StringOpen
  BY <1>1 DEF StringOpen
<1> QED
  BY <1>1, <1>3, <1>4


-----------------------------------------------------------------------------
(* The lexer and the reference agree on where they are, so the lexer leaves *)
(* the code only in a string literal without an end.                       *)

\* Where the lexer stands when it looks for the next token at p.  In a block comment the
\* reference is in one, and not about to leave it.  Otherwise the reference is in the
\* code; behind a slash that is no delimiter; in front of the slash that ends a block
\* comment; or in front of what ends a line comment.
InStep(p, block) ==
    LET m == Mode[p - 1]  c == At(p) IN
    IF block THEN m = "block" \/ (m = "star" /\ c # "/")
    ELSE \/ m = "code"
         \/ m = "slash" /\ c \notin {"/", "*"}
         \/ m = "star" /\ c = "/"
         \/ m = "line" /\ c \in {"newline", "eof"}

\* A position's symbol changes the mode.
LEMMA ModeAt ==
    ASSUME input \in Seq(AllSymbols), NEW p \in Nat \ {0}, At(p) # "eof"
    PROVE  p \in 1..Len(input) /\ Mode[p] = ModeAfter(Mode[p - 1], At(p))
<1>1. p \in 1..Len(input) /\ At(p) = input[p]
  BY AtIs
<1> QED
  BY <1>1, ModeIs

\* What Tame says of a symbol.
LEMMA TameAt ==
    ASSUME input \in Seq(AllSymbols), Tame, NEW p \in Nat \ {0}, At(p) # "eof"
    PROVE  /\ Mode[p - 1] \in {"block", "star"} =>
                 /\ At(p) \notin Quotes
                 /\ ~ (At(p) = "/" /\ At(p + 1) = "*" /\ At(p + 2) = "/")
           /\ Mode[p - 1] = "star" /\ At(p) = "/" => At(p + 1) \notin {"/", "*"}
           /\ Mode[p] = "code" /\ At(p) = "*" => At(p + 1) # "/"
           /\ Mode[p] = "code" /\ At(p) = "#" =>
                 /\ At(NextWord(p)) \in Words \cup {"eof"}
                 /\ At(NextWord(p) + 1) \in {"space", "eof"}
           /\ At(p) # "'"
<1>1. p \in 1..Len(input) /\ At(p) = input[p]
  BY AtIs
<1> QED
  BY <1>1 DEF Tame

\* A run of symbols that do not change the mode.
LEMMA RunKeeps ==
    ASSUME input \in Seq(AllSymbols), NEW p \in Nat \ {0}, At(p) # "eof",
           NEW next \in (p + 1)..(Len(input) + 1), NEW m, Mode[p] = m,
           \A r \in (p + 1)..(next - 1) : ModeAfter(m, At(r)) = m
    PROVE  Mode[next - 1] = m
<1>1. p \in 1..Len(input) /\ Len(input) \in Nat
  BY AtIs
<1>2. p \in 0..Len(input) /\ next - 1 \in p..Len(input) /\ next - 1 \in p..(next - 1)
  BY <1>1
<1>3. ASSUME NEW r \in (p + 1)..(next - 1) PROVE ModeAfter(m, input[r]) = m
  <2>1. r \in Nat /\ r \in 1..Len(input)
    BY <1>1
  <2> QED
    BY <2>1, AtIs
<1> QED
  BY <1>2, <1>3, ModeRun

\* A token in a block comment, unless it ends the comment.
LEMMA InBlock ==
    ASSUME input \in Seq(AllSymbols), Tame, NEW p \in 1..(Len(input) + 1),
           NEW kind, NEW next, Lexed(p, kind, next), InStep(p, TRUE),
           kind # "r_comment", kind # "eof"
    PROVE  kind # "stringlit" /\ InStep(next, TRUE)
<1> DEFINE c == At(p)
           d == At(p + 1)
<1>1. /\ Len(input) \in Nat /\ p \in Nat \ {0} /\ p + 1 \in Nat \ {0}
      /\ p + 1 - 1 = p /\ p + 2 - 1 = p + 1
  OBVIOUS
<1>2. c # "eof"
  BY DEF Lexed, Words, Quotes, Brackets
<1>3. Mode[p - 1] \in {"block", "star"} /\ (c = "/" => Mode[p - 1] = "block")
  BY DEF InStep
<1>4. c \notin Quotes /\ ~ (c = "/" /\ d = "*" /\ At(p + 2) = "/")
  BY <1>1, <1>2, <1>3, TameAt
<1>5. Mode[p] = IF c = "*" THEN "star" ELSE "block"
  BY <1>1, <1>2, <1>3, ModeAt, ModeTable
<1>6. kind # "stringlit"
  BY <1>4 DEF Lexed, PunctuatorKinds
<1> SUFFICES InStep(next, TRUE)
  BY <1>6
<1> HIDE DEF c, d
<1>7. CASE c \in {"/"} /\ d \in {"/", "*"} /\ next = p + 2
  <2>1. Mode[p + 1] = IF d = "*" THEN "star" ELSE "block"
    BY <1>1, <1>5, <1>7, ModeAt, ModeTable DEF d
  <2> QED
    BY <1>1, <1>4, <1>7, <2>1 DEF InStep, c, d, Lexed, PunctuatorKinds, Brackets, Words, Quotes
<1>8. CASE next = p + 1 /\ ~ (c = "*" /\ d = "/")
  BY <1>1, <1>5, <1>8 DEF InStep, d
<1>9. ASSUME NEW symbols, "eof" \notin symbols, "*" \notin symbols, c \in symbols,
             next = SkipAll(p, symbols)
      PROVE  InStep(next, TRUE)
  <2>1. /\ next \in p..(Len(input) + 1) /\ At(next) \notin symbols
        /\ \A r \in p..(next - 1) : At(r) \in symbols
    BY <1>9, SkipAllIs
  <2>2. next # p
    BY <1>9, <2>1 DEF c
  <2>3. next \in (p + 1)..(Len(input) + 1)
    BY <1>1, <2>1, <2>2
  <2>4. Mode[p] = "block"
    BY <1>5, <1>9
  <2>5. ASSUME NEW r \in (p + 1)..(next - 1) PROVE ModeAfter("block", At(r)) = "block"
    <3>1. r \in p..(next - 1)
      BY <1>1, <2>3
    <3> QED
      BY <1>9, <2>1, <3>1, ModeTable
  <2>6. Mode[next - 1] = "block"
    BY <1>1, <1>2, <2>3, <2>4, <2>5, RunKeeps DEF c
  <2> QED
    BY <2>6 DEF InStep
<1>10. "eof" \notin Words /\ "*" \notin Words
  BY DEF Words
<1>11. \/ c \in {"/"} /\ d \in {"/", "*"} /\ next = p + 2
       \/ next = p + 1 /\ ~ (c = "*" /\ d = "/")
       \/ c \in Words /\ next = SkipAll(p, Words)
       \/ c = "space" /\ next = SkipAll(p, {"space"})
  BY <1>4 DEF Lexed, c, d, Brackets, PunctuatorKinds
<1>12. CASE c \in Words /\ next = SkipAll(p, Words)
  BY <1>9, <1>10, <1>12
<1>13. CASE c = "space" /\ next = SkipAll(p, {"space"})
  BY <1>9, <1>13
<1> QED
  BY <1>7, <1>8, <1>11, <1>12, <1>13


\* The token that ends a block comment.
LEMMA EndsBlock ==
    ASSUME input \in Seq(AllSymbols), NEW p \in 1..(Len(input) + 1),
           NEW next, Lexed(p, "r_comment", next), InStep(p, TRUE)
    PROVE  InStep(next, FALSE)
<1>1. p \in Nat \ {0} /\ p + 1 - 1 = p
  OBVIOUS
<1>2. At(p) = "*" /\ At(p + 1) = "/" /\ next = p + 1
  BY DEF Lexed, PunctuatorKinds
<1>3. Mode[p - 1] \in {"block", "star"}
  BY DEF InStep
<1>4. Mode[p] = "star"
  BY <1>1, <1>2, <1>3, ModeAt, ModeTable
<1> QED
  BY <1>1, <1>2, <1>4 DEF InStep

\* Outside of block comments a symbol leaves the code only if it is a quote or a slash.
LEMMA CodeAt ==
    ASSUME input \in Seq(AllSymbols), NEW p \in 1..(Len(input) + 1), At(p) # "eof",
           InStep(p, FALSE)
    PROVE  /\ At(p) = "/" => Mode[p - 1] \in {"code", "star"}
           /\ At(p) = "quote" => Mode[p] = "string"
           /\ At(p) \notin {"quote", "/"} => Mode[p] = "code"
           /\ At(p) = "/" => Mode[p] = IF Mode[p - 1] = "code" THEN "slash" ELSE "code"
<1>1. p \in Nat \ {0}
  OBVIOUS
<1>2. Mode[p] = ModeAfter(Mode[p - 1], At(p))
  BY <1>1, ModeAt
<1>3. \/ Mode[p - 1] = "code"
      \/ Mode[p - 1] = "slash" /\ At(p) \notin {"/", "*"}
      \/ Mode[p - 1] = "star" /\ At(p) = "/"
      \/ Mode[p - 1] = "line" /\ At(p) = "newline"
  BY DEF InStep
<1> QED
  BY <1>2, <1>3, ModeTable

\* A slash that begins a comment is one of the code.
LEMMA OpensComment ==
    ASSUME input \in Seq(AllSymbols), Tame, NEW p \in 1..(Len(input) + 1),
           InStep(p, FALSE), At(p) = "/", At(p + 1) \in {"/", "*"}
    PROVE  Mode[p + 1] = IF At(p + 1) = "/" THEN "line" ELSE "block"
<1>1. p \in Nat \ {0} /\ p + 1 \in Nat \ {0} /\ p + 1 - 1 = p
  OBVIOUS
<1>2. Mode[p - 1] = "code"
  BY <1>1, CodeAt, TameAt
<1>3. Mode[p] = "slash"
  BY <1>2, CodeAt
<1> QED
  BY <1>1, <1>3, ModeAt, ModeTable

LEMMA OpensBlock ==
    ASSUME input \in Seq(AllSymbols), Tame, NEW p \in 1..(Len(input) + 1),
           NEW next, Lexed(p, "l_comment", next), InStep(p, FALSE)
    PROVE  InStep(next, TRUE)
<1>1. p + 2 - 1 = p + 1
  OBVIOUS
<1>2. At(p) = "/" /\ At(p + 1) = "*" /\ next = p + 2
  BY DEF Lexed, PunctuatorKinds
<1> QED
  BY <1>1, <1>2, OpensComment DEF InStep

LEMMA SkipsLine ==
    ASSUME input \in Seq(AllSymbols), Tame, NEW p \in 1..(Len(input) + 1),
           NEW next, Lexed(p, "comment", next), InStep(p, FALSE)
    PROVE  InStep(EndOfLine(next), FALSE)
<1>1. p + 2 - 1 = p + 1 /\ p + 1 \in Nat \ {0} /\ Len(input) \in Nat
  OBVIOUS
<1>2. At(p) = "/" /\ At(p + 1) = "/" /\ next = p + 2
  BY DEF Lexed, PunctuatorKinds
<1>3. Mode[p + 1] = "line" /\ p + 1 \in 1..Len(input)
  BY <1>1, <1>2, OpensComment, AtIs
<1> DEFINE end == EndOfLine(next)
<1>4. /\ end \in (p + 2)..(Len(input) + 1) /\ At(end) \in {"newline", "eof"}
      /\ \A r \in (p + 2)..(end - 1) : At(r) # "newline"
  <2>1. "newline" \in AllSymbols
    BY DEF AllSymbols
  <2>2. p + 2 \in 1..(Len(input) + 1)
    BY <1>1, <1>3
  <2> QED
    BY <1>2, <2>1, <2>2, LinesEnd DEF EndOfLine
<1> HIDE DEF end
<1>5. end \in (p + 1 + 1)..(Len(input) + 1)
  BY <1>1, <1>4
<1>6. ASSUME NEW r \in (p + 1 + 1)..(end - 1) PROVE ModeAfter("line", At(r)) = "line"
  <2>1. r \in (p + 2)..(end - 1)
    BY <1>1, <1>4
  <2> QED
    BY <1>4, <2>1, ModeTable
<1>7. Mode[end - 1] = "line"
  BY <1>1, <1>2, <1>3, <1>5, <1>6, RunKeeps
<1> QED
  BY <1>4, <1>7 DEF InStep, end

\* Symbols of the code other than quotes and slashes keep the mode.
LEMMA CodeRun ==
    ASSUME input \in Seq(AllSymbols), NEW p \in 1..(Len(input) + 1), At(p) # "eof",
           Mode[p] = "code", NEW next \in (p + 1)..(Len(input) + 1),
           \A r \in (p + 1)..(next - 1) : At(r) \notin {"quote", "/"}
    PROVE  Mode[next - 1] = "code" /\ InStep(next, FALSE)
<1>1. \A r \in (p + 1)..(next - 1) : ModeAfter("code", At(r)) = "code"
  BY ModeTable
<1>2. Mode[next - 1] = "code"
  BY <1>1, RunKeeps
<1> QED
  BY <1>2 DEF InStep

\* Any other token outside of comments.
LEMMA InCode ==
    ASSUME input \in Seq(AllSymbols), Tame, NEW p \in 1..(Len(input) + 1),
           NEW kind, NEW next, Lexed(p, kind, next), InStep(p, FALSE),
           kind \notin {"comment", "l_comment", "r_comment", "eof"}
    PROVE  IF next = Overrun THEN StringOpen ELSE InStep(next, FALSE)
<1> DEFINE c == At(p)
           d == At(p + 1)
<1>1. /\ Len(input) \in Nat /\ p \in Nat \ {0}
      /\ p + 1 - 1 = p /\ p + 1 # 0
  OBVIOUS
<1>2. c # "eof"
  BY DEF Lexed, Words, Quotes, Brackets
<1>3. p \in 1..Len(input) /\ c # "'"
  BY <1>1, <1>2, AtIs, TameAt
<1>4. /\ c = "quote" => Mode[p] = "string"
      /\ c \notin {"quote", "/"} => Mode[p] = "code"
      /\ c = "/" => Mode[p] \in {"slash", "code"}
  BY <1>2, CodeAt
<1> HIDE DEF c, d
<1>5. CASE c = "quote" /\ next = AfterQuote(p)
  <2>1. Mode[p] = "string"
    BY <1>4, <1>5
  <2> QED
    BY <1>3, <1>5, <2>1, QuoteInside DEF InStep, c
<1>6. CASE c # "quote" /\ (c = "/" => d \notin {"/", "*"}) /\ next = p + 1
  BY <1>1, <1>4, <1>6 DEF InStep, Overrun, d
<1>7. ASSUME NEW symbols, "eof" \notin symbols, symbols \cap {"quote", "/"} = {},
             c \in symbols, next = SkipAll(p, symbols)
      PROVE  next # Overrun /\ InStep(next, FALSE)
  <2>1. /\ next \in p..(Len(input) + 1) /\ At(next) \notin symbols
        /\ \A r \in p..(next - 1) : At(r) \in symbols
    BY <1>7, SkipAllIs
  <2>2. next # p
    BY <1>7, <2>1 DEF c
  <2>3. next \in (p + 1)..(Len(input) + 1)
    BY <1>1, <2>1, <2>2
  <2>4. Mode[p] = "code"
    BY <1>4, <1>7
  <2>5. ASSUME NEW r \in (p + 1)..(next - 1) PROVE At(r) \notin {"quote", "/"}
    <3>1. r \in p..(next - 1)
      BY <1>1, <2>3
    <3> QED
      BY <1>7, <2>1, <3>1
  <2>6. InStep(next, FALSE)
    BY <1>2, <2>3, <2>4, <2>5, CodeRun DEF c
  <2>7. next # Overrun
    BY <1>1, <2>3 DEF Overrun
  <2> QED
    BY <2>6, <2>7
<1>8. "eof" \notin Words /\ Words \cap {"quote", "/"} = {}
  BY DEF Words
<1>9. \/ c = "quote" /\ next = AfterQuote(p)
      \/ c # "quote" /\ (c = "/" => d \notin {"/", "*"}) /\ next = p + 1
      \/ c \in Words /\ next = SkipAll(p, Words)
      \/ c = "space" /\ next = SkipAll(p, {"space"})
  BY <1>3 DEF Lexed, c, d, Brackets, Quotes
<1>10. CASE c \in Words /\ next = SkipAll(p, Words)
  BY <1>7, <1>8, <1>10
<1>11. CASE c = "space" /\ next = SkipAll(p, {"space"})
  BY <1>7, <1>11
<1> QED
  BY <1>5, <1>6, <1>9, <1>10, <1>11

\* A directive: the hash, spaces, a word and what follows up to a space.
LEMMA SkipsDirective ==
    ASSUME input \in Seq(AllSymbols), Tame, NEW p \in 1..(Len(input) + 1),
           At(p) = "#", InStep(p, FALSE)
    PROVE  LET start == SkipAll(p + 1, {"space"})  end == SkipTo(start, {"space"})
           IN  At(start) # "eof" =>
                  /\ InStep(end, FALSE)
                  /\ start \in (p + 1)..Len(input) /\ end = start + 1
                  /\ At(start) \in Words /\ At(end) \in {"space", "eof"}
                  /\ \A r \in (p + 1)..(start - 1) : At(r) = "space"
<1> DEFINE start == SkipAll(p + 1, {"space"})
           end == SkipTo(start, {"space"})
<1>1. p \in 1..Len(input) /\ Len(input) \in Nat /\ Mode[p] = "code"
  <2>1. p \in Nat /\ At(p) # "eof" /\ At(p) \notin {"quote", "/"}
    OBVIOUS
  <2>2. Mode[p] = "code"
    BY <2>1, CodeAt
  <2> QED
    BY <2>1, <2>2, AtIs
<1>2. "space" \in AllSymbols /\ p + 1 \in 1..(Len(input) + 1) /\ p \in Nat \ {0}
  <2>1. "space" \in AllSymbols
    BY DEF AllSymbols
  <2> QED
    BY <1>1, <2>1
<1>3. /\ start \in (p + 1)..(Len(input) + 1)
      /\ \A r \in (p + 1)..(start - 1) : At(r) = "space"
  BY <1>2, LinesEnd
<1>4. At(start) \in Words \cup {"eof"} /\ At(start + 1) \in {"space", "eof"}
  BY <1>1, <1>2, TameAt DEF NextWord
<1> HIDE DEF start
<1> SUFFICES ASSUME At(start) # "eof" 
             PROVE  /\ InStep(end, FALSE)
                    /\ start \in (p + 1)..Len(input) /\ end = start + 1
                    /\ At(start) \in Words /\ At(end) \in {"space", "eof"}
                    /\ \A r \in (p + 1)..(start - 1) : At(r) = "space"
  BY DEF start
<1>5. /\ start \in 1..(Len(input) + 1) /\ start \in 1..Len(input)
      /\ start + 1 \in 1..(Len(input) + 1)
  <2>1. start \in Nat
    BY <1>2, <1>3
  <2> QED
    BY <1>1, <1>2, <2>1, AtIs
<1>6. /\ end \in start..(Len(input) + 1) /\ At(end) \in {"space", "eof"}
      /\ \A r \in start..(end - 1) : At(r) # "space"
      /\ \A r \in start..(end - 1) : At(r) # "eof"
  <2>1. /\ end \in start..(Len(input) + 1) /\ At(end) \in {"space", "eof"}
        /\ \A r \in start..(end - 1) : At(r) # "space"
    BY <1>2, <1>5, LinesEnd
  <2>2. ASSUME NEW r \in start..(end - 1) PROVE At(r) # "eof"
    <3>1. r \in 1..Len(input) /\ r \in Nat
      BY <1>1, <1>5, <2>1
    <3>2. "eof" \notin AllSymbols
      BY DEF AllSymbols, Brackets, Words, Quotes
    <3> QED
      BY <3>1, <3>2, AtIs
  <2> QED
    BY <2>1, <2>2
<1> HIDE DEF end
<1>7. end = start + 1
  <2>1. At(start) \notin {"space", "eof"}
    BY <1>4 DEF Words
  <2>2. end # start
    BY <1>6, <2>1
  <2>3. start + 1 \notin start..(end - 1)
    BY <1>4, <1>6
  <2> QED
    BY <1>1, <1>5, <1>6, <2>2, <2>3
<1>8. end \in (p + 1)..(Len(input) + 1)
  BY <1>1, <1>3, <1>5, <1>7
<1>9. ASSUME NEW r \in (p + 1)..(end - 1) PROVE At(r) \notin {"quote", "/"}
  <2>1. r \in (p + 1)..(start - 1) \/ r = start
    BY <1>1, <1>3, <1>7
  <2> QED
    BY <1>3, <1>4, <2>1 DEF Words
<1>10. InStep(end, FALSE)
  BY <1>1, <1>8, <1>9, CodeRun
<1>11. start \in (p + 1)..Len(input)
  BY <1>1, <1>3, <1>5
<1> QED
  BY <1>3, <1>4, <1>6, <1>7, <1>10, <1>11


\* Whether a stack has a block comment on top, below the top, or nowhere.
OnTop(s) == s # << >> /\ Last(s) = "l_comment"
NotBelow(s) == \A i \in 1..(Len(s) - 1) : s[i] # "l_comment"
Nowhere(s) == \A i \in 1..Len(s) : s[i] # "l_comment"

LEMMA StacksAre ==
    ASSUME NEW s \in Seq(OpenKinds)
    PROVE  /\ Nowhere(s) => NotBelow(s) /\ ~ OnTop(s)
           /\ NotBelow(s) /\ ~ OnTop(s) => Nowhere(s)
           /\ NotBelow(s) /\ s # << >> => Nowhere(Front(s))
           /\ Nowhere(s) =>
                 \A k \in OpenKinds :
                    NotBelow(Append(s, k)) /\ (OnTop(Append(s, k)) <=> k = "l_comment")
           /\ Nowhere(<< >>)
<1>1. Len(s) \in Nat
  OBVIOUS
<1>2. s # << >> => /\ Len(s) \in Nat \ {0} /\ Last(s) = s[Len(s)]
                   /\ Len(Front(s)) = Len(s) - 1
                   /\ \A i \in 1..(Len(s) - 1) : Front(s)[i] = s[i]
  BY FrontIs
<1>3. Nowhere(s) => NotBelow(s) /\ ~ OnTop(s)
  BY <1>1, <1>2 DEF Nowhere, NotBelow, OnTop
<1>4. NotBelow(s) /\ ~ OnTop(s) => Nowhere(s)
  <2>1. CASE s = << >>
    BY <2>1 DEF Nowhere
  <2>2. CASE s # << >>
    <3>1. \A i \in 1..Len(s) : i \in 1..(Len(s) - 1) \/ i = Len(s)
      BY <1>1
    <3> QED
      BY <1>2, <2>2, <3>1 DEF Nowhere, NotBelow, OnTop
  <2> QED
    BY <2>1, <2>2
<1>5. NotBelow(s) /\ s # << >> => Nowhere(Front(s))
  BY <1>2 DEF Nowhere, NotBelow
<1>6. ASSUME Nowhere(s), NEW k \in OpenKinds
      PROVE  NotBelow(Append(s, k)) /\ (OnTop(Append(s, k)) <=> k = "l_comment")
  <2> DEFINE a == Append(s, k)
  <2>1. /\ a \in Seq(OpenKinds) /\ Len(a) = Len(s) + 1 /\ a[Len(s) + 1] = k
        /\ \A i \in 1..Len(s) : a[i] = s[i]
    OBVIOUS
  <2> HIDE DEF a
  <2>2. Len(a) - 1 = Len(s) /\ a # << >>
    BY <1>1, <2>1
  <2>3. Last(a) = k
    BY <2>1, <2>2, FrontIs
  <2>4. NotBelow(a)
    BY <1>6, <2>1, <2>2 DEF Nowhere, NotBelow
  <2> QED
    BY <2>2, <2>3, <2>4 DEF OnTop, a
<1>7. Nowhere(<< >>)
  BY DEF Nowhere
<1> QED
  BY <1>3, <1>4, <1>5, <1>6, <1>7

\* Nothing is opened in a block comment; and the lexer is where the reference is, as long
\* as it goes on.
BlockLast == NotBelow(m_parent_stack)
Aligned == Loop /\ Tame => InStep(p_curr_pos, in_block_comment)

\* The invariant is kept by a token if it is kept by where the token leaves the lexer.
LEMMA TokenKeeps ==
    ASSUME Loop, NEW kind, NEW next, NEW stack, NEW result,
           Round(kind, next, stack, result), NotBelow(stack),
           Tame /\ kind # "eof" /\ result # "mismatch" => InStep(next, OnTop(stack))
    PROVE  BlockLast' /\ Aligned' /\ pc' # "undefined"
<1>1. /\ tok' = kind /\ p_curr_pos' = next /\ m_parent_stack' = stack /\ res' = result
      /\ input' = input /\ pc' = "loop"
  BY DEF Round, Loop
<1>2. BlockLast'
  BY <1>1 DEF BlockLast, NotBelow
<1>3. Mode' = Mode /\ Tame' = Tame
  BY <1>1, SameInput
<1>4. ASSUME Loop', Tame' PROVE InStep(p_curr_pos, in_block_comment)'
  <2>1. InStep(next, OnTop(stack))
    BY <1>1, <1>3, <1>4 DEF Loop
  <2>2. in_block_comment' = OnTop(stack)
    BY <1>1 DEF in_block_comment, OnTop
  <2>3. At(p_curr_pos)' = At(next)
    BY <1>1 DEF At
  <2> QED
    BY <1>1, <1>3, <2>1, <2>2, <2>3 DEF InStep
<1>5. Aligned'
  BY <1>4 DEF Aligned
<1> QED
  BY <1>1, <1>2, <1>5

\* The code begins outside of comments and strings.
LEMMA TemplateKeeps ==
    ASSUME TypeOK, Template
    PROVE  BlockLast' /\ Aligned' /\ (pc' = "undefined" /\ Tame => StringOpen)
<1> DEFINE start == SkipAll(1, {"space"})
<1>1. input \in Seq(AllSymbols) /\ Len(input) \in Nat
  BY DEF TypeOK
<1>2. start \in 1..(Len(input) + 1) /\ \A r \in 1..(start - 1) : At(r) = "space"
  <2>1. "space" \in AllSymbols
    BY DEF AllSymbols
  <2>2. 1 \in 1..(Len(input) + 1)
    BY <1>1
  <2> QED
    BY <1>1, <2>1, <2>2, LinesEnd
<1>3. /\ p_curr_pos' = start /\ m_parent_stack' \in {<<"less">>, << >>} /\ input' = input
      /\ pc' = IF Lex(start).next = Overrun THEN "undefined" ELSE "loop"
  BY DEF Template
<1> HIDE DEF start
<1>4. Mode[start - 1] = "code"
  <2>1. 0 \in 0..Len(input) /\ start - 1 \in 0..Len(input) /\ start - 1 \in 0..(start - 1)
    BY <1>1, <1>2
  <2>2. ASSUME NEW r \in (0 + 1)..(start - 1) PROVE ModeAfter("code", input[r]) = "code"
    <3>1. r \in 1..(start - 1) /\ r \in Nat
      BY <1>2
    <3>2. input[r] = "space"
      BY <1>1, <1>2, <3>1, AtIs
    <3> QED
      BY <3>2, ModeTable
  <2>3. Mode[0] = "code"
    BY <1>1, ModeIs
  <2> QED
    BY <1>1, <2>1, <2>2, <2>3, ModeRun
<1>5. InStep(start, FALSE)
  BY <1>4 DEF InStep
<1>6. Nowhere(m_parent_stack') /\ m_parent_stack' \in Seq(OpenKinds)
  <2>1. "less" \in OpenKinds
    BY DEF OpenKinds
  <2>2. <<"less">> \in Seq(OpenKinds) /\ << >> \in Seq(OpenKinds)
    BY <2>1
  <2>3. Nowhere(<< >>)
    BY DEF Nowhere
  <2>4. Nowhere(<<"less">>)
    <3> DEFINE s == <<"less">>
    <3>1. Len(s) = 1 /\ s[1] = "less"
      OBVIOUS
    <3> HIDE DEF s
    <3>2. Nowhere(s)
      BY <3>1 DEF Nowhere
    <3> QED
      BY <3>2 DEF s
  <2> QED
    BY <1>3, <2>2, <2>3, <2>4
<1>7. NotBelow(m_parent_stack') /\ ~ OnTop(m_parent_stack')
  BY <1>6, StacksAre
<1>8. BlockLast'
  BY <1>7 DEF BlockLast, NotBelow
<1>9. Mode' = Mode /\ Tame' = Tame
  BY <1>3, SameInput
<1>10. Aligned'
  <2>1. in_block_comment' = FALSE
    BY <1>7 DEF in_block_comment, OnTop
  <2> QED
    BY <1>3, <1>4, <1>9, <2>1 DEF Aligned, InStep
<1>11. ASSUME pc' = "undefined", Tame PROVE StringOpen
  <2> DEFINE kind == Lex(start).kind
             next == Lex(start).next
  <2>1. Lexed(start, kind, next) /\ LexReaches(start, kind, next) /\ next = Overrun
    BY <1>1, <1>2, <1>3, <1>11, LexIs, LexGoesOn
  <2> HIDE DEF kind, next
  <2>2. kind = "stringlit"
    BY <1>2, <2>1 DEF LexReaches, Overrun
  <2> QED
    BY <1>1, <1>2, <1>5, <1>11, <2>1, <2>2, InCode
<1> QED
  BY <1>8, <1>10, <1>11

LEMMA NextKeeps ==
    ASSUME TypeOK, Within, BlockLast, Aligned, Next
    PROVE  BlockLast' /\ Aligned' /\ (pc' = "undefined" /\ Tame => StringOpen)
<1> DEFINE kind == Current.kind
           next == Current.next
           open == m_parent_stack
           p == p_curr_pos
           Goal == BlockLast' /\ Aligned' /\ (pc' = "undefined" /\ Tame => StringOpen)
<1>1. Loop => /\ input \in Seq(AllSymbols) /\ Len(input) \in Nat /\ p \in 1..(Len(input) + 1)
              /\ Lexed(p, kind, next) /\ LexReaches(p, kind, next)
  BY CurrentIs
<1>2. open \in Seq(OpenKinds) /\ NotBelow(open)
  BY DEF TypeOK, BlockLast
<1>3. OnTop(open) <=> in_block_comment
  BY DEF OnTop, in_block_comment
<1>4. Loop /\ Tame => InStep(p, OnTop(open))
  BY <1>3 DEF Aligned, OnTop, in_block_comment
<1>5. Nowhere(<< >>) /\ (~ OnTop(open) => Nowhere(open))
      /\ (open # << >> => Nowhere(Front(open)) /\ Front(open) \in Seq(OpenKinds))
  BY <1>2, StacksAre, FrontIs
<1>6. << >> \in Seq(OpenKinds)
  OBVIOUS
<1>7. \A s \in Seq(OpenKinds) : Nowhere(s) => NotBelow(s) /\ OnTop(s) = FALSE
  BY StacksAre DEF OnTop
<1>8. open # << >> => NotBelow(Front(open)) /\ OnTop(Front(open)) = FALSE
  BY <1>5, <1>7
<1>9. NotBelow(<< >>) /\ OnTop(<< >>) = FALSE
  BY <1>5, <1>6, <1>7
<1>10. ~ OnTop(open) =>
          \A k \in OpenKinds :
             NotBelow(Append(open, k)) /\ (OnTop(Append(open, k)) <=> k = "l_comment")
  BY <1>2, <1>5, StacksAre
<1>11. OnTop(open) \in BOOLEAN
  BY DEF OnTop
<1> HIDE DEF kind, next, open, p, Goal
<1> SUFFICES Goal
  BY DEF Goal
<1>12. ASSUME Loop, NEW k, NEW n, NEW s, NEW r, Round(k, n, s, r), NotBelow(s),
              Tame /\ k # "eof" /\ r # "mismatch" => InStep(n, OnTop(s))
       PROVE  Goal
  BY <1>12, TokenKeeps DEF Goal
<1>13. CASE Template
  BY <1>13, TemplateKeeps DEF Goal
<1>14. CASE ReadPastEnd
  <2>1. Loop /\ next = Overrun /\ kind = "stringlit" /\ pc' = "undefined"
        /\ UNCHANGED <<input, p_curr_pos, m_parent_stack, tok, res>>
    <3>1. Loop /\ next = Overrun /\ pc' = "undefined"
          /\ UNCHANGED <<input, p_curr_pos, m_parent_stack, tok, res>>
      BY <1>14 DEF ReadPastEnd, next
    <3> QED
      BY <1>1, <3>1 DEF LexReaches, Overrun
  <2>2. ASSUME Tame PROVE StringOpen
    <3>1. CASE OnTop(open)
      <4>1. InStep(p, TRUE)
        BY <1>4, <1>11, <2>1, <2>2, <3>1
      <4> QED
        BY <1>1, <2>1, <2>2, <4>1, InBlock
    <3>2. CASE ~ OnTop(open)
      <4>1. InStep(p, FALSE)
        BY <1>4, <1>11, <2>1, <2>2, <3>2
      <4> QED
        BY <1>1, <2>1, <2>2, <4>1, InCode
    <3> QED
      BY <3>1, <3>2
  <2>3. BlockLast'
    BY <2>1 DEF BlockLast, NotBelow
  <2>4. Aligned'
    BY <2>1 DEF Aligned, Loop
  <2> QED
    BY <2>2, <2>3, <2>4 DEF Goal
<1>15. CASE Finish
  <2>1. pc' = "done" /\ UNCHANGED <<input, m_parent_stack>>
    BY <1>15 DEF Finish
  <2> QED
    BY <2>1 DEF Goal, Aligned, Loop, BlockLast, NotBelow
<1>16. ASSUME ~ OnTop(open), Loop, Tame PROVE InStep(p, FALSE)
  BY <1>4, <1>11, <1>16
<1>17. ASSUME OnTop(open), Loop, Tame PROVE InStep(p, TRUE)
  BY <1>4, <1>11, <1>17
<1>18. ASSUME ~ OnTop(open), Loop, Tame, next # Overrun,
              kind \notin {"comment", "l_comment", "r_comment", "eof"}
       PROVE  InStep(next, FALSE)
  BY <1>1, <1>16, <1>18, InCode
<1>19. CASE InComment
  <2>1. /\ Loop /\ next # Overrun /\ OnTop(open) /\ kind # "r_comment"
        /\ Round(kind, next, open, res)
    BY <1>3, <1>19 DEF InComment, kind, next, open
  <2>2. ASSUME Tame, kind # "eof" PROVE InStep(next, OnTop(open))
    <3>1. InStep(next, TRUE)
      BY <1>1, <1>17, <2>1, <2>2, InBlock
    <3> QED
      BY <1>11, <2>1, <3>1
  <2> QED
    BY <1>2, <1>12, <2>1, <2>2
<1>20. CASE LineComment
  <2>1. /\ Loop /\ ~ OnTop(open) /\ kind = "comment"
        /\ Round("unknown", EndOfLine(next), open, res)
    BY <1>3, <1>20 DEF LineComment, Counts, kind, next, open
  <2>2. ASSUME Tame PROVE InStep(EndOfLine(next), OnTop(open))
    <3>1. InStep(EndOfLine(next), FALSE)
      BY <1>1, <1>16, <2>1, <2>2, SkipsLine
    <3> QED
      BY <1>11, <2>1, <3>1
  <2> QED
    BY <1>2, <1>12, <2>1, <2>2
<1>21. CASE RightComment
  <2>1. /\ Loop /\ kind = "r_comment"
        /\ IF OnTop(open) THEN Round("r_comment", next, Front(open), res)
                          ELSE Round("r_comment", next, open, "mismatch")
    BY <1>3, <1>21 DEF RightComment, kind, next, open
  <2>2. CASE OnTop(open)
    <3>1. open # << >>
      BY <2>2 DEF OnTop
    <3>2. ASSUME Tame PROVE InStep(next, OnTop(Front(open)))
      <4>1. InStep(next, FALSE)
        BY <1>1, <1>17, <2>1, <2>2, <3>2, EndsBlock
      <4> QED
        BY <1>8, <3>1, <4>1
    <3> QED
      BY <1>8, <1>12, <2>1, <2>2, <3>1, <3>2
  <2>3. CASE ~ OnTop(open)
    BY <1>2, <1>12, <2>1, <2>3
  <2> QED
    BY <2>2, <2>3
<1>22. CASE Open
  <2>1. /\ Loop /\ ~ OnTop(open) /\ next # Overrun
        /\ kind \in {"l_square", "l_paren", "l_brace", "l_comment"}
        /\ Round(kind, next, Append(open, kind), res)
    BY <1>3, <1>22 DEF Open, Counts, kind, next, open
  <2>2. /\ NotBelow(Append(open, kind)) /\ OnTop(Append(open, kind)) \in BOOLEAN
        /\ OnTop(Append(open, kind)) <=> kind = "l_comment"
    <3>1. kind \in OpenKinds
      BY <2>1 DEF OpenKinds
    <3>2. NotBelow(Append(open, kind)) /\ (OnTop(Append(open, kind)) <=> kind = "l_comment")
      BY <1>10, <2>1, <3>1
    <3>3. OnTop(Append(open, kind)) \in BOOLEAN
      BY DEF OnTop
    <3> QED
      BY <3>2, <3>3
  <2>3. ASSUME Tame PROVE InStep(next, OnTop(Append(open, kind)))
    <3>1. CASE kind = "l_comment"
      <4>1. InStep(next, TRUE)
        BY <1>1, <1>16, <2>1, <2>3, <3>1, OpensBlock
      <4> QED
        BY <2>2, <3>1, <4>1
    <3>2. CASE kind # "l_comment"
      <4>1. InStep(next, FALSE)
        BY <1>18, <2>1, <2>3, <3>2
      <4> QED
        BY <2>2, <3>2, <4>1
    <3> QED
      BY <3>1, <3>2
  <2> QED
    BY <1>12, <2>1, <2>2, <2>3
<1>23. CASE Close
  <2>1. /\ Loop /\ ~ OnTop(open) /\ next # Overrun
        /\ kind \in {"r_square", "r_paren", "r_brace"}
        /\ \/ Round(kind, next, open, "mismatch")
           \/ Round(kind, next, << >>, res)
           \/ open # << >> /\ Round(kind, next, Front(open), res)
    BY <1>3, <1>23 DEF Close, Counts, closes_brace, kind, next, open
  <2>2. Tame => InStep(next, FALSE)
    BY <1>18, <2>1
  <2>3. CASE Round(kind, next, open, "mismatch")
    BY <1>2, <1>12, <2>1, <2>3
  <2>4. CASE Round(kind, next, << >>, res)
    BY <1>9, <1>12, <2>1, <2>2, <2>4
  <2>5. CASE open # << >> /\ Round(kind, next, Front(open), res)
    BY <1>8, <1>12, <2>1, <2>2, <2>5
  <2> QED
    BY <2>1, <2>3, <2>4, <2>5
<1>24. CASE Semicolon
  <2>1. /\ Loop /\ ~ OnTop(open) /\ next # Overrun /\ kind = "semicolon"
        /\ Round(kind, next, << >>, res) \/ Round(kind, next, open, res)
    BY <1>3, <1>24 DEF Semicolon, Counts, kind, next, open
  <2>2. Tame => InStep(next, FALSE)
    BY <1>18, <2>1
  <2>3. Tame => InStep(next, OnTop(open))
    BY <1>11, <2>1, <2>2
  <2> QED
    BY <1>2, <1>9, <1>12, <2>1, <2>2, <2>3
<1>25. CASE Hash
  <2> DEFINE start == SkipAll(next, {"space"})
             after == SkipTo(start, {"space"})
  <2>1. /\ Loop /\ ~ OnTop(open) /\ next # Overrun /\ kind = "hash"
        /\ \/ Round("eof", start, open, res)
           \/ /\ At(start) # "eof"
              /\ \/ Round("raw_ident", after, Append(open, "hash"), res)
                 \/ open # << >> /\ Round("raw_ident", after, Front(open), res)
                 \/ Round("raw_ident", after, open, "mismatch")
                 \/ Round("raw_ident", after, open, res)
    BY <1>3, <1>25 DEF Hash, Counts, kind, next, open
  <2>2. At(p) = "#" /\ next = p + 1
    BY <1>1, <2>1 DEF Lexed
  <2>3. ASSUME Tame, At(start) # "eof" PROVE InStep(after, FALSE)
    BY <1>1, <1>16, <2>1, <2>2, <2>3, SkipsDirective
  <2> HIDE DEF start, after
  <2>4. /\ NotBelow(Append(open, "hash")) /\ OnTop(Append(open, "hash")) = FALSE
    <3>1. "hash" \in OpenKinds
      BY DEF OpenKinds
    <3>2. NotBelow(Append(open, "hash")) /\ ~ OnTop(Append(open, "hash"))
      BY <1>10, <2>1, <3>1
    <3>3. OnTop(Append(open, "hash")) \in BOOLEAN
      BY DEF OnTop
    <3> QED
      BY <3>2, <3>3
  <2>5. OnTop(open) = FALSE
    BY <1>11, <2>1
  <2>6. CASE Round("eof", start, open, res)
    BY <1>2, <1>12, <2>1, <2>6
  <2>7. CASE At(start) # "eof" /\ Round("raw_ident", after, Append(open, "hash"), res)
    BY <1>12, <2>1, <2>3, <2>4, <2>7
  <2>8. CASE At(start) # "eof" /\ open # << >> /\ Round("raw_ident", after, Front(open), res)
    BY <1>8, <1>12, <2>1, <2>3, <2>8
  <2>9. CASE Round("raw_ident", after, open, "mismatch")
    BY <1>2, <1>12, <2>1, <2>9
  <2>10. CASE At(start) # "eof" /\ Round("raw_ident", after, open, res)
    BY <1>2, <1>12, <2>1, <2>3, <2>5, <2>10
  <2> QED
    BY <2>1, <2>6, <2>7, <2>8, <2>9, <2>10
<1>26. CASE Other
  <2>1. /\ Loop /\ ~ OnTop(open) /\ next # Overrun /\ Round(kind, next, open, res)
        /\ kind \notin {"comment", "l_comment", "r_comment"}
    BY <1>3, <1>26 DEF Other, Counts, kind, next, open
  <2>2. ASSUME Tame, kind # "eof" PROVE InStep(next, OnTop(open))
    <3>1. InStep(next, FALSE)
      BY <1>18, <2>1, <2>2
    <3> QED
      BY <1>11, <2>1, <3>1
  <2> QED
    BY <1>2, <1>12, <2>1, <2>2
<1> QED
  BY <1>13, <1>14, <1>15, <1>19, <1>20, <1>21, <1>22, <1>23, <1>24, <1>25, <1>26
     DEF Next, Goal

\* The lexer leaves the code (lex_quoted_string reads on past the NUL) only for a string
\* literal without an end: on inputs on which it follows C++, it never takes for a
\* literal what is none.
THEOREM ReadsInside == Spec => []ReadsWithin
<1> DEFINE IInv == TypeOK /\ Within /\ BlockLast /\ Aligned /\ ReadsWithin
<1>1. Init => IInv
  <2> SUFFICES ASSUME Init PROVE BlockLast /\ Aligned /\ ReadsWithin
    BY InitTypes
  <2> QED
    BY DEF Init, BlockLast, NotBelow, Aligned, Loop, ReadsWithin
<1>2. IInv /\ [Next]_vars => IInv'
  <2> SUFFICES ASSUME IInv, [Next]_vars PROVE IInv'
    OBVIOUS
  <2>1. TypeOK' /\ Within'
    BY StepTypes
  <2>2. CASE UNCHANGED vars
    <3>1. input' = input /\ UNCHANGED <<pc, p_curr_pos, m_parent_stack, tok, res>>
      BY <2>2 DEF vars
    <3>2. Mode' = Mode /\ Tame' = Tame /\ StringOpen' = StringOpen
      BY <3>1, SameInput
    <3>3. BlockLast' /\ ReadsWithin'
      BY <3>1, <3>2 DEF BlockLast, NotBelow, ReadsWithin
    <3>4. Aligned'
      BY <3>1, <3>2 DEF Aligned, Loop, InStep, in_block_comment, At
    <3> QED
      BY <2>1, <3>3, <3>4
  <2>3. CASE Next
    <3>1. BlockLast' /\ Aligned' /\ (pc' = "undefined" /\ Tame => StringOpen)
      BY <2>3, NextKeeps
    <3>2. input' = input
      BY <2>3 DEF Next, Template, ReadPastEnd, Finish, InComment, LineComment, RightComment,
                  Open, Close, Semicolon, Hash, Other, Round
    <3>3. Tame' = Tame /\ StringOpen' = StringOpen
      BY <3>2, SameInput
    <3> QED
      BY <2>1, <3>1, <3>3 DEF ReadsWithin
  <2> QED
    BY <2>2, <2>3
<1>3. IInv => ReadsWithin
  OBVIOUS
<1> QED
  BY <1>1, <1>2, <1>3, PTL DEF Spec


-----------------------------------------------------------------------------
(* The verdict: the stack is what the delimiters so far have left open.    *)

\* How many numbers of a set there are up to n.
LEMMA Counting ==
    ASSUME NEW S, NEW n \in Nat
    PROVE  /\ Cardinality({i \in 1..n : i \in S}) \in Nat
           /\ Cardinality({i \in 1..0 : i \in S}) = 0
           /\ Cardinality({i \in 1..(n + 1) : i \in S}) =
                 Cardinality({i \in 1..n : i \in S}) + (IF n + 1 \in S THEN 1 ELSE 0)
<1> DEFINE C(m) == {i \in 1..m : i \in S}
<1>1. IsFiniteSet(C(n)) /\ Cardinality(C(n)) \in Nat
  <2>1. IsFiniteSet(1..n)
    BY FS_Interval
  <2>2. C(n) \subseteq 1..n
    OBVIOUS
  <2>3. IsFiniteSet(C(n))
    BY <2>1, <2>2, FS_Subset
  <2> QED
    BY <2>3, FS_CardinalityType
<1>2. Cardinality(C(0)) = 0
  <2>1. C(0) = {}
    OBVIOUS
  <2> QED
    BY <2>1, FS_EmptySet
<1>3. CASE n + 1 \in S
  <2>1. C(n + 1) = C(n) \cup {n + 1} /\ n + 1 \notin C(n)
    BY <1>3
  <2> QED
    BY <1>1, <1>2, <1>3, <2>1, FS_AddElement
<1>4. CASE n + 1 \notin S
  <2>1. C(n + 1) = C(n)
    BY <1>4
  <2> QED
    BY <1>1, <1>2, <1>4, <2>1
<1> QED
  BY <1>3, <1>4

\* The delimiters, and the tokens that open.
LEMMA DelimitersAre ==
    /\ Opening = {"(", "[", "{", "#if"}
    /\ Closing = {")", "]", "}", "#endif"}
    /\ \A o, d :
          <<o, d>> \in Pairs <=> \/ (o = "(" /\ d = ")")
                                 \/ (o = "[" /\ d = "]")
                                 \/ (o = "{" /\ d = "}")
                                 \/ (o = "#if" /\ d = "#endif")
<1>1. \A o, d :
         <<o, d>> \in Pairs <=> \/ (o = "(" /\ d = ")")
                                \/ (o = "[" /\ d = "]")
                                \/ (o = "{" /\ d = "}")
                                \/ (o = "#if" /\ d = "#endif")
  BY DEF Pairs
<1>2. ASSUME NEW a, NEW b PROVE <<a, b>>[1] = a /\ <<a, b>>[2] = b
  OBVIOUS
<1>3. Pairs = {<<"(", ")">>, <<"[", "]">>, <<"{", "}">>, <<"#if", "#endif">>}
  BY DEF Pairs
<1>4. ASSUME NEW pair \in Pairs
      PROVE  pair[1] \in {"(", "[", "{", "#if"} /\ pair[2] \in {")", "]", "}", "#endif"}
  <2>1. CASE pair = <<"(", ")">>
    BY <1>2, <2>1
  <2>2. CASE pair = <<"[", "]">>
    BY <1>2, <2>2
  <2>3. CASE pair = <<"{", "}">>
    BY <1>2, <2>3
  <2>4. CASE pair = <<"#if", "#endif">>
    BY <1>2, <2>4
  <2> HIDE DEF Pairs
  <2>5. \/ pair = <<"(", ")">> \/ pair = <<"[", "]">>
        \/ pair = <<"{", "}">> \/ pair = <<"#if", "#endif">>
    BY <1>3, Zenon
  <2> QED
    BY <2>1, <2>2, <2>3, <2>4, <2>5, Zenon
<1>5. /\ \E pair \in Pairs : pair[1] = "(" /\ pair[2] = ")"
      /\ \E pair \in Pairs : pair[1] = "[" /\ pair[2] = "]"
      /\ \E pair \in Pairs : pair[1] = "{" /\ pair[2] = "}"
      /\ \E pair \in Pairs : pair[1] = "#if" /\ pair[2] = "#endif"
  BY <1>2, <1>3
<1>6. \A x : /\ x \in Opening <=> x \in {"(", "[", "{", "#if"}
             /\ x \in Closing <=> x \in {")", "]", "}", "#endif"}
  <2>1. \A x : /\ x \in Opening <=> \E pair \in Pairs : x = pair[1]
               /\ x \in Closing <=> \E pair \in Pairs : x = pair[2]
    BY DEF Opening, Closing
  <2> HIDE DEF Pairs
  <2>2. ASSUME NEW x, x \in Opening PROVE x \in {"(", "[", "{", "#if"}
    <3>1. PICK pair \in Pairs : x = pair[1]
      BY <2>1, <2>2, Zenon
    <3> QED
      BY <1>4, <3>1
  <2>3. ASSUME NEW x, x \in Closing PROVE x \in {")", "]", "}", "#endif"}
    <3>1. PICK pair \in Pairs : x = pair[2]
      BY <2>1, <2>3, Zenon
    <3> QED
      BY <1>4, <3>1
  <2>4. /\ "(" \in Opening /\ "[" \in Opening /\ "{" \in Opening /\ "#if" \in Opening
        /\ ")" \in Closing /\ "]" \in Closing /\ "}" \in Closing /\ "#endif" \in Closing
    BY <1>5, <2>1, Zenon
  <2> QED
    BY <2>2, <2>3, <2>4
<1>7. Opening = {"(", "[", "{", "#if"} /\ Closing = {")", "]", "}", "#endif"}
  BY <1>6
<1> QED
  BY <1>1, <1>7

LEMMA DepthIs ==
    ASSUME NEW n \in Nat
    PROVE  /\ Depth(n) \in Int /\ Depth(0) = 0
           /\ Depth(n + 1) = Depth(n) + (IF Delimiter(n + 1) \in Opening THEN 1
                                         ELSE IF Delimiter(n + 1) \in Closing THEN -1 ELSE 0)
<1> DEFINE S == {i \in Nat : Delimiter(i) \in Opening}
           T == {i \in Nat : Delimiter(i) \in Closing}
<1>1. \A m \in Nat : /\ {i \in 1..m : Delimiter(i) \in Opening} = {i \in 1..m : i \in S}
                     /\ {i \in 1..m : Delimiter(i) \in Closing} = {i \in 1..m : i \in T}
  OBVIOUS
<1>2. n + 1 \in Nat /\ 0 \in Nat
  OBVIOUS
<1>3. /\ n + 1 \in S <=> Delimiter(n + 1) \in Opening
      /\ n + 1 \in T <=> Delimiter(n + 1) \in Closing
  BY <1>2
<1>4. ~ (n + 1 \in S /\ n + 1 \in T)
  BY <1>3, DelimitersAre
<1> HIDE DEF S, T
<1> DEFINE A(m) == Cardinality({i \in 1..m : i \in S})
           B(m) == Cardinality({i \in 1..m : i \in T})
<1>5. \A m \in Nat : Depth(m) = A(m) - B(m)
  BY <1>1 DEF Depth
<1>6. /\ A(n) \in Nat /\ B(n) \in Nat /\ A(0) = 0 /\ B(0) = 0
      /\ A(n + 1) = A(n) + (IF n + 1 \in S THEN 1 ELSE 0)
      /\ B(n + 1) = B(n) + (IF n + 1 \in T THEN 1 ELSE 0)
  BY Counting
<1> HIDE DEF A, B
<1>7. Depth(n) = A(n) - B(n) /\ Depth(0) = A(0) - B(0) /\ Depth(n + 1) = A(n + 1) - B(n + 1)
  BY <1>2, <1>5
<1> QED
  BY <1>3, <1>4, <1>6, <1>7

\* Symbols that are no delimiters keep the depth.
LEMMA DepthStays ==
    ASSUME NEW a \in Nat, NEW b \in Nat, a <= b,
           \A r \in (a + 1)..b : Delimiter(r) = "none"
    PROVE  \A r \in a..b : Depth(r) = Depth(a)
<1> SUFFICES ASSUME {r \in a..b : Depth(r) # Depth(a)} # {} PROVE FALSE
  OBVIOUS
<1> DEFINE S == {r \in a..b : Depth(r) # Depth(a)}
<1>1. PICK x \in S : \A y \in S : x <= y
  <2>1. S \subseteq Nat /\ S # {}
    OBVIOUS
  <2> HIDE DEF S
  <2> QED
    BY <2>1, Least
<1>2. x # a /\ x \in a..b /\ Depth(x) # Depth(a)
  OBVIOUS
<1>3. x - 1 \in Nat /\ x - 1 \in a..b /\ x \in (a + 1)..b /\ x = (x - 1) + 1 /\ ~ (x <= x - 1)
  BY <1>2
<1>4. x - 1 \notin S
  <2> HIDE DEF S
  <2> QED
    BY <1>1, <1>3
<1>5. Depth(x - 1) = Depth(a)
  BY <1>3, <1>4
<1>6. Delimiter(x) = "none" /\ "none" \notin Opening /\ "none" \notin Closing
  BY <1>3, DelimitersAre
<1>7. Depth(x) = Depth(x - 1) + 0 /\ Depth(x - 1) \in Int
  <2> DEFINE y == x - 1
  <2>1. y \in Nat /\ y + 1 = x
    BY <1>3
  <2> HIDE DEF y
  <2>2. Depth(y + 1) = Depth(y) + 0 /\ Depth(y) \in Int
    BY <1>6, <2>1, DepthIs
  <2> QED
    BY <2>1, <2>2 DEF y
<1> QED
  BY <1>2, <1>5, <1>7


\* In a comment or a string, and where the symbol is no mark, nothing opens, closes,
\* continues the input or ends a template.
LEMMA PlainSymbols ==
    ASSUME input \in Seq(AllSymbols), NEW r \in 1..Len(input), Plain(r)
    PROVE  Delimiter(r) = "none" /\ ~ Continues(r) /\ ~ EndsTemplate(r)
<1>1. r \in Nat /\ At(r) = input[r]
  <2>1. r \in Nat
    OBVIOUS
  <2> QED
    BY <2>1, AtIs
<1>2. ~ IsDirective(r, "if") /\ ~ IsDirective(r, "endif")
  BY DEF IsDirective, Plain, Marks
<1>3. ~ (Mode[r] = "code" /\ input[r] \in Brackets)
  BY <1>1 DEF Plain, Marks
<1>4. Delimiter(r) = "none"
  BY <1>2, <1>3 DEF Delimiter
<1>5. ~ Continues(r) /\ ~ EndsTemplate(r)
  BY <1>1 DEF Continues, EndsTemplate, Plain, Marks, Brackets
<1> QED
  BY <1>4, <1>5

\* The symbols of a token have no meaning of their own in a block comment, and outside of
\* one unless it is a mark.
LEMMA TokenPlain ==
    ASSUME input \in Seq(AllSymbols), Tame, NEW p \in 1..(Len(input) + 1),
           NEW block \in BOOLEAN, NEW kind, NEW next, Lexed(p, kind, next),
           InStep(p, block), kind # "eof", next # Overrun, block \/ At(p) \notin Marks
    PROVE  /\ next - 1 \in p..Len(input)
           /\ \A r \in p..(next - 1) : Plain(r)
<1> DEFINE c == At(p)
           d == At(p + 1)
           Goal == next - 1 \in p..Len(input) /\ \A r \in p..(next - 1) : Plain(r)
<1>1. /\ Len(input) \in Nat /\ p \in Nat \ {0} /\ p + 1 \in Nat \ {0}
      /\ p + 1 - 1 = p /\ p + 2 - 1 = p + 1
  OBVIOUS
<1>2. c # "eof"
  BY DEF Lexed, Words, Quotes, Brackets
<1>3. p \in 1..Len(input) /\ c # "'" /\ (d # "eof" => p + 1 \in 1..Len(input))
  BY <1>1, <1>2, AtIs, TameAt
<1>4. block => /\ c \notin Quotes
               /\ (~ (c = "*" /\ d = "/")) => Mode[p] \in {"block", "star"}
  <2>1. CASE block
    <3>1. Mode[p - 1] \in {"block", "star"} /\ (c = "/" => Mode[p - 1] = "block")
      BY <2>1 DEF InStep
    <3> QED
      BY <1>1, <1>2, <3>1, ModeAt, ModeTable, TameAt
  <2> QED
    BY <2>1
<1>5. "*" \notin Marks /\ "/" \notin Marks /\ "newline" \notin Marks /\ "space" \notin Marks
      /\ Words \cap Marks = {} /\ Quotes \cap Marks = {}
  BY DEF Marks, Brackets, Words, Quotes
<1> SUFFICES Goal
  OBVIOUS
<1> HIDE DEF c, d
<1>6. CASE c = "quote" /\ next = AfterQuote(p)
  <2>1. ~ block /\ InStep(p, FALSE)
    <3>1. ~ block
      BY <1>4, <1>6 DEF Quotes
    <3>2. block = FALSE
      BY <3>1
    <3> QED
      BY <3>1, <3>2
  <2>2. Mode[p] = "string"
    BY <1>2, <1>6, <2>1, CodeAt DEF c
  <2>3. AfterQuote(p) \in (p + 2)..(Len(input) + 1)
    BY <1>3, <1>6, QuoteReaches DEF c
  <2>4. next - 1 \in p..Len(input)
    BY <1>1, <1>6, <2>3
  <2>5. \A r \in p..(next - 1) : Plain(r)
    BY <1>3, <1>6, <2>2, QuoteInside DEF c
  <2> QED
    BY <2>4, <2>5
<1>7. CASE c = "/" /\ d \in {"/", "*"} /\ next = p + 2
  <2>1. next - 1 \in p..Len(input) /\ \A r \in p..(next - 1) : r = p \/ r = p + 1
    BY <1>1, <1>3, <1>7
  <2>2. Plain(p) /\ Plain(p + 1)
    BY <1>5, <1>7 DEF Plain, c, d
  <2> QED
    BY <2>1, <2>2
<1>8. CASE next = p + 1
  <2>1. next - 1 \in p..Len(input) /\ \A r \in p..(next - 1) : r = p
    BY <1>1, <1>3, <1>8
  <2>2. Plain(p)
    BY <1>4, <1>5 DEF Plain, c
  <2> QED
    BY <2>1, <2>2
<1>9. ASSUME NEW symbols, "eof" \notin symbols, symbols \cap Marks = {},
             c \in symbols, next = SkipAll(p, symbols)
      PROVE  Goal
  <2>1. /\ next \in p..(Len(input) + 1) /\ At(next) \notin symbols
        /\ \A r \in p..(next - 1) : At(r) \in symbols
    BY <1>9, SkipAllIs
  <2>2. next # p
    BY <1>9, <2>1 DEF c
  <2>3. next - 1 \in p..Len(input)
    BY <1>1, <2>1, <2>2
  <2>4. \A r \in p..(next - 1) : Plain(r)
    BY <1>9, <2>1 DEF Plain
  <2> QED
    BY <2>3, <2>4
<1>10. "eof" \notin Words /\ "eof" \notin {"space"} /\ {"space"} \cap Marks = {}
  BY <1>5 DEF Words
<1>11. \/ c = "quote" /\ next = AfterQuote(p)
       \/ c = "/" /\ d \in {"/", "*"} /\ next = p + 2
       \/ next = p + 1
       \/ c \in Words /\ next = SkipAll(p, Words)
       \/ c = "space" /\ next = SkipAll(p, {"space"})
  BY <1>2, <1>3 DEF Lexed, c, d, Quotes
<1>12. CASE c \in Words /\ next = SkipAll(p, Words)
  BY <1>5, <1>9, <1>10, <1>12
<1>13. CASE c = "space" /\ next = SkipAll(p, {"space"})
  BY <1>9, <1>10, <1>13
<1> QED
  BY <1>6, <1>7, <1>8, <1>11, <1>12, <1>13

\* A line comment, up to the newline that ends it.
LEMMA LinePlain ==
    ASSUME input \in Seq(AllSymbols), Tame, NEW p \in 1..(Len(input) + 1),
           NEW next, Lexed(p, "comment", next), InStep(p, FALSE)
    PROVE  /\ EndOfLine(next) - 1 \in p..Len(input)
           /\ \A r \in p..(EndOfLine(next) - 1) : Plain(r)
<1>1. p + 2 - 1 = p + 1 /\ p + 1 \in Nat \ {0} /\ Len(input) \in Nat /\ p \in Nat
  OBVIOUS
<1>2. At(p) = "/" /\ At(p + 1) = "/" /\ next = p + 2
  BY DEF Lexed, PunctuatorKinds
<1>3. Mode[p + 1] = "line" /\ p + 1 \in 1..Len(input)
  BY <1>1, <1>2, OpensComment, AtIs
<1> DEFINE end == EndOfLine(next)
<1>4. /\ end \in (p + 2)..(Len(input) + 1)
      /\ \A r \in (p + 2)..(end - 1) : At(r) # "newline"
  <2>1. "newline" \in AllSymbols
    BY DEF AllSymbols
  <2>2. p + 2 \in 1..(Len(input) + 1)
    BY <1>1, <1>3
  <2> QED
    BY <1>2, <2>1, <2>2, LinesEnd DEF EndOfLine
<1> HIDE DEF end
<1>5. /\ p + 1 \in 0..Len(input) /\ end - 1 \in (p + 1)..Len(input)
      /\ end - 1 \in p..Len(input)
  BY <1>1, <1>3, <1>4
<1>6. ASSUME NEW r \in (p + 1 + 1)..(end - 1) PROVE ModeAfter("line", input[r]) = "line"
  <2>1. r \in (p + 2)..(end - 1) /\ r \in Nat /\ r \in 1..Len(input)
    BY <1>1, <1>4
  <2>2. At(r) = input[r]
    BY <2>1, AtIs
  <2> QED
    BY <1>4, <2>1, <2>2, ModeTable
<1>7. \A r \in (p + 1)..(end - 1) : Mode[r] = "line"
  BY <1>3, <1>5, <1>6, ModeRun
<1>8. ASSUME NEW r \in p..(end - 1) PROVE Plain(r)
  <2>1. r = p \/ r \in (p + 1)..(end - 1)
    BY <1>1, <1>4
  <2> QED
    BY <1>2, <1>7, <2>1 DEF Plain, Marks, Brackets
<1> QED
  BY <1>5, <1>8 DEF end


\* The token kind that opens what a delimiter opens.
OpenKind(d) ==
    CASE d = "(" -> "l_paren"
      [] d = "[" -> "l_square"
      [] d = "{" -> "l_brace"
      [] OTHER   -> "hash"

\* One for the template that the code begins with, while it is on the stack.
Less(s) == IF s # << >> /\ s[1] = "less" THEN 1 ELSE 0

\* The i-th symbol opened the depth k, which the first n symbols have not left since.
Holds(i, k, n) ==
    /\ Delimiter(i) \in Opening /\ Depth(i) = k
    /\ \A r \in i..n : Depth(r) >= k

\* The stack, without a block comment, after the first n symbols: none of them closed
\* what was not open, and what each depth was opened with is on the stack in its place.
Agrees(n, s) ==
    /\ \A r \in 0..n : Depth(r) >= 0
    /\ \A j \in 1..n : Delimiter(j) \in Closing => Fits(j)
    /\ Len(s) = Less(s) + Depth(n)
    /\ \A k \in 1..Depth(n) :
          \E i \in 1..n : Holds(i, k, n) /\ s[Less(s) + k] = OpenKind(Delimiter(i))

\* The depth is a number.
LEMMA DepthsAre ==
    /\ \A n \in Nat : Depth(n) \in Int
    /\ Depth(0) = 0
    /\ \A n \in Nat : /\ Delimiter(n + 1) \in Opening => Depth(n + 1) = Depth(n) + 1
                      /\ Delimiter(n + 1) \in Closing => Depth(n + 1) = Depth(n) - 1
                      /\ Delimiter(n + 1) = "none" => Depth(n + 1) = Depth(n)
<1>1. \A n \in Nat :
         /\ Depth(n) \in Int /\ Depth(0) = 0
         /\ Depth(n + 1) = Depth(n) + (IF Delimiter(n + 1) \in Opening THEN 1
                                       ELSE IF Delimiter(n + 1) \in Closing THEN -1 ELSE 0)
  BY DepthIs
<1>2. \A x : /\ x \in Opening => x \notin Closing
             /\ x = "none" => x \notin Opening /\ x \notin Closing
  BY DelimitersAre
<1>3. 0 \in Nat
  OBVIOUS
<1>4. ASSUME NEW n \in Nat
      PROVE  /\ Delimiter(n + 1) \in Opening => Depth(n + 1) = Depth(n) + 1
             /\ Delimiter(n + 1) \in Closing => Depth(n + 1) = Depth(n) - 1
             /\ Delimiter(n + 1) = "none" => Depth(n + 1) = Depth(n)
  <2>1. Depth(n) \in Int /\
        Depth(n + 1) = Depth(n) + (IF Delimiter(n + 1) \in Opening THEN 1
                                   ELSE IF Delimiter(n + 1) \in Closing THEN -1 ELSE 0)
    BY <1>1
  <2> QED
    BY <1>2, <2>1
<1> QED
  BY <1>1, <1>3, <1>4

\* Symbols that are no delimiters leave the stack as it is.
LEMMA AgreesQuiet ==
    ASSUME NEW m \in Nat, NEW n \in Nat, m <= n, NEW s, Agrees(m, s),
           \A r \in (m + 1)..n : Delimiter(r) = "none"
    PROVE  Agrees(n, s)
<1>1. \A r \in m..n : Depth(r) = Depth(m)
  BY DepthStays
<1>2. Depth(n) = Depth(m) /\ Depth(m) \in Int
  BY <1>1, DepthsAre
<1>3. \A i \in Nat : \A r \in i..n : r \in i..m \/ r \in m..n
  OBVIOUS
<1>4. ASSUME NEW r \in 0..n PROVE Depth(r) >= 0
  <2>1. r \in 0..m \/ r \in m..n
    OBVIOUS
  <2>2. m \in 0..m
    OBVIOUS
  <2> QED
    BY <1>1, <2>1, <2>2 DEF Agrees
<1>5. ASSUME NEW j \in 1..n, Delimiter(j) \in Closing PROVE Fits(j)
  <2>1. Delimiter(j) # "none"
    BY <1>5, DelimitersAre
  <2>2. j \in 1..m \/ j \in (m + 1)..n
    OBVIOUS
  <2> QED
    BY <1>5, <2>1, <2>2 DEF Agrees
<1>6. ASSUME NEW k \in 1..Depth(n)
      PROVE  \E i \in 1..n : Holds(i, k, n) /\ s[Less(s) + k] = OpenKind(Delimiter(i))
  <2>1. PICK i \in 1..m : Holds(i, k, m) /\ s[Less(s) + k] = OpenKind(Delimiter(i))
    BY <1>2 DEF Agrees
  <2>2. i \in 1..n /\ i \in Nat /\ m \in i..m
    OBVIOUS
  <2>3. \A r \in i..n : Depth(r) >= k
    BY <1>1, <1>3, <2>1, <2>2 DEF Holds
  <2> QED
    BY <2>1, <2>2, <2>3 DEF Holds
<1>7. Len(s) = Less(s) + Depth(n)
  BY <1>2 DEF Agrees
<1> QED
  BY <1>4, <1>5, <1>6, <1>7 DEF Agrees

\* What opens goes on the stack.
LEMMA AgreesOpen ==
    ASSUME NEW n \in Nat, NEW s \in Seq(OpenKinds), Agrees(n, s),
           Delimiter(n + 1) \in Opening
    PROVE  LET a == Append(s, OpenKind(Delimiter(n + 1)))
           IN  Agrees(n + 1, a) /\ Less(a) = Less(s)
<1> DEFINE x == OpenKind(Delimiter(n + 1))
           a == Append(s, x)
<1>1. x # "less" /\ x \in OpenKinds
  BY DEF OpenKind, OpenKinds
<1> HIDE DEF x
<1>2. /\ Len(s) \in Nat /\ Len(a) = Len(s) + 1 /\ a[Len(s) + 1] = x
      /\ \A i \in 1..Len(s) : a[i] = s[i]
  BY <1>1
<1>3. a # << >>
  BY <1>1
<1> HIDE DEF a
<1>4. Less(a) = Less(s)
  <2>1. CASE s = << >>
    <3>1. a[1] = x
      BY <1>2, <2>1
    <3> QED
      BY <1>1, <2>1, <3>1 DEF Less
  <2>2. CASE s # << >>
    <3>1. 1 \in 1..Len(s)
      BY <1>2, <2>2
    <3> QED
      BY <1>2, <1>3, <2>2, <3>1 DEF Less
  <2> QED
    BY <2>1, <2>2
<1>5. Depth(n) \in Int /\ Depth(n + 1) = Depth(n) + 1 /\ Less(s) \in {0, 1}
  BY DepthsAre DEF Less
<1>6. Len(s) = Less(s) + Depth(n) /\ \A r \in 0..n : Depth(r) >= 0
  BY DEF Agrees
<1>7. n \in 0..n /\ Depth(n) >= 0
  BY <1>6
<1>8. ASSUME NEW r \in 0..(n + 1) PROVE Depth(r) >= 0
  <2>1. r \in 0..n \/ r = n + 1
    OBVIOUS
  <2> QED
    BY <1>5, <1>6, <1>7, <2>1
<1>9. ASSUME NEW j \in 1..(n + 1), Delimiter(j) \in Closing PROVE Fits(j)
  <2>1. j # n + 1
    BY <1>9, DelimitersAre
  <2>2. j \in 1..n
    BY <2>1
  <2> QED
    BY <1>9, <2>2 DEF Agrees
<1>10. ASSUME NEW k \in 1..Depth(n + 1)
       PROVE  \E i \in 1..(n + 1) :
                 Holds(i, k, n + 1) /\ a[Less(a) + k] = OpenKind(Delimiter(i))
  <2>1. CASE k = Depth(n + 1)
    <3>1. n + 1 \in 1..(n + 1) /\ \A r \in (n + 1)..(n + 1) : r = n + 1
      OBVIOUS
    <3>2. Less(a) + k = Len(s) + 1
      BY <1>4, <1>5, <1>6, <2>1
    <3>3. a[Less(a) + k] = OpenKind(Delimiter(n + 1))
      BY <1>2, <3>2 DEF x
    <3>4. Holds(n + 1, k, n + 1)
      BY <1>5, <2>1, <3>1 DEF Holds
    <3> QED
      BY <3>1, <3>3, <3>4
  <2>2. CASE k # Depth(n + 1)
    <3>1. k \in 1..Depth(n)
      BY <1>5, <2>2
    <3>2. PICK i \in 1..n : Holds(i, k, n) /\ s[Less(s) + k] = OpenKind(Delimiter(i))
      BY <3>1 DEF Agrees
    <3>3. i \in 1..(n + 1) /\ \A r \in i..(n + 1) : r \in i..n \/ r = n + 1
      OBVIOUS
    <3>4. Depth(n + 1) >= k
      BY <1>5
    <3>5. Holds(i, k, n + 1)
      BY <3>2, <3>3, <3>4 DEF Holds
    <3>6. Less(s) + k \in 1..Len(s)
      BY <1>5, <1>6, <3>1
    <3>7. a[Less(a) + k] = s[Less(s) + k]
      BY <1>2, <1>4, <3>6
    <3> QED
      BY <3>2, <3>3, <3>5, <3>7
  <2> QED
    BY <2>1, <2>2
<1>11. Len(a) = Less(a) + Depth(n + 1)
  BY <1>2, <1>4, <1>5, <1>6
<1>12. Agrees(n + 1, a)
  BY <1>8, <1>9, <1>10, <1>11 DEF Agrees
<1> QED
  BY <1>4, <1>12 DEF a, x

\* What opened a depth that has not been left since is one symbol.
LEMMA HoldsOnce ==
    ASSUME NEW n \in Nat, NEW i \in 1..n, NEW j \in 1..n, NEW k,
           Holds(i, k, n), Holds(j, k, n)
    PROVE  i = j
<1>1. ASSUME NEW x \in 1..n, NEW y \in 1..n, Holds(x, k, n), Holds(y, k, n) PROVE ~ (x < y)
  <2> SUFFICES ASSUME x < y PROVE FALSE
    OBVIOUS
  <2> DEFINE z == y - 1
  <2>1. z \in Nat /\ z + 1 = y /\ z \in x..n
    OBVIOUS
  <2> HIDE DEF z
  <2>2. Depth(y) = Depth(z) + 1 /\ Depth(z) \in Int
    BY <1>1, <2>1, DepthsAre DEF Holds
  <2>3. Depth(y) = k /\ Depth(z) >= k
    BY <1>1, <2>1 DEF Holds
  <2> QED
    BY <2>2, <2>3
<1> QED
  BY <1>1


\* A token kind on the stack is what the delimiter closes.
Matches(kind, d) == \E o \in Opening : <<o, d>> \in Pairs /\ kind = OpenKind(o)

\* A delimiter closes what was open, as the reference means it, when it matches the
\* innermost on the stack.
LEMMA FitsIs ==
    ASSUME NEW n \in Nat, NEW s \in Seq(OpenKinds), Agrees(n, s),
           Delimiter(n + 1) \in Closing
    PROVE  /\ Fits(n + 1) <=> s # << >> /\ Matches(Last(s), Delimiter(n + 1))
           /\ Fits(n + 1) => Depth(n) >= 1 /\ s # << >> /\ Last(s) # "less"
<1> DEFINE D == Depth(n)
           d == Delimiter(n + 1)
           L == Less(s)
<1>1. n + 1 - 1 = n /\ D \in Int /\ L \in {0, 1} /\ n \in 0..n
  BY DepthsAre DEF Less
<1>2. /\ Len(s) = L + D /\ D >= 0 /\ Len(s) \in Nat
      /\ \A r \in 0..n : Depth(r) >= 0
      /\ \A k \in 1..D : \E i \in 1..n : Holds(i, k, n) /\ s[L + k] = OpenKind(Delimiter(i))
  BY <1>1 DEF Agrees
<1>3. \A o \in Opening : OpenKind(o) # "less"
  BY DEF OpenKind
<1>4. \A o, q \in Opening : OpenKind(o) = OpenKind(q) => o = q
  BY DelimitersAre DEF OpenKind
<1>5. \A o : <<o, d>> \in Pairs => o \in Opening
  BY DelimitersAre
<1> HIDE DEF D, d, L
<1>6. ASSUME NEW i \in 1..n, Holds(i, D, n), D >= 1
      PROVE  s # << >> /\ Last(s) = OpenKind(Delimiter(i))
  <2>1. D \in 1..D
    BY <1>1, <1>6
  <2>2. PICK j \in 1..n : Holds(j, D, n) /\ s[L + D] = OpenKind(Delimiter(j))
    BY <1>2, <2>1
  <2>3. i = j
    BY <1>6, <2>2, HoldsOnce
  <2>4. s # << >>
    BY <1>1, <1>2, <1>6
  <2> QED
    BY <1>2, <2>2, <2>3, <2>4, FrontIs
<1>7. ASSUME Fits(n + 1) PROVE D >= 1 /\ s # << >> /\ Matches(Last(s), d)
  <2>1. PICK i \in 1..n : /\ <<Delimiter(i), d>> \in Pairs /\ Depth(i) = D
                          /\ \A k \in i..n : Depth(k) >= Depth(i)
    BY <1>1, <1>7 DEF Fits, D, d
  <2>2. Delimiter(i) \in Opening
    BY <1>5, <2>1
  <2> DEFINE z == i - 1
  <2>3. z \in Nat /\ z + 1 = i /\ z \in 0..n
    OBVIOUS
  <2> HIDE DEF z
  <2>4. Depth(i) = Depth(z) + 1 /\ Depth(z) \in Int /\ Depth(z) >= 0
    BY <1>2, <2>2, <2>3, DepthsAre
  <2>5. D >= 1
    BY <2>1, <2>4
  <2>6. Holds(i, D, n)
    BY <2>1, <2>2 DEF Holds
  <2>7. s # << >> /\ Last(s) = OpenKind(Delimiter(i))
    BY <1>6, <2>5, <2>6
  <2> QED
    BY <2>1, <2>2, <2>5, <2>7 DEF Matches
<1>8. ASSUME s # << >>, Matches(Last(s), d) PROVE Fits(n + 1)
  <2>1. PICK o \in Opening : <<o, d>> \in Pairs /\ Last(s) = OpenKind(o)
    BY <1>8 DEF Matches
  <2>2. Last(s) = s[Len(s)] /\ Len(s) >= 1
    <3>1. Last(s) = s[Len(s)] /\ Len(s) \in Nat \ {0}
      BY <1>8, FrontIs
    <3> QED
      BY <3>1
  <2>3. D >= 1
    <3> SUFFICES ASSUME D = 0 PROVE FALSE
      BY <1>1, <1>2
    <3>1. L = 1 /\ Len(s) = 1
      BY <1>1, <1>2, <2>2
    <3>2. s[1] = "less"
      BY <3>1 DEF L, Less
    <3> QED
      BY <1>3, <2>1, <2>2, <3>1, <3>2
  <2>4. D \in 1..D
    BY <1>1, <2>3
  <2>5. PICK i \in 1..n : Holds(i, D, n)
    BY <1>2, <2>4
  <2>6. OpenKind(Delimiter(i)) = OpenKind(o) /\ Delimiter(i) \in Opening
    BY <1>6, <2>1, <2>3, <2>5 DEF Holds
  <2>7. Delimiter(i) = o
    BY <1>4, <2>6
  <2>8. <<Delimiter(i), d>> \in Pairs
    BY <2>1, <2>7
  <2>9. /\ i \in 1..(n + 1 - 1) /\ Depth(i) = Depth(n + 1 - 1)
        /\ \A k \in i..(n + 1 - 1) : Depth(k) >= Depth(i)
    BY <1>1, <2>5 DEF Holds, D
  <2> QED
    BY <2>8, <2>9 DEF Fits, d
<1>9. Matches(Last(s), d) => Last(s) # "less"
  BY <1>3 DEF Matches
<1> QED
  BY <1>7, <1>8, <1>9 DEF D, d

\* What closes takes what it closes from the stack.
LEMMA AgreesClose ==
    ASSUME NEW n \in Nat, NEW s \in Seq(OpenKinds), Agrees(n, s),
           Delimiter(n + 1) \in Closing, Fits(n + 1)
    PROVE  Agrees(n + 1, Front(s)) /\ Less(Front(s)) = Less(s)
<1> DEFINE f == Front(s)
<1>1. Depth(n) >= 1 /\ s # << >> /\ Last(s) # "less"
  BY FitsIs
<1>2. /\ Len(s) \in Nat \ {0} /\ Last(s) = s[Len(s)] /\ Len(f) = Len(s) - 1
      /\ \A i \in 1..(Len(s) - 1) : f[i] = s[i]
      /\ f \in Seq(OpenKinds)
  BY <1>1, FrontIs
<1> HIDE DEF f
<1>3. Less(f) = Less(s)
  <2>1. CASE Len(s) = 1
    <3>1. f = << >>
      BY <1>2, <2>1
    <3> QED
      BY <1>1, <1>2, <2>1, <3>1 DEF Less
  <2>2. CASE Len(s) # 1
    <3>1. 1 \in 1..(Len(s) - 1) /\ f # << >>
      BY <1>2, <2>2
    <3> QED
      BY <1>1, <1>2, <3>1 DEF Less
  <2> QED
    BY <2>1, <2>2
<1>4. Depth(n) \in Int /\ Depth(n + 1) = Depth(n) - 1 /\ Less(s) \in {0, 1}
  BY DepthsAre DEF Less
<1>5. Len(s) = Less(s) + Depth(n) /\ \A r \in 0..n : Depth(r) >= 0
  BY DEF Agrees
<1>6. ASSUME NEW r \in 0..(n + 1) PROVE Depth(r) >= 0
  <2>1. r \in 0..n \/ r = n + 1
    OBVIOUS
  <2> QED
    BY <1>1, <1>4, <1>5, <2>1
<1>7. ASSUME NEW j \in 1..(n + 1), Delimiter(j) \in Closing PROVE Fits(j)
  <2>1. j \in 1..n \/ j = n + 1
    OBVIOUS
  <2> QED
    BY <1>7, <2>1 DEF Agrees
<1>8. ASSUME NEW k \in 1..Depth(n + 1)
      PROVE  \E i \in 1..(n + 1) :
                Holds(i, k, n + 1) /\ f[Less(f) + k] = OpenKind(Delimiter(i))
  <2>1. k \in 1..Depth(n)
    BY <1>4
  <2>2. PICK i \in 1..n : Holds(i, k, n) /\ s[Less(s) + k] = OpenKind(Delimiter(i))
    BY <2>1 DEF Agrees
  <2>3. i \in 1..(n + 1) /\ \A r \in i..(n + 1) : r \in i..n \/ r = n + 1
    OBVIOUS
  <2>4. Depth(n + 1) >= k
    BY <1>4
  <2>5. Holds(i, k, n + 1)
    BY <2>2, <2>3, <2>4 DEF Holds
  <2>6. Less(s) + k \in 1..(Len(s) - 1)
    BY <1>4, <1>5
  <2>7. f[Less(f) + k] = s[Less(s) + k]
    BY <1>2, <1>3, <2>6
  <2> QED
    BY <2>2, <2>3, <2>5, <2>7
<1>9. Len(f) = Less(f) + Depth(n + 1)
  BY <1>2, <1>3, <1>4, <1>5
<1>10. Agrees(n + 1, f)
  BY <1>6, <1>7, <1>8, <1>9 DEF Agrees
<1> QED
  BY <1>3, <1>10 DEF f

\* A template leaves the stack when nothing else is on it.
LEMMA AgreesTemplate ==
    ASSUME NEW n \in Nat, NEW s \in Seq(OpenKinds), Agrees(n, s)
    PROVE  /\ in_template(s) => Agrees(n, << >>)
           /\ in_template(s) <=> Less(s) = 1 /\ Depth(n) = 0
<1>1. Len(s) = Less(s) + Depth(n) /\ Depth(n) \in Int /\ Less(s) \in {0, 1} /\ Len(s) \in Nat
  BY DepthsAre DEF Agrees, Less
<1>2. ASSUME in_template(s) PROVE Less(s) = 1 /\ Len(s) = 1
  <2>1. s = <<"less">>
    BY <1>2 DEF in_template
  <2>2. s # << >> /\ s[1] = "less" /\ Len(s) = 1
    BY <2>1
  <2> QED
    BY <2>2 DEF Less
<1>3. ASSUME Less(s) = 1, Depth(n) = 0 PROVE in_template(s)
  <2>1. Len(s) = 1 /\ s[1] = "less"
    BY <1>1, <1>3 DEF Less
  <2>2. s = <<"less">>
    BY <2>1
  <2> QED
    BY <2>2 DEF in_template
<1>4. ASSUME in_template(s) PROVE Agrees(n, << >>)
  <2>1. Depth(n) = 0
    BY <1>1, <1>2, <1>4
  <2>2. Less(<< >>) = 0 /\ Len(<< >>) = 0
    BY DEF Less
  <2>3. \A r \in 0..n : Depth(r) >= 0
    BY DEF Agrees
  <2>4. \A j \in 1..n : Delimiter(j) \in Closing => Fits(j)
    BY DEF Agrees
  <2>5. ~ \E k \in 1..0 : TRUE
    OBVIOUS
  <2> QED
    BY <2>1, <2>2, <2>3, <2>4, <2>5 DEF Agrees
<1> QED
  BY <1>1, <1>2, <1>3, <1>4


\* The template at the beginning is on the stack until it ends.
Templated(n, s) == Less(s) = 1 <=> BeginsTemplate /\ ~ \E m \in 1..n : EndsTemplate(m)

\* The kind of the last token that is no space tells whether the input would continue if
\* it ended after n symbols.
Comma(n, w) ==
    w \in {"comma", "backslash"} <=>
        \E i \in 1..n : Continues(i) /\ \A j \in (i + 1)..n : Blank(j)

\* The stack without a block comment, and what it and the last token say.
Base(stack) == IF OnTop(stack) THEN Front(stack) ELSE stack
Stacked(n, stack) == Agrees(n, Base(stack)) /\ Templated(n, Base(stack))
Follows(n, stack, w) == Stacked(n, stack) /\ (OnTop(stack) \/ Comma(n, w))

LEMMA TemplatedGoesOn ==
    ASSUME NEW m \in Nat, NEW n \in Nat, m <= n, NEW s, NEW t, Templated(m, s),
           Less(t) = Less(s), \A r \in (m + 1)..n : ~ EndsTemplate(r)
    PROVE  Templated(n, t)
<1>1. (\E r \in 1..n : EndsTemplate(r)) <=> (\E r \in 1..m : EndsTemplate(r))
  <2>1. 1..m \subseteq 1..n /\ \A r \in 1..n : r \in 1..m \/ r \in (m + 1)..n
    OBVIOUS
  <2> QED
    BY <2>1
<1> QED
  BY <1>1 DEF Templated

\* A template that is over is not on the stack.
LEMMA TemplatedEnds ==
    ASSUME NEW n \in Nat, NEW s, Templated(n, s), EndsTemplate(n + 1)
    PROVE  /\ Templated(n + 1, << >>)
           /\ Less(s) # 1 => Templated(n + 1, s)
<1>1. n + 1 \in 1..(n + 1)
  OBVIOUS
<1>2. \E m \in 1..(n + 1) : EndsTemplate(m)
  BY <1>1
<1>3. Less(<< >>) # 1
  BY DEF Less
<1> QED
  BY <1>2, <1>3 DEF Templated

\* Spaces, and a hash without a directive, leave it open whether the input continues.
LEMMA CommaStays ==
    ASSUME input \in Seq(AllSymbols), NEW m \in Nat, NEW n \in Nat, m <= n, n <= Len(input),
           NEW w, Comma(m, w), \A r \in (m + 1)..n : Blank(r)
    PROVE  Comma(n, w)
<1>1. ASSUME NEW r \in (m + 1)..n PROVE ~ Continues(r)
  <2>1. r \in Nat /\ r \in 1..Len(input)
    OBVIOUS
  <2>2. At(r) = input[r]
    BY <2>1, AtIs
  <2> QED
    BY <2>2 DEF Blank, Continues
<1>2. ASSUME NEW i \in 1..m, Continues(i), \A j \in (i + 1)..m : Blank(j)
      PROVE  i \in 1..n /\ \A j \in (i + 1)..n : Blank(j)
  <2>1. i \in 1..n /\ \A j \in (i + 1)..n : j \in (i + 1)..m \/ j \in (m + 1)..n
    OBVIOUS
  <2> QED
    BY <1>2, <2>1
<1>3. ASSUME NEW i \in 1..n, Continues(i), \A j \in (i + 1)..n : Blank(j)
      PROVE  i \in 1..m /\ \A j \in (i + 1)..m : Blank(j)
  <2>1. i \in 1..m \/ i \in (m + 1)..n
    OBVIOUS
  <2>2. \A j \in (i + 1)..m : j \in (i + 1)..n
    OBVIOUS
  <2> QED
    BY <1>1, <1>3, <2>1, <2>2
<1>4. (\E i \in 1..m : Continues(i) /\ \A j \in (i + 1)..m : Blank(j))
      <=> (\E i \in 1..n : Continues(i) /\ \A j \in (i + 1)..n : Blank(j))
  BY <1>2, <1>3
<1> QED
  BY <1>4 DEF Comma

\* After anything else the input does not continue.
LEMMA CommaOther ==
    ASSUME NEW p \in Nat \ {0}, NEW n \in Nat, p <= n, ~ Blank(p),
           \A r \in p..n : ~ Continues(r), NEW w, w \notin {"comma", "backslash"}
    PROVE  Comma(n, w)
<1>1. ASSUME NEW i \in 1..n, Continues(i), \A j \in (i + 1)..n : Blank(j) PROVE FALSE
  <2>1. i \in p..n \/ p \in (i + 1)..n
    OBVIOUS
  <2> QED
    BY <1>1, <2>1
<1> QED
  BY <1>1 DEF Comma

\* After a comma or a backslash it does.
LEMMA CommaLast ==
    ASSUME NEW p \in Nat \ {0}, Continues(p), NEW w, w \in {"comma", "backslash"}
    PROVE  Comma(p, w)
<1>1. p \in 1..p /\ (p + 1)..p = {}
  OBVIOUS
<1> QED
  BY <1>1 DEF Comma

\* The marks of the code.
LEMMA CodeSymbols ==
    ASSUME input \in Seq(AllSymbols), NEW p \in 1..(Len(input) + 1), InStep(p, FALSE),
           At(p) \in Marks
    PROVE  /\ p \in 1..Len(input)
           /\ At(p) \in Brackets => Delimiter(p) = At(p)
           /\ At(p) \in {";", ",", "\\"} => Delimiter(p) = "none"
           /\ At(p) = "#" =>
                 Delimiter(p) = CASE At(NextWord(p)) = "if"    -> "#if"
                                  [] At(NextWord(p)) = "endif" -> "#endif"
                                  [] OTHER                     -> "none"
           /\ EndsTemplate(p) <=> At(p) \in {";", "}"} /\ Depth(p) = 0
           /\ Continues(p) <=> At(p) \in {",", "\\"}
           /\ At(p) # "#" => ~ Blank(p)
<1>1. At(p) # "eof" /\ At(p) \notin {"quote", "/"} /\ p \in Nat
  <2>1. p \in Nat
    OBVIOUS
  <2> QED
    BY <2>1 DEF Marks, Brackets
<1>2. Mode[p] = "code" /\ p \in 1..Len(input) /\ At(p) = input[p]
  BY <1>1, CodeAt, AtIs
<1>3. At(p) \in Brackets => Delimiter(p) = At(p)
  BY <1>2 DEF Delimiter, IsDirective, Brackets
<1>4. At(p) \in {";", ",", "\\"} => Delimiter(p) = "none"
  BY <1>2 DEF Delimiter, IsDirective, Brackets
<1>5. At(p) = "#" =>
         Delimiter(p) = CASE At(NextWord(p)) = "if"    -> "#if"
                          [] At(NextWord(p)) = "endif" -> "#endif"
                          [] OTHER                     -> "none"
  BY <1>2 DEF Delimiter, IsDirective, Brackets
<1>6. /\ EndsTemplate(p) <=> At(p) \in {";", "}"} /\ Depth(p) = 0
      /\ Continues(p) <=> At(p) \in {",", "\\"}
  BY <1>2 DEF EndsTemplate, Continues
<1>7. At(p) # "#" => ~ Blank(p)
  BY DEF Blank, Marks, Brackets
<1> QED
  BY <1>2, <1>3, <1>4, <1>5, <1>6, <1>7


\* What neither opens nor closes anything leaves what is open as it is.
LEMMA QuietStacked ==
    ASSUME input \in Seq(AllSymbols), NEW p \in Nat \ {0}, NEW n \in Nat, p <= n + 1,
           n <= Len(input), NEW stack, NEW stack2, Base(stack2) = Base(stack),
           Stacked(p - 1, stack),
           \A r \in p..n : Delimiter(r) = "none" /\ ~ EndsTemplate(r)
    PROVE  Stacked(n, stack2)
<1> DEFINE m == p - 1
<1>1. m \in Nat /\ m + 1 = p /\ m <= n /\ Len(input) \in Nat
  OBVIOUS
<1>2. Agrees(m, Base(stack)) /\ Templated(m, Base(stack))
  BY DEF Stacked
<1> HIDE DEF m
<1>3. \A r \in (m + 1)..n : Delimiter(r) = "none" /\ ~ EndsTemplate(r)
  BY <1>1
<1>4. Agrees(n, Base(stack))
  BY <1>1, <1>2, <1>3, AgreesQuiet
<1>5. Templated(n, Base(stack))
  BY <1>1, <1>2, <1>3, TemplatedGoesOn
<1> QED
  BY <1>4, <1>5 DEF Stacked

\* Without a block comment in it, a stack is its own base.
LEMMA BaseIs ==
    ASSUME NEW s \in Seq(OpenKinds), Nowhere(s)
    PROVE  /\ Base(s) = s /\ Base(<< >>) = << >>
           /\ s # << >> => Base(Front(s)) = Front(s) /\ Front(s) \in Seq(OpenKinds)
           /\ \A k \in OpenKinds :
                 Base(Append(s, k)) = IF k = "l_comment" THEN s ELSE Append(s, k)
<1>1. ~ OnTop(s) /\ ~ OnTop(<< >>)
  BY StacksAre DEF OnTop
<1>2. ASSUME s # << >> PROVE ~ OnTop(Front(s)) /\ Front(s) \in Seq(OpenKinds)
  <2>1. Nowhere(Front(s)) /\ Front(s) \in Seq(OpenKinds)
    <3>1. NotBelow(s)
      BY StacksAre
    <3> QED
      BY <1>2, <3>1, StacksAre, FrontIs
  <2> QED
    BY <2>1, StacksAre
<1>3. ASSUME NEW k \in OpenKinds PROVE Front(Append(s, k)) = s
  <2> DEFINE a == Append(s, k)
  <2>1. /\ a \in Seq(OpenKinds) /\ Len(a) = Len(s) + 1 /\ a # << >> /\ Len(s) \in Nat
        /\ \A i \in 1..Len(s) : a[i] = s[i]
    OBVIOUS
  <2> HIDE DEF a
  <2>2. /\ Front(a) \in Seq(OpenKinds) /\ Len(Front(a)) = Len(a) - 1
        /\ \A i \in 1..(Len(a) - 1) : Front(a)[i] = a[i]
    BY <2>1, FrontIs
  <2>3. Len(Front(a)) = Len(s) /\ \A i \in 1..Len(s) : Front(a)[i] = s[i]
    BY <2>1, <2>2
  <2>4. Front(a) = s
    BY <2>2, <2>3, SeqEqual
  <2> QED
    BY <2>4 DEF a
<1>4. \A k \in OpenKinds : OnTop(Append(s, k)) <=> k = "l_comment"
  BY StacksAre
<1> QED
  BY <1>1, <1>2, <1>3, <1>4 DEF Base

\* An opening delimiter.
LEMMA OpensStacked ==
    ASSUME NEW p \in Nat \ {0}, NEW stack \in Seq(OpenKinds), Nowhere(stack),
           Stacked(p - 1, stack), Delimiter(p) \in Opening, ~ EndsTemplate(p)
    PROVE  Stacked(p, Append(stack, OpenKind(Delimiter(p))))
<1> DEFINE m == p - 1
           x == OpenKind(Delimiter(p))
<1>1. m \in Nat /\ m + 1 = p /\ m <= p /\ p \in Nat
  OBVIOUS
<1>2. Agrees(m, stack) /\ Templated(m, stack)
  BY BaseIs DEF Stacked
<1>3. x \in OpenKinds /\ x # "l_comment"
  BY DEF OpenKind, OpenKinds
<1> HIDE DEF m
<1>4. Agrees(p, Append(stack, x)) /\ Less(Append(stack, x)) = Less(stack)
  BY <1>1, <1>2, AgreesOpen
<1> HIDE DEF x
<1>5. \A r \in (m + 1)..p : r = p
  BY <1>1
<1>6. Templated(p, Append(stack, x))
  BY <1>1, <1>2, <1>4, <1>5, TemplatedGoesOn
<1>7. Base(Append(stack, x)) = Append(stack, x)
  BY <1>3, BaseIs
<1> QED
  BY <1>4, <1>6, <1>7 DEF Stacked, x

\* A closing delimiter, which also ends a template that has nothing else open.
LEMMA ClosesStacked ==
    ASSUME NEW p \in Nat \ {0}, NEW stack \in Seq(OpenKinds), Nowhere(stack),
           Stacked(p - 1, stack), Delimiter(p) \in Closing
    PROVE  /\ Fits(p) <=> stack # << >> /\ Matches(Last(stack), Delimiter(p))
           /\ Fits(p) => /\ in_template(Front(stack)) => Depth(p) = 0
                         /\ Stacked(p, IF EndsTemplate(p) /\ in_template(Front(stack))
                                       THEN << >> ELSE Front(stack))
<1> DEFINE m == p - 1
           f == Front(stack)
<1>1. m \in Nat /\ m + 1 = p /\ m <= p /\ p \in Nat
  OBVIOUS
<1>2. Agrees(m, stack) /\ Templated(m, stack)
  BY BaseIs DEF Stacked
<1> HIDE DEF m
<1>3. /\ Fits(p) <=> stack # << >> /\ Matches(Last(stack), Delimiter(p))
      /\ Fits(p) => stack # << >>
  BY <1>1, <1>2, FitsIs
<1>4. ASSUME Fits(p)
      PROVE  /\ in_template(f) => Depth(p) = 0
             /\ Stacked(p, IF EndsTemplate(p) /\ in_template(f) THEN << >> ELSE f)
  <2>1. Agrees(p, f) /\ Less(f) = Less(stack)
    BY <1>1, <1>2, <1>4, AgreesClose
  <2>2. f \in Seq(OpenKinds) /\ Base(f) = f /\ Base(<< >>) = << >>
    BY <1>3, <1>4, BaseIs
  <2> HIDE DEF f
  <2>3. /\ in_template(f) => Agrees(p, << >>)
        /\ in_template(f) <=> Less(f) = 1 /\ Depth(p) = 0
    BY <1>1, <2>1, <2>2, AgreesTemplate
  <2>4. CASE EndsTemplate(p)
    <3>1. Templated(p, << >>) /\ (Less(stack) # 1 => Templated(p, stack))
      BY <1>1, <1>2, <2>4, TemplatedEnds
    <3>2. Depth(p) = 0
      BY <2>4 DEF EndsTemplate
    <3>3. ~ in_template(f) => Templated(p, f)
      BY <2>1, <2>3, <3>1, <3>2 DEF Templated
    <3> QED
      BY <2>1, <2>2, <2>3, <2>4, <3>1, <3>3 DEF Stacked
  <2>5. CASE ~ EndsTemplate(p)
    <3>1. \A r \in (m + 1)..p : r = p
      BY <1>1
    <3>2. Templated(p, f)
      BY <1>1, <1>2, <2>1, <2>5, <3>1, TemplatedGoesOn
    <3> QED
      BY <2>1, <2>2, <2>3, <2>5, <3>2 DEF Stacked
  <2> QED
    BY <2>4, <2>5
<1> QED
  BY <1>3, <1>4

\* A semicolon, which ends a template that has nothing else open.
LEMMA SemicolonStacked ==
    ASSUME NEW p \in Nat \ {0}, NEW stack \in Seq(OpenKinds), Nowhere(stack),
           Stacked(p - 1, stack), Delimiter(p) = "none", EndsTemplate(p) <=> Depth(p) = 0
    PROVE  Stacked(p, IF in_template(stack) THEN << >> ELSE stack)
<1> DEFINE m == p - 1
<1>1. m \in Nat /\ m + 1 = p /\ m <= p /\ p \in Nat
  OBVIOUS
<1>2. Agrees(m, stack) /\ Templated(m, stack)
  BY BaseIs DEF Stacked
<1> HIDE DEF m
<1>3. \A r \in (m + 1)..p : r = p
  BY <1>1
<1>4. Agrees(p, stack)
  BY <1>1, <1>2, <1>3, AgreesQuiet
<1>5. /\ in_template(stack) => Agrees(p, << >>)
      /\ in_template(stack) <=> Less(stack) = 1 /\ Depth(p) = 0
  BY <1>1, <1>4, AgreesTemplate
<1>6. Base(stack) = stack /\ Base(<< >>) = << >>
  BY BaseIs
<1>7. CASE EndsTemplate(p)
  <2>1. Templated(p, << >>) /\ (Less(stack) # 1 => Templated(p, stack))
    BY <1>1, <1>2, <1>7, TemplatedEnds
  <2> QED
    BY <1>4, <1>5, <1>6, <1>7, <2>1 DEF Stacked
<1>8. CASE ~ EndsTemplate(p)
  <2>1. Templated(p, stack)
    BY <1>1, <1>2, <1>3, <1>8, TemplatedGoesOn
  <2> QED
    BY <1>4, <1>5, <1>6, <1>8, <2>1 DEF Stacked
<1> QED
  BY <1>7, <1>8



\* The reference depends on the code only.
LEMMA SameMeaning ==
    ASSUME input' = input
    PROVE  /\ Mode' = Mode /\ Tame' = Tame /\ Mismatched' = Mismatched
           /\ BlockOpen' = BlockOpen /\ Nested' = Nested /\ EndsContinued' = EndsContinued
           /\ (\E i \in 1..Len(input) : Continues(i))' = (\E i \in 1..Len(input) : Continues(i))
           /\ \A n, s, w : Follows(n, s, w)' = Follows(n, s, w)
<1>1. Mode' = Mode /\ Tame' = Tame
  BY SameInput
<1>2. /\ \A p : At(p)' = At(p)
      /\ \A p : NextWord(p)' = NextWord(p)
      /\ \A p, symbols : SkipAll(p, symbols)' = SkipAll(p, symbols)
  BY DEF At, NextWord, SkipAll
<1>3. \A i : Delimiter(i)' = Delimiter(i)
  BY <1>1, <1>2 DEF Delimiter, IsDirective
<1>4. \A n : Depth(n)' = Depth(n)
  BY <1>3 DEF Depth
<1>5. \A j : Fits(j)' = Fits(j)
  BY <1>3, <1>4 DEF Fits
<1>6. Mismatched' = Mismatched
  BY <1>3, <1>5 DEF Mismatched
<1>7. \A n : EndsTemplate(n)' = EndsTemplate(n)
  BY <1>1, <1>4 DEF EndsTemplate
<1>8. BeginsTemplate' = BeginsTemplate
  BY <1>2 DEF BeginsTemplate
<1>9. /\ \A i : Continues(i)' = Continues(i)
      /\ \A i : Blank(i)' = Blank(i)
  BY <1>1, <1>2 DEF Continues, Blank
<1>10. BlockOpen' = BlockOpen
  BY <1>1 DEF BlockOpen
<1>11. TemplateOpen' = TemplateOpen
  BY <1>7, <1>8 DEF TemplateOpen
<1>12. Nested' = Nested
  BY <1>4, <1>10, <1>11 DEF Nested
<1>13. EndsContinued' = EndsContinued
  BY <1>9 DEF EndsContinued
<1>14. (\E i \in 1..Len(input) : Continues(i))' = (\E i \in 1..Len(input) : Continues(i))
  BY <1>9
<1>15. \A n, s : Agrees(n, s)' = Agrees(n, s)
  BY <1>3, <1>4, <1>5 DEF Agrees, Holds
<1>16. \A n, s : Templated(n, s)' = Templated(n, s)
  BY <1>7, <1>8 DEF Templated
<1>17. \A n, w : Comma(n, w)' = Comma(n, w)
  BY <1>9 DEF Comma
<1>18. \A n, s, w : Follows(n, s, w)' = Follows(n, s, w)
  BY <1>15, <1>16, <1>17 DEF Follows, Stacked
<1> QED
  BY <1>1, <1>6, <1>10, <1>12, <1>13, <1>14, <1>18


\* What the kinds of marks are, and what is no mark.
LEMMA MarkIs ==
    ASSUME NEW p, NEW kind, NEW next, Lexed(p, kind, next)
    PROVE  /\ kind = "l_paren" => At(p) = "("
           /\ kind = "l_square" => At(p) = "["
           /\ kind = "l_brace" => At(p) = "{"
           /\ kind = "r_paren" => At(p) = ")"
           /\ kind = "r_square" => At(p) = "]"
           /\ kind = "r_brace" => At(p) = "}"
           /\ kind = "comma" => At(p) = ","
           /\ kind = "backslash" => At(p) = "\\"
           /\ kind = "semicolon" => At(p) = ";"
           /\ kind = "hash" => At(p) = "#"
           /\ IF kind \in PunctuatorKinds \ {"slash", "asterik"}
              THEN next = p + 1 /\ At(p) \in Marks
              ELSE At(p) \notin Marks
           /\ kind = "space" <=> At(p) = "space"
           /\ kind = "eof" <=> At(p) = "eof"
           /\ kind # "hash" => At(p) # "#"
<1> DEFINE c == At(p)
           d == At(p + 1)
<1>1. \/ c \in Quotes /\ kind = "stringlit"
      \/ c = "/" /\ kind = "comment"
      \/ c = "/" /\ kind = "l_comment"
      \/ c = "*" /\ kind = "r_comment"
      \/ c \in Words /\ kind = "ident"
      \/ c = "space" /\ kind = "space"
      \/ c = "eof" /\ kind = "eof"
      \/ c = "newline" /\ kind = "unknown"
      \/ c = "/" /\ kind = "slash"
      \/ c = "*" /\ kind = "asterik"
      \/ c = "#" /\ kind = "hash" /\ next = p + 1
      \/ /\ c \in Brackets \cup {",", ";", "\\"} /\ next = p + 1
         /\ kind \in PunctuatorKinds \ {"slash", "asterik", "hash"} /\ Punctuators[kind] = c
  BY DEF Lexed
<1> HIDE DEF c, d
<1>2. CASE /\ c \in Brackets \cup {",", ";", "\\"} /\ next = p + 1
           /\ kind \in PunctuatorKinds \ {"slash", "asterik", "hash"} /\ Punctuators[kind] = c
  <2>1. /\ kind = "l_paren" => c = "("
        /\ kind = "l_square" => c = "["
        /\ kind = "l_brace" => c = "{"
        /\ kind = "r_paren" => c = ")"
        /\ kind = "r_square" => c = "]"
        /\ kind = "r_brace" => c = "}"
        /\ kind = "comma" => c = ","
        /\ kind = "backslash" => c = "\\"
        /\ kind = "semicolon" => c = ";"
    BY <1>2, PunctuatorsAre
  <2>2. c \in Marks /\ c # "#" /\ c # "space" /\ c # "eof"
    BY <1>2 DEF Marks, Brackets
  <2>3. kind # "space" /\ kind # "eof" /\ kind # "hash" /\ kind \notin {"slash", "asterik"}
    BY <1>2 DEF PunctuatorKinds
  <2> QED
    BY <1>2, <2>1, <2>2, <2>3 DEF c
<1>3. CASE c = "#" /\ kind = "hash" /\ next = p + 1
  BY <1>3 DEF c, Marks, PunctuatorKinds
<1>4. CASE \/ c \in Quotes /\ kind = "stringlit"
           \/ c = "/" /\ kind = "comment"
           \/ c = "/" /\ kind = "l_comment"
           \/ c = "*" /\ kind = "r_comment"
           \/ c \in Words /\ kind = "ident"
           \/ c = "space" /\ kind = "space"
           \/ c = "eof" /\ kind = "eof"
           \/ c = "newline" /\ kind = "unknown"
           \/ c = "/" /\ kind = "slash"
           \/ c = "*" /\ kind = "asterik"
  <2>1. c \notin Marks /\ c # "#"
    BY <1>4 DEF Marks, Brackets, Quotes, Words
  <2>2. kind \notin PunctuatorKinds \ {"slash", "asterik"}
    BY <1>4 DEF PunctuatorKinds
  <2>3. (kind = "space" <=> c = "space") /\ (kind = "eof" <=> c = "eof")
    BY <1>4 DEF Quotes, Words
  <2> QED
    BY <2>1, <2>2, <2>3 DEF c, PunctuatorKinds
<1> QED
  BY <1>1, <1>2, <1>3, <1>4

\* What each closing delimiter closes.
LEMMA MatchesIs ==
    \A x : /\ Matches(x, ")") <=> x = "l_paren"
           /\ Matches(x, "]") <=> x = "l_square"
           /\ Matches(x, "}") <=> x = "l_brace"
           /\ Matches(x, "#endif") <=> x = "hash"
<1>1. /\ OpenKind("(") = "l_paren" /\ OpenKind("[") = "l_square"
      /\ OpenKind("{") = "l_brace" /\ OpenKind("#if") = "hash"
  BY DEF OpenKind
<1>2. /\ "(" \in Opening /\ "[" \in Opening /\ "{" \in Opening /\ "#if" \in Opening
      /\ \A o : /\ <<o, ")">> \in Pairs <=> o = "("
                /\ <<o, "]">> \in Pairs <=> o = "["
                /\ <<o, "}">> \in Pairs <=> o = "{"
                /\ <<o, "#endif">> \in Pairs <=> o = "#if"
  BY DelimitersAre
<1> SUFFICES ASSUME NEW x
             PROVE  /\ Matches(x, ")") <=> x = "l_paren"
                    /\ Matches(x, "]") <=> x = "l_square"
                    /\ Matches(x, "}") <=> x = "l_brace"
                    /\ Matches(x, "#endif") <=> x = "hash"
  OBVIOUS
<1>3. Matches(x, ")") <=> x = "l_paren"
  BY <1>1, <1>2, Zenon DEF Matches
<1>4. Matches(x, "]") <=> x = "l_square"
  BY <1>1, <1>2, Zenon DEF Matches
<1>5. Matches(x, "}") <=> x = "l_brace"
  BY <1>1, <1>2, Zenon DEF Matches
<1>6. Matches(x, "#endif") <=> x = "hash"
  BY <1>1, <1>2, Zenon DEF Matches
<1> QED
  BY <1>3, <1>4, <1>5, <1>6

\* The kind of the last token that is no space, the one being handled included.
LastTok == IF tok = "space" THEN last_not_space_tok ELSE tok

\* The verdict's invariant: the stack and the last token agree with the reference while the
\* validator reads on, and when it stops there is a mismatch or all has been read.
Agreed == Loop /\ Tame => Follows(p_curr_pos - 1, m_parent_stack, LastTok)
Ended ==
    pc = "loop" /\ ~ Loop /\ Tame =>
        IF res = "mismatch"
        THEN Mismatched /\ (Continued => \E i \in 1..Len(input) : Continues(i))
        ELSE /\ Follows(Len(input), m_parent_stack, last_not_space_tok)
             /\ BlockOpen <=> OnTop(m_parent_stack)
Early == pc # "done" => res # "incomplete"

\* What is to be shown of a token so that the invariant is kept.
Shows(kind, next, stack, result) ==
    IF result = "mismatch"
    THEN /\ Mismatched
         /\ LastTok \in {"comma", "backslash"} => \E i \in 1..Len(input) : Continues(i)
    ELSE IF kind = "eof"
    THEN Follows(Len(input), stack, LastTok) /\ (BlockOpen <=> OnTop(stack))
    ELSE Follows(next - 1, stack, IF kind = "space" THEN LastTok ELSE kind)

LEMMA TokenFollows ==
    ASSUME Loop, NEW kind, NEW next, NEW stack, NEW result,
           Round(kind, next, stack, result), Tame => Shows(kind, next, stack, result)
    PROVE  Agreed' /\ Ended'
<1>1. /\ tok' = kind /\ p_curr_pos' = next /\ m_parent_stack' = stack /\ res' = result
      /\ input' = input /\ pc' = "loop" /\ last_not_space_tok' = LastTok
  BY DEF Round, Loop, LastTok
<1>2. LastTok' = IF kind = "space" THEN LastTok ELSE kind
  BY <1>1 DEF LastTok
<1>3. /\ Tame' = Tame /\ Mismatched' = Mismatched /\ BlockOpen' = BlockOpen
      /\ (\E i \in 1..Len(input) : Continues(i))' = (\E i \in 1..Len(input) : Continues(i))
      /\ \A n, s, w : Follows(n, s, w)' = Follows(n, s, w)
  BY <1>1, SameMeaning
<1>4. OnTop(m_parent_stack)' = OnTop(stack)
  BY <1>1 DEF OnTop
<1>5. Continued' <=> LastTok \in {"comma", "backslash"}
  BY <1>1 DEF Continued
<1>6. ASSUME Loop', Tame' PROVE Follows(p_curr_pos - 1, m_parent_stack, LastTok)'
  <2>1. kind # "eof" /\ result # "mismatch"
    BY <1>1, <1>6 DEF Loop
  <2>2. Follows(next - 1, stack, IF kind = "space" THEN LastTok ELSE kind)
    BY <1>3, <1>6, <2>1 DEF Shows
  <2> DEFINE w == IF kind = "space" THEN LastTok ELSE kind
  <2>3. Follows(next - 1, stack, w) /\ LastTok' = w
    BY <1>2, <2>2
  <2> HIDE DEF w
  <2> QED
    BY <1>1, <1>3, <2>3
<1>7. ASSUME pc' = "loop", ~ Loop', Tame'
      PROVE  IF res' = "mismatch"
             THEN /\ Mismatched'
                  /\ Continued' => (\E i \in 1..Len(input) : Continues(i))'
             ELSE /\ Follows(Len(input), m_parent_stack, last_not_space_tok)'
                  /\ BlockOpen' <=> OnTop(m_parent_stack)'
  <2>1. CASE result = "mismatch"
    BY <1>1, <1>3, <1>5, <1>7, <2>1 DEF Shows
  <2>2. CASE result # "mismatch"
    <3>1. kind = "eof"
      BY <1>1, <1>7, <2>2 DEF Loop
    <3>2. Follows(Len(input), stack, LastTok) /\ (BlockOpen <=> OnTop(stack))
      BY <1>3, <1>7, <2>2, <3>1 DEF Shows
    <3> QED
      BY <1>1, <1>3, <1>4, <2>2, <3>2
  <2> QED
    BY <2>1, <2>2
<1> QED
  BY <1>6, <1>7 DEF Agreed, Ended


\* The code begins with nothing open but the template, if it is one.
LEMMA TemplateFollows ==
    ASSUME TypeOK, Within, Early, Template
    PROVE  Agreed' /\ Ended' /\ Early'
<1> DEFINE start == SkipAll(1, {"space"})
           stack == m_parent_stack'
           word == SkipAll(start, Words)
<1>1. input \in Seq(AllSymbols) /\ Len(input) \in Nat
  BY DEF TypeOK
<1>2. start \in 1..(Len(input) + 1) /\ \A r \in 1..(start - 1) : At(r) = "space"
  <2>1. "space" \in AllSymbols
    BY DEF AllSymbols
  <2>2. 1 \in 1..(Len(input) + 1)
    BY <1>1
  <2> QED
    BY <1>1, <2>1, <2>2, LinesEnd
<1>3. /\ p_curr_pos' = start /\ input' = input /\ UNCHANGED <<tok, last_not_space_tok, res>>
      /\ stack = IF At(start) = "template" /\ Lex(start).length = 1
                 THEN <<"less">> ELSE << >>
      /\ pc = "template" /\ pc' \in {"loop", "undefined"}
      /\ tok = "unknown" /\ res = "complete"
  BY DEF Template, Within
<1>4. BeginsTemplate <=> At(start) = "template" /\ At(start + 1) \notin Words
  BY DEF BeginsTemplate
<1> HIDE DEF start
<1>5. At(start) = "template" => (Lex(start).length = 1 <=> At(start + 1) \notin Words)
  <2> SUFFICES ASSUME At(start) = "template"
               PROVE  Lex(start).length = 1 <=> At(start + 1) \notin Words
    OBVIOUS
  <2>1. Lex(start) = Token("ident", word - start, word)
    BY DEF Lex, Quotes, Words
  <2>2. Lex(start).length = word - start
    BY <2>1 DEF Token
  <2>3. At(start) \in Words /\ "eof" \notin Words
    BY DEF Words
  <2>4. /\ word \in start..(Len(input) + 1) /\ At(word) \notin Words
        /\ \A r \in start..(word - 1) : At(r) \in Words
    BY <1>1, <1>2, <2>3, SkipAllIs
  <2> HIDE DEF word
  <2>5. word # start
    BY <2>3, <2>4
  <2>6. word = start + 1 \/ start + 1 \in start..(word - 1)
    BY <1>1, <1>2, <2>4, <2>5
  <2>7. word - start = 1 <=> word = start + 1
    BY <1>1, <1>2, <2>4
  <2> QED
    BY <1>1, <1>2, <2>2, <2>4, <2>6, <2>7
<1> HIDE DEF stack
<1>6. stack = IF BeginsTemplate THEN <<"less">> ELSE << >>
  BY <1>3, <1>4, <1>5
<1>7. /\ stack \in Seq(OpenKinds) /\ Nowhere(stack)
      /\ Less(stack) = 1 <=> BeginsTemplate
      /\ Len(stack) = Less(stack)
  <2>1. "less" \in OpenKinds
    BY DEF OpenKinds
  <2>2. CASE BeginsTemplate
    <3>1. stack = <<"less">>
      BY <1>6, <2>2
    <3>2. stack \in Seq(OpenKinds) /\ Len(stack) = 1 /\ stack[1] = "less" /\ stack # << >>
      BY <2>1, <3>1
    <3> QED
      BY <2>2, <3>2 DEF Nowhere, Less
  <2>3. CASE ~ BeginsTemplate
    BY <1>6, <2>3 DEF Nowhere, Less
  <2> QED
    BY <2>2, <2>3
<1>8. Base(stack) = stack /\ ~ OnTop(stack)
  BY <1>7, BaseIs, StacksAre
<1>9. Agrees(0, stack) /\ Templated(0, stack)
  <2>1. Depth(0) = 0
    BY DepthsAre
  <2>2. 1..0 = {} /\ 0..0 = {0}
    OBVIOUS
  <2>3. Len(stack) = Less(stack) + Depth(0)
    BY <1>7, <2>1 DEF Less
  <2> QED
    BY <1>7, <2>1, <2>2, <2>3 DEF Agrees, Templated
<1>10. /\ \A r \in 1..(start - 1) : Plain(r) /\ r \in 1..Len(input)
       /\ start - 1 \in Nat /\ start - 1 <= Len(input)
  <2>1. "space" \notin Marks
    BY DEF Marks, Brackets
  <2> QED
    BY <1>1, <1>2, <2>1 DEF Plain
<1>11. Stacked(start - 1, stack)
  <2> DEFINE n == start - 1
  <2>1. PICK p \in Nat \ {0} : p = 1 /\ p - 1 = 0
    OBVIOUS
  <2>2. /\ n \in Nat /\ p <= n + 1 /\ n <= Len(input)
        /\ \A r \in p..n : Delimiter(r) = "none" /\ ~ EndsTemplate(r)
    BY <1>1, <1>10, <2>1, PlainSymbols
  <2>4. Stacked(p - 1, stack)
    BY <1>8, <1>9, <2>1 DEF Stacked
  <2> HIDE DEF n
  <2>3. Stacked(n, stack)
    BY <1>1, <2>2, <2>4, QuietStacked
  <2> QED
    BY <2>3 DEF n
<1>12. Comma(start - 1, "unknown")
  <2>1. \A r \in 1..(start - 1) : ~ Continues(r)
    BY <1>1, <1>10, PlainSymbols
  <2> QED
    BY <2>1 DEF Comma
<1>13. Follows(start - 1, stack, "unknown")
  BY <1>11, <1>12 DEF Follows
<1>14. \A n, s, w : Follows(n, s, w)' = Follows(n, s, w)
  BY <1>3, SameMeaning
<1>15. LastTok' = "unknown"
  BY <1>3 DEF LastTok
<1>16. Follows(p_curr_pos - 1, m_parent_stack, LastTok)'
  BY <1>3, <1>13, <1>14, <1>15 DEF stack
<1>17. pc' = "loop" => Loop'
  BY <1>3 DEF Loop
<1> QED
  BY <1>3, <1>16, <1>17 DEF Agreed, Ended, Early

\* What Finish answers when the input has been read, or a mismatch found.
LEMMA FinishRight ==
    ASSUME TypeOK, Early, Ended, Finish
    PROVE  VerdictRight' /\ IndentRight'
<1> DEFINE L == Len(input)
           spaces == SkipAll(1, {"space"})
<1>1. /\ input' = input /\ UNCHANGED <<m_parent_stack, last_not_space_tok>>
      /\ res' = IF Continued \/ (m_parent_stack # << >> /\ res # "mismatch")
                THEN "incomplete" ELSE res
      /\ m_indent' = spaces - 1 + Len(m_parent_stack) * CharsPerLevel
      /\ pc = "loop" /\ ~ Loop
  BY DEF Finish
<1>2. /\ Tame' = Tame /\ Mismatched' = Mismatched /\ BlockOpen' = BlockOpen
      /\ Nested' = Nested /\ EndsContinued' = EndsContinued
      /\ (\E i \in 1..Len(input) : Continues(i))' = (\E i \in 1..Len(input) : Continues(i))
  BY <1>1, SameMeaning
<1>3. Continued' = Continued /\ SkipAll(1, {"space"})' = spaces
  BY <1>1 DEF Continued, SkipAll, At
<1>4. res \in {"complete", "mismatch"}
  BY <1>1 DEF TypeOK, Early
<1>5. input \in Seq(AllSymbols) /\ L \in Nat /\ m_parent_stack \in Seq(OpenKinds)
      /\ Len(m_parent_stack) \in Nat
  BY DEF TypeOK
<1>6. ASSUME Tame, res = "mismatch"
      PROVE  Mismatched /\ (Continued => \E i \in 1..Len(input) : Continues(i))
  BY <1>1, <1>6 DEF Ended
<1>7. ASSUME Tame, res # "mismatch"
      PROVE  /\ ~ Mismatched /\ Len(m_parent_stack) = Nested
             /\ BlockOpen \/ (Continued <=> EndsContinued)
             /\ BlockOpen => m_parent_stack # << >>
             /\ EndsContinued => \E i \in 1..Len(input) : Continues(i)
  <2> DEFINE s == Base(m_parent_stack)
  <2>1. Follows(L, m_parent_stack, last_not_space_tok) /\ (BlockOpen <=> OnTop(m_parent_stack))
    BY <1>1, <1>7 DEF Ended
  <2>2. /\ Agrees(L, s) /\ Templated(L, s)
        /\ OnTop(m_parent_stack) \/ Comma(L, last_not_space_tok)
    BY <2>1 DEF Follows, Stacked
  <2>3. ~ Mismatched
    BY <2>2 DEF Agrees, Mismatched
  <2>4. Len(s) = Less(s) + Depth(L) /\ Depth(L) \in Int
    BY <1>5, <2>2, DepthsAre DEF Agrees
  <2>5. Less(s) = IF TemplateOpen THEN 1 ELSE 0
    BY <2>2 DEF Templated, TemplateOpen, Less
  <2>6. Len(m_parent_stack) = Len(s) + (IF BlockOpen THEN 1 ELSE 0)
    <3>1. CASE OnTop(m_parent_stack)
      <4>1. m_parent_stack # << >> /\ s = Front(m_parent_stack)
        BY <3>1 DEF OnTop, Base
      <4>2. Len(s) = Len(m_parent_stack) - 1
        BY <1>5, <4>1, FrontIs
      <4> QED
        BY <1>5, <2>1, <3>1, <4>2
    <3>2. CASE ~ OnTop(m_parent_stack)
      BY <1>5, <2>1, <3>2 DEF Base
    <3> QED
      BY <3>1, <3>2
  <2> HIDE DEF s
  <2>7. Nested = Depth(L) + (IF TemplateOpen THEN 1 ELSE 0) + (IF BlockOpen THEN 1 ELSE 0)
    BY DEF Nested
  <2>8. Len(m_parent_stack) = Nested
    BY <2>4, <2>5, <2>6, <2>7
  <2>9. BlockOpen \/ (Continued <=> EndsContinued)
    BY <2>1, <2>2 DEF Comma, Continued, EndsContinued
  <2>10. BlockOpen => m_parent_stack # << >>
    BY <2>1 DEF OnTop
  <2> QED
    BY <2>3, <2>8, <2>9, <2>10 DEF EndsContinued
<1>8. m_parent_stack = << >> <=> Len(m_parent_stack) = 0
  BY <1>5
<1>9. VerdictRight'
  <2> SUFFICES ASSUME Tame
               PROVE  /\ res' = "complete" <=> ~ Mismatched /\ Nested = 0 /\ ~ EndsContinued
                      /\ res' = "mismatch" => Mismatched
                      /\ Mismatched => res' = "mismatch" \/ Continued
                      /\ Continued => BlockOpen \/ \E i \in 1..Len(input) : Continues(i)
    BY <1>2, <1>3 DEF VerdictRight
  <2>1. CASE res = "mismatch"
    BY <1>1, <1>6, <2>1
  <2>2. CASE res # "mismatch"
    BY <1>1, <1>4, <1>7, <1>8, <2>2
  <2> QED
    BY <2>1, <2>2
<1>10. IndentRight'
  <2> SUFFICES ASSUME Tame, ~ Mismatched
               PROVE  m_indent' = spaces - 1 + Nested * CharsPerLevel
    BY <1>2, <1>3 DEF IndentRight
  <2>1. res # "mismatch"
    BY <1>6
  <2> QED
    BY <1>1, <1>7, <2>1
<1> QED
  BY <1>9, <1>10


\* The marks that are delimiters, but for the hash, and the semicolon.
Stops == Brackets \cup {";"}

\* A token that is neither a space nor a directive is not blank.
LEMMA NotBlank ==
    ASSUME NEW p, NEW kind, NEW next, Lexed(p, kind, next), kind \notin {"space", "hash"}
    PROVE  ~ Blank(p)
<1>1. At(p) # "space" /\ At(p) # "#"
  BY MarkIs, Zenon
<1> QED
  BY <1>1 DEF Blank

\* Every step keeps it.
LEMMA NextFollows ==
    ASSUME TypeOK, Within, BlockLast, Aligned, Agreed, Early, Next, pc' # "done"
    PROVE  Agreed' /\ Ended'
<1> DEFINE kind == Current.kind
           next == Current.next
           open == m_parent_stack
           p == p_curr_pos
           w == LastTok
           Goal == Agreed' /\ Ended'
<1>1. Loop => /\ input \in Seq(AllSymbols) /\ Len(input) \in Nat /\ p \in 1..(Len(input) + 1)
              /\ Lexed(p, kind, next)
  BY CurrentIs
<1>2. open \in Seq(OpenKinds) /\ NotBelow(open) /\ OnTop(open) \in BOOLEAN
  BY DEF TypeOK, BlockLast, OnTop
<1>3. OnTop(open) <=> in_block_comment
  BY DEF OnTop, in_block_comment
<1>4. Loop /\ Tame => InStep(p, OnTop(open))
  BY <1>3 DEF Aligned, OnTop, in_block_comment
<1>5. Loop /\ Tame => Stacked(p - 1, open) /\ (OnTop(open) \/ Comma(p - 1, w))
  BY DEF Agreed, Follows
<1>6. ~ OnTop(open) => Nowhere(open) /\ Base(open) = open
  BY <1>2, StacksAre, BaseIs
<1>7. Loop => p \in Nat \ {0} /\ p - 1 \in Nat /\ p \in Nat
  BY <1>1
<1> HIDE DEF kind, next, open, p, w
<1>9. ASSUME Loop, NEW k, NEW n, NEW s, NEW r, Round(k, n, s, r), Tame => Shows(k, n, s, r)
      PROVE  Goal
  BY <1>9, TokenFollows
<1> HIDE DEF Goal
<1> SUFFICES Goal
  BY DEF Goal
\* When the code has been read.
<1>10. ASSUME Loop, Tame, kind = "eof", res # "mismatch" PROVE Shows("eof", next, open, res)
  <2>1. At(p) = "eof" /\ p = Len(input) + 1 /\ p - 1 = Len(input)
    <3>1. At(p) = "eof"
      BY <1>1, <1>10, MarkIs
    <3>2. ~ (p \in 1..Len(input))
      <4>1. "eof" \notin AllSymbols
        BY DEF AllSymbols, Brackets, Words, Quotes
      <4> QED
        BY <1>1, <1>7, <1>10, <3>1, <4>1, AtIs
    <3> QED
      BY <1>1, <1>10, <3>1, <3>2
  <2>2. BlockOpen <=> OnTop(open)
    <3>1. InStep(p, OnTop(open))
      BY <1>4, <1>10
    <3> QED
      BY <1>2, <2>1, <3>1 DEF InStep, BlockOpen
  <2>3. Follows(Len(input), open, w)
    BY <1>5, <1>10, <2>1 DEF Follows
  <2> QED
    BY <1>10, <2>2, <2>3 DEF Shows, w
\* A token that leaves what is open as it is.
<1>11. ASSUME Loop, Tame, NEW n, NEW k, n - 1 \in p..Len(input),
              \A r \in p..(n - 1) : Plain(r), NEW s, Base(s) = Base(open),
              k # "eof", res # "mismatch",
              OnTop(s) \/ Comma(n - 1, IF k = "space" THEN w ELSE k)
       PROVE  Shows(k, n, s, res)
  <2> DEFINE m == n - 1
  <2>1. m \in Nat /\ p <= m + 1 /\ m <= Len(input)
    BY <1>1, <1>7, <1>11
  <2>2. Stacked(p - 1, open)
    BY <1>5, <1>11
  <2>3. ASSUME NEW r \in p..m PROVE Delimiter(r) = "none" /\ ~ EndsTemplate(r)
    <3>1. r \in 1..Len(input)
      BY <1>1, <1>7, <1>11
    <3> QED
      BY <1>1, <1>11, <3>1, PlainSymbols
  <2> HIDE DEF m
  <2>4. Stacked(m, s)
    BY <1>1, <1>7, <1>11, <2>1, <2>2, <2>3, QuietStacked
  <2> QED
    BY <1>11, <2>4 DEF Shows, Follows, m, w
\* ... and that does not continue the input.
<1>12. ASSUME Loop, NEW n, NEW k, n - 1 \in p..Len(input),
              \A r \in p..(n - 1) : Plain(r), k \notin {"comma", "backslash"},
              ~ Blank(p)
       PROVE  Comma(n - 1, k)
  <2> DEFINE m == n - 1
  <2>1. m \in Nat /\ p <= m
    BY <1>1, <1>7, <1>12
  <2>2. ASSUME NEW r \in p..m PROVE ~ Continues(r)
    <3>1. r \in 1..Len(input)
      BY <1>1, <1>7, <1>12
    <3> QED
      BY <1>1, <1>12, <3>1, PlainSymbols
  <2> HIDE DEF m
  <2>3. Comma(m, k)
    BY <1>7, <1>12, <2>1, <2>2, CommaOther
  <2> QED
    BY <2>3 DEF m
<1>13. CASE Template
  BY <1>13, TemplateFollows DEF Goal
<1>14. CASE ReadPastEnd
  <2>1. pc' = "undefined"
    BY <1>14 DEF ReadPastEnd
  <2> QED
    BY <2>1 DEF Goal, Agreed, Ended, Loop
<1>15. CASE Finish
  BY <1>15 DEF Finish
<1>16. CASE InComment
  <2>1. /\ Loop /\ next # Overrun /\ OnTop(open) /\ kind # "r_comment" /\ res # "mismatch"
        /\ Round(kind, next, open, res)
    BY <1>3, <1>16 DEF InComment, Loop, kind, next, open
  <2>2. ASSUME Tame PROVE Shows(kind, next, open, res)
    <3>1. CASE kind = "eof"
      BY <1>10, <2>1, <2>2, <3>1
    <3>2. CASE kind # "eof"
      <4>1. InStep(p, TRUE)
        BY <1>2, <1>4, <2>1, <2>2
      <4>2. next - 1 \in p..Len(input) /\ \A r \in p..(next - 1) : Plain(r)
        BY <1>1, <2>1, <2>2, <3>2, <4>1, TokenPlain
      <4> QED
        BY <1>11, <2>1, <2>2, <3>2, <4>2
    <3> QED
      BY <3>1, <3>2
  <2> QED
    BY <1>9, <2>1, <2>2
<1>17. ASSUME Loop, Tame, ~ OnTop(open)
       PROVE  /\ InStep(p, FALSE) /\ Nowhere(open) /\ Base(open) = open
              /\ Stacked(p - 1, open) /\ Comma(p - 1, w)
  BY <1>2, <1>4, <1>5, <1>6, <1>17
<1>18. CASE LineComment
  <2>1. /\ Loop /\ ~ OnTop(open) /\ kind = "comment" /\ res # "mismatch"
        /\ Round("unknown", EndOfLine(next), open, res)
    BY <1>3, <1>18 DEF LineComment, Counts, Loop, kind, next, open
  <2>2. ASSUME Tame PROVE Shows("unknown", EndOfLine(next), open, res)
    <3> DEFINE n == EndOfLine(next)
    <3>1. n - 1 \in p..Len(input) /\ \A r \in p..(n - 1) : Plain(r)
      BY <1>1, <1>17, <2>1, <2>2, LinePlain
    <3>2. ~ Blank(p)
      BY <1>1, <2>1, NotBlank
    <3> HIDE DEF n
    <3>3. Comma(n - 1, "unknown")
      BY <1>12, <2>1, <3>1, <3>2
    <3>4. Shows("unknown", n, open, res)
      BY <1>11, <2>1, <2>2, <3>1, <3>3
    <3> QED
      BY <3>4 DEF n
  <2> QED
    BY <1>9, <2>1, <2>2
<1>19. CASE RightComment
  <2>1. /\ Loop /\ kind = "r_comment" /\ res # "mismatch"
        /\ IF OnTop(open) THEN Round("r_comment", next, Front(open), res)
                          ELSE Round("r_comment", next, open, "mismatch")
    BY <1>3, <1>19 DEF RightComment, Loop, kind, next, open
  <2>2. At(p) = "*" /\ At(p + 1) = "/" /\ next = p + 1
    BY <1>1, <2>1 DEF Lexed, PunctuatorKinds
  <2>3. CASE OnTop(open)
    <3>1. ASSUME Tame PROVE Shows("r_comment", next, Front(open), res)
      <4>1. InStep(p, TRUE) /\ next # Overrun
        <5>1. InStep(p, TRUE)
          BY <1>2, <1>4, <2>1, <2>3, <3>1
        <5>2. next = p + 1 /\ p \in Nat
          BY <1>7, <2>1, <2>2, Zenon
        <5>3. next # Overrun
          BY <5>2 DEF Overrun
        <5> QED
          BY <5>1, <5>3
      <4>2. next - 1 \in p..Len(input) /\ \A r \in p..(next - 1) : Plain(r)
        BY <1>1, <2>1, <3>1, <4>1, TokenPlain
      <4>3. open # << >> /\ Base(open) = Front(open)
        BY <2>3 DEF OnTop, Base
      <4>4. Nowhere(Front(open)) /\ Front(open) \in Seq(OpenKinds)
        BY <1>2, <4>3, StacksAre, FrontIs
      <4>5. Base(Front(open)) = Base(open)
        BY <4>3, <4>4, BaseIs
      <4>6. ~ Blank(p)
        BY <1>1, <2>1, NotBlank
      <4>7. Comma(next - 1, "r_comment")
        BY <1>12, <2>1, <4>2, <4>6
      <4> HIDE DEF Goal
      <4> QED
        BY <1>11, <2>1, <3>1, <4>2, <4>5, <4>7
    <3> QED
      BY <1>9, <2>1, <2>3, <3>1
  <2>4. CASE ~ OnTop(open)
    <3>1. ~ Tame
      <4> SUFFICES ASSUME Tame PROVE FALSE
        OBVIOUS
      <4>1. InStep(p, FALSE)
        BY <1>17, <2>1, <2>4
      <4>2. Mode[p] = "code"
        BY <1>1, <2>1, <2>2, <4>1, CodeAt
      <4> QED
        BY <1>1, <1>7, <2>1, <2>2, <4>2, TameAt
    <3> QED
      BY <1>9, <2>1, <2>4, <3>1
  <2> QED
    BY <2>3, <2>4
\* A mark of the code.
<1>20. ASSUME Loop, Tame, ~ OnTop(open), At(p) \in Marks
       PROVE  /\ p \in 1..Len(input)
              /\ At(p) \in Brackets => Delimiter(p) = At(p)
              /\ At(p) \in {";", ",", "\\"} => Delimiter(p) = "none"
              /\ At(p) = "#" =>
                    Delimiter(p) = CASE At(NextWord(p)) = "if"    -> "#if"
                                     [] At(NextWord(p)) = "endif" -> "#endif"
                                     [] OTHER                     -> "none"
              /\ EndsTemplate(p) <=> At(p) \in {";", "}"} /\ Depth(p) = 0
              /\ Continues(p) <=> At(p) \in {",", "\\"}
              /\ At(p) # "#" => ~ Blank(p)
  <2>1. InStep(p, FALSE)
    BY <1>17, <1>20
  <2> QED
    BY <1>1, <1>20, <2>1, CodeSymbols
<1>21. ASSUME Loop, Tame, ~ OnTop(open), At(p) \in Stops,
              NEW k, k \notin {"comma", "backslash", "space", "eof"},
              NEW s, Stacked(p, s), res # "mismatch"
       PROVE  Shows(k, p + 1, s, res)
  <2>1. At(p) \in Marks /\ At(p) # "#" /\ At(p) \notin {",", "\\"}
    BY <1>21 DEF Stops, Marks, Brackets
  <2>2. ~ Blank(p) /\ ~ Continues(p)
    BY <1>20, <1>21, <2>1, Zenon
  <2>3. (p + 1) - 1 = p /\ p <= p /\ \A r \in p..p : r = p
    BY <1>7, <1>21
  <2>4. Comma(p, k)
    BY <1>7, <1>21, <2>2, <2>3, CommaOther
  <2>5. Follows((p + 1) - 1, s, k)
    BY <1>21, <2>3, <2>4 DEF Follows
  <2>6. k # "space" /\ k # "eof"
    BY <1>21
  <2> DEFINE n == p + 1
             v == IF k = "space" THEN LastTok ELSE k
  <2>7. Follows(n - 1, s, v)
    <3>1. v = k
      BY <2>6
    <3> HIDE DEF v
    <3> QED
      BY <2>5, <3>1, Zenon
  <2> HIDE DEF n
  <2>8. Shows(k, n, s, res)
    BY <1>21, <2>6, <2>7 DEF Shows
  <2> QED
    BY <2>8 DEF n
<1>22. ASSUME Loop, Tame, ~ OnTop(open), p \in 1..Len(input), Delimiter(p) \in Closing,
              ~ Fits(p), NEW k, NEW n, NEW s
       PROVE  Shows(k, n, s, "mismatch")
  <2>1. Mismatched
    BY <1>22 DEF Mismatched
  <2>2. ASSUME w \in {"comma", "backslash"} PROVE \E i \in 1..Len(input) : Continues(i)
    <3>1. \E i \in 1..(p - 1) : Continues(i)
      BY <1>17, <1>22, <2>2 DEF Comma
    <3>2. 1..(p - 1) \subseteq 1..Len(input)
      BY <1>1, <1>22
    <3> QED
      BY <3>1, <3>2
  <2> QED
    BY <2>1, <2>2 DEF Shows, w
<1>23. CASE Open
  <2>1. /\ Loop /\ ~ OnTop(open) /\ next # Overrun /\ res # "mismatch"
        /\ kind \in {"l_square", "l_paren", "l_brace", "l_comment"}
        /\ Round(kind, next, Append(open, kind), res)
    BY <1>3, <1>23 DEF Open, Counts, Loop, kind, next, open
  <2>2. CASE kind = "l_comment"
    <3>1. ASSUME Tame PROVE Shows(kind, next, Append(open, kind), res)
      <4>1. At(p) \notin Marks /\ InStep(p, FALSE) /\ Nowhere(open) /\ Base(open) = open
        BY <1>1, <1>17, <2>1, <2>2, <3>1, MarkIs DEF PunctuatorKinds
      <4>2. next - 1 \in p..Len(input) /\ \A r \in p..(next - 1) : Plain(r)
        BY <1>1, <2>1, <2>2, <3>1, <4>1, TokenPlain
      <4>3. "l_comment" \in OpenKinds
        BY DEF OpenKinds
      <4>4. Base(Append(open, kind)) = Base(open) /\ OnTop(Append(open, kind))
        BY <1>2, <2>2, <4>1, <4>3, BaseIs, StacksAre
      <4> QED
        BY <1>11, <2>1, <2>2, <3>1, <4>2, <4>4
    <3> QED
      BY <1>9, <2>1, <3>1
  <2>3. CASE kind # "l_comment"
    <3>1. ASSUME Tame PROVE Shows(kind, next, Append(open, kind), res)
      <4>1. /\ kind = "l_paren" => At(p) = "("
            /\ kind = "l_square" => At(p) = "["
            /\ kind = "l_brace" => At(p) = "{"
            /\ At(p) \in Marks /\ next = p + 1
        <5>1. kind \in PunctuatorKinds \ {"slash", "asterik"}
          BY <2>1, <2>3 DEF PunctuatorKinds
        <5> QED
          BY <1>1, <2>1, <5>1, MarkIs, Zenon
      <4>2. /\ At(p) \in Opening /\ At(p) \in Brackets /\ At(p) \in Stops
            /\ At(p) \notin {";", "}"} /\ kind = OpenKind(At(p))
        <5>1. CASE kind = "l_paren"
          BY <4>1, <5>1, DelimitersAre DEF Brackets, Stops, OpenKind
        <5>2. CASE kind = "l_square"
          BY <4>1, <5>2, DelimitersAre DEF Brackets, Stops, OpenKind
        <5>3. CASE kind = "l_brace"
          BY <4>1, <5>3, DelimitersAre DEF Brackets, Stops, OpenKind
        <5> QED
          BY <2>1, <2>3, <5>1, <5>2, <5>3, Zenon
      <4>3. Delimiter(p) = At(p) /\ Delimiter(p) \in Opening /\ ~ EndsTemplate(p)
        BY <1>20, <2>1, <3>1, <4>1, <4>2, Zenon
      <4>4. Nowhere(open) /\ Stacked(p - 1, open)
        BY <1>17, <2>1, <3>1
      <4>5. Stacked(p, Append(open, OpenKind(Delimiter(p))))
        BY <1>2, <1>7, <2>1, <4>3, <4>4, OpensStacked
      <4>6. Stacked(p, Append(open, kind)) /\ At(p) \in Stops
        BY <4>2, <4>3, <4>5, Zenon
      <4>7. next = p + 1
        BY <4>1, Zenon
      <4>8. kind \notin {"comma", "backslash", "space", "eof"}
        BY <2>1
      <4> QED
        BY <1>21, <2>1, <3>1, <4>6, <4>7, <4>8
    <3> QED
      BY <1>9, <2>1, <3>1
  <2> QED
    BY <2>2, <2>3
<1>24. CASE Close
  <2> DEFINE rest == Front(open)
             closes == <<Last(open), kind>> \in {<<"l_square", "r_square">>,
                                                 <<"l_paren", "r_paren">>,
                                                 <<"l_brace", "r_brace">>}
  <2>1. /\ Loop /\ ~ OnTop(open) /\ next # Overrun /\ res # "mismatch"
        /\ kind \in {"r_square", "r_paren", "r_brace"}
        /\ IF ~ (open # << >> /\ closes)
           THEN Round(kind, next, open, "mismatch")
           ELSE Round(kind, next,
                      IF kind = "r_brace" /\ in_template(rest) THEN << >> ELSE rest, res)
    BY <1>3, <1>24 DEF Close, Counts, closes_brace, Loop, kind, next, open
  <2>2. /\ At(p) \in {")", "]", "}"} /\ At(p) \in Marks /\ next = p + 1
        /\ kind = "r_brace" <=> At(p) = "}"
        /\ closes <=> Matches(Last(open), At(p))
    <3>1. /\ kind = "r_square" => At(p) = "]"
          /\ kind = "r_paren" => At(p) = ")"
          /\ kind = "r_brace" => At(p) = "}"
          /\ At(p) \in Marks /\ next = p + 1
      BY <1>1, <2>1, MarkIs DEF PunctuatorKinds
    <3>2. closes <=> \/ Last(open) = "l_square" /\ kind = "r_square"
                     \/ Last(open) = "l_paren" /\ kind = "r_paren"
                     \/ Last(open) = "l_brace" /\ kind = "r_brace"
      OBVIOUS
    <3> HIDE DEF closes
    <3> QED
      BY <2>1, <3>1, <3>2, MatchesIs
  <2>3. ASSUME Tame
        PROVE  /\ Delimiter(p) = At(p) /\ Delimiter(p) \in Closing /\ p \in 1..Len(input)
               /\ EndsTemplate(p) <=> kind = "r_brace" /\ Depth(p) = 0
               /\ Fits(p) <=> open # << >> /\ closes
               /\ Fits(p) => /\ in_template(rest) => Depth(p) = 0
                             /\ Stacked(p, IF EndsTemplate(p) /\ in_template(rest)
                                           THEN << >> ELSE rest)
    <3>1. /\ Delimiter(p) = At(p) /\ p \in 1..Len(input)
          /\ EndsTemplate(p) <=> At(p) \in {";", "}"} /\ Depth(p) = 0
      BY <1>20, <2>1, <2>2, <2>3 DEF Brackets
    <3>2. Delimiter(p) \in Closing
      BY <2>2, <3>1, DelimitersAre
    <3>3. Nowhere(open) /\ Stacked(p - 1, open)
      BY <1>17, <2>1, <2>3
    <3> HIDE DEF closes
    <3>4. /\ Fits(p) <=> open # << >> /\ Matches(Last(open), Delimiter(p))
          /\ Fits(p) => /\ in_template(rest) => Depth(p) = 0
                        /\ Stacked(p, IF EndsTemplate(p) /\ in_template(rest)
                                      THEN << >> ELSE rest)
      BY <1>2, <1>7, <2>1, <3>2, <3>3, ClosesStacked
    <3>5. EndsTemplate(p) <=> kind = "r_brace" /\ Depth(p) = 0
      BY <2>2, <3>1
    <3> QED
      BY <2>2, <3>1, <3>2, <3>4, <3>5
  <2> HIDE DEF closes, rest
  <2>4. CASE ~ (open # << >> /\ closes)
    <3>1. Tame => Shows(kind, next, open, "mismatch")
      BY <1>22, <2>1, <2>3, <2>4
    <3> QED
      BY <1>9, <2>1, <2>4, <3>1
  <2>5. CASE open # << >> /\ closes
    <3> DEFINE s == IF kind = "r_brace" /\ in_template(rest) THEN << >> ELSE rest
    <3>1. ASSUME Tame PROVE Shows(kind, next, s, res)
      <4>1. Stacked(p, s)
        BY <2>3, <2>5, <3>1
      <4>2. kind \notin {"comma", "backslash", "space", "eof"} /\ next = p + 1
        BY <2>1, <2>2, Zenon
      <4>3. At(p) \in Stops
        BY <2>2 DEF Stops, Brackets
      <4> HIDE DEF s
      <4> QED
        BY <1>21, <2>1, <3>1, <4>1, <4>2, <4>3
    <3>2. Round(kind, next, s, res)
      BY <2>1, <2>5
    <3> HIDE DEF s
    <3> QED
      BY <1>9, <2>1, <3>1, <3>2
  <2> QED
    BY <2>4, <2>5
<1>25. CASE Semicolon
  <2> DEFINE s == IF in_template(open) THEN << >> ELSE open
  <2>1. /\ Loop /\ ~ OnTop(open) /\ kind = "semicolon" /\ res # "mismatch"
        /\ Round("semicolon", next, s, res)
    BY <1>3, <1>25 DEF Semicolon, Counts, Loop, kind, next, open
  <2>2. At(p) = ";" /\ At(p) \in Marks /\ next = p + 1
    BY <1>1, <2>1, MarkIs DEF PunctuatorKinds
  <2>3. ASSUME Tame PROVE Shows("semicolon", next, s, res)
    <3>1. Delimiter(p) = "none" /\ (EndsTemplate(p) <=> Depth(p) = 0)
      BY <1>20, <2>1, <2>2, <2>3
    <3>2. Nowhere(open) /\ Stacked(p - 1, open)
      BY <1>17, <2>1, <2>3
    <3>3. Stacked(p, s)
      BY <1>2, <1>7, <2>1, <3>1, <3>2, SemicolonStacked
    <3>4. At(p) \in Stops
      BY <2>2 DEF Stops
    <3> HIDE DEF s
    <3> QED
      BY <1>21, <2>1, <2>2, <2>3, <3>3, <3>4
  <2> HIDE DEF s
  <2> QED
    BY <1>9, <2>1, <2>3
\* A directive: the hash, and what follows it.
<1>26. CASE Hash
  <2> DEFINE start == SkipAll(next, {"space"})
             after == SkipTo(start, {"space"})
             endif == /\ At(start) = "endif"
                      /\ At(start + 1) \in {"space", "newline", "/", "eof"}
             pops == open # << >> /\ Last(open) = "hash"
  <2>1. /\ Loop /\ ~ OnTop(open) /\ kind = "hash" /\ res # "mismatch"
        /\ \/ At(start) = "eof" /\ Round("eof", start, open, res)
           \/ At(start) = "if" /\ Round("raw_ident", after, Append(open, "hash"), res)
           \/ endif /\ pops /\ Round("raw_ident", after, Front(open), res)
           \/ endif /\ ~ pops /\ Round("raw_ident", after, open, "mismatch")
           \/ /\ At(start) # "eof" /\ At(start) # "if" /\ ~ endif
              /\ Round("raw_ident", after, open, res)
    BY <1>3, <1>26 DEF Hash, Counts, Loop, kind, next, open
  <2>2. At(p) = "#" /\ At(p) \in Marks /\ next = p + 1
    <3>1. Lexed(p, kind, next) /\ kind = "hash"
      BY <1>1, <2>1
    <3>2. kind \in PunctuatorKinds \ {"slash", "asterik"}
      BY <3>1 DEF PunctuatorKinds
    <3>3. /\ kind = "hash" => At(p) = "#"
          /\ kind \in PunctuatorKinds \ {"slash", "asterik"}
               => next = p + 1 /\ At(p) \in Marks
      BY <3>1, MarkIs, Zenon
    <3>4. At(p) = "#"
      BY <3>1, <3>3
    <3> QED
      BY <3>2, <3>3, <3>4, Zenon
  <2>3. NextWord(p) = start
    BY <2>2 DEF NextWord
  <2>4. ASSUME Tame
        PROVE  /\ InStep(p, FALSE) /\ Nowhere(open) /\ Base(open) = open
               /\ Stacked(p - 1, open) /\ Comma(p - 1, w)
    BY <1>17, <2>1, <2>4
  <2>5. ASSUME Tame
        PROVE  /\ p \in 1..Len(input) /\ ~ EndsTemplate(p)
               /\ At(start) = "if" => Delimiter(p) = "#if"
               /\ At(start) = "endif" => Delimiter(p) = "#endif"
               /\ At(start) \notin {"if", "endif"} => Delimiter(p) = "none"
    BY <1>20, <2>1, <2>2, <2>3, <2>5
  <2>6. ASSUME Tame, At(start) # "eof"
        PROVE  /\ start \in (p + 1)..Len(input) /\ after = start + 1
               /\ At(start) \in Words /\ At(after) \in {"space", "eof"}
               /\ \A r \in (p + 1)..(start - 1) : At(r) = "space"
    BY <1>1, <2>1, <2>2, <2>4, <2>6, SkipsDirective
  <2> HIDE DEF start, after
  <2>7. ASSUME Tame, At(start) # "eof" PROVE endif <=> At(start) = "endif"
    BY <2>6, <2>7
  <2>8. pops <=> open # << >> /\ Matches(Last(open), "#endif")
    BY MatchesIs
  <2> HIDE DEF endif, pops
  \* What follows the hash leaves what is open as it is, and does not continue the input.
  <2>9. ASSUME Tame, At(start) # "eof", NEW s, Stacked(p, s)
        PROVE  Shows("raw_ident", after, s, res)
    <3>1. /\ p + 1 \in Nat \ {0} /\ (p + 1) - 1 = p /\ start \in Nat \ {0}
          /\ p + 1 <= start + 1 /\ start <= start
      BY <1>7, <2>1, <2>6, <2>9
    <3>2. start <= Len(input) /\ Len(input) \in Nat /\ start \in 1..Len(input)
      BY <1>1, <1>7, <2>1, <2>6, <2>9
    <3>3. ASSUME NEW r \in (p + 1)..start PROVE Plain(r) /\ r \in 1..Len(input)
      <4>1. r \in (p + 1)..(start - 1) \/ r = start
        BY <3>1
      <4>2. At(r) = "space" \/ At(r) \in Words
        BY <2>6, <2>9, <4>1
      <4>3. At(r) \notin Marks
        BY <4>2 DEF Marks, Brackets, Words
      <4>4. r \in 1..Len(input)
        BY <1>7, <2>1, <3>2
      <4> QED
        BY <4>3, <4>4 DEF Plain
    <3>4. ASSUME NEW r \in (p + 1)..start
          PROVE  Delimiter(r) = "none" /\ ~ EndsTemplate(r) /\ ~ Continues(r)
      BY <1>1, <2>1, <3>3, PlainSymbols
    <3>5. Stacked(start, s)
      <4> DEFINE q == p + 1
      <4>1. q \in Nat \ {0} /\ q - 1 = p /\ q <= start + 1
        BY <3>1, Zenon
      <4>2. \A r \in q..start : Delimiter(r) = "none" /\ ~ EndsTemplate(r)
        BY <3>4
      <4>3. Stacked(q - 1, s) /\ start \in Nat
        BY <2>9, <3>1, <4>1
      <4> HIDE DEF q
      <4> QED
        BY <1>1, <2>1, <3>2, <4>1, <4>2, <4>3, QuietStacked
    <3>6. ~ Blank(start)
      BY <2>6, <2>9 DEF Blank, Words
    <3>7. \A r \in start..start : ~ Continues(r)
      <4>1. start \in (p + 1)..start /\ \A r \in start..start : r = start
        BY <1>7, <2>1, <2>6, <2>9
      <4> QED
        BY <3>4, <4>1
    <3>8. Comma(start, "raw_ident")
      BY <3>1, <3>6, <3>7, CommaOther
    <3>9. after - 1 = start
      BY <2>6, <2>9, <3>1
    <3> QED
      BY <2>1, <3>5, <3>8, <3>9 DEF Shows, Follows
  <2>10. CASE At(start) = "eof" /\ Round("eof", start, open, res)
    <3>1. ASSUME Tame PROVE Shows("eof", start, open, res)
      <4>1. /\ start \in (p + 1)..(Len(input) + 1)
            /\ \A r \in (p + 1)..(start - 1) : At(r) = "space"
        <5>1. "space" \in AllSymbols
          BY DEF AllSymbols
        <5>2. p + 1 \in 1..(Len(input) + 1) /\ next = p + 1
          BY <1>1, <2>1, <2>2, <2>5, <3>1
        <5> QED
          BY <1>1, <2>1, <5>1, <5>2, LinesEnd DEF start
      <4>2. start = Len(input) + 1
        <5>1. "eof" \notin AllSymbols
          BY DEF AllSymbols, Brackets, Words, Quotes
        <5>2. ~ (start \in 1..Len(input))
          <6>1. start \in Nat
            BY <1>1, <2>1, <4>1
          <6> QED
            BY <1>1, <2>1, <2>10, <5>1, <6>1, AtIs
        <5> QED
          BY <1>1, <2>1, <4>1, <5>2
      <4>3. ASSUME NEW r \in p..Len(input)
            PROVE  Delimiter(r) = "none" /\ ~ EndsTemplate(r) /\ Blank(r)
        <5>1. CASE r = p
          BY <2>2, <2>3, <2>5, <2>10, <3>1, <4>2, <5>1 DEF Blank
        <5>2. CASE r # p
          <6>1. r \in (p + 1)..(start - 1) /\ r \in 1..Len(input)
            BY <1>1, <1>7, <2>1, <4>2, <5>2
          <6>2. At(r) = "space" /\ Plain(r)
            BY <4>1, <6>1 DEF Plain, Marks, Brackets
          <6> QED
            BY <1>1, <2>1, <6>1, <6>2, PlainSymbols DEF Blank
        <5> QED
          BY <5>1, <5>2
      <4>4. p <= Len(input) + 1 /\ Len(input) <= Len(input) /\ p - 1 <= Len(input)
            /\ p - 1 + 1 = p
        BY <1>1, <2>1
      <4>5. Stacked(Len(input), open)
        BY <1>1, <1>7, <2>1, <2>4, <3>1, <4>3, <4>4, QuietStacked
      <4>6. Comma(Len(input), w)
        <5>1. \A r \in (p - 1 + 1)..Len(input) : Blank(r)
          BY <4>3, <4>4
        <5> QED
          BY <1>1, <1>7, <2>1, <2>4, <3>1, <4>4, <5>1, CommaStays
      <4>7. ~ BlockOpen
        <5>1. At(p) # "eof" /\ At(p) \notin {"quote", "/"}
          BY <2>2
        <5>2. Mode[p] = "code"
          BY <1>1, <2>1, <2>4, <3>1, <5>1, CodeAt
        <5>3. \A r \in (p + 1)..(start - 1) : At(r) \notin {"quote", "/"}
          BY <4>1
        <5>4. Mode[start - 1] = "code"
          BY <1>1, <2>1, <4>1, <5>1, <5>2, <5>3, CodeRun
        <5>5. start - 1 = Len(input)
          BY <1>1, <2>1, <4>2
        <5> QED
          BY <5>4, <5>5 DEF BlockOpen
      <4> QED
        BY <2>1, <4>5, <4>6, <4>7 DEF Shows, Follows, w
    <3> QED
      BY <1>9, <2>1, <2>10, <3>1
  <2>11. CASE At(start) = "if" /\ Round("raw_ident", after, Append(open, "hash"), res)
    <3>1. ASSUME Tame PROVE Shows("raw_ident", after, Append(open, "hash"), res)
      <4>1. Delimiter(p) = "#if" /\ OpenKind(Delimiter(p)) = "hash"
        BY <2>5, <2>11, <3>1 DEF OpenKind
      <4>2. Delimiter(p) \in Opening
        BY <4>1, DelimitersAre
      <4>3. Stacked(p, Append(open, OpenKind(Delimiter(p))))
        BY <1>2, <1>7, <2>1, <2>4, <2>5, <3>1, <4>2, OpensStacked
      <4> QED
        BY <2>9, <2>11, <3>1, <4>1, <4>3
    <3> QED
      BY <1>9, <2>1, <2>11, <3>1
  <2>12. ASSUME Tame, endif
         PROVE  /\ At(start) # "eof" /\ Delimiter(p) \in Closing
                /\ Fits(p) <=> pops
                /\ Fits(p) => Stacked(p, Front(open))
    <3>1. At(start) = "endif"
      BY <2>12 DEF endif
    <3>2. Delimiter(p) = "#endif" /\ ~ EndsTemplate(p)
      BY <2>5, <2>12, <3>1
    <3>3. Delimiter(p) \in Closing
      BY <3>2, DelimitersAre
    <3>4. /\ Fits(p) <=> open # << >> /\ Matches(Last(open), Delimiter(p))
          /\ Fits(p) => Stacked(p, IF EndsTemplate(p) /\ in_template(Front(open))
                                   THEN << >> ELSE Front(open))
      BY <1>2, <1>7, <2>1, <2>4, <2>12, <3>3, ClosesStacked
    <3> QED
      BY <2>8, <3>1, <3>2, <3>3, <3>4
  <2>13. CASE endif /\ pops /\ Round("raw_ident", after, Front(open), res)
    <3>1. Tame => Shows("raw_ident", after, Front(open), res)
      BY <2>9, <2>12, <2>13
    <3> QED
      BY <1>9, <2>1, <2>13, <3>1
  <2>14. CASE endif /\ ~ pops /\ Round("raw_ident", after, open, "mismatch")
    <3>1. Tame => Shows("raw_ident", after, open, "mismatch")
      BY <1>22, <2>1, <2>5, <2>12, <2>14
    <3> QED
      BY <1>9, <2>1, <2>14, <3>1
  <2>15. CASE /\ At(start) # "eof" /\ At(start) # "if" /\ ~ endif
              /\ Round("raw_ident", after, open, res)
    <3>1. ASSUME Tame PROVE Shows("raw_ident", after, open, res)
      <4>1. Delimiter(p) = "none" /\ ~ EndsTemplate(p)
        BY <2>5, <2>7, <2>15, <3>1
      <4>2. /\ p <= p + 1 /\ p <= Len(input) /\ p \in Nat /\ \A r \in p..p : r = p
        BY <1>1, <1>7, <2>1, <2>5, <3>1
      <4>3. Stacked(p, open)
        BY <1>1, <1>7, <2>1, <2>4, <3>1, <4>1, <4>2, QuietStacked
      <4> QED
        BY <2>9, <2>15, <3>1, <4>3
    <3> QED
      BY <1>9, <2>1, <2>15, <3>1
  <2> QED
    BY <2>1, <2>10, <2>11, <2>13, <2>14, <2>15
<1>27. CASE Other
  <2>1. /\ Loop /\ ~ OnTop(open) /\ next # Overrun /\ res # "mismatch"
        /\ kind \in {"stringlit", "comma", "backslash", "slash", "asterik", "ident",
                     "space", "unknown", "eof"}
        /\ Round(kind, next, open, res)
    BY <1>3, <1>27 DEF Other, Counts, Loop, kind, next, open
  <2> SUFFICES ASSUME Tame PROVE Shows(kind, next, open, res)
    BY <1>9, <2>1
  <2>2. /\ InStep(p, FALSE) /\ Nowhere(open) /\ Base(open) = open
        /\ Stacked(p - 1, open) /\ Comma(p - 1, w)
    BY <1>17, <2>1
  <2>3. CASE kind = "eof"
    BY <1>10, <2>1, <2>3
  <2>4. CASE kind \in {"comma", "backslash"}
    <3>1. /\ kind = "comma" => At(p) = ","
          /\ kind = "backslash" => At(p) = "\\"
          /\ At(p) \in Marks /\ next = p + 1
      <4>1. kind \in PunctuatorKinds \ {"slash", "asterik"}
        BY <2>4 DEF PunctuatorKinds
      <4> QED
        BY <1>1, <2>1, <4>1, MarkIs, Zenon
    <3>2. At(p) \in {",", "\\"} /\ At(p) \notin {";", "}"}
      BY <2>4, <3>1
    <3>3. Delimiter(p) = "none" /\ ~ EndsTemplate(p) /\ Continues(p)
      BY <1>20, <2>1, <3>1, <3>2, Zenon
    <3>4. next = p + 1
      BY <3>1, Zenon
    <3>5. p <= p + 1 /\ p <= Len(input) /\ p \in Nat /\ next - 1 = p /\ \A r \in p..p : r = p
      <4>1. p \in 1..Len(input)
        BY <1>20, <2>1, <3>1, Zenon
      <4> QED
        BY <1>1, <1>7, <2>1, <3>4, <4>1
    <3>6. Stacked(p, open)
      BY <1>1, <1>7, <2>1, <2>2, <3>3, <3>5, QuietStacked
    <3>7. Comma(p, kind)
      BY <1>7, <2>1, <2>4, <3>3, CommaLast
    <3> QED
      BY <2>1, <2>4, <3>5, <3>6, <3>7 DEF Shows, Follows
  <2>5. CASE kind \notin {"eof", "comma", "backslash"}
    <3>1. At(p) \notin Marks
      <4>1. kind \notin PunctuatorKinds \ {"slash", "asterik"}
        BY <2>1, <2>5 DEF PunctuatorKinds
      <4> QED
        BY <1>1, <2>1, <4>1, MarkIs, Zenon
    <3>2. next - 1 \in p..Len(input) /\ \A r \in p..(next - 1) : Plain(r)
      BY <1>1, <2>1, <2>2, <2>5, <3>1, TokenPlain
    <3>3. CASE kind = "space"
      <4>1. next = SkipAll(p, {"space"}) /\ At(p) = "space"
        BY <1>1, <2>1, <3>3 DEF Lexed, PunctuatorKinds
      <4>2. \A r \in p..(next - 1) : Blank(r)
        <5>1. "eof" \notin {"space"}
          OBVIOUS
        <5>2. \A r \in p..(SkipAll(p, {"space"}) - 1) : At(r) \in {"space"}
          BY <1>1, <2>1, <5>1, SkipAllIs
        <5> QED
          BY <4>1, <5>2 DEF Blank
      <4> DEFINE n == next - 1
      <4>3. /\ p - 1 <= n /\ n \in Nat /\ n <= Len(input)
            /\ \A r \in (p - 1 + 1)..n : Blank(r)
        BY <1>1, <1>7, <2>1, <3>2, <4>2
      <4> HIDE DEF n
      <4>4. Comma(n, w)
        BY <1>1, <1>7, <2>1, <2>2, <4>3, CommaStays
      <4> QED
        BY <1>11, <2>1, <3>2, <3>3, <4>4 DEF n
    <3>4. CASE kind # "space"
      <4>1. ~ Blank(p)
        <5>1. kind # "hash"
          BY <2>1
        <5> QED
          BY <1>1, <2>1, <3>4, <5>1, NotBlank
      <4>2. Comma(next - 1, kind)
        BY <1>12, <2>1, <2>5, <3>2, <4>1
      <4> QED
        BY <1>11, <2>1, <2>5, <3>2, <3>4, <4>2
    <3> QED
      BY <3>3, <3>4
  <2> QED
    BY <2>3, <2>4, <2>5
<1> QED
  BY <1>13, <1>14, <1>15, <1>16, <1>18, <1>19, <1>23, <1>24, <1>25, <1>26, <1>27 DEF Next


-----------------------------------------------------------------------------
(* The two theorems on validate's answer.                                  *)

\* What holds all along, and the answer at the end.
Sound ==
    TypeOK /\ Within /\ BlockLast /\ Aligned /\ Agreed /\ Ended /\ Early
Answered == VerdictRight /\ IndentRight

LEMMA SoundInit ==
    Init => Sound /\ Answered
<1> SUFFICES ASSUME Init PROVE Sound /\ Answered
  OBVIOUS
<1>1. TypeOK /\ Within
  BY InitTypes
<1>2. pc = "template" /\ res = "complete" /\ m_parent_stack = << >>
  BY DEF Init
<1>3. BlockLast
  BY <1>2 DEF BlockLast, NotBelow
<1>4. Aligned /\ Agreed /\ Ended /\ Early
  BY <1>2 DEF Aligned, Agreed, Ended, Early, Loop
<1>5. VerdictRight /\ IndentRight
  BY <1>2 DEF VerdictRight, IndentRight
<1> QED
  BY <1>1, <1>3, <1>4, <1>5 DEF Sound, Answered

\* Nothing changes.
LEMMA SoundStutters ==
    ASSUME Sound, Answered, UNCHANGED vars
    PROVE  Aligned' /\ BlockLast' /\ Agreed' /\ Ended' /\ Early' /\ Answered'
<1>1. /\ input' = input /\ pc' = pc /\ p_curr_pos' = p_curr_pos /\ tok' = tok /\ res' = res
      /\ m_parent_stack' = m_parent_stack /\ m_indent' = m_indent
      /\ last_not_space_tok' = last_not_space_tok
  BY DEF vars
<1>2. /\ Mode' = Mode /\ Tame' = Tame /\ Mismatched' = Mismatched
      /\ BlockOpen' = BlockOpen /\ Nested' = Nested /\ EndsContinued' = EndsContinued
      /\ (\E i \in 1..Len(input) : Continues(i))' = (\E i \in 1..Len(input) : Continues(i))
      /\ \A n, s, w : Follows(n, s, w)' = Follows(n, s, w)
  BY <1>1, SameMeaning
<1>3. /\ LastTok' = LastTok /\ Loop' = Loop /\ Continued' = Continued
      /\ OnTop(m_parent_stack)' = OnTop(m_parent_stack)
  BY <1>1 DEF LastTok, Loop, Continued, OnTop
<1>4. BlockLast'
  BY <1>1 DEF Sound, BlockLast, NotBelow
<1>5. Aligned'
  BY <1>1, <1>2 DEF Sound, Aligned, Loop, InStep, in_block_comment, At
<1>6. Agreed'
  BY <1>1, <1>2, <1>3 DEF Sound, Agreed
<1>7. Ended'
  BY <1>1, <1>2, <1>3 DEF Sound, Ended
<1>8. Early'
  BY <1>1 DEF Sound, Early
<1>9. VerdictRight'
  BY <1>1, <1>2, <1>3 DEF Answered, VerdictRight
<1>10. IndentRight'
  <2>1. SkipAll(1, {"space"})' = SkipAll(1, {"space"})
    BY <1>1 DEF SkipAll, At
  <2> QED
    BY <1>1, <1>2, <2>1 DEF Answered, IndentRight
<1> QED
  BY <1>4, <1>5, <1>6, <1>7, <1>8, <1>9, <1>10 DEF Answered

\* A step before the last answers nothing yet.
LEMMA NoneEarly ==
    ASSUME Early, Next, pc' # "done"
    PROVE  Early' /\ Answered'
<1>1. pc # "done"
  <2>1. Loop => pc # "done"
    BY DEF Loop
  <2> QED
    BY <2>1 DEF Next, Template, ReadPastEnd, InComment, LineComment, RightComment, Open,
                Close, Semicolon, Hash, Other, Counts, Finish
<1>2. res' \in {res, "mismatch"}
  BY DEF Next, Template, ReadPastEnd, InComment, LineComment, RightComment, Open, Close,
         Semicolon, Hash, Other, Round, Finish
<1> QED
  BY <1>1, <1>2 DEF Early, Answered, VerdictRight, IndentRight

LEMMA SoundNext ==
    Sound /\ Answered /\ [Next]_vars => Sound' /\ Answered'
<1> SUFFICES ASSUME Sound, Answered, [Next]_vars PROVE Sound' /\ Answered'
  OBVIOUS
<1>1. TypeOK' /\ Within'
  BY StepTypes DEF Sound
<1>2. CASE UNCHANGED vars
  BY <1>1, <1>2, SoundStutters DEF Sound
<1>3. CASE Next
  <2>1. BlockLast' /\ Aligned'
    BY <1>3, NextKeeps DEF Sound
  <2>2. CASE pc' # "done"
    BY <1>1, <1>3, <2>1, <2>2, NextFollows, NoneEarly DEF Sound
  <2>3. CASE pc' = "done"
    <3>1. pc = "loop" \/ pc = "template"
      BY <1>3 DEF Next, Template, ReadPastEnd, InComment, LineComment, RightComment, Open,
                  Close, Semicolon, Hash, Other, Counts, Finish, Loop
    <3>2. Finish
      BY <1>3, <2>3, <3>1 DEF Next, Template, ReadPastEnd, InComment, LineComment,
                              RightComment, Open, Close, Semicolon, Hash, Other, Round,
                              Counts, Loop
    <3>3. Answered'
      BY <3>2, FinishRight DEF Sound, Answered
    <3>4. Agreed' /\ Ended' /\ Early'
      BY <2>3 DEF Agreed, Ended, Early, Loop
    <3> QED
      BY <1>1, <2>1, <3>3, <3>4 DEF Sound
  <2> QED
    BY <2>2, <2>3
<1> QED
  BY <1>2, <1>3

\* validate's verdict (xinput_validator::validate) is what the code means, whatever the
\* code: complete exactly when every delimiter has its partner, nothing is left open and
\* no comma or backslash comes last; mismatch only when some delimiter closes nothing,
\* and then nothing but a continuation hides it.
THEOREM VerdictsRight == Spec => []VerdictRight
<1>1. Sound /\ Answered => VerdictRight
  BY DEF Answered
<1> QED
  BY <1>1, SoundInit, SoundNext, PTL DEF Spec

\* The front end indents the next line by the leading spaces and one level for every
\* delimiter, block comment and template that the code leaves open
\* (xinput_validator::get_expected_indent).
THEOREM IndentsRight == Spec => []IndentRight
<1>1. Sound /\ Answered => IndentRight
  BY DEF Answered
<1> QED
  BY <1>1, SoundInit, SoundNext, PTL DEF Spec
=============================================================================

--------------------------- MODULE Requests_proofs ---------------------------
(***************************************************************************)
(* A completion at the end of a word replaces that word (CompletesWord),   *)
(* for every code and cursor.  An expression is looked up under the name   *)
(* of its own type (TypeResolved), however many inspections came before    *)
(* and whichever of their declarations failed, for any types and tag files.*)
(* The page that is shown documents what was asked for (PageDocumented),   *)
(* for any directory of tag files in any order.                            *)
(***************************************************************************)
EXTENDS Requests, WellFoundedInduction, FiniteSetTheorems, TLAPS

-----------------------------------------------------------------------------
(* How much of the code complete_request_impl replaces when the cursor is  *)
(* at the end of a word: as many characters as the word has.               *)

\* A set of natural numbers that is not empty has a least element ...
LEMMA MinExists ==
    ASSUME NEW S, S \subseteq Nat, S # {}
    PROVE  Min(S) \in S /\ \A y \in S : Min(S) <= y
<1> DEFINE R == {ss \in Nat \X Nat : ss[1] < ss[2]}
<1>1. IsWellFoundedOn(R, Nat)
  BY NatLessThanWellFounded DEF OpToRel
<1>2. \E x \in S : \A y \in S : ~ (<<y, x>> \in R)
  <2> HIDE DEF R
  <2> QED
    BY <1>1, WFMin
<1>3. PICK x \in S : \A y \in S : ~ (<<y, x>> \in R)
  BY <1>2
<1>4. \A y \in S : x <= y
  <2> SUFFICES ASSUME NEW y \in S PROVE x <= y
    OBVIOUS
  <2>1. <<y, x>> \in Nat \X Nat
    OBVIOUS
  <2>2. ~ (y < x)
    BY <1>3, <2>1
  <2> QED
    BY <2>1, <2>2
<1> QED
  BY <1>4 DEF Min

\* ... and, if it is bounded, a greatest one.
LEMMA MaxExists ==
    ASSUME NEW n \in Nat, NEW S \in SUBSET (0..n), S # {}
    PROVE  Max(S) \in S /\ \A y \in S : Max(S) >= y
<1> DEFINE T == {n - x : x \in S}
<1>0. \A x \in S : x \in 0..n /\ n - x \in Nat
  OBVIOUS
<1>1. T \in SUBSET Nat /\ T # {}
  <2>1. T \subseteq Nat
    BY <1>0
  <2>2. PICK x \in S : TRUE
    OBVIOUS
  <2>3. n - x \in T
    BY <2>2
  <2> QED
    BY <2>1, <2>3
<1>2. PICK x \in S : Min(T) = n - x
  BY <1>1, MinExists
<1>3. \A y \in S : n - x <= n - y
  BY <1>1, <1>2, MinExists
<1>4. \A y \in S : x >= y
  BY <1>0, <1>3
<1> QED
  BY <1>4 DEF Max

\* What split_line reads of a code.
LEMMA SpanIs ==
    ASSUME NEW code \in Seq(Char), NEW c \in 0..Len(code)
    PROVE  /\ Span(code, c) \in Seq(Char \cup {NUL})
           /\ Len(Span(code, c)) = c + 1
           /\ \A i \in 1..c : Span(code, c)[i] = code[i]
           /\ Span(code, c)[c + 1] = IF c = Len(code) THEN NUL ELSE code[c + 1]
BY DEF Span

\* The start of the word behind the cursor is the last delimiter before it, if any.
LEMMA WordStartIs ==
    ASSUME NEW code \in Seq(Char), NEW c \in 0..Len(code)
    PROVE  /\ WordStart(code, c) \in 0..c
           /\ {0} \cup {i \in 1..c : code[i] \in Delims} \in SUBSET (0..c)
<1> DEFINE word == {0} \cup {i \in 1..c : code[i] \in Delims}
<1>1. word \in SUBSET (0..c) /\ word # {} /\ c \in Nat
  OBVIOUS
<1> HIDE DEF word
<1>2. Max(word) \in word
  BY <1>1, MaxExists
<1> QED
  BY <1>1, <1>2 DEF WordStart, word

\* The last piece of what split_line reads at the end of a word is that word, with the
\* NUL behind it if the code ends there.
LEMMA LastPieceIs ==
    ASSUME NEW code \in Seq(Char), NEW c \in 0..Len(code), AtWordEnd(code, c)
    PROVE  LastPiece(Span(code, c)) =
               SubSeq(Span(code, c), WordStart(code, c) + 1,
                      IF c = Len(code) THEN c + 1 ELSE c)
<1> DEFINE span == Span(code, c)
           word == {0} \cup {i \in 1..c : code[i] \in Delims}
           cuts == {0} \cup {i \in DOMAIN span : span[i] \in Delims}
<1>1. DOMAIN span = 1..(c + 1) /\ Len(span) = c + 1
  BY SpanIs
<1>2. \A i \in 1..c : span[i] = code[i]
  BY SpanIs
<1>3. span[c + 1] = IF c = Len(code) THEN NUL ELSE code[c + 1]
  BY SpanIs
<1>4. cuts = {0} \cup {i \in 1..(c + 1) : span[i] \in Delims}
  BY <1>1
<1>5. WordStart(code, c) = Max(word) /\ WordStart(code, c) \in 0..c
  BY WordStartIs DEF WordStart
<1>6. LastPiece(span) =
          IF Max(cuts) < Len(span) THEN SubSeq(span, Max(cuts) + 1, Len(span))
          ELSE SubSeq(span, Max({0} \cup (cuts \ {Max(cuts)})) + 1, Max(cuts) - 1)
  BY DEF LastPiece
<1>7. c \in Nat /\ \A i \in 1..(c + 1) : i \in 1..c \/ i = c + 1
  OBVIOUS
<1> HIDE DEF span
<1>8. CASE c = Len(code)
  <2>1. NUL \notin Delims
    BY CharAssumption
  <2>2. {i \in 1..(c + 1) : span[i] \in Delims} = {i \in 1..c : code[i] \in Delims}
    BY <1>2, <1>3, <1>7, <1>8, <2>1
  <2>3. cuts = word
    BY <1>4, <2>2
  <2> HIDE DEF cuts, word
  <2> QED
    BY <1>1, <1>5, <1>6, <1>8, <2>3 DEF span
<1>9. CASE c # Len(code)
  <2>1. span[c + 1] \in Delims
    BY <1>3, <1>9 DEF AtWordEnd
  <2>2. cuts = word \cup {c + 1}
    BY <1>2, <1>4, <1>7, <2>1
  <2>3. c + 1 \notin word /\ 0 \in word /\ word \in SUBSET (0..c)
    OBVIOUS
  <2> HIDE DEF cuts, word
  <2>4. cuts \in SUBSET (0..(c + 1)) /\ c + 1 \in Nat /\ c + 1 \in cuts
    BY <2>2, <2>3
  <2>5. Max(cuts) \in cuts /\ Max(cuts) >= c + 1
    BY <2>4, MaxExists
  <2>6. Max(cuts) = c + 1
    <3>1. Max(cuts) \in 0..(c + 1)
      BY <2>4, <2>5
    <3> QED
      BY <1>7, <2>5, <3>1
  <2>7. {0} \cup (cuts \ {Max(cuts)}) = word
    BY <2>2, <2>3, <2>6
  <2>8. LastPiece(span) = SubSeq(span, WordStart(code, c) + 1, c + 1 - 1)
    <3>1. ~ (Max(cuts) < Len(span))
      BY <1>1, <1>7, <2>6
    <3>2. LastPiece(span) =
              SubSeq(span, Max({0} \cup (cuts \ {Max(cuts)})) + 1, Max(cuts) - 1)
      BY <1>6, <3>1, Zenon
    <3> DEFINE from == Max({0} \cup (cuts \ {Max(cuts)}))
               last == Max(cuts)
    <3>3. from = WordStart(code, c)
      BY <1>5, <2>7, Zenon
    <3>4. last = c + 1 /\ LastPiece(span) = SubSeq(span, from + 1, last - 1)
      BY <2>6, <3>2, Zenon
    <3> HIDE DEF from, last
    <3>5. from + 1 = WordStart(code, c) + 1
      BY <3>3, Zenon
    <3>6. last - 1 = c + 1 - 1
      BY <1>7, <3>4
    <3> QED
      BY <3>4, <3>5, <3>6, Zenon
  <2>9. c + 1 - 1 = c
    BY <1>7
  <2> QED
    BY <1>9, <2>8, <2>9 DEF span
<1> QED
  BY <1>8, <1>9

\* The copy up to the NUL has the length of the word.
LEMMA ToCompleteIs ==
    ASSUME NEW code \in Seq(Char), NEW c \in 0..Len(code), AtWordEnd(code, c)
    PROVE  Len(ToComplete(code, c)) = c - WordStart(code, c)
<1> DEFINE w == WordStart(code, c)
           span == Span(code, c)
           piece == LastPiece(span)
           nuls == {i \in DOMAIN piece : piece[i] = NUL}
<1>1. w \in 0..c /\ c \in Nat
  BY WordStartIs
<1>2. /\ span \in Seq(Char \cup {NUL}) /\ Len(span) = c + 1
      /\ \A i \in 1..c : span[i] \in Char
      /\ c = Len(code) => span[c + 1] = NUL
  BY SpanIs
<1>3. piece = SubSeq(span, w + 1, IF c = Len(code) THEN c + 1 ELSE c)
  BY LastPieceIs
<1>4. ToComplete(code, c) = SubSeq(piece, 1, Min(nuls \cup {Len(piece) + 1}) - 1)
  BY DEF ToComplete
<1> HIDE DEF w, span, piece
<1>5. \A i \in 1..(c - w) : w + i \in 1..c
  BY <1>1
<1>6. CASE c = Len(code)
  <2>1. piece = SubSeq(span, w + 1, c + 1)
    BY <1>3, <1>6
  <2>2. /\ piece \in Seq(Char \cup {NUL}) /\ Len(piece) = c + 1 - w
        /\ \A i \in 1..(c + 1 - w) : piece[i] = span[w + i]
    BY <1>1, <1>2, <2>1
  <2>3. \A i \in 1..(c - w) : piece[i] # NUL
    BY <1>1, <1>2, <1>5, <2>2, CharAssumption
  <2>4. piece[c + 1 - w] = NUL
    <3>1. c + 1 - w \in 1..(c + 1 - w) /\ w + (c + 1 - w) = c + 1
      BY <1>1
    <3> QED
      BY <1>2, <1>6, <2>2, <3>1
  <2>5. DOMAIN piece = 1..(c + 1 - w)
    BY <2>2
  <2>6. \A i \in 1..(c + 1 - w) : i \in 1..(c - w) \/ i = c + 1 - w
    BY <1>1
  <2>7. nuls = {c + 1 - w}
    BY <1>1, <2>3, <2>4, <2>5, <2>6
  <2> HIDE DEF nuls
  <2>8. nuls \cup {Len(piece) + 1} = {c + 1 - w, c + 2 - w}
    BY <1>1, <2>2, <2>7
  <2>9. Min({c + 1 - w, c + 2 - w}) = c + 1 - w
    <3> DEFINE S == {c + 1 - w, c + 2 - w}
    <3>1. S \subseteq Nat /\ S # {} /\ c + 1 - w \in S
      BY <1>1
    <3> HIDE DEF S
    <3>2. Min(S) \in S /\ Min(S) <= c + 1 - w
      BY <3>1, MinExists
    <3> QED
      BY <1>1, <3>2 DEF S
  <2>10. ToComplete(code, c) = SubSeq(piece, 1, c - w)
    <3>1. Min(nuls \cup {Len(piece) + 1}) = c + 1 - w
      BY <2>8, <2>9, Zenon
    <3> DEFINE m == Min(nuls \cup {Len(piece) + 1})
    <3>2. m = c + 1 - w /\ ToComplete(code, c) = SubSeq(piece, 1, m - 1)
      BY <1>4, <3>1, Zenon
    <3> HIDE DEF m
    <3>3. m - 1 = c - w
      BY <1>1, <3>2
    <3> QED
      BY <3>2, <3>3, Zenon
  <2>11. Len(SubSeq(piece, 1, c - w)) = c - w
    BY <1>1, <2>2
  <2> QED
    BY <2>10, <2>11 DEF w
<1>7. CASE c # Len(code)
  <2>1. piece = SubSeq(span, w + 1, c)
    BY <1>3, <1>7
  <2>2. /\ piece \in Seq(Char \cup {NUL}) /\ Len(piece) = c - w
        /\ \A i \in 1..(c - w) : piece[i] = span[w + i]
    <3>1. w + 1 \in 1..(Len(span) + 1) /\ c \in 0..Len(span) /\ w + 1 - 1 = w
      BY <1>1, <1>2
    <3>2. piece \in Seq(Char \cup {NUL})
      BY <1>2, <2>1, <3>1
    <3>3. Len(piece) = c - w
      BY <1>1, <1>2, <2>1, <3>1
    <3>4. \A i \in 1..(c - w) : piece[i] = span[w + i]
      BY <1>1, <1>2, <2>1, <3>1, <3>3
    <3> QED
      BY <3>2, <3>3, <3>4
  <2>3. \A i \in 1..(c - w) : piece[i] # NUL
    BY <1>1, <1>2, <1>5, <2>2, CharAssumption
  <2>4. nuls = {}
    BY <2>2, <2>3
  <2> HIDE DEF nuls
  <2>5. Min({Len(piece) + 1}) = Len(piece) + 1
    BY <1>1, <2>2 DEF Min
  <2>6. nuls \cup {Len(piece) + 1} = {Len(piece) + 1}
    BY <2>4
  <2>7. ToComplete(code, c) = SubSeq(piece, 1, c - w)
    <3>1. Min(nuls \cup {Len(piece) + 1}) = Len(piece) + 1
      BY <2>5, <2>6, Zenon
    <3> DEFINE m == Min(nuls \cup {Len(piece) + 1})
    <3>2. m = Len(piece) + 1 /\ ToComplete(code, c) = SubSeq(piece, 1, m - 1)
      BY <1>4, <3>1, Zenon
    <3> HIDE DEF m
    <3>3. m - 1 = c - w
      BY <1>1, <2>2, <3>2
    <3> QED
      BY <3>2, <3>3, Zenon
  <2>8. Len(SubSeq(piece, 1, c - w)) = c - w
    BY <1>1, <2>2
  <2> QED
    BY <2>7, <2>8 DEF w
<1> QED
  BY <1>6, <1>7

-----------------------------------------------------------------------------
(* Completion.                                                             *)

\* A completion replaces the word behind the cursor, all of it and nothing else, for
\* every code and every cursor that is at the end of a word, whatever was asked before
\* (complete_request_impl, split_line).
THEOREM WordsCompleted == Spec => []CompletesWord
<1>1. Init => CompletesWord
  BY DEF Init, NoReply, CompletesWord
<1>2. CompletesWord /\ [Next]_vars => CompletesWord'
  <2> SUFFICES ASSUME CompletesWord, [Next]_vars PROVE CompletesWord'
    OBVIOUS
  <2>1. ASSUME complete_request PROVE CompletesWord'
    <3>1. PICK code \in Codes : \E c \in 0..Len(code) :
              reply' = [request |-> "complete", code |-> code,
                        range |-> complete_request_impl(code, c)]
      BY <2>1 DEF complete_request
    <3>2. PICK c \in 0..Len(code) :
              reply' = [request |-> "complete", code |-> code,
                        range |-> complete_request_impl(code, c)]
      BY <3>1
    <3>3. /\ reply'.code = code
          /\ Completed'.cursor_end = c
          /\ Completed'.cursor_start = c - Len(ToComplete(code, c))
      BY <3>2 DEF Completed, complete_request_impl
    <3>4. ASSUME AtWordEnd(code, c) PROVE Completed'.cursor_start = WordStart(code, c)
      BY <3>3, <3>4, ToCompleteIs, WordStartIs, CodesAssumption
    <3> QED
      BY <3>3, <3>4 DEF CompletesWord
  <2>2. ASSUME NEW kind \in {"inspect", "help"}, NEW code, Inspect(kind, code)
        PROVE  CompletesWord'
    BY <2>2 DEF Inspect, CompletesWord
  <2>3. ASSUME Replied PROVE CompletesWord'
    BY <2>3 DEF Replied, NoReply, CompletesWord
  <2>4. ASSUME execute_request \/ UNCHANGED vars PROVE CompletesWord'
    BY <2>4 DEF execute_request, vars, CompletesWord, Completed
  <2> QED
    BY <2>1, <2>2, <2>3, <2>4 DEF Next, inspect_request, apply
<1> QED
  BY <1>1, <1>2, PTL DEF Spec

-----------------------------------------------------------------------------
(* The type of an expression.                                              *)

\* Every alias declared so far has a number that has been used up.
CountAhead ==
    /\ var_count \in Nat
    /\ DOMAIN aliases \subseteq 0..(var_count - 1)

\* The valid expressions are those that cells have declared.
Declared ==
    \A e \in DOMAIN typeOf : \E d \in Declarable : d[1] = e /\ d[2] = typeOf[e]

IInv == CountAhead /\ Declared /\ TypeResolved

\* find_type_slow finds the type of a valid expression, and counts on.
LEMMA FindsType ==
    ASSUME CountAhead, Declared, NEW e
    PROVE  LET found == find_type_slow(e)
           IN  /\ found.count \in Nat
               /\ DOMAIN found.aliases \subseteq 0..(found.count - 1)
               /\ e \in DOMAIN typeOf =>
                     found.name = typeOf[e] /\ found.name # << >>
<1> DEFINE found == find_type_slow(e)
<1>1. /\ found.count \in {var_count, var_count + 1}
      /\ DOMAIN found.aliases \subseteq
            DOMAIN aliases \cup (IF found.count = var_count THEN {} ELSE {var_count})
  BY DEF find_type_slow, NextCount, CountAhead, Bind
<1>2. found.count \in Nat /\ DOMAIN found.aliases \subseteq 0..(found.count - 1)
  BY <1>1 DEF CountAhead
<1>3. ASSUME e \in DOMAIN typeOf
      PROVE  found.name = typeOf[e] /\ found.name # << >>
  <2>1. PICK d \in Declarable : d[1] = e /\ d[2] = typeOf[e]
    BY <1>3 DEF Declared
  <2>2. typeOf[e] # << >> /\ (e \in DOMAIN Types => Types[e] = typeOf[e])
    BY <2>1, DeclarableAssumption
  <2>3. Declares(e, var_count)
    BY <1>3 DEF Declares, CountAhead
  <2> QED
    BY <2>2, <2>3 DEF find_type_slow
<1> QED
  BY <1>2, <1>3

\* What an inspection answers about an expression, and leaves behind.
LEMMA InspectionResolves ==
    ASSUME CountAhead, Declared, NEW code, NEW order
    PROVE  LET i == Inspection(code, order)
           IN  /\ i.count \in Nat
               /\ DOMAIN i.aliases \subseteq 0..(i.count - 1)
               /\ i.asked /\ i.object \in DOMAIN typeOf =>
                     i.name = typeOf[i.object]
<1> DEFINE i == Inspection(code, order)
           found == find_type_slow(i.object)
<1>1. i.asked \in BOOLEAN
  BY DEF Inspection
<1>2. /\ i.asked => i.count = found.count /\ i.aliases = found.aliases
                    /\ (found.name # << >> => i.name = found.name)
      /\ ~ i.asked => i.count = var_count /\ i.aliases = aliases
  BY Zenon DEF Inspection
<1> QED
  BY <1>1, <1>2, FindsType DEF CountAhead

\* The session starts without declarations, and nothing has been asked.
LEMMA InitIInv == Init => IInv
BY DEF Init, SessionInit, NoReply, IInv, CountAhead, Declared, TypeResolved, IsInspection

\* Every step keeps the invariant.
LEMMA NextIInv == IInv /\ [Next]_vars => IInv'
<1> SUFFICES ASSUME IInv, [Next]_vars PROVE IInv'
  OBVIOUS
<1> USE DEF IInv
<1>1. ASSUME complete_request PROVE IInv'
  BY <1>1 DEF complete_request, CountAhead, Declared, sessionVars, TypeResolved, IsInspection
<1>2. ASSUME NEW kind, NEW code, Inspect(kind, code) PROVE IInv'
  <2>1. PICK order \in Orders : /\ Inspected(Inspection(code, order))
                                /\ reply' = [request |-> kind,
                                             inspected |-> Inspection(code, order)]
    BY <1>2 DEF Inspect
  <2>2. Declared'
    BY <2>1 DEF Inspected, Declared
  <2>3. CountAhead'
    BY <2>1, InspectionResolves DEF Inspected, CountAhead
  <2>4. TypeResolved'
    <3>1. Found' = Inspection(code, order) /\ typeOf' = typeOf
      BY <2>1 DEF Found, Inspected
    <3> QED
      BY <3>1, InspectionResolves DEF TypeResolved
  <2> QED
    BY <2>2, <2>3, <2>4
<1>3. ASSUME inspect_request \/ apply PROVE IInv'
  BY <1>2, <1>3 DEF inspect_request, apply
<1>4. ASSUME execute_request PROVE IInv'
  <2>1. PICK d \in Declarable : typeOf' = Bind(typeOf, d[1], d[2])
    BY <1>4 DEF execute_request, Declare
  <2>2. CountAhead'
    BY <1>4 DEF execute_request, Declare, CountAhead
  <2>3. Declared'
    BY <2>1 DEF Declared, Bind
  <2>4. ~ IsInspection'
    BY <1>4 DEF execute_request, NoReply, IsInspection
  <2> QED
    BY <2>2, <2>3, <2>4 DEF TypeResolved
<1>5. ASSUME Replied PROVE IInv'
  BY <1>5 DEF Replied, NoReply, sessionVars, CountAhead, Declared, TypeResolved, IsInspection
<1>6. ASSUME UNCHANGED vars PROVE IInv'
  BY <1>6 DEF vars, CountAhead, Declared, TypeResolved, IsInspection, Found
<1> QED
  BY <1>1, <1>3, <1>4, <1>5, <1>6 DEF Next

\* Whatever was inspected before, and whether its declaration failed or not, a valid
\* expression is looked up under the name of its own type (find_type_slow): the counter
\* that names the aliases never returns to a name that is taken.
THEOREM TypesResolved == Spec => []TypeResolved
<1>1. Spec => []IInv
  BY InitIInv, NextIInv, PTL DEF Spec
<1>2. IInv => TypeResolved
  BY DEF IInv
<1> QED
  BY <1>1, <1>2, PTL

-----------------------------------------------------------------------------
(* The first and the last of a set of pairs.                               *)

LEMMA FirstOfIn ==
    ASSUME NEW S \in SUBSET (Nat \X Nat), S # {}
    PROVE  FirstOf(S) \in S
<1> DEFINE A == {s[1] : s \in S}
           a == Min(A)
           B == {s[2] : s \in {s \in S : s[1] = a}}
           b == Min(B)
<1>1. a \in A /\ \A y \in A : a <= y
  <2>1. A \subseteq Nat /\ A # {}
    OBVIOUS
  <2> HIDE DEF A
  <2> QED
    BY <2>1, MinExists
<1>2. b \in B /\ \A y \in B : b <= y
  <2>1. B \subseteq Nat /\ B # {}
    <3>1. \E s \in S : s[1] = a
      BY <1>1
    <3> HIDE DEF a
    <3> QED
      BY <3>1
  <2> HIDE DEF B
  <2> QED
    BY <2>1, MinExists
<1>3. PICK s \in S : s[1] = a /\ s[2] = b
  <2> HIDE DEF a, b
  <2> QED
    BY <1>2
<1>4. ASSUME NEW t \in S PROVE ~ Earlier(t, s)
  <2>1. t[1] \in Nat /\ t[2] \in Nat /\ s[1] \in Nat /\ s[2] \in Nat
    OBVIOUS
  <2>2. s[1] <= t[1]
    <3> HIDE DEF a
    <3> QED
      BY <1>1, <1>3
  <2>3. t[1] = s[1] => s[2] <= t[2]
    <3> HIDE DEF a, b
    <3> QED
      BY <1>2, <1>3
  <2> QED
    BY <2>1, <2>2, <2>3 DEF Earlier
<1> QED
  BY <1>4 DEF FirstOf

LEMMA LastOfIn ==
    ASSUME NEW m \in Nat, NEW n \in Nat, NEW S \in SUBSET ((0..m) \X (0..n)), S # {}
    PROVE  LastOf(S) \in S
<1> DEFINE A == {s[1] : s \in S}
           a == Max(A)
           B == {s[2] : s \in {s \in S : s[1] = a}}
           b == Max(B)
<1>1. a \in A /\ \A y \in A : a >= y
  <2>1. A \in SUBSET (0..m) /\ A # {}
    OBVIOUS
  <2> HIDE DEF A
  <2> QED
    BY <2>1, MaxExists
<1>2. b \in B /\ \A y \in B : b >= y
  <2>1. B \in SUBSET (0..n) /\ B # {}
    <3>1. \E s \in S : s[1] = a
      BY <1>1
    <3> HIDE DEF a
    <3> QED
      BY <3>1
  <2> HIDE DEF B
  <2> QED
    BY <2>1, MaxExists
<1>3. PICK s \in S : s[1] = a /\ s[2] = b
  <2> HIDE DEF a, b
  <2> QED
    BY <1>2
<1>4. ASSUME NEW t \in S PROVE ~ Earlier(s, t)
  <2>1. t[1] \in Nat /\ t[2] \in Nat /\ s[1] \in Nat /\ s[2] \in Nat
    OBVIOUS
  <2>2. s[1] >= t[1]
    <3> HIDE DEF a
    <3> QED
      BY <1>1, <1>3
  <2>3. t[1] = s[1] => s[2] >= t[2]
    <3> HIDE DEF a, b
    <3> QED
      BY <1>2, <1>3
  <2> QED
    BY <2>1, <2>2, <2>3 DEF Earlier
<1> QED
  BY <1>4 DEF LastOf

-----------------------------------------------------------------------------
(* The page of what was asked for.                                         *)

\* The indices of a tag file.
LEMMA TagFileIndices ==
    ASSUME NEW tags, IsTagFile(tags)
    PROVE  /\ DOMAIN tags \subseteq Nat \ {0}
           /\ \A i \in DOMAIN tags : DOMAIN tags[i].members \subseteq Nat \ {0}
<1>1. ASSUME NEW t, IsSequence(t) PROVE DOMAIN t \subseteq Nat \ {0}
  <2> DEFINE S == {t[i] : i \in DOMAIN t}
  <2>1. t \in Seq(S)
    BY <1>1 DEF IsSequence
  <2> HIDE DEF S
  <2>2. DOMAIN t = 1..Len(t) /\ Len(t) \in Nat
    BY <2>1
  <2> QED
    BY <2>2
<1> QED
  BY <1>1 DEF IsTagFile

\* find_node finds a node that satisfies its predicate if there is one; it is passed
\* over only if it names no page.
LEMMA FindNodeFinds ==
    ASSUME NEW tags, IsTagFile(tags), NEW kind, NEW name
    PROVE  LET found == {s \in Places(tags) : IsNode(NodeAt(tags, s), kind, name)}
           IN  /\ \A page \in FindNode(tags, kind, name) :
                     \E s \in found : page = NodeAt(tags, s).page /\ page # EmptyPage
               /\ found # {} =>
                     \/ FindNode(tags, kind, name) # {}
                     \/ \E s \in found : NodeAt(tags, s).page = EmptyPage
<1> DEFINE found == {s \in Places(tags) : IsNode(NodeAt(tags, s), kind, name)}
<1>1. Places(tags) \subseteq Nat \X Nat
  BY TagFileIndices DEF Places
<1>2. found # {} => FirstOf(found) \in found
  <2>1. found \in SUBSET (Nat \X Nat)
    BY <1>1
  <2> HIDE DEF found
  <2> QED
    BY <2>1, FirstOfIn
<1>3. FindNode(tags, kind, name) =
         IF found = {} THEN {} ELSE {NodeAt(tags, FirstOf(found)).page} \ {EmptyPage}
  BY DEF FindNode
<1> HIDE DEF found
<1>4. /\ \A page \in FindNode(tags, kind, name) :
            \E s \in found : page = NodeAt(tags, s).page /\ page # EmptyPage
      /\ found # {} =>
            \/ FindNode(tags, kind, name) # {}
            \/ \E s \in found : NodeAt(tags, s).page = EmptyPage
  BY <1>2, <1>3
<1> QED
  BY <1>4 DEF found

\* A node of a tag file is at one of its places, and nothing else is.
LEMMA NodesAtPlaces ==
    ASSUME NEW tags, IsTagFile(tags)
    PROVE  /\ \A i \in DOMAIN tags : \E s \in Places(tags) : NodeAt(tags, s) = tags[i]
           /\ \A i \in DOMAIN tags : \A j \in DOMAIN tags[i].members :
                 \E s \in Places(tags) : NodeAt(tags, s) = tags[i].members[j]
           /\ \A s \in Places(tags) :
                 \/ \E i \in DOMAIN tags : NodeAt(tags, s) = tags[i]
                 \/ \E i \in DOMAIN tags : \E j \in DOMAIN tags[i].members :
                       NodeAt(tags, s) = tags[i].members[j]
<1>1. ASSUME NEW i \in DOMAIN tags PROVE \E s \in Places(tags) : NodeAt(tags, s) = tags[i]
  <2>1. <<i, 0>> \in Places(tags) /\ NodeAt(tags, <<i, 0>>) = tags[i]
    BY DEF Places, NodeAt
  <2> QED
    BY <2>1
<1>2. ASSUME NEW i \in DOMAIN tags, NEW j \in DOMAIN tags[i].members
      PROVE  \E s \in Places(tags) : NodeAt(tags, s) = tags[i].members[j]
  <2>1. <<i, j>> \in Places(tags)
    BY DEF Places
  <2>2. NodeAt(tags, <<i, j>>) = tags[i].members[j]
    BY TagFileIndices DEF NodeAt
  <2> QED
    BY <2>1, <2>2
<1>3. ASSUME NEW s \in Places(tags)
      PROVE  \/ \E i \in DOMAIN tags : NodeAt(tags, s) = tags[i]
             \/ \E i \in DOMAIN tags : \E j \in DOMAIN tags[i].members :
                   NodeAt(tags, s) = tags[i].members[j]
  <2>1. PICK i \in DOMAIN tags : s \in {i} \X ({0} \cup DOMAIN tags[i].members)
    BY DEF Places
  <2>2. s[1] = i /\ (s[2] = 0 \/ s[2] \in DOMAIN tags[i].members)
    BY <2>1
  <2> QED
    BY <2>2 DEF NodeAt
<1> QED
  BY <1>1, <1>2, <1>3

\* The member of a class that is found is a function of that name, of that class.
LEMMA FindMemberFinds ==
    ASSUME NEW tags, IsTagFile(tags), NEW class, NEW member
    PROVE  LET found == {i \in DOMAIN tags : ClassMatches(tags[i], class, member)}
           IN  /\ \A page \in FindMember(tags, class, member) :
                     \E i \in found : \E j \in DOMAIN tags[i].members :
                        /\ tags[i].members[j].kind = "function"
                        /\ tags[i].members[j].name = member
                        /\ page = tags[i].members[j].page
               /\ found # {} => FindMember(tags, class, member) # {}
<1> DEFINE found == {i \in DOMAIN tags : ClassMatches(tags[i], class, member)}
           f == Min(found)
           members == tags[f].members
           At == {i \in DOMAIN members : members[i].kind = "function"
                                         /\ members[i].name = member}
<1>1. FindMember(tags, class, member) = IF found = {} THEN {} ELSE {members[Min(At)].page}
  BY DEF FindMember
<1>2. ASSUME found # {} PROVE f \in found
  <2>1. found \subseteq Nat
    BY TagFileIndices
  <2> HIDE DEF found
  <2> QED
    BY <1>2, <2>1, MinExists
<1>3. ASSUME found # {} PROVE Min(At) \in At
  <2>1. f \in found
    BY <1>2, <1>3
  <2> HIDE DEF f
  <2>2. At # {} /\ DOMAIN members \subseteq Nat
    BY <2>1, TagFileIndices DEF ClassMatches
  <2>3. At \subseteq Nat
    BY <2>2
  <2> HIDE DEF At
  <2> QED
    BY <2>2, <2>3, MinExists
<1> HIDE DEF found, f
<1>4. /\ \A page \in FindMember(tags, class, member) :
            \E i \in found : \E j \in DOMAIN tags[i].members :
               /\ tags[i].members[j].kind = "function"
               /\ tags[i].members[j].name = member
               /\ page = tags[i].members[j].page
      /\ found # {} => FindMember(tags, class, member) # {}
  BY <1>1, <1>2, <1>3
<1> QED
  BY <1>4 DEF found

\* What is looked for in one tag file is what it documents.
PagesRight(conf, name, dot, member) ==
    LET pages == Pages(conf.tags, name, dot, member)
    IN  /\ DOMAIN pages \subseteq 0..3
        /\ \A k \in DOMAIN pages : pages[k] \subseteq Shown(conf, name, dot, member)
        /\ \/ Documents(conf, name, dot, member) = {}
           \/ Shown(conf, name, dot, member) # Documents(conf, name, dot, member)
           \/ \E k \in DOMAIN pages : pages[k] # {}

LEMMA PagesDocumented ==
    ASSUME NEW conf, IsTagFile(conf.tags), NEW name, NEW dot, NEW member
    PROVE  PagesRight(conf, name, dot, member)
<1> DEFINE tags == conf.tags
           pages == Pages(tags, name, dot, member)
           docs == Documents(conf, name, dot, member)
           shown == Shown(conf, name, dot, member)
           compounds == {tags[i] : i \in DOMAIN tags}
           Members(c) == {c.members[i] : i \in DOMAIN c.members}
<1>1. CASE dot > 0
  <2> DEFINE found == {i \in DOMAIN tags : ClassMatches(tags[i], name, member)}
  <2>1. pages = <<FindMember(tags, name, member)>>
    BY <1>1 DEF Pages
  <2>2. docs = {m.page : m \in {m \in UNION {Members(c) : c \in
                   {c \in compounds : c.name = name /\ c.kind \in {"class", "struct"}}} :
                     m.name = member /\ m.kind = "function"}}
    BY <1>1 DEF Documents
  <2>3. /\ \A page \in FindMember(tags, name, member) :
              \E i \in found : \E j \in DOMAIN tags[i].members :
                 /\ tags[i].members[j].kind = "function"
                 /\ tags[i].members[j].name = member
                 /\ page = tags[i].members[j].page
        /\ found # {} => FindMember(tags, name, member) # {}
    BY FindMemberFinds
  <2>4. FindMember(tags, name, member) \subseteq docs
    <3> SUFFICES ASSUME NEW page \in FindMember(tags, name, member) PROVE page \in docs
      OBVIOUS
    <3>1. PICK i \in found : \E j \in DOMAIN tags[i].members :
                 /\ tags[i].members[j].kind = "function"
                 /\ tags[i].members[j].name = member
                 /\ page = tags[i].members[j].page
      BY <2>3
    <3>2. PICK j \in DOMAIN tags[i].members :
                 /\ tags[i].members[j].kind = "function"
                 /\ tags[i].members[j].name = member
                 /\ page = tags[i].members[j].page
      BY <3>1
    <3>3. /\ tags[i] \in compounds /\ tags[i].name = name
          /\ tags[i].kind \in {"class", "struct"}
          /\ tags[i].members[j] \in Members(tags[i])
      BY DEF ClassMatches
    <3> HIDE DEF docs, tags, found
    <3> QED
      BY <2>2, <3>2, <3>3
  <2>5. ASSUME docs # {} PROVE found # {}
    <3>1. PICK c \in compounds : /\ c.name = name /\ c.kind \in {"class", "struct"}
                                 /\ \E m \in Members(c) :
                                       m.name = member /\ m.kind = "function"
      <4> HIDE DEF docs, compounds
      <4> QED
        BY <2>2, <2>5
    <3>2. PICK i \in DOMAIN tags : tags[i] = c
      OBVIOUS
    <3>3. ClassMatches(tags[i], name, member)
      BY <3>1, <3>2 DEF ClassMatches
    <3> QED
      BY <3>3
  <2>9. shown = docs
    BY <1>1 DEF Shown
  <2> HIDE DEF pages, docs, shown, found
  <2>6. /\ DOMAIN pages = {1} /\ pages[1] = FindMember(tags, name, member)
    BY <2>1
  <2>7. {1} \subseteq 0..3
    OBVIOUS
  <2> HIDE DEF tags
  <2>8. /\ DOMAIN pages \subseteq 0..3
        /\ \A k \in DOMAIN pages : pages[k] \subseteq shown
        /\ docs = {} \/ shown # docs \/ \E k \in DOMAIN pages : pages[k] # {}
    BY <2>3, <2>4, <2>5, <2>6, <2>7, <2>9
  <2> QED
    BY <2>8 DEF pages, docs, shown, tags, PagesRight
<1>2. CASE ~ (dot > 0)
  <2> DEFINE all == compounds \cup UNION {Members(c) : c \in compounds}
             kinds == {"class", "struct", "function"}
  <2>1. pages = [k \in DOMAIN Kinds |-> FindNode(tags, Kinds[k], name)]
    BY <1>2 DEF Pages
  <2>2. docs = {n.page : n \in {n \in all : n.name = name /\ n.kind \in kinds}}
    BY <1>2 DEF Documents
  <2>3. /\ DOMAIN Kinds = 1..3
        /\ Kinds[1] = "class" /\ Kinds[2] = "struct" /\ Kinds[3] = "function"
    BY DEF Kinds
  <2>4. ASSUME NEW s \in Places(tags) PROVE NodeAt(tags, s) \in all
    <3>1. CASE \E i \in DOMAIN tags : NodeAt(tags, s) = tags[i]
      BY <3>1
    <3>2. CASE \E i \in DOMAIN tags : \E j \in DOMAIN tags[i].members :
                  NodeAt(tags, s) = tags[i].members[j]
      BY <3>2
    <3> QED
      BY <3>1, <3>2, NodesAtPlaces
  <2>5. ASSUME NEW n \in all PROVE \E s \in Places(tags) : NodeAt(tags, s) = n
    <3>1. \/ \E i \in DOMAIN tags : n = tags[i]
          \/ \E i \in DOMAIN tags : \E j \in DOMAIN tags[i].members : n = tags[i].members[j]
      OBVIOUS
    <3> HIDE DEF tags, all
    <3> QED
      BY <3>1, NodesAtPlaces DEF tags
  <2>10. shown = docs \ {EmptyPage}
    BY <1>2 DEF Shown
  <2>6. ASSUME NEW k \in 1..3 PROVE pages[k] \subseteq shown
    <3> SUFFICES ASSUME NEW page \in FindNode(tags, Kinds[k], name) PROVE page \in shown
      BY <2>1, <2>3
    <3>1. PICK s \in Places(tags) : /\ IsNode(NodeAt(tags, s), Kinds[k], name)
                                    /\ page = NodeAt(tags, s).page /\ page # EmptyPage
      BY FindNodeFinds
    <3>2. Kinds[k] \in kinds
      <4>1. k = 1 \/ k = 2 \/ k = 3
        OBVIOUS
      <4> QED
        BY <2>3, <4>1
    <3>3. /\ NodeAt(tags, s) \in all /\ NodeAt(tags, s).name = name
          /\ NodeAt(tags, s).kind \in kinds
      BY <2>4, <3>1, <3>2 DEF IsNode
    <3> HIDE DEF docs, shown, all, kinds
    <3>4. page \in docs
      BY <2>2, <3>1, <3>3
    <3> QED
      BY <2>10, <3>1, <3>4
  <2>7. ASSUME docs # {}, shown = docs PROVE \E k \in 1..3 : pages[k] # {}
    <3>1. PICK n \in all : n.name = name /\ n.kind \in kinds
      <4> HIDE DEF docs, all
      <4> QED
        BY <2>2, <2>7
    <3>2. PICK s \in Places(tags) : NodeAt(tags, s) = n
      BY <2>5
    <3>3. PICK k \in 1..3 : Kinds[k] = n.kind
      <4>1. 1 \in 1..3 /\ 2 \in 1..3 /\ 3 \in 1..3
        OBVIOUS
      <4> QED
        BY <2>3, <3>1, <4>1
    <3>4. IsNode(NodeAt(tags, s), Kinds[k], name)
      BY <3>1, <3>2, <3>3 DEF IsNode
    <3>6. ASSUME NEW t \in Places(tags), IsNode(NodeAt(tags, t), Kinds[k], name)
          PROVE  NodeAt(tags, t).page # EmptyPage
      <4>1. /\ NodeAt(tags, t) \in all /\ NodeAt(tags, t).name = name
            /\ NodeAt(tags, t).kind \in kinds
        BY <2>4, <3>1, <3>3, <3>6 DEF IsNode
      <4> HIDE DEF docs, shown, all, kinds
      <4>2. NodeAt(tags, t).page \in docs
        BY <2>2, <4>1
      <4> QED
        BY <2>7, <2>10, <4>2
    <3>5. FindNode(tags, Kinds[k], name) # {}
      BY <3>4, <3>6, FindNodeFinds
    <3> QED
      BY <2>1, <2>3, <3>5
  <2>8. DOMAIN pages = 1..3 /\ 1..3 \subseteq 0..3
    BY <2>1, <2>3
  <2> HIDE DEF pages, docs, shown
  <2>9. /\ DOMAIN pages \subseteq 0..3
        /\ \A k \in DOMAIN pages : pages[k] \subseteq shown
        /\ docs = {} \/ shown # docs \/ \E k \in DOMAIN pages : pages[k] # {}
    BY <2>6, <2>7, <2>8
  <2> QED
    BY <2>9 DEF pages, docs, shown, PagesRight
<1> QED
  BY <1>1, <1>2

\* The directory's configurations in the order in which it is read.
LEMMA OrderOf ==
    ASSUME tagconfs \in Directories, NEW order \in Orders
    PROVE  /\ \E m \in Nat : DOMAIN order \subseteq 0..m
           /\ \A i \in DOMAIN order : order[i] \in tagconfs
           /\ \A conf \in tagconfs : \E i \in DOMAIN order : order[i] = conf
           /\ \A conf \in tagconfs : IsTagFile(conf.tags)
<1>1. IsFiniteSet(tagconfs) /\ \A conf \in tagconfs : IsTagFile(conf.tags)
  BY DirectoriesAssumption
<1>2. Cardinality(tagconfs) \in Nat
  BY <1>1, FS_CardinalityType
<1>3. DOMAIN order = 1..Cardinality(tagconfs)
  BY DEF Orders
<1>4. DOMAIN order \subseteq 0..Cardinality(tagconfs)
  BY <1>2, <1>3
<1> QED
  BY <1>1, <1>2, <1>4 DEF Orders

\* What the loop over the configurations leaves in inspect_result.
LEMMA LookUpDocumented ==
    ASSUME tagconfs \in Directories, NEW order \in Orders, NEW name, NEW dot, NEW member
    PROVE  LET result == LookUp(order, name, dot, member)
           IN  IF result = NoPage
               THEN \A conf \in tagconfs :
                       \/ Documents(conf, name, dot, member) = {}
                       \/ Shown(conf, name, dot, member) # Documents(conf, name, dot, member)
               ELSE \E conf \in tagconfs :
                       /\ conf.url = result[1]
                       /\ result[2] \in Shown(conf, name, dot, member)
<1> DEFINE PagesOf(i) == Pages(order[i].tags, name, dot, member)
           Docs(conf) == Documents(conf, name, dot, member)
           Shows(conf) == Shown(conf, name, dot, member)
           hits == {s \in UNION {{i} \X DOMAIN PagesOf(i) : i \in DOMAIN order} :
                       PagesOf(s[1])[s[2]] # {}}
           last == LastOf(hits)
           result == LookUp(order, name, dot, member)
<1>1. result = IF hits = {} \/ (dot > 0 /\ name = << >>) THEN NoPage
               ELSE <<order[last[1]].url, CHOOSE p \in PagesOf(last[1])[last[2]] : TRUE>>
  BY DEF LookUp
<1>2. ASSUME NEW i \in DOMAIN order
      PROVE  /\ order[i] \in tagconfs /\ DOMAIN PagesOf(i) \subseteq 0..3
             /\ \A k \in DOMAIN PagesOf(i) : PagesOf(i)[k] \subseteq Shows(order[i])
             /\ \/ Docs(order[i]) = {} \/ Shows(order[i]) # Docs(order[i])
                \/ \E k \in DOMAIN PagesOf(i) : PagesOf(i)[k] # {}
  <2>1. PICK conf \in tagconfs : conf = order[i] /\ IsTagFile(conf.tags)
    BY OrderOf
  <2> DEFINE pages == Pages(conf.tags, name, dot, member)
  <2>2. /\ DOMAIN pages \subseteq 0..3
        /\ \A k \in DOMAIN pages : pages[k] \subseteq Shown(conf, name, dot, member)
        /\ \/ Documents(conf, name, dot, member) = {}
           \/ Shown(conf, name, dot, member) # Documents(conf, name, dot, member)
           \/ \E k \in DOMAIN pages : pages[k] # {}
    <3>1. PagesRight(conf, name, dot, member)
      BY <2>1, PagesDocumented
    <3> QED
      BY <3>1 DEF PagesRight
  <2>3. /\ PagesOf(i) = pages /\ Docs(order[i]) = Documents(conf, name, dot, member)
        /\ Shows(order[i]) = Shown(conf, name, dot, member)
    BY <2>1
  <2> HIDE DEF pages, PagesOf, Docs, Shows
  <2> QED
    BY <2>1, <2>2, <2>3
<1> HIDE DEF PagesOf, Docs, Shows
<1>3. ASSUME hits # {} PROVE last \in hits
  <2>1. PICK m \in Nat : DOMAIN order \subseteq 0..m
    BY OrderOf
  <2>2. hits \in SUBSET ((0..m) \X (0..3)) /\ 3 \in Nat
    BY <1>2, <2>1
  <2> HIDE DEF hits
  <2> QED
    BY <1>3, <2>1, <2>2, LastOfIn
<1>4. ASSUME hits = {}, NEW conf \in tagconfs
      PROVE  Docs(conf) = {} \/ Shows(conf) # Docs(conf)
  <2>1. PICK i \in DOMAIN order : order[i] = conf
    BY OrderOf
  <2>2. ASSUME NEW k \in DOMAIN PagesOf(i), PagesOf(i)[k] # {} PROVE FALSE
    <3> DEFINE s == <<i, k>>
    <3>1. s \in {i} \X DOMAIN PagesOf(i) /\ s[1] = i /\ s[2] = k
      OBVIOUS
    <3> HIDE DEF s
    <3>2. s \in UNION {{l} \X DOMAIN PagesOf(l) : l \in DOMAIN order}
      BY <3>1
    <3>3. s \in hits
      BY <2>2, <3>1, <3>2
    <3> QED
      BY <1>4, <3>3
  <2>3. \A k \in DOMAIN PagesOf(i) : PagesOf(i)[k] = {}
    BY <2>2
  <2> QED
    BY <1>2, <2>1, <2>3
<1>5. ASSUME dot > 0, name = << >>, NEW conf \in tagconfs PROVE Docs(conf) = {}
  <2>1. \A i \in DOMAIN conf.tags : conf.tags[i].name # << >>
    BY OrderOf DEF IsTagFile
  <2> QED
    BY <1>5, <2>1 DEF Docs, Documents
<1>6. ASSUME hits # {}
      PROVE  LET s == last IN
             /\ order[s[1]] \in tagconfs
             /\ (CHOOSE p \in PagesOf(s[1])[s[2]] : TRUE) \in Shows(order[s[1]])
  <2>1. PICK i \in DOMAIN order : last \in {i} \X DOMAIN PagesOf(i)
    BY <1>3, <1>6
  <2>2. last[1] = i /\ last[2] \in DOMAIN PagesOf(i) /\ PagesOf(last[1])[last[2]] # {}
    BY <1>3, <1>6, <2>1
  <2> HIDE DEF last
  <2> QED
    BY <1>2, <2>2
<1>7. \A u, p : <<u, p>> # NoPage /\ <<u, p>>[1] = u /\ <<u, p>>[2] = p
  BY DEF NoPage
<1> HIDE DEF hits, last, result
<1>8. IF result = NoPage
      THEN \A conf \in tagconfs : Docs(conf) = {} \/ Shows(conf) # Docs(conf)
      ELSE \E conf \in tagconfs : conf.url = result[1] /\ result[2] \in Shows(conf)
  <2>1. CASE hits = {} \/ (dot > 0 /\ name = << >>)
    BY <1>1, <1>4, <1>5, <2>1
  <2>2. CASE ~ (hits = {} \/ (dot > 0 /\ name = << >>))
    BY <1>1, <1>6, <1>7, <2>2
  <2> QED
    BY <2>1, <2>2
<1> QED
  BY <1>8 DEF result, Docs, Shows

\* What an inspection shows.
LEMMA InspectionDocumented ==
    ASSUME tagconfs \in Directories, NEW code, NEW order \in Orders
    PROVE  LET i == Inspection(code, order)
           IN  ~ i.threw =>
                  IF i.result = NoPage
                  THEN \A conf \in tagconfs :
                          \/ Documents(conf, i.name, i.dot, i.member) = {}
                          \/ Shown(conf, i.name, i.dot, i.member)
                                # Documents(conf, i.name, i.dot, i.member)
                  ELSE \E conf \in tagconfs :
                          /\ conf.url = i.result[1]
                          /\ i.result[2] \in Shown(conf, i.name, i.dot, i.member)
<1> DEFINE i == Inspection(code, order)
<1>1. i.threw \in BOOLEAN /\ (~ i.threw => i.result = LookUp(order, i.name, i.dot, i.member))
  BY DEF Inspection, Throws
<1> HIDE DEF i
<1> QED
  BY <1>1, LookUpDocumented DEF i

\* The page that an inspection shows is one on which the configuration with that URL
\* documents what was asked for, a member on a page of its own class; and if nothing is
\* shown, no configuration documents it, unless a node of that name has no page, which hides
\* those behind it: for any tag files, read in any order (inspect).
THEOREM PagesShown == Spec => []PageDocumented
<1> DEFINE PInv == tagconfs \in Directories /\ PageDocumented
<1>1. Init => PInv
  BY DEF Init, NoReply, PageDocumented, IsInspection
<1>2. PInv /\ [Next]_vars => PInv'
  <2> SUFFICES ASSUME PInv, [Next]_vars PROVE PInv'
    OBVIOUS
  <2>1. tagconfs' = tagconfs
    BY DEF Next, complete_request, inspect_request, apply, Inspect, Inspected,
           execute_request, Declare, Replied, sessionVars, vars
  <2>2. ASSUME NEW kind, NEW code, Inspect(kind, code) PROVE PageDocumented'
    <3>1. PICK order \in Orders : reply' = [request |-> kind,
                                            inspected |-> Inspection(code, order)]
      BY <2>2 DEF Inspect
    <3>2. Found' = Inspection(code, order)
      BY <3>1 DEF Found
    <3> QED
      BY <2>1, <3>2, InspectionDocumented DEF PageDocumented
  <2>3. ASSUME complete_request \/ execute_request \/ Replied PROVE PageDocumented'
    <3>1. ~ IsInspection'
      BY <2>3 DEF complete_request, execute_request, Replied, NoReply, IsInspection
    <3> QED
      BY <3>1 DEF PageDocumented
  <2>4. ASSUME UNCHANGED vars PROVE PageDocumented'
    BY <2>4 DEF vars, PageDocumented, IsInspection, Found
  <2> QED
    BY <2>1, <2>2, <2>3, <2>4 DEF Next, inspect_request, apply
<1> QED
  BY <1>1, <1>2, PTL DEF Spec
=============================================================================

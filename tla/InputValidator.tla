--------------------------- MODULE InputValidator ---------------------------
(***************************************************************************)
(* xlexer and xinput_validator (src/xinput_validator.cpp), which answer an *)
(* is_complete request: is the input complete, incomplete or mismatched?   *)
(*                                                                         *)
(* The input is a sequence of symbols: a character, or one of the words    *)
(* that the validator tells apart.  "word" stands for letters and digits,  *)
(* "space" for a space or a tab, "quote" for the double quote.             *)
(***************************************************************************)
EXTENDS Integers, SequencesExt

CONSTANTS
    Inputs,           \* the codes to validate
    CharsPerLevel     \* nb_char_indent

Brackets == {"[", "]", "(", ")", "{", "}"}
Words == {"word", "template", "if", "endif"}
Quotes == {"quote", "'"}
AllSymbols ==
    Brackets \cup {",", ";", "\\", "#", "/", "*", "space", "newline"} \cup Words \cup Quotes

ASSUME InputsAssumption == Inputs \subseteq Seq(AllSymbols)
ASSUME IndentAssumption == CharsPerLevel \in Nat

VARIABLES
    input,            \* the code
    pc,               \* "template", "loop", "done", or "undefined" after a read
                      \* past the end of the code
    p_curr_pos,       \* the lexer's position; Len(input) + 1 is the final NUL
    m_parent_stack,   \* what is open, the innermost last
    tok,              \* the kind of the token being handled
    last_not_space_tok,   \* the kind of the last one before it that is no space
    res,              \* the result so far
    m_indent          \* the number of spaces to indent the next line with

vars == <<input, pc, p_curr_pos, m_parent_stack, tok, last_not_space_tok, res,
          m_indent>>

-----------------------------------------------------------------------------
(* xlexer.  A token is its kind, the position after it, and its length.    *)

At(p) == IF p \in 1..Len(input) THEN input[p] ELSE "eof"

\* The first position from p on that holds none of the symbols, or the NUL.
SkipAll(p, symbols) ==
    CHOOSE q \in p..(Len(input) + 1) :
        /\ At(q) \notin symbols
        /\ \A r \in p..(q - 1) : At(r) \in symbols

\* The first position from p on that holds one of the symbols, or the NUL.
SkipTo(p, symbols) == SkipAll(p, AllSymbols \ symbols)

\* lex_quoted_string: the position after the closing quote, or 0 when the lexer
\* runs past the NUL.
Overrun == 0
AfterQuote_NoEscape(p) ==
    IF \E q \in (p + 1)..Len(input) : At(q) = At(p)
    THEN 1 + CHOOSE q \in (p + 1)..Len(input) :
                At(q) = At(p) /\ \A r \in (p + 1)..(q - 1) : At(r) # At(p)
    ELSE Overrun
AfterQuote(p) ==
    LET end[q \in (p + 1)..(Len(input) + 2)] ==
            CASE q > Len(input) -> Overrun
              [] At(q) = At(p)  -> q + 1
              [] At(q) = "\\"   -> end[q + 2]
              [] OTHER          -> end[q + 1]
    IN  end[p + 1]

Token(kind, length, next) == [kind |-> kind, length |-> length, next |-> next]

Punctuators ==
    [l_square |-> "[", r_square |-> "]", l_paren |-> "(", r_paren |-> ")",
     l_brace |-> "{", r_brace |-> "}", comma |-> ",", semicolon |-> ";",
     backslash |-> "\\", hash |-> "#", slash |-> "/", asterik |-> "*"]

\* xlexer::lex at position p.
Lex(p) ==
    LET c == At(p)  d == At(p + 1) IN
    CASE c \in Quotes ->
           Token("stringlit", AfterQuote(p) - p, AfterQuote(p))
      [] c = "/" /\ d = "/" -> Token("comment", 2, p + 2)
      [] c = "/" /\ d = "*" -> Token("l_comment", 2, p + 2)
      [] c = "*" /\ d = "/" -> Token("r_comment", 2, p + 1)
      [] c \in Words ->
           Token("ident", SkipAll(p, Words) - p, SkipAll(p, Words))
      [] c = "space" ->
           Token("space", SkipAll(p, {"space"}) - p, SkipAll(p, {"space"}))
      [] c = "eof" -> Token("eof", 1, p + 1)
      [] c = "newline" -> Token("unknown", 0, p + 1)
      [] OTHER ->
           Token(CHOOSE k \in DOMAIN Punctuators : Punctuators[k] = c, 1, p + 1)
-----------------------------------------------------------------------------
(* xinput_validator.                                                       *)

Init ==
    /\ input \in Inputs
    /\ pc = "template"
    /\ p_curr_pos = 1
    /\ m_parent_stack = << >>
    /\ tok = "unknown"
    /\ last_not_space_tok = "unknown"
    /\ res = "complete"
    /\ m_indent = 0

in_block_comment == m_parent_stack # << >> /\ Last(m_parent_stack) = "l_comment"
in_template_Outermost(stack) == stack # << >> /\ stack[1] = "less"
in_template(stack) == stack = <<"less">>

\* Whether the token kind closes what is innermost.
closes_brace_Any(kind, stack) == stack # << >>
closes_brace(kind, stack) ==
    /\ stack # << >>
    /\ <<Last(stack), kind>> \in {<<"l_square", "r_square">>,
                                <<"l_paren", "r_paren">>,
                                <<"l_brace", "r_brace">>}

\* A code that begins with the word "template" is open from its first token on.
Template ==
    LET start == SkipAll(1, {"space"})  t == Lex(start) IN
    /\ pc = "template"
    /\ pc' = IF t.next = Overrun THEN "undefined" ELSE "loop"
    /\ m_parent_stack' = IF At(start) = "template" /\ t.length = 1
                         THEN <<"less">> ELSE << >>
    /\ p_curr_pos' = start
    /\ UNCHANGED <<input, tok, last_not_space_tok, res, m_indent>>

\* The next token, when the loop goes on.
Current == Lex(p_curr_pos)
Loop == pc = "loop" /\ tok # "eof" /\ res # "mismatch"

\* One round of the loop: the token it ends with, the lexer's position, the stack
\* and the result.
Round(kind, next, stack, result) ==
    /\ last_not_space_tok' = IF tok = "space" THEN last_not_space_tok ELSE tok
    /\ tok' = kind
    /\ p_curr_pos' = next
    /\ m_parent_stack' = stack
    /\ res' = result
    /\ UNCHANGED <<input, pc, m_indent>>

\* A quoted string without its end.
ReadPastEnd ==
    /\ Loop
    /\ Current.next = Overrun
    /\ pc' = "undefined"
    /\ UNCHANGED <<input, p_curr_pos, m_parent_stack, tok, last_not_space_tok,
                   res, m_indent>>

\* The token counts: it is there, and not in a block comment.
Counts(kinds) ==
    /\ Loop
    /\ Current.next # Overrun
    /\ ~ in_block_comment
    /\ Current.kind \in kinds

InComment ==
    /\ Loop
    /\ Current.next # Overrun
    /\ in_block_comment
    /\ Current.kind # "r_comment"
    /\ Round(Current.kind, Current.next, m_parent_stack, res)

\* read_to_end_of_line.
EndOfLine_PastNewline(p) == SkipTo(p, {"newline"}) + 1
EndOfLine_NotKept(p) == p - 2
EndOfLine(p) == SkipTo(p, {"newline"})

LineComment ==
    /\ Counts({"comment"})
    /\ Round("unknown", EndOfLine(Current.next), m_parent_stack, res)

RightComment ==
    /\ Loop
    /\ Current.kind = "r_comment"
    /\ IF in_block_comment
         THEN Round("r_comment", Current.next, Front(m_parent_stack), res)
         ELSE Round("r_comment", Current.next, m_parent_stack, "mismatch")

Open ==
    /\ Counts({"l_square", "l_paren", "l_brace", "l_comment"})
    /\ Round(Current.kind, Current.next, Append(m_parent_stack, Current.kind), res)

\* A closing brace also ends a template.
Close ==
    /\ Counts({"r_square", "r_paren", "r_brace"})
    /\ IF ~ closes_brace(Current.kind, m_parent_stack)
         THEN Round(Current.kind, Current.next, m_parent_stack, "mismatch")
         ELSE LET rest == Front(m_parent_stack) IN
              Round(Current.kind, Current.next,
                    IF Current.kind = "r_brace" /\ in_template(rest)
                    THEN << >> ELSE rest,
                    res)

\* A semicolon ends the forward declaration of a template.
Semicolon ==
    /\ Counts({"semicolon"})
    /\ Round("semicolon", Current.next,
             IF in_template(m_parent_stack) THEN << >> ELSE m_parent_stack, res)

\* A directive is what follows the hash up to a space (lex_any_string), a newline
\* included; #if, #ifdef and #ifndef open, #endif closes.
Hash ==
    LET start == SkipAll(Current.next, {"space"})
        next == SkipTo(start, {"space"})
        endif == At(start) = "endif" /\ At(start + 1) \in {"space", "newline", "/", "eof"}
    IN
    /\ Counts({"hash"})
    /\ CASE At(start) = "eof" -> Round("eof", start, m_parent_stack, res)
         [] At(start) = "if" ->
              Round("raw_ident", next, Append(m_parent_stack, "hash"), res)
         [] endif /\ m_parent_stack # << >> /\ Last(m_parent_stack) = "hash" ->
              Round("raw_ident", next, Front(m_parent_stack), res)
         [] endif /\ ~ (m_parent_stack # << >> /\ Last(m_parent_stack) = "hash") ->
              Round("raw_ident", next, m_parent_stack, "mismatch")
         [] OTHER -> Round("raw_ident", next, m_parent_stack, res)

Other ==
    /\ Counts({"stringlit", "comma", "backslash", "slash", "asterik", "ident",
               "space", "unknown", "eof"})
    /\ Round(Current.kind, Current.next, m_parent_stack, res)

\* A comma or a backslash as last token continues the input.
Continued == last_not_space_tok \in {"comma", "backslash"}

Finish ==
    /\ pc = "loop" /\ ~ Loop
    /\ res' = IF Continued \/ (m_parent_stack # << >> /\ res # "mismatch")
              THEN "incomplete" ELSE res
    /\ m_indent' = SkipAll(1, {"space"}) - 1 + Len(m_parent_stack) * CharsPerLevel
    /\ pc' = "done"
    /\ UNCHANGED <<input, p_curr_pos, m_parent_stack, tok, last_not_space_tok>>

Next ==
    \/ Template
    \/ ReadPastEnd
    \/ InComment
    \/ LineComment
    \/ RightComment
    \/ Open
    \/ Close
    \/ Semicolon
    \/ Hash
    \/ Other
    \/ Finish

Spec == Init /\ [][Next]_vars /\ WF_vars(Next)

-----------------------------------------------------------------------------
(* A reference: what the same input means, symbol by symbol.               *)

\* What a symbol is part of: "code", a "string" ("escape" after a backslash in it),
\* a "line" or a "block" comment.  "slash" is a slash of the code, "star" a star in
\* a block comment, either of which the next symbol may make a delimiter.
ModeAfter(m, c) ==
    CASE m = "slash" /\ c = "/" -> "line"
      [] m = "slash" /\ c = "*" -> "block"
      [] m = "line" -> IF c = "newline" THEN "code" ELSE "line"
      [] m = "star" /\ c = "/" -> "code"
      [] m \in {"block", "star"} /\ (m = "block" \/ c # "/") ->
           IF c = "*" THEN "star" ELSE "block"
      [] m = "escape" -> "string"
      [] m = "string" ->
           IF c = "quote" THEN "code" ELSE IF c = "\\" THEN "escape" ELSE m
      [] m \in {"code", "slash"} /\ c = "quote" -> "string"
      [] m = "code" /\ c = "/" -> "slash"
      [] OTHER -> "code"
Mode ==
    LET mode[i \in 0..Len(input)] ==
            IF i = 0 THEN "code" ELSE ModeAfter(mode[i - 1], input[i])
    IN  mode

NextWord(i) == SkipAll(i + 1, {"space"})
IsDirective(i, word) ==
    Mode[i] = "code" /\ At(i) = "#" /\ At(NextWord(i)) = word

\* What the i-th symbol opens or closes, "none" for nothing.
Delimiter(i) ==
    CASE IsDirective(i, "if") -> "#if"
      [] IsDirective(i, "endif") -> "#endif"
      [] Mode[i] = "code" /\ input[i] \in Brackets -> input[i]
      [] OTHER -> "none"

Pairs == {<<"(", ")">>, <<"[", "]">>, <<"{", "}">>, <<"#if", "#endif">>}
Opening == {pair[1] : pair \in Pairs}
Closing == {pair[2] : pair \in Pairs}

\* How many of the first n symbols open more than they close.
Depth(n) ==
    Cardinality({i \in 1..n : Delimiter(i) \in Opening})
        - Cardinality({i \in 1..n : Delimiter(i) \in Closing})

\* The j-th symbol closes what opened the depth in front of it.
Fits(j) ==
    \E i \in 1..(j - 1) :
        /\ <<Delimiter(i), Delimiter(j)>> \in Pairs
        /\ Depth(i) = Depth(j - 1)
        /\ \A k \in i..(j - 1) : Depth(k) >= Depth(i)
Mismatched == \E j \in 1..Len(input) : Delimiter(j) \in Closing /\ ~ Fits(j)

\* The template that the input begins with has no body and no semicolon yet.
BeginsTemplate ==
    LET start == SkipAll(1, {"space"})
    IN  At(start) = "template" /\ At(start + 1) \notin Words
EndsTemplate(n) == Mode[n] = "code" /\ input[n] \in {";", "}"} /\ Depth(n) = 0
TemplateOpen == BeginsTemplate /\ ~ \E n \in 1..Len(input) : EndsTemplate(n)

BlockOpen == Mode[Len(input)] \in {"block", "star"}
StringOpen == Mode[Len(input)] \in {"string", "escape"}
Nested ==
    Depth(Len(input)) + (IF TemplateOpen THEN 1 ELSE 0) + (IF BlockOpen THEN 1 ELSE 0)

\* The last symbol is a comma or a backslash of the code, but for spaces and a hash
\* without a directive.
Continues(i) == input[i] \in {",", "\\"} /\ Mode[i] = "code"
Blank(i) == At(i) = "space" \/ (At(i) = "#" /\ NextWord(i) = Len(input) + 1)
EndsContinued ==
    \E i \in 1..Len(input) : Continues(i) /\ \A j \in (i + 1)..Len(input) : Blank(j)

\* The inputs on which the lexer follows C++.  Elsewhere it does not: it reads quotes
\* in block comments, reads the slash that ends a block comment twice, takes "/*" in
\* a block comment for one token, and a directive for what follows up to a space.
Tame ==
    \A i \in 1..Len(input) :
        /\ Mode[i - 1] \in {"block", "star"} =>
              /\ input[i] \notin Quotes
              /\ ~ (At(i) = "/" /\ At(i + 1) = "*" /\ At(i + 2) = "/")
        /\ Mode[i - 1] = "star" /\ input[i] = "/" => At(i + 1) \notin {"/", "*"}
        /\ Mode[i] = "code" /\ input[i] = "*" => At(i + 1) # "/"
        /\ Mode[i] = "code" /\ input[i] = "#" =>
              /\ At(NextWord(i)) \in Words \cup {"eof"}
              /\ At(NextWord(i) + 1) \in {"space", "eof"}
        /\ input[i] # "'"

-----------------------------------------------------------------------------
(* Properties.                                                             *)

\* The kinds of token that open something.
OpenKinds == {"l_square", "l_paren", "l_brace", "l_comment", "less", "hash"}
TokenKinds == {"stringlit", "comment", "l_comment", "r_comment", "ident", "raw_ident",
               "space", "eof", "unknown"} \cup DOMAIN Punctuators

\* Every variable has its type; the lexer never gets further than one past the NUL.
TypeOK ==
    /\ input \in Seq(AllSymbols)
    /\ pc \in {"template", "loop", "done", "undefined"}
    /\ p_curr_pos \in 1..(Len(input) + 2)
    /\ m_parent_stack \in Seq(OpenKinds)
    /\ tok \in TokenKinds /\ last_not_space_tok \in TokenKinds
    /\ res \in {"complete", "incomplete", "mismatch"}
    /\ m_indent \in Nat

\* validate answers what the input means: complete when every delimiter is matched,
\* mismatch when one closes nothing, incomplete otherwise.  A comma or a backslash
\* as last token makes it incomplete, even in front of a mismatch.
VerdictRight ==
    pc = "done" /\ Tame =>
        /\ res = "complete" <=> ~ Mismatched /\ Nested = 0 /\ ~ EndsContinued
        /\ res = "mismatch" => Mismatched
        /\ Mismatched => res = "mismatch" \/ Continued
        /\ Continued => BlockOpen \/ \E i \in 1..Len(input) : Continues(i)

\* The front end indents the next line by the leading spaces and by one level for
\* everything that is still open.
IndentRight ==
    pc = "done" /\ Tame /\ ~ Mismatched =>
        m_indent = SkipAll(1, {"space"}) - 1 + Nested * CharsPerLevel

\* The lexer leaves the string's buffer only for a string literal without an end.
ReadsWithin == pc = "undefined" /\ Tame => StringOpen

\* validate returns on every input: every token moves the lexer forward.
Answers == <>(pc \in {"done", "undefined"})

\* What the comments of token_kind say of comment, l_comment and r_comment
\* (src/xinput_validator.hpp): such a token is its two characters, and the next token
\* begins after them.
CommentTokensApart ==
    [][tok' \in {"l_comment", "r_comment"} /\ res' # "mismatch" =>
            p_curr_pos' \in {p_curr_pos, p_curr_pos + 2}]_vars
=============================================================================

----------------------------- MODULE Completion ------------------------------
(***************************************************************************)
(* The answer of complete_request_impl: which part of the code the         *)
(* candidates replace.  Texts are sequences of characters; the candidates  *)
(* themselves are CppInterOp's and left out.                               *)
(***************************************************************************)
EXTENDS Integers, Sequences, FiniteSetsExt

CONSTANTS
    Char,             \* the characters of a code
    Delims            \* the delimiters of complete_request_impl

\* The character behind the last one of a std::string.
NUL == "NUL"

ASSUME CharAssumption == NUL \notin Char /\ Delims \subseteq Char

Span_BeforeCursor(input, cursor_pos) == SubSeq(input, 1, cursor_pos)

\* The characters that split_line reads: up to and with the one at the cursor,
\* which is the NUL when the cursor is at the end.
Span(input, cursor_pos) == SubSeq(Append(input, NUL), 1, cursor_pos + 1)

\* The last piece of split_line.  The pieces are what lies before each
\* delimiter and, if it is not empty, what lies behind the last one.
LastPiece(span) ==
    LET cuts == {0} \cup {i \in DOMAIN span : span[i] \in Delims}
        last == Max(cuts)
    IN  IF last < Len(span) THEN SubSeq(span, last + 1, Len(span))
        ELSE SubSeq(span, Max({0} \cup (cuts \ {last})) + 1, last - 1)

\* .c_str(): the copy ends at the NUL.
ToComplete(input, cursor_pos) ==
    LET piece == LastPiece(Span(input, cursor_pos))
    IN  SubSeq(piece, 1,
               Min({i \in DOMAIN piece : piece[i] = NUL} \cup {Len(piece) + 1}) - 1)

complete_request_impl(code, cursor_pos) ==
    [cursor_start |-> cursor_pos - Len(ToComplete(code, cursor_pos)),
     cursor_end |-> cursor_pos]

-----------------------------------------------------------------------------
(* What the answer should be.                                              *)

\* The start of the longest run without a delimiter that ends at the cursor.
WordStart(code, cursor_pos) ==
    Max({0} \cup {i \in 1..cursor_pos : code[i] \in Delims})

AtWordEnd(code, cursor_pos) ==
    cursor_pos = Len(code) \/ code[cursor_pos + 1] \in Delims
=============================================================================

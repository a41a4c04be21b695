-------------------------- MODULE MCInputValidator --------------------------
(***************************************************************************)
(* Alphabets for model checking InputValidator: all of C++'s is too large  *)
(* for inputs of a useful length.                                          *)
(***************************************************************************)
EXTENDS InputValidator

\* Brackets that match and that do not, and what continues a line.
BracketSymbols == {"(", ")", "[", "]", ",", "space"}

\* What begins and ends comments, and string literals, and something in them.
CommentSymbols == {"(", "/", "*", "newline"}
StringSymbols == {"(", "/", "*", "quote", "\\"}

\* What templates are made of, and preprocessor conditionals.
TemplateSymbols == {"template", "word", "{", "}", ";", "space"}
DirectiveSymbols == {"#", "if", "endif", "word", "{", ",", "space"}

\* Six symbols hold a block comment with something in it; five, a conditional
\* or a template with something in it.
MCInputs ==
    BoundedSeq(CommentSymbols, 6) \cup BoundedSeq(StringSymbols, 6)
        \cup UNION {BoundedSeq(symbols, 5) :
                     symbols \in {BracketSymbols, TemplateSymbols, DirectiveSymbols}}

\* What a block comment needs.
BlockInputs == BoundedSeq({"/", "*", "word"}, 6)
=============================================================================

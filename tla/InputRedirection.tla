-------------------------- MODULE InputRedirection --------------------------
(***************************************************************************)
(* input_redirection (src/xinput.cpp) and the xinput_buffer it installs    *)
(* behind std::cin for one request (include/xeus-cpp/xbuffer.hpp).         *)
(* Interpreter instantiates this module.                                   *)
(*                                                                         *)
(* A read that finds no character in the get area calls underflow, which   *)
(* asks the frontend when the request allows it and throws otherwise; the  *)
(* stream turns the exception into badbit, and a stream with badbit reads  *)
(* nothing more.  rdbuf(buffer) clears the stream's state.                 *)
(***************************************************************************)
EXTENDS Sequences

CONSTANTS
    Typed,            \* the characters a user can type on a line
    NewLine           \* '\n'

VARIABLES
    cin,              \* std::cin.rdbuf(): "terminal", or "guard", the xinput_buffer
    cinbad,           \* std::cin.bad()
    m_value           \* what is left to read of the last answer

inputVars == <<cin, cinbad, m_value>>

\* Every variable has its type.
TypeOK ==
    /\ cin \in {"terminal", "guard"}
    /\ cinbad \in BOOLEAN
    /\ m_value \in Seq(Typed \cup {NewLine})

Init ==
    /\ cin = "terminal"
    /\ cinbad = FALSE
    /\ m_value = << >>

\* The constructor: a new, empty buffer.
Redirect_KeepsBuffer ==
    /\ cin' = "guard"
    /\ cinbad' = FALSE
    /\ UNCHANGED m_value

Redirect ==
    /\ cin' = "guard"
    /\ cinbad' = FALSE
    /\ m_value' = << >>

\* The destructor: the buffer, with what the cell did not read, is out of reach.
Restore ==
    /\ cin' = "terminal"
    /\ cinbad' = FALSE
    /\ UNCHANGED m_value

\* underflow is called.
NeedsInput == ~ cinbad /\ m_value = << >>

\* underflow when the request allows no input: notimplemented throws.
Refuse ==
    /\ NeedsInput
    /\ cinbad' = TRUE
    /\ UNCHANGED <<cin, m_value>>

\* underflow when the answer arrives: even an empty one gives a character.
Answer(line) ==
    /\ NeedsInput
    /\ m_value' = Append(line, NewLine)
    /\ UNCHANGED <<cin, cinbad>>

\* The reader takes a character of the get area.
Extract ==
    /\ ~ cinbad
    /\ m_value # << >>
    /\ m_value' = Tail(m_value)
    /\ UNCHANGED <<cin, cinbad>>
=============================================================================

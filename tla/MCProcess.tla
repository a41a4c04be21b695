----------------------------- MODULE MCProcess ------------------------------
(* The main thread, a thread that a cell left running, and the handler;    *)
(* two characters and one two-character string.                            *)
EXTENDS Process

CONSTANTS worker, a, b

MCThreads == {Main, worker, Handler}
MCChar == {a, b}
MCStrings == {<<a, b>>}
=============================================================================

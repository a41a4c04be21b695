---------------------------- MODULE OutputStream ----------------------------
(***************************************************************************)
(* What an output stream of the kernel promises to the code that writes to *)
(* it: text is delivered to the frontend in the order in which it was      *)
(* written, each piece exactly once, and only by a flush, which delivers   *)
(* all that is pending.                                                    *)
(*                                                                         *)
(* OutputBuffer implements this specification with threads and a mutex.    *)
(***************************************************************************)
EXTENDS Sequences

CONSTANT Texts        \* the texts that one call can write

VARIABLES
    pending,          \* text written and not delivered yet
    delivered         \* text the frontend has received

vars == <<pending, delivered>>

Init ==
    /\ pending = << >>
    /\ delivered = << >>

Write(s) ==
    /\ pending' = pending \o s
    /\ UNCHANGED delivered

Flush ==
    /\ pending # << >>
    /\ delivered' = delivered \o pending
    /\ pending' = << >>

Next == Flush \/ \E s \in Texts : Write(s)

Spec == Init /\ [][Next]_vars
=============================================================================

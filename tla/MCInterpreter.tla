--------------------------- MODULE MCInterpreter ----------------------------
(* No workers or two; the bounds are in the configurations.                *)
EXTENDS Interpreter

CONSTANTS w1, w2

MCWorkers == {w1, w2}
=============================================================================

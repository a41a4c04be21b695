------------------------------ MODULE MCMagics -------------------------------
(* Two kernels in one directory.                                           *)
EXTENDS Magics

CONSTANTS k1, k2

MCKernels == {k1, k2}
MCNames == {"file", "other"}
=============================================================================

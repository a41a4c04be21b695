----------------------------- MODULE MCXAssist ------------------------------
(* A provider with a key, one with a URL, and one value for the settings.  *)
EXTENDS XAssist

CONSTANTS k1, k2, gemini, ollama, value

MCKernels == {k1, k2}
MCKeyed == {gemini}

\* Nothing tells two kernels apart.
MCSymmetry == Permutations(MCKernels)
=============================================================================

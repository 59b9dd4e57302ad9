--------------------------- MODULE MCImprovSession ---------------------------
(* A session with one or two activations of executePrompt.                   *)
EXTENDS ImprovSession

CONSTANTS x1, x2
=============================================================================

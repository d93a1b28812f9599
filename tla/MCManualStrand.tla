--------------------------- MODULE MCManualStrand ---------------------------
(* Model-checking instance of ManualStrand: four functions, so that one can *)
(* run, one wait in queue_ and two be posted at once.                       *)
EXTENDS ManualStrand
=============================================================================

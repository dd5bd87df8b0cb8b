---------------------- MODULE MCAssuranceConfirmation -----------------------
(* Instance of AssuranceConfirmation for TLC, and the mutants of its code.    *)
EXTENDS AssuranceConfirmation
=============================================================================

---------------------- MODULE MCTokenServiceRefinement ----------------------
(* Instances of TokenServiceRefinement for TLC.  The mapping chooses a      *)
(* request, so requests are not declared symmetric.                         *)
EXTENDS TokenServiceRefinement
=============================================================================

--------------------------- MODULE MCFlexDisplay ---------------------------
(* FlexDisplay on small instances: each run gives the constants in its cfg.  *)
(* The sizes are not declared symmetric, since the runs check liveness.      *)
EXTENDS FlexDisplay
=============================================================================

--------------------------- MODULE MCDmabufHolds ---------------------------
(* DmabufHolds on small instances: each run gives the constants in its cfg.  *)
(* The buffers are not declared symmetric, since the runs check liveness and *)
(* action properties.                                                        *)
EXTENDS DmabufHolds
=============================================================================

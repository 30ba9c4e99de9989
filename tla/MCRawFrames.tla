---------------------------- MODULE MCRawFrames ----------------------------
(* RawFrames on a small instance: every run gives the constants in its cfg.  *)
EXTENDS RawFrames
=============================================================================

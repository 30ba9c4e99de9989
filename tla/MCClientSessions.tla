-------------------------- MODULE MCClientSessions --------------------------
(* ClientSessions with consoles of the main display, k1 and k2, and one of   *)
(* another, k3.                                                              *)
EXTENDS ClientSessions, TLC

CONSTANTS k1, k2, k3

MCDisplayOf == [k \in Consoles |-> IF k = k3 THEN 1 ELSE 0]

(* The consoles of the main display are interchangeable.                     *)
MCSymmetry == Permutations({k1, k2})
=============================================================================

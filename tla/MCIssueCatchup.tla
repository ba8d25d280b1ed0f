--------------------------- MODULE MCIssueCatchup ----------------------------
(* TLC instance of IssueCatchup. *)
EXTENDS IssueCatchup, TLC

CONSTANTS i1, i2, i3, j1
=============================================================================

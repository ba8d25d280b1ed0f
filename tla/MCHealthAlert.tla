---------------------------- MODULE MCHealthAlert ----------------------------
(* TLC instance of HealthAlert. *)
EXTENDS HealthAlert, TLC

CONSTANTS r1, r2

\* Healthy at the edge of both thresholds, beyond both, and no scores beside
\* too many stuck sessions.  The lone low score is what a failed query for the
\* sessions leaves of the second.
MCReadings ==
  {[recent |-> 8, all |-> 10, stuck |-> 2], [recent |-> 7, all |-> 10, stuck |-> 3],
   [recent |-> NoScore, all |-> 0, stuck |-> 3]}
=============================================================================

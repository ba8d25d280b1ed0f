---------------------------- MODULE MCMigrations -----------------------------
(* TLC instance of Migrations: one old process and two new ones. *)
EXTENDS Migrations, TLC

CONSTANTS p1, p2, p3, s1, s2, s3

MCKnown == p1 :> 1 @@ p2 :> 3 @@ p3 :> 3
MCOwn == p1 :> s1 @@ p2 :> s2 @@ p3 :> s3
=============================================================================

------------------------------ MODULE MCFfldb ------------------------------
(* Instances of Ffldb: a short block, and a long one that fills a file. *)
EXTENDS Ffldb, TLC

CONSTANTS short, long

ShortAndLong == [b \in Blocks |-> IF b = long THEN 2 ELSE 1]
=============================================================================

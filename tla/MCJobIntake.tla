----------------------------- MODULE MCJobIntake -----------------------------
(* Instances of JobIntake for TLC.  Keys and consumers of one release are     *)
(* interchangeable; the runs that use Symmetry check no liveness.             *)
EXTENDS JobIntake, TLC

CONSTANTS k1, k2, p1, p2, c1, c2

Symmetry == Permutations(Keys) \cup Permutations(Consumers)
=============================================================================

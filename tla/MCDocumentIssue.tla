---------------------------- MODULE MCDocumentIssue ----------------------------
(* Instances of DocumentIssue for TLC.                                          *)
EXTENDS DocumentIssue, TLC

CONSTANTS p1, p2, a1, a2, b1, f1, A, B, F

MCConnOf == a1 :> A @@ a2 :> A @@ b1 :> B @@ f1 :> F

Symmetry == Permutations(Procs)
=============================================================================

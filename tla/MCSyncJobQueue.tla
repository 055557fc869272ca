--------------------------- MODULE MCSyncJobQueue ---------------------------
(* Instances of SyncJobQueue for TLC: jobs of one connection.  Jobs, runners  *)
(* and slots are each interchangeable; the run with liveness uses no symmetry.*)
EXTENDS SyncJobQueue, TLC

CONSTANTS j1, j2, w1, w2, s1, s2, c1

MCConnOf == [j \in Jobs |-> c1]

Symmetry == Permutations(Jobs) \cup Permutations(Workers) \cup Permutations(Slots)
=============================================================================

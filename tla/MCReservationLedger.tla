-------------------------- MODULE MCReservationLedger --------------------------
(* Instances of ReservationLedger for TLC.                                     *)
EXTENDS ReservationLedger, TLC

CONSTANTS p1, p2, o1, o2

(* Every line at one position; the two lines of two orders at two positions,   *)
(* listed the other way round, until the lines of the first move to a third.   *)
OnePosition == [x \in Orders \X Lines |-> {1}]
Crossed ==
  <<o1, 1>> :> {1, 3} @@ <<o1, 2>> :> {2, 3} @@ <<o2, 1>> :> {2} @@ <<o2, 2>> :> {1}

(* A stock that moves: from the third position to the first two, or back, when *)
(* the second of them goes stale before the first.                             *)
Live(p) == ~position[p].stale
MovesInOrder == (Live(2) => Live(1)) /\ (~Live(3) => Live(2))

(* Not followed any further once more than MaxEnded holds have ended.         *)
MaxEnded == 1
FewEnded == Cardinality(closed) <= MaxEnded

SymmetricProcs == Permutations(Procs)
Symmetry == SymmetricProcs \cup Permutations(Orders)
=============================================================================

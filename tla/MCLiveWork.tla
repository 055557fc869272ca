------------------------------ MODULE MCLiveWork ------------------------------
(* One instance for TLC of what must come about in the end at one order: a       *)
(* crashed invoice is settled, the badge follows the hold.  `focus` picks one of *)
(* the two modules, and the fairness is that module's own.                       *)
EXTENDS MCDocumentIssue, OrderHold

CONSTANTS x, y

VARIABLE focus

LiveInit == focus \in {"documents", "hold"} /\ Init /\ HoldInit

LiveNext ==
  \/ focus = "documents" /\ Next /\ UNCHANGED <<focus, holdVars>>
  \/ focus = "hold" /\ HoldNext /\ UNCHANGED <<focus, vars>>

LiveSpec ==
  /\ LiveInit /\ [][LiveNext]_<<focus, vars, holdVars>>
  /\ (focus = "documents") => Fairness
  /\ (focus = "hold") => HoldFairness
=============================================================================

---------------------------- MODULE JobLifecycle ----------------------------
(* What the job queue promises about the rows of sync_jobs: the states a row  *)
(* goes through and the attempts it is charged.  Nothing is said of runners,  *)
(* locks, snapshots or sweeps.  A statement may move several rows at once, so *)
(* a step moves each row by one of the actions below or leaves it.            *)
EXTENDS Naturals

CONSTANTS Jobs, MaxAttempts

VARIABLES
  status,   \* per job "absent", "queued", "running", "succeeded" or "dead"
  attempts  \* failed runs charged since the job was inserted or last revived

vars == <<status, attempts>>

Init ==
  /\ status = [j \in Jobs |-> "absent"]
  /\ attempts = [j \in Jobs |-> 0]

Goes(j, from, to) == status[j] = from /\ status'[j] = to
Uncharged(j) == attempts'[j] = attempts[j]

Insert(j) == Goes(j, "absent", "queued") /\ attempts'[j] = 0

Begin(j) == Goes(j, "queued", "running") /\ Uncharged(j)

Succeed(j) == Goes(j, "running", "succeeded") /\ Uncharged(j)

(* An ordinary failure costs one attempt and leaves at least one.             *)
Retry(j) ==
  /\ Goes(j, "running", "queued")
  /\ attempts'[j] = attempts[j] + 1
  /\ attempts'[j] < MaxAttempts

(* Congestion, deferral and recovery give the run back without charge.        *)
Yield(j) == Goes(j, "running", "queued") /\ Uncharged(j)

GiveUp(j) == Goes(j, "running", "dead") /\ Uncharged(j)

(* Only an operator brings a dead job back, with its attempts restored.       *)
Revive(j) == Goes(j, "dead", "queued") /\ attempts'[j] = 0

Remove(j) == status[j] # "absent" /\ status'[j] = "absent" /\ attempts'[j] = 0

Stay(j) == status'[j] = status[j] /\ Uncharged(j)

Move(j) ==
  \/ Insert(j) \/ Begin(j) \/ Succeed(j) \/ Retry(j) \/ Yield(j) \/ GiveUp(j)
  \/ Revive(j) \/ Remove(j)

Next == \A j \in Jobs : Move(j) \/ Stay(j)

Spec == Init /\ [][Next]_vars
=============================================================================

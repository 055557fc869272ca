----------------------------- MODULE WebhookGate -----------------------------
(* The gate a webhook passes: WebhookService routes an event, then              *)
(* WebhookJobGateRepository.insertDeliveryWithJobs writes its jobs and its      *)
(* delivery row in one transaction.  The source sends an event again until it   *)
(* is acknowledged and may do so any time later, an operator may have enabled   *)
(* the missing capability in between, and retention deletes finished jobs.      *)
(*                                                                              *)
(* One event that routes to GateJobs jobs, inserted in their order.  PostgreSQL *)
(* is at READ COMMITTED: an insert on a key another transaction is inserting    *)
(* waits for it to end.                                                         *)
EXTENDS Naturals

CONSTANTS
  Ingests,       \* deliveries of the event handled at a time
  GateJobs,      \* jobs the event routes to
  MaxGateFaults  \* bound: crashes, failed statements and finished jobs deleted

ASSUME GateAssumption == GateJobs \in Nat \ {0} /\ MaxGateFaults \in Nat

VARIABLES
  gateRouted,  \* the connection has the capability: the event routes
  gateStored,  \* keys that have a committed sync_jobs row
  gateMade,    \* per key: rows ever committed
  delivery,    \* the committed delivery row: none, deadlettered, job_enqueued
  ingest,      \* per execution: its transaction
  gateFaults

gateVars == <<gateRouted, gateStored, gateMade, delivery, ingest, gateFaults>>

GateKeys == 1..GateJobs
NoIngest == [pc |-> "idle", jobs |-> 0, next |-> 1, wrote |-> {}, row |-> "none"]

GateInit ==
  /\ gateRouted \in BOOLEAN
  /\ gateStored = {} /\ gateMade = [k \in GateKeys |-> 0]
  /\ delivery = "none"
  /\ ingest = [i \in Ingests |-> NoIngest]
  /\ gateFaults = 0

GateFault == gateFaults < MaxGateFaults /\ gateFaults' = gateFaults + 1
GateAt(i, pc) == ingest[i].pc = pc
Others(i) == Ingests \ {i}

(* Where a transaction goes on: the next job, or the delivery row.             *)
Onward_PastEnd(tx) == [tx EXCEPT !.next = @ + 1, !.pc = IF tx.next <= tx.jobs THEN "job" ELSE "row"]
Onward(tx) == [tx EXCEPT !.next = @ + 1, !.pc = IF tx.next < tx.jobs THEN "job" ELSE "row"]

-----------------------------------------------------------------------------
(* resolveEvent, before the transaction: the jobs, or none if nothing routes.  *)
Receive(i) ==
  /\ GateAt(i, "idle")
  /\ ingest' = [ingest EXCEPT ![i] =
       IF gateRouted THEN [NoIngest EXCEPT !.pc = "job", !.jobs = GateJobs]
                     ELSE [NoIngest EXCEPT !.pc = "row"]]
  /\ UNCHANGED <<gateRouted, gateStored, gateMade, delivery, gateFaults>>

EnableCapability ==
  /\ ~gateRouted /\ gateRouted' = TRUE
  /\ UNCHANGED <<gateStored, gateMade, delivery, ingest, gateFaults>>

(* INSERT .. ON CONFLICT DO NOTHING of the next job.                           *)
InsertJob(i) ==
  /\ GateAt(i, "job")
  /\ LET tx == ingest[i]
     IN /\ \A o \in Others(i) : tx.next \notin ingest[o].wrote
        /\ ingest' = [ingest EXCEPT ![i] =
             IF tx.next \in gateStored THEN [tx EXCEPT !.pc = "select"]
             ELSE [Onward(tx) EXCEPT !.wrote = tx.wrote \cup {tx.next}]]
  /\ UNCHANGED <<gateRouted, gateStored, gateMade, delivery, gateFaults>>

(* The SELECT of the row that was in the way: gone by now, the call throws.    *)
SelectJob(i) ==
  /\ GateAt(i, "select")
  /\ ingest' = [ingest EXCEPT ![i] = IF ingest[i].next \in gateStored THEN Onward(@) ELSE NoIngest]
  /\ UNCHANGED <<gateRouted, gateStored, gateMade, delivery, gateFaults>>

(* The delivery row: inserted, left as it is, or, if the event routes and the  *)
(* row is dead-lettered, repaired.                                             *)
RowAfter_NoRepair(tx) ==
  IF delivery = "none" THEN IF tx.jobs > 0 THEN "job_enqueued" ELSE "deadlettered" ELSE "none"
RowAfter(tx) ==
  IF delivery = "none" THEN IF tx.jobs > 0 THEN "job_enqueued" ELSE "deadlettered"
  ELSE IF tx.jobs > 0 /\ delivery = "deadlettered" THEN "job_enqueued" ELSE "none"
WriteRow(i) ==
  /\ GateAt(i, "row")
  /\ \A o \in Others(i) : ingest[o].row = "none"
  /\ ingest' = [ingest EXCEPT ![i].pc = "commit", ![i].row = RowAfter(ingest[i])]
  /\ UNCHANGED <<gateRouted, gateStored, gateMade, delivery, gateFaults>>

CommitGate(i) ==
  /\ GateAt(i, "commit")
  /\ LET tx == ingest[i]
     IN /\ gateStored' = gateStored \cup tx.wrote
        /\ gateMade' = [k \in GateKeys |-> IF k \in tx.wrote THEN gateMade[k] + 1 ELSE gateMade[k]]
        /\ delivery' = IF tx.row = "none" THEN delivery ELSE tx.row
  /\ ingest' = [ingest EXCEPT ![i] = NoIngest]
  /\ UNCHANGED <<gateRouted, gateFaults>>

(* A statement fails or the process dies: everything is rolled back, and the   *)
(* source sends the event again.                                               *)
Rollback(i) ==
  /\ ~GateAt(i, "idle") /\ GateFault
  /\ ingest' = [ingest EXCEPT ![i] = NoIngest]
  /\ UNCHANGED <<gateRouted, gateStored, gateMade, delivery>>

(* JobHistoryRetention deletes a job that finished.                            *)
PruneJob ==
  /\ GateFault
  /\ \E k \in gateStored : gateStored' = gateStored \ {k}
  /\ UNCHANGED <<gateRouted, gateMade, delivery, ingest>>

GateNext ==
  \/ \E i \in Ingests :
       Receive(i) \/ InsertJob(i) \/ SelectJob(i) \/ WriteRow(i) \/ CommitGate(i) \/ Rollback(i)
  \/ EnableCapability \/ PruneJob

GateSpec == GateInit /\ [][GateNext]_gateVars

-----------------------------------------------------------------------------
GateTypeOK ==
  /\ gateRouted \in BOOLEAN
  /\ gateStored \subseteq GateKeys
  /\ gateMade \in [GateKeys -> Nat]
  /\ delivery \in {"none", "deadlettered", "job_enqueued"}
  /\ ingest \in [Ingests -> [pc : {"idle", "job", "select", "row", "commit"}, jobs : {0, GateJobs},
                             next : 1..GateJobs + 1, wrote : SUBSET GateKeys,
                             row : {"none", "deadlettered", "job_enqueued"}]]
  /\ gateFaults \in Nat

(* The delivery row tells what became of the event, whatever is delivered      *)
(* again, overlaps, fails, is repaired or deleted: a row that is enqueued had  *)
(* all of its jobs written, and without a row, or with a dead-lettered one,    *)
(* none was.                                                                   *)
DeliveryTellsTruth ==
  \A k \in GateKeys : delivery = "job_enqueued" <=> gateMade[k] > 0
=============================================================================

----------------------------- MODULE DocumentIssue -----------------------------
(* The sales documents of one order: InvoiceService.issueInvoice and            *)
(* FiscalRegistrationService.register, which take the same per-order lock, the  *)
(* crash-recovery sweep PendingRecoveryService and the operator's reconcile of  *)
(* a receipt in doubt.  Corrections, offline resubmission and what is printed   *)
(* on a document are left out.                                                  *)
(*                                                                              *)
(* A row is an invoice_records or fiscal_registration_records row, named by its *)
(* connection and idempotency key.  Calls for a row may come again and again:   *)
(* the jobs are delivered at least once, and people press the button twice.     *)
EXTENDS Naturals, FiniteSets

CONSTANTS
  Procs,      \* API and worker calls that run at the same time
  Invoices,   \* the invoice rows the order may get
  Receipts,   \* the fiscal registration rows the order may get
  ConnOf,     \* the connection of a row
  Keyless,    \* invoice rows asked for without an idempotency key
  Consumers,  \* connections whose documents OpenLinker numbers
  Locators,   \* connections whose provider can be asked for a document
  Repeat,     \* what a provider does with a row it has a document for: "same", "another", "refused"
  MaxFaults,  \* bound: dying processes, failing adapters and writes
  Free, Orphan

Rows == Invoices \cup Receipts

ASSUME ConstantsAssumption ==
  /\ Invoices \cap Receipts = {}
  /\ Rows \subseteq DOMAIN ConnOf
  /\ Keyless \subseteq Invoices
  /\ Repeat \subseteq {"same", "another", "refused"} /\ Repeat # {}
  /\ MaxFaults \in Nat
  /\ {Free, Orphan} \cap Procs = {} /\ Free # Orphan

VARIABLES
  row,    \* the tables
  lock,   \* the order's lock: free, a call's token, or that of a call that died
  proc,   \* the calls
  sweep,  \* the recovery or reconciliation that is asking a provider
  docs,   \* the documents the providers hold for a row
  wire,   \* rows with a request still on its way to the provider
  faults

vars == <<row, lock, proc, sweep, docs, wire, faults>>

Absent ==
  [status |-> "absent", mode |-> "none", lease |-> "none", numbered |-> FALSE, refused |-> FALSE]
Idle == [pc |-> "idle", row |-> Free, result |-> "none"]
Asleep == [pc |-> "idle", row |-> Free, found |-> "no"]

Init ==
  /\ row = [r \in Rows |-> Absent]
  /\ lock = Free
  /\ proc = [t \in Procs |-> Idle]
  /\ sweep = Asleep
  /\ docs = [r \in Rows |-> 0]
  /\ wire = {}
  /\ faults = 0

Fault == faults < MaxFaults /\ faults' = faults + 1
At(t, pc) == proc[t].pc = pc
Goes(t, pc) == proc' = [proc EXCEPT ![t].pc = pc]
Mine(t) == proc[t].row
Write(r, entity) == row' = [row EXCEPT ![r] = entity]

-----------------------------------------------------------------------------
(* blocksIssuanceElsewhere, blocksFurtherRegistration: only a refusal leaves    *)
(* the order free.                                                              *)
Blocks(r) ==
  \/ row[r].status \in {"pending", "working", "issued"}
  \/ row[r].status = "failed" /\ row[r].mode # "rejected"

(* An invoice leaves out the rows of its own connection, a receipt leaves out   *)
(* none; each of them minds the other kind.                                     *)
Elsewhere(r) == {i \in Invoices : ConnOf[i] # ConnOf[r]}
Rivals_OwnKind(r) == IF r \in Invoices THEN Elsewhere(r) ELSE Receipts
Rivals(r) == IF r \in Invoices THEN Receipts \cup Elsewhere(r) ELSE Rows

(* resumeExisting: a row that was issued, is being worked on or is in doubt is  *)
(* handed back.                                                                 *)
Resumable(r) ==
  \/ row[r].status = "pending"
  \/ row[r].status = "working" /\ row[r].lease # "live"
  \/ row[r].status = "failed" /\ row[r].mode = "rejected"

(* An invoice is claimed before its adapter is resolved, a receipt after.       *)
WithAdapter(r) == IF r \in Invoices THEN "claim" ELSE "resolve"
Resume(t) == Goes(t, IF Resumable(Mine(t)) THEN WithAdapter(Mine(t)) ELSE "release")

-----------------------------------------------------------------------------
(* The lock.  A contended call answers from the tables and changes nothing.     *)
LockIsFree_PerConnection(r) == \A t \in Procs : lock = t => ConnOf[Mine(t)] # ConnOf[r]
LockIsFree(r) == lock = Free

Entry(r) == IF r \in Invoices THEN "guard" ELSE "gate"
Acquire(t, r) ==
  /\ At(t, "idle") /\ LockIsFree(r)
  /\ r \in Keyless => row[r].status = "absent"
  /\ lock' = t
  /\ proc' = [proc EXCEPT ![t] = [Idle EXCEPT !.pc = Entry(r), !.row = r]]
  /\ UNCHANGED <<row, sweep, docs, wire, faults>>

(* assertNotInvoicedElsewhere, assertNotAlreadyRegistered.  An invoice is       *)
(* guarded before its row is looked up, a receipt only when it has no row.      *)
Guard(t) ==
  /\ At(t, "guard")
  /\ Goes(t, IF \E q \in Rivals(Mine(t)) : Blocks(q) THEN "release"
             ELSE IF Mine(t) \in Invoices \ Keyless THEN "gate" ELSE "create")
  /\ UNCHANGED <<row, lock, sweep, docs, wire, faults>>

Gate(t) ==
  /\ At(t, "gate")
  /\ IF row[Mine(t)].status # "absent" THEN Resume(t)
     ELSE Goes(t, IF Mine(t) \in Invoices THEN "create" ELSE "guard")
  /\ UNCHANGED <<row, lock, sweep, docs, wire, faults>>

(* The intent, before anything leaves the house.  The unique index turns a      *)
(* second insert of the row into a resume.                                      *)
Create(t) ==
  /\ At(t, "create")
  /\ IF row[Mine(t)].status # "absent" THEN Resume(t) /\ UNCHANGED row
     ELSE /\ Write(Mine(t), [Absent EXCEPT !.status = "pending"])
          /\ Goes(t, WithAdapter(Mine(t)))
  /\ UNCHANGED <<lock, sweep, docs, wire, faults>>

(* The compare-and-swap claim.  The stale failure mode stays on the row.        *)
Claimable(e) ==
  \/ e.status = "pending"
  \/ e.status = "failed" /\ e.mode = "rejected"
  \/ e.status = "working" /\ e.lease # "live"
Claimed(e) == [e EXCEPT !.status = "working", !.lease = "live"]

Claim(t) ==
  /\ At(t, "claim")
  /\ IF Claimable(row[Mine(t)])
       THEN /\ Write(Mine(t), Claimed(row[Mine(t)]))
            /\ Goes(t, IF Mine(t) \in Invoices THEN "resolve" ELSE "call")
       ELSE Goes(t, "release") /\ UNCHANGED row
  /\ UNCHANGED <<lock, sweep, docs, wire, faults>>

(* No adapter: the receipt is as it was, the invoice stays claimed.             *)
Resolve(t) ==
  /\ At(t, "resolve")
  /\ \/ Goes(t, IF Mine(t) \in Invoices THEN "number" ELSE "claim") /\ UNCHANGED faults
     \/ Fault /\ Goes(t, "release")
  /\ UNCHANGED <<row, lock, sweep, docs, wire>>

Refused(e) ==
  [e EXCEPT !.status = "failed", !.mode = "rejected", !.lease = "none", !.refused = TRUE]

(* The number is kept with the row, and a row that has one keeps it.  Without a *)
(* series the provider is not asked.                                            *)
NeedsNumber_Always(r) == ConnOf[r] \in Consumers
NeedsNumber(r) == ConnOf[r] \in Consumers /\ ~row[r].numbered
AllocateNumber(t) ==
  /\ At(t, "number")
  /\ LET r == Mine(t) IN
       IF ~NeedsNumber(r) THEN Goes(t, "call") /\ UNCHANGED row
       ELSE \/ Write(r, [row[r] EXCEPT !.numbered = TRUE]) /\ Goes(t, "call")
            \/ Write(r, Refused(row[r])) /\ Goes(t, "release")
  /\ UNCHANGED <<lock, sweep, docs, wire, faults>>

-----------------------------------------------------------------------------
(* The provider.                                                                *)
MayRefuse(r) == docs[r] = 0 \/ "refused" \in Repeat
DocsAfter(r) ==
  IF docs[r] = 0 THEN {1}
  ELSE {docs[r] : x \in Repeat \cap {"same"}} \cup {2 : x \in Repeat \cap {"another"}}

Answered(t, result) == proc' = [proc EXCEPT ![t].pc = "record", ![t].result = result]

CallProvider(t) ==
  /\ At(t, "call")
  /\ LET r == Mine(t) IN
       \/ \E n \in DocsAfter(r) : docs' = [docs EXCEPT ![r] = n]
          /\ Answered(t, "issued") /\ UNCHANGED wire
       \/ MayRefuse(r) /\ Answered(t, "rejected") /\ UNCHANGED <<docs, wire>>
       \/ Answered(t, "inDoubt") /\ wire' = wire \cup {r} /\ UNCHANGED docs
  /\ UNCHANGED <<row, lock, sweep, faults>>

(* A request whose caller has given up or died arrives after all, or is lost.   *)
RequestLands(r) ==
  /\ r \in wire
  /\ \E n \in DocsAfter(r) \cup {docs[r]} : docs' = [docs EXCEPT ![r] = n]
  /\ wire' = wire \ {r}
  /\ UNCHANGED <<row, lock, proc, sweep, faults>>

(* updateOutcome, by id and whatever the row says by now.                       *)
Outcome_LeaseKept(e, result) ==
  CASE result = "issued"   -> [e EXCEPT !.status = "issued", !.mode = "none"]
    [] result = "rejected" -> Refused(e)
    [] result = "inDoubt"  -> [e EXCEPT !.status = "failed", !.mode = "inDoubt"]
Outcome(e, result) ==
  CASE result = "issued"   -> [e EXCEPT !.status = "issued", !.mode = "none", !.lease = "none"]
    [] result = "rejected" -> Refused(e)
    [] result = "inDoubt"  -> [e EXCEPT !.status = "failed", !.mode = "inDoubt", !.lease = "none"]

Record(t) ==
  /\ At(t, "record")
  /\ \/ Write(Mine(t), Outcome(row[Mine(t)], proc[t].result)) /\ UNCHANGED faults
     \/ Fault /\ UNCHANGED row
  /\ Goes(t, "release")
  /\ UNCHANGED <<lock, sweep, docs, wire>>

(* Compare-and-delete by token.                                                 *)
Release(t) ==
  /\ At(t, "release")
  /\ lock' = IF lock = t THEN Free ELSE lock
  /\ proc' = [proc EXCEPT ![t] = Idle]
  /\ UNCHANGED <<row, sweep, docs, wire, faults>>

-----------------------------------------------------------------------------
(* Recovery.  `sweep` holds what was read before the provider was asked.        *)
Stuck(r) == row[r].status = "working" /\ row[r].lease = "stuck"
InDoubt(r) == row[r].status = "failed" /\ row[r].mode = "inDoubt"

SelectForRecovery(r) ==
  /\ sweep.pc = "idle"
  /\ \/ r \in Invoices /\ Stuck(r)
     \/ r \in Receipts /\ InDoubt(r) /\ ConnOf[r] \in Locators
  /\ sweep' = [Asleep EXCEPT !.pc = "locate", !.row = r]
  /\ UNCHANGED <<row, lock, proc, docs, wire, faults>>

(* An existing document may be missed, or found refused by the authority; a     *)
(* lookup that throws leaves the row to the next run.                           *)
Locate ==
  /\ sweep.pc = "locate"
  /\ \/ \E a \in {"no"} \cup IF docs[sweep.row] = 0 \/ ConnOf[sweep.row] \notin Locators THEN {}
                              ELSE {"yes"} \cup {"refused" : x \in Invoices \cap {sweep.row}} :
          sweep' = [sweep EXCEPT !.pc = "write", !.found = a]
     \/ sweep' = Asleep /\ ConnOf[sweep.row] \in Locators
  /\ UNCHANGED <<row, lock, proc, docs, wire, faults>>

(* buildRecoveredPatch leaves the status of a refused document alone, and       *)
(* buildInDoubtPatch is for the rest; a receipt not found stays as it was.      *)
Recovered_NothingFound(e, r, found) ==
  IF found = "yes" THEN [e EXCEPT !.status = "issued", !.lease = "none"] ELSE e
Recovered(e, r, found) ==
  CASE found = "yes" /\ r \in Invoices -> [e EXCEPT !.status = "issued", !.lease = "none"]
    [] found = "yes" /\ r \in Receipts -> Outcome(e, "issued")
    [] found = "refused"               -> [e EXCEPT !.lease = "none"]
    [] found = "no" /\ r \in Invoices  -> Outcome(e, "inDoubt")
    [] found = "no" /\ r \in Receipts  -> e

WriteRecovered ==
  /\ sweep.pc = "write"
  /\ Write(sweep.row, Recovered(row[sweep.row], sweep.row, sweep.found))
  /\ sweep' = Asleep
  /\ UNCHANGED <<lock, proc, docs, wire, faults>>

-----------------------------------------------------------------------------
(* Time.  The lock outlives the reads and writes that lead to the claim, or its *)
(* holder died; a lease outlives the call it covers.                            *)
Covered(t) ==
  At(t, "number") \/ At(t, "call") \/ At(t, "record") \/ (At(t, "resolve") /\ Mine(t) \in Invoices)

LockExpires ==
  /\ lock = Orphan \/ \E t \in Procs : lock = t /\ (Covered(t) \/ At(t, "release"))
  /\ lock' = Free
  /\ UNCHANGED <<row, proc, sweep, docs, wire, faults>>

LeaseElapses(r) ==
  /\ row[r].status = "working" /\ row[r].lease \in {"live", "expired"}
  /\ r \notin wire /\ ~\E t \in Procs : Mine(t) = r /\ Covered(t)
  /\ Write(r, [row[r] EXCEPT !.lease = IF @ = "live" THEN "expired" ELSE "stuck"])
  /\ UNCHANGED <<lock, proc, sweep, docs, wire, faults>>

ProcessDies(t) ==
  /\ ~At(t, "idle")
  /\ Fault
  /\ proc' = [proc EXCEPT ![t] = Idle]
  /\ lock' = IF lock = t THEN Orphan ELSE lock
  /\ wire' = IF At(t, "call") THEN wire \cup {Mine(t)} ELSE wire
  /\ UNCHANGED <<row, sweep, docs>>

-----------------------------------------------------------------------------
Works(t) ==
  \/ Guard(t) \/ Gate(t) \/ Create(t) \/ Claim(t) \/ Resolve(t) \/ AllocateNumber(t)
  \/ CallProvider(t) \/ Record(t) \/ Release(t)

Next ==
  \/ \E t \in Procs : (\E r \in Rows : Acquire(t, r)) \/ Works(t) \/ ProcessDies(t)
  \/ \E r \in Rows : RequestLands(r) \/ LeaseElapses(r) \/ SelectForRecovery(r)
  \/ Locate \/ WriteRecovered \/ LockExpires

Spec == Init /\ [][Next]_vars

(* Calls end, time passes, the recovery job keeps being scheduled and a         *)
(* provider that is asked again and again about an invoice answers at last.     *)
IsAnswered(r) == Locate /\ sweep.row = r /\ sweep'.pc = "write"
Fairness ==
  /\ \A t \in Procs : WF_vars(Works(t))
  /\ \A r \in Rows : WF_vars(RequestLands(r)) /\ WF_vars(LeaseElapses(r))
  /\ \A r \in Invoices : SF_vars(SelectForRecovery(r)) /\ SF_vars(IsAnswered(r))
  /\ WF_vars(Locate) /\ WF_vars(WriteRecovered)

FairSpec == Spec /\ Fairness

-----------------------------------------------------------------------------
ProcPcs ==
  {"idle", "guard", "gate", "create", "claim", "resolve", "number", "call", "record", "release"}

TypeOK ==
  /\ row \in [Rows -> [status : {"absent", "pending", "working", "issued", "failed"},
                       mode : {"none", "rejected", "inDoubt"},
                       lease : {"none", "live", "expired", "stuck"},
                       numbered : BOOLEAN, refused : BOOLEAN]]
  /\ lock \in Procs \cup {Free, Orphan}
  /\ proc \in [Procs -> [pc : ProcPcs, row : Rows \cup {Free},
                         result : {"none", "issued", "rejected", "inDoubt"}]]
  /\ sweep \in [pc : {"idle", "locate", "write"}, row : Rows \cup {Free}, found : {"no", "yes", "refused"}]
  /\ docs \in [Rows -> 0..2]
  /\ wire \subseteq Rows
  /\ faults \in 0..MaxFaults
  /\ sweep.pc # "idle" => sweep.row \in Rows
  /\ \A t \in Procs :
       /\ At(t, "idle") => proc[t] = Idle
       /\ ~At(t, "idle") => Mine(t) \in Rows
       /\ At(t, "record") => proc[t].result # "none"
  /\ \A r \in Rows : row[r].lease # "none" => row[r].status = "working"

(* Nobody records the intent of a document while the order has, or may still    *)
(* get, one on a rival row: the lock makes the guard's read and the insert one  *)
(* step for both kinds of document, whoever dies with the lock or lost a reply. *)
MayHaveDocument(r) == docs[r] > 0 \/ r \in wire \/ \E t \in Procs : Mine(t) = r /\ Covered(t)
IntentsAreAlone ==
  [][\A r \in Rows : row[r].status = "absent" /\ row'[r].status # "absent" =>
       ~\E q \in Rivals(r) : MayHaveDocument(q)]_vars

(* An order has documents on two rows only if one of the rows was refused some  *)
(* time before, or both belong to one invoicing connection.                     *)
SecondOnlyAfterRefusal ==
  \A r, q \in Rows :
    r # q /\ docs[r] > 0 /\ docs[q] > 0 =>
      \/ row[r].refused \/ row[q].refused
      \/ {r, q} \subseteq Invoices /\ ConnOf[r] = ConnOf[q]

(* A row that leaves the order free for another provider has no document and    *)
(* no request that may become one, whatever was lost, retried or taken over.    *)
RejectedMeansNothing ==
  \A r \in Rows : row[r].status = "failed" /\ row[r].mode = "rejected" =>
    docs[r] = 0 /\ r \notin wire

(* One row gets one document, however often it is retried.  The code leaves it  *)
(* to the provider: it holds when every repeated call is answered "same".       *)
RetriesMakeOneDocument == \A r \in Rows : docs[r] <= 1

(* The order has an invoice or a receipt, never both.  The code does not keep   *)
(* this: a refused receipt is taken up again under its key without the guard.   *)
NeverBothKinds == ~\E i \in Invoices, f \in Receipts : docs[i] > 0 /\ docs[f] > 0

(* What was issued stays issued.  The code does not keep this: the sweep writes *)
(* what it concludes from an old read over a retry that has succeeded.          *)
IssuedStaysIssued ==
  [][\A r \in Rows : row[r].status = "issued" => row'[r].status = "issued"]_vars

(* An invoice whose attempt died while it held the lease does not stay claimed: *)
(* a retry or the sweep settles it.                                             *)
CrashedIsSettled ==
  \A r \in Invoices :
    row[r].status = "working" /\ row[r].lease # "none"
      ~> (row[r].status # "working" \/ row[r].lease = "none")
(* A second document needs a refused row, and a refused row has no document.   *)
RefusalFreesOrder == SecondOnlyAfterRefusal /\ RejectedMeansNothing
=============================================================================

--------------------------- MODULE OrderWorkProofs ---------------------------
(* Theorems about what is done to an order: its documents and its refunds.      *)
(*                                                                              *)
(* What DocumentIssue keeps for any calls, rows, connections and faults, as     *)
(* long as the provider does not refuse a row it has a document for.  The lock  *)
(* carries the proof up to the claim, and the lease of the claim from there: a  *)
(* row without a document has at most one call under way, and a row whose       *)
(* intent was recorded had no rival that could still become a document.         *)
(*                                                                              *)
(* What RefundLedger keeps for any number of requests, returns, lines and       *)
(* faults.                                                                      *)
EXTENDS DocumentIssue, RefundLedger, TLAPS

-----------------------------------------------------------------------------
(* DocumentIssue.                                                               *)
(* Nothing is left of a row that could be, or become, a document.               *)
Still(r) == ~MayHaveDocument(r)

(* Who looks at the tables before the claim has the lock: its holder cannot be  *)
(* outlived there.                                                              *)
Looking(t) ==
  \/ At(t, "guard") \/ At(t, "gate") \/ At(t, "create") \/ At(t, "claim")
  \/ At(t, "resolve") /\ Mine(t) \in Receipts
LooksLocked == \A t \in Procs : Looking(t) => lock = t

(* A row nobody has claimed yet, or that was refused, has nothing and awaits    *)
(* nothing.                                                                     *)
Unclaimed(r) ==
  row[r].status \in {"absent", "pending"} \/ (row[r].status = "failed" /\ row[r].mode = "rejected")
UnclaimedIsStill == \A r \in Rows : Unclaimed(r) => Still(r)

(* Until a row has a document only one call works on it, under a lease that     *)
(* does not end, unless the sweep has written that it is in doubt; and nobody   *)
(* asks while a request is on its way.                                          *)
Engaged(r) ==
  \/ row[r].status = "working" /\ row[r].lease = "live"
  \/ row[r].status = "failed" /\ row[r].mode = "inDoubt"
FirstCallAlone ==
  \A r \in Rows : docs[r] = 0 =>
    /\ \A t, u \in Procs : Mine(t) = r /\ Covered(t) /\ Mine(u) = r /\ Covered(u) => t = u
    /\ r \in wire \/ (\E t \in Procs : Mine(t) = r /\ Covered(t)) => Engaged(r)
    /\ r \in wire => \A t \in Procs : Mine(t) = r /\ Covered(t) => At(t, "record")

(* What an answer says of the document.                                         *)
AnswersAreTrue ==
  \A t \in Procs : At(t, "record") =>
    /\ proc[t].result = "rejected" => docs[Mine(t)] = 0 /\ Mine(t) \notin wire
    /\ proc[t].result = "issued" => docs[Mine(t)] > 0

(* Nothing leaves the house without its number, and only an invoice has one.    *)
NumberedFirst ==
  /\ \A t \in Procs : At(t, "number") => Mine(t) \in Invoices
  /\ \A r \in Invoices :
       \/ docs[r] > 0 \/ r \in wire
       \/ \E t \in Procs : Mine(t) = r /\ (At(t, "call") \/ At(t, "record"))
       => ~NeedsNumber(r)

(* The sweep is about a row there is, and what it found is there.               *)
SweepIsTrue ==
  sweep.pc # "idle" =>
    /\ row[sweep.row].status # "absent"
    /\ sweep.found # "no" => docs[sweep.row] > 0

(* Who is past the guard has no rival, but refused ones with nothing to come.   *)
Guarded(t) == At(t, "create") \/ (At(t, "gate") /\ Mine(t) \in Invoices)
Yields(r) == row[r].status = "absent" \/ row[r].refused
RivalsYield ==
  \A t \in Procs : Guarded(t) => \A q \in Rivals(Mine(t)) : Still(q) /\ Yields(q)

(* Of two rivals one was refused.                                               *)
RefusalsMarked == \A r \in Rows : row[r].mode = "rejected" => row[r].refused
OneWasRefused ==
  \A r \in Rows : \A q \in Rivals(r) :
    r # q /\ row[r].status # "absent" /\ row[q].status # "absent" => row[r].refused \/ row[q].refused

DocInv ==
  /\ TypeOK /\ LooksLocked /\ UnclaimedIsStill /\ FirstCallAlone /\ AnswersAreTrue
  /\ NumberedFirst /\ SweepIsTrue /\ RivalsYield /\ RefusalsMarked /\ OneWasRefused

(* The columns of a row, and what a call holds.                                 *)
RowType ==
  [status : {"absent", "pending", "working", "issued", "failed"},
   mode : {"none", "rejected", "inDoubt"},
   lease : {"none", "live", "expired", "stuck"},
   numbered : BOOLEAN, refused : BOOLEAN]
ProcType ==
  [pc : ProcPcs, row : Rows \cup {Free}, result : {"none", "issued", "rejected", "inDoubt"}]

SweepType ==
  [pc : {"idle", "locate", "write"}, row : Rows \cup {Free}, found : {"no", "yes", "refused"}]

(* What the types say of a row, and of a call.                                  *)
LEMMA RowIs ==
  ASSUME TypeOK
  PROVE  row \in [Rows -> RowType] /\ \A r \in Rows : row[r] \in RowType /\ docs[r] \in 0..2
BY DEF TypeOK, RowType

LEMMA ProcIs ==
  ASSUME TypeOK
  PROVE  /\ proc \in [Procs -> ProcType]
         /\ \A t \in Procs :
              /\ proc[t] \in ProcType
              /\ proc[t].pc # "idle" => proc[t].row \in Rows
              /\ proc[t].pc = "idle" => proc[t].row = Free /\ proc[t].result = "none"
              /\ proc[t].pc = "record" => proc[t].result # "none"
BY DEF TypeOK, ProcType, At, Mine, Idle

(* A call goes on.                                                              *)
LEMMA GoesIs ==
  ASSUME TypeOK, NEW t \in Procs, NEW pc \in ProcPcs, Goes(t, pc)
  PROVE  /\ proc' \in [Procs -> ProcType]
         /\ \A u \in Procs : u # t => proc'[u] = proc[u]
         /\ proc'[t].pc = pc /\ proc'[t].row = proc[t].row /\ proc'[t].result = proc[t].result
BY ProcIs DEF Goes, ProcType

(* A call begins anew, or ends.                                                 *)
LEMMA TurnsIs ==
  ASSUME TypeOK, NEW t \in Procs, NEW x \in ProcType, proc' = [proc EXCEPT ![t] = x]
  PROVE  /\ proc' \in [Procs -> ProcType]
         /\ \A u \in Procs : u # t => proc'[u] = proc[u]
         /\ proc'[t] = x
BY ProcIs

(* A call that is over.                                                         *)
LEMMA IdleIs == Idle \in ProcType /\ Idle.pc = "idle" /\ Idle.row = Free /\ Idle.result = "none"
BY DEF Idle, ProcType, ProcPcs

(* A row is written.                                                            *)
LEMMA WriteIs ==
  ASSUME TypeOK, NEW r \in Rows, NEW e \in RowType, Write(r, e)
  PROVE  /\ row' \in [Rows -> RowType]
         /\ \A q \in Rows : q # r => row'[q] = row[q]
         /\ row'[r] = e
BY RowIs DEF Write

(* What the code writes.                                                        *)
LEMMA RefusedIs ==
  ASSUME NEW e \in RowType
  PROVE  /\ Refused(e) \in RowType /\ Refused(e).status = "failed" /\ Refused(e).mode = "rejected"
         /\ Refused(e).lease = "none" /\ Refused(e).refused /\ Refused(e).numbered = e.numbered
BY DEF Refused, RowType

LEMMA ClaimedIs ==
  ASSUME NEW e \in RowType
  PROVE  /\ Claimed(e) \in RowType /\ Claimed(e).status = "working" /\ Claimed(e).lease = "live"
         /\ Claimed(e).mode = e.mode /\ Claimed(e).refused = e.refused /\ Claimed(e).numbered = e.numbered
BY DEF Claimed, RowType

LEMMA OutcomeIs ==
  ASSUME NEW e \in RowType
  PROVE  /\ Outcome(e, "rejected") = Refused(e)
         /\ LET x == Outcome(e, "issued") IN
              /\ x \in RowType /\ x.status = "issued" /\ x.mode = "none" /\ x.lease = "none"
              /\ x.refused = e.refused /\ x.numbered = e.numbered
         /\ LET x == Outcome(e, "inDoubt") IN
              /\ x \in RowType /\ x.status = "failed" /\ x.mode = "inDoubt" /\ x.lease = "none"
              /\ x.refused = e.refused /\ x.numbered = e.numbered
BY DEF Outcome, RowType

(* The rows a call must not be beside; each minds the other.                    *)
LEMMA RivalsMutual ==
  /\ \A r \in Rows : Rivals(r) \subseteq Rows
  /\ \A r, q \in Rows : r # q /\ q \in Rivals(r) => r \in Rivals(q)
BY ConstantsAssumption DEF Rivals, Elsewhere, Rows

(* A call takes the lock.                                                       *)
LEMMA AcquireStep ==
  ASSUME DocInv, NEW t \in Procs, NEW s \in Rows, Acquire(t, s)
  PROVE  DocInv'
<1> USE ConstantsAssumption
<1>0. TypeOK /\ LooksLocked /\ UnclaimedIsStill /\ FirstCallAlone /\ AnswersAreTrue
      /\ NumberedFirst /\ SweepIsTrue /\ RivalsYield /\ RefusalsMarked /\ OneWasRefused
  BY DEF DocInv
<1>1. /\ sweep.pc # "idle" => sweep.row \in Rows
      /\ \A u \in Procs : proc[u].pc # "idle" => proc[u].row \in Rows
      /\ Rows = Invoices \cup Receipts /\ \A q \in Rows : Rivals(q) \subseteq Rows
  BY <1>0, ProcIs, RivalsMutual DEF TypeOK, Rows
<1>2. lock = Free /\ lock' = t /\ UNCHANGED <<row, sweep, docs, wire, faults>> /\ proc[t].pc = "idle"
  BY DEF Acquire, LockIsFree, At
<1>3. /\ proc' \in [Procs -> ProcType]
      /\ \A u \in Procs : u # t => proc'[u] = proc[u]
      /\ proc'[t].pc = (IF s \in Invoices THEN "guard" ELSE "gate")
      /\ proc'[t].row = s /\ proc'[t].result = "none"
  <2> DEFINE x == [Idle EXCEPT !.pc = Entry(s), !.row = s]
  <2>1. x \in ProcType /\ x.pc = Entry(s) /\ x.row = s /\ x.result = "none"
    BY DEF Idle, ProcType, ProcPcs, Entry
  <2>2. proc' = [proc EXCEPT ![t] = x]
    BY DEF Acquire
  <2> HIDE DEF x
  <2> QED BY <1>0, <2>1, <2>2, TurnsIs DEF Entry
<1>4. TypeOK'
  BY <1>0, <1>1, <1>2, <1>3 DEF TypeOK, ProcType, RowType, ProcPcs, At, Mine, Idle
<1>5. LooksLocked'
  BY <1>0, <1>2, <1>3 DEF LooksLocked, Looking, At, Mine
<1>6. UnclaimedIsStill'
  BY <1>0, <1>2, <1>3 DEF UnclaimedIsStill, Unclaimed, Still, MayHaveDocument, Covered, At, Mine
<1>7. FirstCallAlone'
  BY <1>0, <1>2, <1>3 DEF FirstCallAlone, Engaged, Covered, At, Mine
<1>8. AnswersAreTrue'
  BY <1>0, <1>2, <1>3 DEF AnswersAreTrue, At, Mine
<1>9. NumberedFirst'
  BY <1>0, <1>1, <1>2, <1>3 DEF NumberedFirst, NeedsNumber, At, Mine
<1>10. SweepIsTrue'
  BY <1>0, <1>1, <1>2, <1>3 DEF SweepIsTrue
<1>11. RivalsYield'
  BY <1>0, <1>1, <1>2, <1>3 DEF RivalsYield, Guarded, Yields, Still, MayHaveDocument, Covered, At, Mine
<1>12. RefusalsMarked'
  BY <1>0, <1>2, <1>3 DEF RefusalsMarked
<1>13. OneWasRefused'
  BY <1>0, <1>1, <1>2, <1>3 DEF OneWasRefused
<1> QED BY <1>4, <1>5, <1>6, <1>7, <1>8, <1>9, <1>10, <1>11, <1>12, <1>13 DEF DocInv

(* It looks for documents elsewhere.                                            *)
LEMMA GuardStep ==
  ASSUME DocInv, NEW t \in Procs, Guard(t)
  PROVE  DocInv'
<1> USE ConstantsAssumption
<1>0. TypeOK /\ LooksLocked /\ UnclaimedIsStill /\ FirstCallAlone /\ AnswersAreTrue
      /\ NumberedFirst /\ SweepIsTrue /\ RivalsYield /\ RefusalsMarked /\ OneWasRefused
  BY DEF DocInv
<1>1. /\ sweep.pc # "idle" => sweep.row \in Rows
      /\ \A u \in Procs : proc[u].pc # "idle" => proc[u].row \in Rows
      /\ Rows = Invoices \cup Receipts /\ \A q \in Rows : Rivals(q) \subseteq Rows
  BY <1>0, ProcIs, RivalsMutual DEF TypeOK, Rows
<1>2. UNCHANGED <<row, lock, sweep, docs, wire, faults>> /\ proc[t].pc = "guard"
  BY DEF Guard, At
<1>3. /\ proc' \in [Procs -> ProcType]
      /\ \A u \in Procs : u # t => proc'[u] = proc[u]
      /\ proc'[t].row = proc[t].row /\ proc'[t].result = proc[t].result /\ proc[t].row \in Rows
      /\ \/ proc'[t].pc = "release"
         \/ /\ \A q \in Rivals(Mine(t)) : ~Blocks(q)
            /\ \/ proc'[t].pc = "gate" /\ Mine(t) \in Invoices
               \/ proc'[t].pc = "create"
  <2>1. PICK pc \in {"release", "gate", "create"} :
          /\ Goes(t, pc)
          /\ pc # "release" => \A q \in Rivals(Mine(t)) : ~Blocks(q)
          /\ pc = "gate" => Mine(t) \in Invoices
    BY DEF Guard
  <2> QED BY <1>0, <1>2, <2>1, GoesIs, ProcIs DEF ProcPcs
<1>4. TypeOK'
  BY <1>0, <1>1, <1>2, <1>3 DEF TypeOK, ProcType, RowType, ProcPcs, At, Mine, Idle
<1>5. LooksLocked'
  BY <1>0, <1>2, <1>3 DEF LooksLocked, Looking, At, Mine
<1>6. UnclaimedIsStill'
  BY <1>0, <1>2, <1>3 DEF UnclaimedIsStill, Unclaimed, Still, MayHaveDocument, Covered, At, Mine
<1>7. FirstCallAlone'
  BY <1>0, <1>2, <1>3 DEF FirstCallAlone, Engaged, Covered, At, Mine
<1>8. AnswersAreTrue'
  BY <1>0, <1>2, <1>3 DEF AnswersAreTrue, At, Mine
<1>9. NumberedFirst'
  BY <1>0, <1>1, <1>2, <1>3 DEF NumberedFirst, NeedsNumber, At, Mine
<1>10. SweepIsTrue'
  BY <1>0, <1>1, <1>2, <1>3 DEF SweepIsTrue
<1>11. RivalsYield'
  <2>1. \A q \in Rivals(Mine(t)) : q \in Rows
    BY <1>3, RivalsMutual DEF Mine
  <2>2. ASSUME NEW q \in Rivals(Mine(t)), ~Blocks(q)
               PROVE  row[q].status = "absent" \/ (row[q].status = "failed" /\ row[q].mode = "rejected")
    BY <1>0, <2>1, <2>2, RowIs DEF Blocks, RowType
  <2>3. ASSUME Guarded(t)', NEW q \in Rivals(Mine(t)) PROVE Still(q) /\ Yields(q)
    BY <1>0, <1>3, <2>1, <2>2, <2>3 DEF Guarded, At, UnclaimedIsStill, Unclaimed, RefusalsMarked, Yields
  <2>4. \A q : Still(q) => Still(q)'
    BY <1>2, <1>3 DEF Still, MayHaveDocument, Covered, At, Mine
  <2>5. Mine(t)' = Mine(t) /\ \A q : Yields(q)' = Yields(q)
    BY <1>2, <1>3 DEF Mine, Yields
  <2>6. ASSUME NEW u \in Procs \ {t}, Guarded(u)' PROVE \A q \in Rivals(Mine(u)') : Still(q) /\ Yields(q)
    BY <1>0, <1>3, <2>6 DEF RivalsYield, Guarded, At, Mine
  <2> QED BY <2>3, <2>4, <2>5, <2>6 DEF RivalsYield
<1>12. RefusalsMarked'
  BY <1>0, <1>2, <1>3 DEF RefusalsMarked
<1>13. OneWasRefused'
  BY <1>0, <1>1, <1>2, <1>3 DEF OneWasRefused
<1> QED BY <1>4, <1>5, <1>6, <1>7, <1>8, <1>9, <1>10, <1>11, <1>12, <1>13 DEF DocInv

(* It looks for the row.                                                        *)
LEMMA GateStep ==
  ASSUME DocInv, NEW t \in Procs, Gate(t)
  PROVE  DocInv'
<1> USE ConstantsAssumption
<1>0. TypeOK /\ LooksLocked /\ UnclaimedIsStill /\ FirstCallAlone /\ AnswersAreTrue
      /\ NumberedFirst /\ SweepIsTrue /\ RivalsYield /\ RefusalsMarked /\ OneWasRefused
  BY DEF DocInv
<1>1. /\ sweep.pc # "idle" => sweep.row \in Rows
      /\ \A u \in Procs : proc[u].pc # "idle" => proc[u].row \in Rows
      /\ Rows = Invoices \cup Receipts /\ \A q \in Rows : Rivals(q) \subseteq Rows
  BY <1>0, ProcIs, RivalsMutual DEF TypeOK, Rows
<1>2. UNCHANGED <<row, lock, sweep, docs, wire, faults>> /\ proc[t].pc = "gate"
  BY DEF Gate, At
<1>3. /\ proc' \in [Procs -> ProcType]
      /\ \A u \in Procs : u # t => proc'[u] = proc[u]
      /\ proc'[t].row = proc[t].row /\ proc'[t].result = proc[t].result /\ proc[t].row \in Rows
      /\ \/ proc'[t].pc = "release"
         \/ proc'[t].pc \in {"create", "claim"} /\ proc[t].row \in Invoices
         \/ proc'[t].pc \in {"guard", "resolve"} /\ proc[t].row \in Receipts
  <2>1. proc[t].row \in Rows
    BY <1>0, <1>2, ProcIs
  <2>2. PICK pc \in {"release", "create", "guard", "claim", "resolve"} :
          /\ Goes(t, pc)
          /\ pc \in {"create", "claim"} => proc[t].row \in Invoices
          /\ pc \in {"guard", "resolve"} => proc[t].row \in Receipts
    BY <2>1 DEF Gate, Resume, WithAdapter, Mine, Rows
  <2> QED BY <1>0, <2>1, <2>2, GoesIs DEF ProcPcs
<1>4. TypeOK'
  BY <1>0, <1>1, <1>2, <1>3 DEF TypeOK, ProcType, RowType, ProcPcs, At, Mine, Idle
<1>5. LooksLocked'
  BY <1>0, <1>2, <1>3 DEF LooksLocked, Looking, At, Mine
<1>6. UnclaimedIsStill'
  BY <1>0, <1>2, <1>3 DEF UnclaimedIsStill, Unclaimed, Still, MayHaveDocument, Covered, At, Mine
<1>7. FirstCallAlone'
  BY <1>0, <1>2, <1>3 DEF FirstCallAlone, Engaged, Covered, At, Mine
<1>8. AnswersAreTrue'
  BY <1>0, <1>2, <1>3 DEF AnswersAreTrue, At, Mine
<1>9. NumberedFirst'
  BY <1>0, <1>1, <1>2, <1>3 DEF NumberedFirst, NeedsNumber, At, Mine
<1>10. SweepIsTrue'
  BY <1>0, <1>1, <1>2, <1>3 DEF SweepIsTrue
<1>11. RivalsYield'
  BY <1>0, <1>1, <1>2, <1>3 DEF RivalsYield, Guarded, Yields, Still, MayHaveDocument, Covered, At, Mine
<1>12. RefusalsMarked'
  BY <1>0, <1>2, <1>3 DEF RefusalsMarked
<1>13. OneWasRefused'
  BY <1>0, <1>1, <1>2, <1>3 DEF OneWasRefused
<1> QED BY <1>4, <1>5, <1>6, <1>7, <1>8, <1>9, <1>10, <1>11, <1>12, <1>13 DEF DocInv

(* It inserts the row, or takes up the one that is there.                       *)
LEMMA CreateStep ==
  ASSUME DocInv, NEW t \in Procs, Create(t)
  PROVE  DocInv'
<1> USE ConstantsAssumption
<1>0. TypeOK /\ LooksLocked /\ UnclaimedIsStill /\ FirstCallAlone /\ AnswersAreTrue
      /\ NumberedFirst /\ SweepIsTrue /\ RivalsYield /\ RefusalsMarked /\ OneWasRefused
  BY DEF DocInv
<1>1. /\ sweep.pc # "idle" => sweep.row \in Rows
      /\ \A u \in Procs : proc[u].pc # "idle" => proc[u].row \in Rows
      /\ Rows = Invoices \cup Receipts /\ \A q \in Rows : Rivals(q) \subseteq Rows
  BY <1>0, ProcIs, RivalsMutual DEF TypeOK, Rows
<1>2. UNCHANGED <<lock, sweep, docs, wire, faults>> /\ proc[t].pc = "create"
  BY DEF Create, At
<1>3. /\ proc' \in [Procs -> ProcType]
      /\ \A u \in Procs : u # t => proc'[u] = proc[u]
      /\ proc'[t].row = proc[t].row /\ proc'[t].result = proc[t].result /\ proc[t].row \in Rows
      /\ \/ proc'[t].pc = "release"
         \/ proc'[t].pc = "claim" /\ proc[t].row \in Invoices
         \/ proc'[t].pc = "resolve" /\ proc[t].row \in Receipts
  <2>1. proc[t].row \in Rows
    BY <1>0, <1>2, ProcIs
  <2>2. PICK pc \in {"release", "claim", "resolve"} :
          /\ Goes(t, pc)
          /\ pc = "claim" => proc[t].row \in Invoices
          /\ pc = "resolve" => proc[t].row \in Receipts
    BY <2>1 DEF Create, Resume, WithAdapter, Mine, Rows
  <2> QED BY <1>0, <2>1, <2>2, GoesIs DEF ProcPcs
<1>4. /\ row' \in [Rows -> RowType]
      /\ \A q \in Rows : q # proc[t].row => row'[q] = row[q]
      /\ \/ row'[proc[t].row] = row[proc[t].row]
         \/ /\ row[proc[t].row].status = "absent" /\ row'[proc[t].row].status = "pending"
            /\ row'[proc[t].row].mode = "none" /\ row'[proc[t].row].lease = "none"
  <2>1. CASE row' = row
    BY <1>0, <2>1, RowIs
  <2>2. CASE row[proc[t].row].status = "absent" /\ Write(proc[t].row, [Absent EXCEPT !.status = "pending"])
    <3> DEFINE e == [Absent EXCEPT !.status = "pending"]
    <3>1. e \in RowType /\ e.status = "pending" /\ e.mode = "none" /\ e.lease = "none"
      BY DEF Absent, RowType
    <3> HIDE DEF e
    <3> QED BY <1>0, <1>3, <2>2, <3>1, WriteIs DEF e
  <2> QED BY <2>1, <2>2 DEF Create, Mine
<1>5. \A r \in Rows : row[r].status # "absent" =>
        row'[r].status # "absent" /\ row'[r].refused = row[r].refused /\ row'[r].numbered = row[r].numbered
  BY <1>3, <1>4
<1>6. TypeOK'
  BY <1>0, <1>1, <1>2, <1>3, <1>4, <1>5 DEF TypeOK, ProcType, RowType, ProcPcs, At, Mine, Idle
<1>7. LooksLocked'
  BY <1>0, <1>2, <1>3, <1>4, <1>5 DEF LooksLocked, Looking, At, Mine
<1>8. UnclaimedIsStill'
  BY <1>0, <1>2, <1>3, <1>4, <1>5 DEF UnclaimedIsStill, Unclaimed, Still, MayHaveDocument, Covered, At, Mine
<1>9. FirstCallAlone'
  BY <1>0, <1>2, <1>3, <1>4, <1>5 DEF FirstCallAlone, Engaged, Covered, At, Mine
<1>10. AnswersAreTrue'
  BY <1>0, <1>2, <1>3, <1>4, <1>5 DEF AnswersAreTrue, At, Mine
<1>11. NumberedFirst'
  BY <1>0, <1>1, <1>2, <1>3, <1>4, <1>5
  DEF NumberedFirst, NeedsNumber, At, Mine, UnclaimedIsStill, Unclaimed, Still, MayHaveDocument, Covered
<1>12. SweepIsTrue'
  BY <1>0, <1>1, <1>2, <1>3, <1>4, <1>5 DEF SweepIsTrue
<1>13. RivalsYield'
  <2>1. \A u \in Procs : ~Guarded(u)'
    BY <1>0, <1>2, <1>3 DEF Guarded, LooksLocked, Looking, At, Mine
  <2> QED BY <2>1 DEF RivalsYield
<1>14. RefusalsMarked'
  BY <1>0, <1>2, <1>3, <1>4, <1>5 DEF RefusalsMarked
<1>15. OneWasRefused'
  <2>1. row[proc[t].row].status = "absent" => \A q \in Rivals(proc[t].row) : Yields(q)
    BY <1>0, <1>2 DEF RivalsYield, Guarded, At, Mine
  <2>2. \A r \in Rows : row[r].status = "absent" => row'[r].status = "absent" \/ r = proc[t].row
    BY <1>4
  <2> SUFFICES ASSUME NEW r \in Rows, NEW q \in Rivals(r), r # q,
                      row'[r].status # "absent", row'[q].status # "absent"
               PROVE  row'[r].refused \/ row'[q].refused
    BY DEF OneWasRefused
  <2>3. q \in Rows /\ r \in Rivals(q)
    BY RivalsMutual
  <2>4. CASE row[r].status # "absent" /\ row[q].status # "absent"
    BY <1>0, <1>5, <2>3, <2>4 DEF OneWasRefused
  <2>5. CASE row[r].status = "absent"
    BY <1>5, <2>1, <2>2, <2>3, <2>5 DEF Yields
  <2>6. CASE row[q].status = "absent"
    BY <1>5, <2>1, <2>2, <2>3, <2>6 DEF Yields
  <2> QED BY <2>4, <2>5, <2>6
<1> QED BY <1>6, <1>7, <1>8, <1>9, <1>10, <1>11, <1>12, <1>13, <1>14, <1>15 DEF DocInv

(* It claims the row.                                                           *)
LEMMA ClaimStep ==
  ASSUME DocInv, NEW t \in Procs, Claim(t)
  PROVE  DocInv'
<1> USE ConstantsAssumption
<1>0. TypeOK /\ LooksLocked /\ UnclaimedIsStill /\ FirstCallAlone /\ AnswersAreTrue
      /\ NumberedFirst /\ SweepIsTrue /\ RivalsYield /\ RefusalsMarked /\ OneWasRefused
  BY DEF DocInv
<1>1. /\ sweep.pc # "idle" => sweep.row \in Rows
      /\ \A u \in Procs : proc[u].pc # "idle" => proc[u].row \in Rows
      /\ Rows = Invoices \cup Receipts /\ \A q \in Rows : Rivals(q) \subseteq Rows
  BY <1>0, ProcIs, RivalsMutual DEF TypeOK, Rows
<1>2. UNCHANGED <<lock, sweep, docs, wire, faults>> /\ proc[t].pc = "claim"
  BY DEF Claim, At
<1>3. /\ proc' \in [Procs -> ProcType]
      /\ \A u \in Procs : u # t => proc'[u] = proc[u]
      /\ proc'[t].row = proc[t].row /\ proc'[t].result = proc[t].result /\ proc[t].row \in Rows
      /\ row' \in [Rows -> RowType]
      /\ \A q \in Rows : q # proc[t].row => row'[q] = row[q]
      /\ \/ proc'[t].pc = "release" /\ row' = row
         \/ /\ Claimable(row[proc[t].row])
            /\ row'[proc[t].row].status = "working" /\ row'[proc[t].row].lease = "live"
            /\ row'[proc[t].row].mode = row[proc[t].row].mode
            /\ row'[proc[t].row].refused = row[proc[t].row].refused
            /\ row'[proc[t].row].numbered = row[proc[t].row].numbered
            /\ \/ proc'[t].pc = "resolve" /\ proc[t].row \in Invoices
               \/ proc'[t].pc = "call" /\ proc[t].row \in Receipts
  <2>1. proc[t].row \in Rows
    BY <1>0, <1>2, ProcIs
  <2>2. CASE Goes(t, "release") /\ row' = row
    BY <1>0, <2>1, <2>2, GoesIs, RowIs DEF ProcPcs
  <2>3. CASE Claimable(row[proc[t].row])
    <3> DEFINE pc == IF proc[t].row \in Invoices THEN "resolve" ELSE "call"
    <3>1. Goes(t, pc) /\ Write(proc[t].row, Claimed(row[proc[t].row]))
      BY <2>3 DEF Claim, Mine
    <3>2. /\ pc \in ProcPcs
          /\ (pc = "resolve" /\ proc[t].row \in Invoices) \/ (pc = "call" /\ proc[t].row \in Receipts)
      BY <2>1 DEF ProcPcs, Rows
    <3> HIDE DEF pc
    <3>3. /\ proc' \in [Procs -> ProcType]
          /\ \A u \in Procs : u # t => proc'[u] = proc[u]
          /\ proc'[t].pc = pc /\ proc'[t].row = proc[t].row /\ proc'[t].result = proc[t].result
      BY <1>0, <3>1, <3>2, GoesIs
    <3>4. /\ row' \in [Rows -> RowType]
          /\ \A q \in Rows : q # proc[t].row => row'[q] = row[q]
          /\ row'[proc[t].row] = Claimed(row[proc[t].row])
      BY <1>0, <2>1, <3>1, RowIs, ClaimedIs, WriteIs
    <3>5. /\ Claimed(row[proc[t].row]).status = "working" /\ Claimed(row[proc[t].row]).lease = "live"
          /\ Claimed(row[proc[t].row]).mode = row[proc[t].row].mode
          /\ Claimed(row[proc[t].row]).refused = row[proc[t].row].refused
          /\ Claimed(row[proc[t].row]).numbered = row[proc[t].row].numbered
      BY <1>0, <2>1, RowIs, ClaimedIs
    <3> QED BY <2>1, <2>3, <3>2, <3>3, <3>4, <3>5
  <2> QED BY <2>2, <2>3 DEF Claim, Mine
<1>4. Claimable(row[proc[t].row]) => row[proc[t].row].status # "absent"
  BY DEF Claimable
<1>5. docs[proc[t].row] = 0 /\ Claimable(row[proc[t].row]) =>
        /\ proc[t].row \notin wire
        /\ \A u \in Procs : ~(proc[u].row = proc[t].row /\ Covered(u))
  BY <1>0, <1>3
  DEF Claimable, UnclaimedIsStill, Unclaimed, Still, MayHaveDocument, FirstCallAlone, Engaged, Mine
<1>6. TypeOK'
  BY <1>0, <1>1, <1>2, <1>3, <1>4, <1>5 DEF TypeOK, ProcType, RowType, ProcPcs, At, Mine, Idle
<1>7. LooksLocked'
  BY <1>0, <1>2, <1>3, <1>4, <1>5 DEF LooksLocked, Looking, At, Mine
<1>8. UnclaimedIsStill'
  BY <1>0, <1>2, <1>3, <1>4, <1>5 DEF UnclaimedIsStill, Unclaimed, Still, MayHaveDocument, Covered, At, Mine
<1>9. FirstCallAlone'
  BY <1>0, <1>2, <1>3, <1>4, <1>5 DEF FirstCallAlone, Engaged, Covered, At, Mine
<1>10. AnswersAreTrue'
  BY <1>0, <1>2, <1>3, <1>4, <1>5 DEF AnswersAreTrue, At, Mine
<1>11. NumberedFirst'
  BY <1>0, <1>1, <1>2, <1>3, <1>4, <1>5 DEF NumberedFirst, NeedsNumber, At, Mine
<1>12. SweepIsTrue'
  BY <1>0, <1>1, <1>2, <1>3, <1>4, <1>5 DEF SweepIsTrue
<1>13. RivalsYield'
  <2>1. \A u \in Procs : ~Guarded(u)'
    BY <1>0, <1>2, <1>3 DEF Guarded, LooksLocked, Looking, At, Mine
  <2> QED BY <2>1 DEF RivalsYield
<1>14. RefusalsMarked'
  BY <1>0, <1>2, <1>3, <1>4, <1>5 DEF RefusalsMarked
<1>15. OneWasRefused'
  BY <1>0, <1>1, <1>3, <1>4 DEF OneWasRefused
<1> QED BY <1>6, <1>7, <1>8, <1>9, <1>10, <1>11, <1>12, <1>13, <1>14, <1>15 DEF DocInv

(* It resolves the adapter.                                                     *)
LEMMA ResolveStep ==
  ASSUME DocInv, NEW t \in Procs, Resolve(t)
  PROVE  DocInv'
<1> USE ConstantsAssumption
<1>0. TypeOK /\ LooksLocked /\ UnclaimedIsStill /\ FirstCallAlone /\ AnswersAreTrue
      /\ NumberedFirst /\ SweepIsTrue /\ RivalsYield /\ RefusalsMarked /\ OneWasRefused
  BY DEF DocInv
<1>1. /\ sweep.pc # "idle" => sweep.row \in Rows
      /\ \A u \in Procs : proc[u].pc # "idle" => proc[u].row \in Rows
      /\ Rows = Invoices \cup Receipts /\ \A q \in Rows : Rivals(q) \subseteq Rows
  BY <1>0, ProcIs, RivalsMutual DEF TypeOK, Rows
<1>2. UNCHANGED <<row, lock, sweep, docs, wire>> /\ proc[t].pc = "resolve"
  BY DEF Resolve, At
<1>3. faults' \in 0..MaxFaults
  BY <1>0 DEF Resolve, Fault, TypeOK
<1>4. /\ proc' \in [Procs -> ProcType]
      /\ \A u \in Procs : u # t => proc'[u] = proc[u]
      /\ proc'[t].row = proc[t].row /\ proc'[t].result = proc[t].result /\ proc[t].row \in Rows
      /\ \/ proc'[t].pc = "release"
         \/ proc'[t].pc = "number" /\ proc[t].row \in Invoices
         \/ proc'[t].pc = "claim" /\ proc[t].row \in Receipts
  <2>1. proc[t].row \in Rows
    BY <1>0, <1>2, ProcIs
  <2> DEFINE pc == IF proc[t].row \in Invoices THEN "number" ELSE "claim"
  <2>2. Goes(t, "release") \/ Goes(t, pc)
    BY DEF Resolve, Mine
  <2>3. /\ pc \in ProcPcs /\ "release" \in ProcPcs
        /\ (pc = "number" /\ proc[t].row \in Invoices) \/ (pc = "claim" /\ proc[t].row \in Receipts)
    BY <2>1 DEF ProcPcs, Rows
  <2> HIDE DEF pc
  <2>4. CASE Goes(t, "release")
    BY <1>0, <2>1, <2>3, <2>4, GoesIs
  <2>5. CASE Goes(t, pc)
    BY <1>0, <2>1, <2>3, <2>5, GoesIs
  <2> QED BY <2>2, <2>4, <2>5
<1>5. TypeOK'
  BY <1>0, <1>1, <1>2, <1>3, <1>4 DEF TypeOK, ProcType, RowType, ProcPcs, At, Mine, Idle
<1>6. LooksLocked'
  BY <1>0, <1>2, <1>3, <1>4 DEF LooksLocked, Looking, At, Mine
<1>7. UnclaimedIsStill'
  BY <1>0, <1>2, <1>3, <1>4 DEF UnclaimedIsStill, Unclaimed, Still, MayHaveDocument, Covered, At, Mine
<1>8. FirstCallAlone'
  BY <1>0, <1>2, <1>3, <1>4 DEF FirstCallAlone, Engaged, Covered, At, Mine
<1>9. AnswersAreTrue'
  BY <1>0, <1>2, <1>3, <1>4 DEF AnswersAreTrue, At, Mine
<1>10. NumberedFirst'
  BY <1>0, <1>1, <1>2, <1>3, <1>4 DEF NumberedFirst, NeedsNumber, At, Mine
<1>11. SweepIsTrue'
  BY <1>0, <1>1, <1>2, <1>3, <1>4 DEF SweepIsTrue
<1>12. RivalsYield'
  BY <1>0, <1>1, <1>2, <1>3, <1>4 DEF RivalsYield, Guarded, Yields, Still, MayHaveDocument, Covered, At, Mine
<1>13. RefusalsMarked'
  BY <1>0, <1>2, <1>3, <1>4 DEF RefusalsMarked
<1>14. OneWasRefused'
  BY <1>0, <1>1, <1>2, <1>3, <1>4 DEF OneWasRefused
<1> QED BY <1>5, <1>6, <1>7, <1>8, <1>9, <1>10, <1>11, <1>12, <1>13, <1>14 DEF DocInv

(* It gets its number, or is refused for the want of one.                       *)
LEMMA NumberStep ==
  ASSUME DocInv, NEW t \in Procs, AllocateNumber(t)
  PROVE  DocInv'
<1> USE ConstantsAssumption
<1>0. TypeOK /\ LooksLocked /\ UnclaimedIsStill /\ FirstCallAlone /\ AnswersAreTrue
      /\ NumberedFirst /\ SweepIsTrue /\ RivalsYield /\ RefusalsMarked /\ OneWasRefused
  BY DEF DocInv
<1>1. /\ sweep.pc # "idle" => sweep.row \in Rows
      /\ \A u \in Procs : proc[u].pc # "idle" => proc[u].row \in Rows
      /\ Rows = Invoices \cup Receipts /\ \A q \in Rows : Rivals(q) \subseteq Rows
  BY <1>0, ProcIs, RivalsMutual DEF TypeOK, Rows
<1>2. UNCHANGED <<lock, sweep, docs, wire, faults>> /\ proc[t].pc = "number"
  BY DEF AllocateNumber, At
<1>3. /\ proc' \in [Procs -> ProcType]
      /\ \A u \in Procs : u # t => proc'[u] = proc[u]
      /\ proc'[t].row = proc[t].row /\ proc'[t].result = proc[t].result /\ proc[t].row \in Rows
      /\ row' \in [Rows -> RowType]
      /\ \A q \in Rows : q # proc[t].row => row'[q] = row[q]
      /\ \/ proc'[t].pc = "call" /\ row' = row /\ ~NeedsNumber(proc[t].row)
         \/ /\ proc'[t].pc = "call" /\ row'[proc[t].row].numbered
            /\ row'[proc[t].row].status = row[proc[t].row].status
            /\ row'[proc[t].row].lease = row[proc[t].row].lease
            /\ row'[proc[t].row].mode = row[proc[t].row].mode
            /\ row'[proc[t].row].refused = row[proc[t].row].refused
         \/ /\ proc'[t].pc = "release" /\ NeedsNumber(proc[t].row)
            /\ row'[proc[t].row] = Refused(row[proc[t].row])
  <2>1. proc[t].row \in Rows
    BY <1>0, <1>2, ProcIs
  <2> DEFINE e == [row[proc[t].row] EXCEPT !.numbered = TRUE]
  <2>2. /\ e \in RowType /\ e.numbered
        /\ e.status = row[proc[t].row].status /\ e.lease = row[proc[t].row].lease
        /\ e.mode = row[proc[t].row].mode /\ e.refused = row[proc[t].row].refused
    <3>1. row[proc[t].row] \in RowType
      BY <1>0, <2>1, RowIs
    <3> QED BY <3>1 DEF RowType
  <2>3. "call" \in ProcPcs /\ "release" \in ProcPcs /\ Refused(row[proc[t].row]) \in RowType
    BY <1>0, <2>1, RowIs, RefusedIs DEF ProcPcs
  <2>4. \/ Goes(t, "call") /\ row' = row /\ ~NeedsNumber(proc[t].row)
        \/ Goes(t, "call") /\ Write(proc[t].row, e)
        \/ Goes(t, "release") /\ NeedsNumber(proc[t].row) /\ Write(proc[t].row, Refused(row[proc[t].row]))
    BY DEF AllocateNumber, Mine
  <2> HIDE DEF e
  <2>5. CASE Goes(t, "call") /\ row' = row /\ ~NeedsNumber(proc[t].row)
    BY <1>0, <2>1, <2>3, <2>5, GoesIs, RowIs
  <2>6. CASE Goes(t, "call") /\ Write(proc[t].row, e)
    BY <1>0, <2>1, <2>2, <2>3, <2>6, GoesIs, WriteIs
  <2>7. CASE Goes(t, "release") /\ NeedsNumber(proc[t].row) /\ Write(proc[t].row, Refused(row[proc[t].row]))
    BY <1>0, <2>1, <2>3, <2>7, GoesIs, WriteIs
  <2> QED BY <2>4, <2>5, <2>6, <2>7
<1>4. /\ Refused(row[proc[t].row]).status = "failed" /\ Refused(row[proc[t].row]).mode = "rejected"
      /\ Refused(row[proc[t].row]).lease = "none" /\ Refused(row[proc[t].row]).refused
      /\ Refused(row[proc[t].row]).numbered = row[proc[t].row].numbered
  BY <1>0, <1>3, RowIs, RefusedIs
<1>5. row[proc[t].row].status \notin {"absent", "pending"} /\ proc[t].row \in Invoices
  BY <1>0, <1>2, <1>3 DEF UnclaimedIsStill, Unclaimed, Still, MayHaveDocument, Covered, NumberedFirst, At, Mine
<1>6. NeedsNumber(proc[t].row) => docs[proc[t].row] = 0 /\ proc[t].row \notin wire
  BY <1>0, <1>2, <1>3, <1>5, RowIs DEF NumberedFirst
<1>7. docs[proc[t].row] = 0 => \A u \in Procs : u # t => ~(proc[u].row = proc[t].row /\ Covered(u))
  BY <1>0, <1>2, <1>3 DEF FirstCallAlone, Covered, At, Mine
<1>8. \A u \in Procs : u # t =>
        (Covered(u)' <=> Covered(u)) /\ (Guarded(u)' <=> Guarded(u)) /\ Mine(u)' = Mine(u)
  BY <1>3 DEF Covered, Guarded, At, Mine
<1>9. TypeOK'
  BY <1>0, <1>1, <1>2, <1>3, <1>4, <1>5, <1>6, <1>7, <1>8 DEF TypeOK, ProcType, RowType, ProcPcs, At, Mine, Idle
<1>10. LooksLocked'
  BY <1>0, <1>2, <1>3, <1>4, <1>5, <1>6, <1>7, <1>8 DEF LooksLocked, Looking, At, Mine
<1>11. UnclaimedIsStill'
  BY <1>0, <1>2, <1>3, <1>4, <1>5, <1>6, <1>7, <1>8
  DEF UnclaimedIsStill, Unclaimed, Still, MayHaveDocument, Covered, At, Mine
<1>12. FirstCallAlone'
  BY <1>0, <1>2, <1>3, <1>4, <1>5, <1>6, <1>7, <1>8 DEF FirstCallAlone, Engaged, Covered, At, Mine
<1>13. AnswersAreTrue'
  BY <1>0, <1>2, <1>3, <1>4, <1>5, <1>6, <1>7, <1>8 DEF AnswersAreTrue, At, Mine
<1>14. NumberedFirst'
  BY <1>0, <1>1, <1>2, <1>3, <1>4, <1>5, <1>6, <1>7, <1>8 DEF NumberedFirst, NeedsNumber, At, Mine
<1>15. SweepIsTrue'
  BY <1>0, <1>1, <1>2, <1>3, <1>4, <1>5, <1>6, <1>7, <1>8 DEF SweepIsTrue
<1>16. RivalsYield'
  BY <1>0, <1>1, <1>2, <1>3, <1>4, <1>5, <1>6, <1>7, <1>8
  DEF RivalsYield, Guarded, Yields, Still, MayHaveDocument, Covered, At, Mine
<1>17. RefusalsMarked'
  BY <1>0, <1>2, <1>3, <1>4, <1>5, <1>6, <1>7, <1>8 DEF RefusalsMarked
<1>18. OneWasRefused'
  BY <1>0, <1>1, <1>2, <1>3, <1>4, <1>5, <1>6, <1>7, <1>8 DEF OneWasRefused
<1> QED BY <1>9, <1>10, <1>11, <1>12, <1>13, <1>14, <1>15, <1>16, <1>17, <1>18 DEF DocInv

(* It asks the provider, which does not refuse what it has issued.              *)
LEMMA CallStep ==
  ASSUME DocInv, "refused" \notin Repeat, NEW t \in Procs, CallProvider(t)
  PROVE  DocInv'
<1> USE ConstantsAssumption
<1>0. TypeOK /\ LooksLocked /\ UnclaimedIsStill /\ FirstCallAlone /\ AnswersAreTrue
      /\ NumberedFirst /\ SweepIsTrue /\ RivalsYield /\ RefusalsMarked /\ OneWasRefused
  BY DEF DocInv
<1>1. /\ sweep.pc # "idle" => sweep.row \in Rows
      /\ \A u \in Procs : proc[u].pc # "idle" => proc[u].row \in Rows
      /\ Rows = Invoices \cup Receipts /\ \A q \in Rows : Rivals(q) \subseteq Rows
  BY <1>0, ProcIs, RivalsMutual DEF TypeOK, Rows
<1>2. UNCHANGED <<row, lock, sweep, faults>> /\ proc[t].pc = "call"
  BY DEF CallProvider, At
<1>3. /\ proc' \in [Procs -> ProcType]
      /\ \A u \in Procs : u # t => proc'[u] = proc[u]
      /\ proc'[t].row = proc[t].row /\ proc[t].row \in Rows /\ proc'[t].pc = "record"
      /\ docs' \in [Rows -> 0..2] /\ wire' \subseteq Rows
      /\ \A q \in Rows : q # proc[t].row => docs'[q] = docs[q] /\ (q \in wire' <=> q \in wire)
      /\ \/ proc'[t].result = "issued" /\ docs'[proc[t].row] > 0 /\ wire' = wire
         \/ proc'[t].result = "rejected" /\ docs[proc[t].row] = 0 /\ docs' = docs /\ wire' = wire
         \/ proc'[t].result = "inDoubt" /\ docs' = docs /\ proc[t].row \in wire'
  <2>1. proc[t].row \in Rows /\ docs \in [Rows -> 0..2] /\ wire \subseteq Rows
    BY <1>0, <1>2, ProcIs DEF TypeOK
  <2>2. ASSUME NEW result \in {"issued", "rejected", "inDoubt"}, Answered(t, result)
        PROVE  /\ proc' \in [Procs -> ProcType]
               /\ \A u \in Procs : u # t => proc'[u] = proc[u]
               /\ proc'[t].row = proc[t].row /\ proc'[t].pc = "record" /\ proc'[t].result = result
    <3> DEFINE x == [proc[t] EXCEPT !.pc = "record", !.result = result]
    <3>1. proc[t] \in ProcType
      BY <1>0, ProcIs
    <3>2. x \in ProcType /\ x.pc = "record" /\ x.row = proc[t].row /\ x.result = result
      BY <3>1 DEF ProcType, ProcPcs
    <3>3. proc' = [proc EXCEPT ![t] = x]
      BY <1>0, <2>2, <3>1, ProcIs DEF Answered, ProcType
    <3> HIDE DEF x
    <3> QED BY <1>0, <3>2, <3>3, TurnsIs
  <2>3. \A n \in DocsAfter(proc[t].row) : n \in 0..2 /\ n > 0
    BY <2>1 DEF DocsAfter
  <2>4. CASE \E n \in DocsAfter(proc[t].row) :
               docs' = [docs EXCEPT ![proc[t].row] = n] /\ Answered(t, "issued") /\ UNCHANGED wire
    BY <2>1, <2>2, <2>3, <2>4
  <2>5. CASE MayRefuse(proc[t].row) /\ Answered(t, "rejected") /\ UNCHANGED <<docs, wire>>
    BY <2>1, <2>2, <2>5 DEF MayRefuse
  <2>6. CASE Answered(t, "inDoubt") /\ wire' = wire \cup {proc[t].row} /\ UNCHANGED docs
    BY <2>1, <2>2, <2>6
  <2> QED BY <2>4, <2>5, <2>6 DEF CallProvider, Mine
<1>4. row[proc[t].row].status # "absent" /\ ~Unclaimed(proc[t].row)
  BY <1>0, <1>2, <1>3 DEF UnclaimedIsStill, Unclaimed, Still, MayHaveDocument, Covered, At, Mine
<1>5. docs[proc[t].row] = 0 => /\ proc[t].row \notin wire
        /\ \A u \in Procs : u # t => ~(proc[u].row = proc[t].row /\ Covered(u))
  BY <1>0, <1>2, <1>3 DEF FirstCallAlone, Covered, At, Mine
<1>6. \A u \in Procs : u # t =>
        (Covered(u)' <=> Covered(u)) /\ (Guarded(u)' <=> Guarded(u)) /\ Mine(u)' = Mine(u)
  BY <1>3 DEF Covered, Guarded, At, Mine
<1>7. docs[proc[t].row] # 0 => docs'[proc[t].row] > 0
  BY <1>0, <1>3 DEF TypeOK
<1>8. TypeOK'
  BY <1>0, <1>1, <1>2, <1>3, <1>4, <1>5, <1>6, <1>7 DEF TypeOK, ProcType, RowType, ProcPcs, At, Mine, Idle
<1>9. LooksLocked'
  BY <1>0, <1>2, <1>3, <1>4, <1>5, <1>6, <1>7 DEF LooksLocked, Looking, At, Mine
<1>10. UnclaimedIsStill'
  BY <1>0, <1>2, <1>3, <1>4, <1>5, <1>6, <1>7
  DEF UnclaimedIsStill, Unclaimed, Still, MayHaveDocument, Covered, At, Mine
<1>11. FirstCallAlone'
  BY <1>0, <1>2, <1>3, <1>4, <1>5, <1>6, <1>7 DEF FirstCallAlone, Engaged, Covered, At, Mine
<1>12. AnswersAreTrue'
  <2> SUFFICES ASSUME NEW u \in Procs, proc'[u].pc = "record"
               PROVE  /\ (proc'[u].result = "rejected" => docs'[proc'[u].row] = 0 /\ proc'[u].row \notin wire')
                      /\ (proc'[u].result = "issued" => docs'[proc'[u].row] > 0)
    BY DEF AnswersAreTrue, At, Mine
  <2>1. CASE u = t
    BY <1>0, <1>2, <1>3, <1>5, <2>1 DEF TypeOK
  <2>2. CASE u # t
    <3>1. /\ proc'[u] = proc[u] /\ proc[u].row \in Rows /\ Covered(u)
          /\ (proc[u].result = "rejected" => docs[proc[u].row] = 0 /\ proc[u].row \notin wire)
          /\ (proc[u].result = "issued" => docs[proc[u].row] > 0)
      BY <1>0, <1>1, <1>3, <2>2 DEF AnswersAreTrue, At, Mine, Covered
    <3>2. CASE proc[u].row # proc[t].row
      BY <1>3, <3>1, <3>2
    <3>3. CASE proc[u].row = proc[t].row
      <4>1. docs[proc[t].row] # 0
        BY <1>5, <2>2, <3>1, <3>3
      <4> QED BY <1>3, <1>7, <3>1, <3>3, <4>1
    <3> QED BY <3>2, <3>3
  <2> QED BY <2>1, <2>2
<1>13. NumberedFirst'
  BY <1>0, <1>1, <1>2, <1>3, <1>4, <1>5, <1>6, <1>7 DEF NumberedFirst, NeedsNumber, At, Mine
<1>14. SweepIsTrue'
  BY <1>0, <1>1, <1>2, <1>3, <1>4, <1>5, <1>6, <1>7 DEF SweepIsTrue
<1>15. RivalsYield'
  BY <1>0, <1>1, <1>2, <1>3, <1>4, <1>5, <1>6, <1>7
  DEF RivalsYield, Guarded, Yields, Still, MayHaveDocument, Covered, At, Mine
<1>16. RefusalsMarked'
  BY <1>0, <1>2, <1>3, <1>4, <1>5, <1>6, <1>7 DEF RefusalsMarked
<1>17. OneWasRefused'
  BY <1>0, <1>1, <1>2, <1>3, <1>4, <1>5, <1>6, <1>7 DEF OneWasRefused
<1> QED BY <1>8, <1>9, <1>10, <1>11, <1>12, <1>13, <1>14, <1>15, <1>16, <1>17 DEF DocInv

(* A late request arrives after all, or is lost.                                *)
LEMMA LandsStep ==
  ASSUME DocInv, NEW r \in Rows, RequestLands(r)
  PROVE  DocInv'
<1> USE ConstantsAssumption
<1>0. TypeOK /\ LooksLocked /\ UnclaimedIsStill /\ FirstCallAlone /\ AnswersAreTrue
      /\ NumberedFirst /\ SweepIsTrue /\ RivalsYield /\ RefusalsMarked /\ OneWasRefused
  BY DEF DocInv
<1>1. /\ sweep.pc # "idle" => sweep.row \in Rows
      /\ \A u \in Procs : proc[u].pc # "idle" => proc[u].row \in Rows
      /\ Rows = Invoices \cup Receipts /\ \A q \in Rows : Rivals(q) \subseteq Rows
  BY <1>0, ProcIs, RivalsMutual DEF TypeOK, Rows
<1>2. UNCHANGED <<row, lock, proc, sweep, faults>> /\ r \in wire /\ wire' = wire \ {r}
  BY DEF RequestLands
<1>3. /\ docs' \in [Rows -> 0..2]
      /\ \A q \in Rows : docs'[q] = docs[q] \/ (q = r /\ docs'[q] > 0)
      /\ wire' \subseteq Rows /\ wire \subseteq Rows
  <2>1. docs \in [Rows -> 0..2] /\ wire \subseteq Rows
    BY <1>0 DEF TypeOK
  <2>2. \A n \in DocsAfter(r) : n \in 0..2 /\ n > 0
    BY <2>1 DEF DocsAfter
  <2> QED BY <1>2, <2>1, <2>2 DEF RequestLands
<1>4. \A q \in Rows : Still(q) => Still(q)'
  BY <1>2, <1>3 DEF Still, MayHaveDocument, Covered, At, Mine
<1>5. docs \in [Rows -> 0..2]
  BY <1>0 DEF TypeOK
<1>6. TypeOK'
  BY <1>0, <1>1, <1>2, <1>3, <1>4, <1>5 DEF TypeOK, ProcType, RowType, ProcPcs, At, Mine, Idle
<1>7. LooksLocked'
  BY <1>0, <1>2, <1>3, <1>4, <1>5 DEF LooksLocked, Looking, At, Mine
<1>8. UnclaimedIsStill'
  BY <1>0, <1>2, <1>4 DEF UnclaimedIsStill, Unclaimed
<1>9. FirstCallAlone'
  BY <1>0, <1>2, <1>3, <1>4, <1>5 DEF FirstCallAlone, Engaged, Covered, At, Mine
<1>10. AnswersAreTrue'
  <2> SUFFICES ASSUME NEW u \in Procs, proc[u].pc = "record"
               PROVE  /\ (proc[u].result = "rejected" => docs'[proc[u].row] = 0 /\ proc[u].row \notin wire')
                      /\ (proc[u].result = "issued" => docs'[proc[u].row] > 0)
    BY <1>2 DEF AnswersAreTrue, At, Mine
  <2>1. /\ proc[u].row \in Rows
        /\ (proc[u].result = "rejected" => docs[proc[u].row] = 0 /\ proc[u].row \notin wire)
        /\ (proc[u].result = "issued" => docs[proc[u].row] > 0)
    BY <1>0, <1>1 DEF AnswersAreTrue, At, Mine
  <2> QED BY <1>2, <1>3, <2>1
<1>11. NumberedFirst'
  BY <1>0, <1>1, <1>2, <1>3, <1>4, <1>5 DEF NumberedFirst, NeedsNumber, At, Mine
<1>12. SweepIsTrue'
  BY <1>0, <1>1, <1>2, <1>3, <1>4, <1>5 DEF SweepIsTrue
<1>13. RivalsYield'
  BY <1>0, <1>1, <1>2, <1>4 DEF RivalsYield, Guarded, Yields, At, Mine
<1>14. RefusalsMarked'
  BY <1>0, <1>2, <1>3, <1>4, <1>5 DEF RefusalsMarked
<1>15. OneWasRefused'
  BY <1>0, <1>1, <1>2, <1>3, <1>4, <1>5 DEF OneWasRefused
<1> QED BY <1>6, <1>7, <1>8, <1>9, <1>10, <1>11, <1>12, <1>13, <1>14, <1>15 DEF DocInv

(* It records the answer, by id and whatever the row says by now.               *)
LEMMA RecordStep ==
  ASSUME DocInv, NEW t \in Procs, Record(t)
  PROVE  DocInv'
<1> USE ConstantsAssumption
<1>0. TypeOK /\ LooksLocked /\ UnclaimedIsStill /\ FirstCallAlone /\ AnswersAreTrue
      /\ NumberedFirst /\ SweepIsTrue /\ RivalsYield /\ RefusalsMarked /\ OneWasRefused
  BY DEF DocInv
<1>1. /\ sweep.pc # "idle" => sweep.row \in Rows
      /\ \A u \in Procs : proc[u].pc # "idle" => proc[u].row \in Rows
      /\ Rows = Invoices \cup Receipts /\ \A q \in Rows : Rivals(q) \subseteq Rows
  BY <1>0, ProcIs, RivalsMutual DEF TypeOK, Rows
<1>2. UNCHANGED <<lock, sweep, docs, wire>> /\ proc[t].pc = "record"
  BY DEF Record, At
<1>3. faults' \in 0..MaxFaults
  BY <1>0 DEF Record, Fault, TypeOK
<1>4. /\ proc' \in [Procs -> ProcType]
      /\ \A u \in Procs : u # t => proc'[u] = proc[u]
      /\ proc'[t].row = proc[t].row /\ proc'[t].result = proc[t].result /\ proc[t].row \in Rows
      /\ row' \in [Rows -> RowType]
      /\ \A q \in Rows : q # proc[t].row => row'[q] = row[q]
      /\ proc'[t].pc = "release"
      /\ \/ row' = row
         \/ proc[t].result = "rejected" /\ row'[proc[t].row] = Refused(row[proc[t].row])
         \/ /\ proc[t].result = "issued"
            /\ row'[proc[t].row].status = "issued" /\ row'[proc[t].row].mode = "none"
            /\ row'[proc[t].row].lease = "none"
            /\ row'[proc[t].row].refused = row[proc[t].row].refused
            /\ row'[proc[t].row].numbered = row[proc[t].row].numbered
         \/ /\ proc[t].result = "inDoubt"
            /\ row'[proc[t].row].status = "failed" /\ row'[proc[t].row].mode = "inDoubt"
            /\ row'[proc[t].row].lease = "none"
            /\ row'[proc[t].row].refused = row[proc[t].row].refused
            /\ row'[proc[t].row].numbered = row[proc[t].row].numbered
  <2> DEFINE e == row[proc[t].row]
  <2>1. proc[t].row \in Rows /\ e \in RowType /\ proc[t].result \in {"issued", "rejected", "inDoubt"}
    BY <1>0, <1>2, ProcIs, RowIs DEF ProcType
  <2>2. Goes(t, "release") /\ (row' = row \/ Write(proc[t].row, Outcome(e, proc[t].result)))
    BY DEF Record, Mine
  <2>3. /\ proc' \in [Procs -> ProcType]
        /\ \A u \in Procs : u # t => proc'[u] = proc[u]
        /\ proc'[t].row = proc[t].row /\ proc'[t].result = proc[t].result /\ proc'[t].pc = "release"
    BY <1>0, <2>2, GoesIs DEF ProcPcs
  <2> HIDE DEF e
  <2>4. /\ Outcome(e, "rejected") = Refused(e) /\ Outcome(e, "rejected") \in RowType
        /\ Outcome(e, "issued") \in RowType /\ Outcome(e, "issued").status = "issued"
        /\ Outcome(e, "issued").mode = "none" /\ Outcome(e, "issued").lease = "none"
        /\ Outcome(e, "issued").refused = e.refused /\ Outcome(e, "issued").numbered = e.numbered
        /\ Outcome(e, "inDoubt") \in RowType /\ Outcome(e, "inDoubt").status = "failed"
        /\ Outcome(e, "inDoubt").mode = "inDoubt" /\ Outcome(e, "inDoubt").lease = "none"
        /\ Outcome(e, "inDoubt").refused = e.refused /\ Outcome(e, "inDoubt").numbered = e.numbered
    BY <2>1, OutcomeIs, RefusedIs
  <2>5. CASE row' = row
    BY <1>0, <2>1, <2>3, <2>5, RowIs
  <2>6. CASE Write(proc[t].row, Outcome(e, proc[t].result))
    <3>1. Outcome(e, proc[t].result) \in RowType
      BY <2>1, <2>4
    <3>2. /\ row' \in [Rows -> RowType] /\ row'[proc[t].row] = Outcome(e, proc[t].result)
          /\ \A q \in Rows : q # proc[t].row => row'[q] = row[q]
      BY <1>0, <2>1, <2>6, <3>1, WriteIs
    <3> QED BY <2>1, <2>3, <2>4, <3>2 DEF e
  <2> QED BY <2>2, <2>5, <2>6
<1>5. /\ Refused(row[proc[t].row]).status = "failed" /\ Refused(row[proc[t].row]).mode = "rejected"
      /\ Refused(row[proc[t].row]).lease = "none" /\ Refused(row[proc[t].row]).refused
      /\ Refused(row[proc[t].row]).numbered = row[proc[t].row].numbered
  BY <1>0, <1>4, RowIs, RefusedIs
<1>6. /\ row[proc[t].row].status # "absent" /\ ~Unclaimed(proc[t].row)
      /\ proc[t].result = "rejected" => docs[proc[t].row] = 0 /\ proc[t].row \notin wire
      /\ proc[t].result = "issued" => docs[proc[t].row] > 0
  BY <1>0, <1>2, <1>4 DEF UnclaimedIsStill, Unclaimed, Still, MayHaveDocument, Covered, AnswersAreTrue, At, Mine
<1>7. docs[proc[t].row] = 0 => \A u \in Procs : u # t => ~(proc[u].row = proc[t].row /\ Covered(u))
  BY <1>0, <1>2, <1>4 DEF FirstCallAlone, Covered, At, Mine
<1>8. /\ \A u \in Procs : u # t => (Covered(u)' <=> Covered(u)) /\ (Guarded(u)' <=> Guarded(u))
      /\ \A u \in Procs : Mine(u)' = Mine(u) /\ ~Covered(t)' /\ ~Guarded(t)'
  BY <1>4 DEF Covered, Guarded, At, Mine
<1>9. \A q : Still(q) => Still(q)'
  BY <1>2, <1>8 DEF Still, MayHaveDocument
<1>10. TypeOK'
  BY <1>0, <1>1, <1>2, <1>3, <1>4, <1>5, <1>6, <1>7, <1>8, <1>9
  DEF TypeOK, ProcType, RowType, ProcPcs, At, Mine, Idle
<1>11. LooksLocked'
  BY <1>0, <1>2, <1>3, <1>4, <1>5, <1>6, <1>7, <1>8, <1>9 DEF LooksLocked, Looking, At, Mine
<1>12. UnclaimedIsStill'
  BY <1>0, <1>2, <1>3, <1>4, <1>5, <1>6, <1>7, <1>8, <1>9
  DEF UnclaimedIsStill, Unclaimed, Still, MayHaveDocument, Covered, At, Mine
<1>13. FirstCallAlone'
  BY <1>0, <1>2, <1>3, <1>4, <1>5, <1>6, <1>7, <1>8, <1>9 DEF FirstCallAlone, Engaged, Covered, At, Mine
<1>14. AnswersAreTrue'
  BY <1>0, <1>2, <1>3, <1>4, <1>5, <1>6, <1>7, <1>8, <1>9 DEF AnswersAreTrue, At, Mine
<1>15. NumberedFirst'
  BY <1>0, <1>1, <1>2, <1>3, <1>4, <1>5, <1>6, <1>7, <1>8, <1>9 DEF NumberedFirst, NeedsNumber, At, Mine
<1>16. SweepIsTrue'
  BY <1>0, <1>1, <1>2, <1>3, <1>4, <1>5, <1>6, <1>7, <1>8, <1>9 DEF SweepIsTrue
<1>17. RivalsYield'
  BY <1>0, <1>1, <1>2, <1>3, <1>4, <1>5, <1>6, <1>7, <1>8, <1>9
  DEF RivalsYield, Guarded, Yields, Still, MayHaveDocument, Covered, At, Mine
<1>18. RefusalsMarked'
  BY <1>0, <1>2, <1>3, <1>4, <1>5, <1>6, <1>7, <1>8, <1>9 DEF RefusalsMarked
<1>19. OneWasRefused'
  BY <1>0, <1>1, <1>2, <1>3, <1>4, <1>5, <1>6, <1>7, <1>8, <1>9 DEF OneWasRefused
<1> QED BY <1>10, <1>11, <1>12, <1>13, <1>14, <1>15, <1>16, <1>17, <1>18, <1>19 DEF DocInv

(* It releases the lock.                                                        *)
LEMMA ReleaseStep ==
  ASSUME DocInv, NEW t \in Procs, Release(t)
  PROVE  DocInv'
<1> USE ConstantsAssumption
<1>0. TypeOK /\ LooksLocked /\ UnclaimedIsStill /\ FirstCallAlone /\ AnswersAreTrue
      /\ NumberedFirst /\ SweepIsTrue /\ RivalsYield /\ RefusalsMarked /\ OneWasRefused
  BY DEF DocInv
<1>1. /\ sweep.pc # "idle" => sweep.row \in Rows
      /\ \A u \in Procs : proc[u].pc # "idle" => proc[u].row \in Rows
      /\ Rows = Invoices \cup Receipts /\ \A q \in Rows : Rivals(q) \subseteq Rows
  BY <1>0, ProcIs, RivalsMutual DEF TypeOK, Rows
<1>2. /\ UNCHANGED <<row, sweep, docs, wire, faults>> /\ proc[t].pc = "release"
      /\ lock' = IF lock = t THEN Free ELSE lock
  BY DEF Release, At
<1>3. /\ proc' \in [Procs -> ProcType]
      /\ \A u \in Procs : u # t => proc'[u] = proc[u]
      /\ proc'[t] = Idle /\ proc'[t].pc = "idle" /\ proc'[t].row = Free
  <2>1. proc' = [proc EXCEPT ![t] = Idle]
    BY DEF Release
  <2> QED BY <1>0, <2>1, TurnsIs, IdleIs
<1>4. TypeOK'
  BY <1>0, <1>1, <1>2, <1>3 DEF TypeOK, ProcType, RowType, ProcPcs, At, Mine, Idle
<1>5. LooksLocked'
  BY <1>0, <1>2, <1>3 DEF LooksLocked, Looking, At, Mine
<1>6. UnclaimedIsStill'
  BY <1>0, <1>2, <1>3 DEF UnclaimedIsStill, Unclaimed, Still, MayHaveDocument, Covered, At, Mine
<1>7. FirstCallAlone'
  BY <1>0, <1>2, <1>3 DEF FirstCallAlone, Engaged, Covered, At, Mine
<1>8. AnswersAreTrue'
  BY <1>0, <1>2, <1>3 DEF AnswersAreTrue, At, Mine
<1>9. NumberedFirst'
  BY <1>0, <1>1, <1>2, <1>3 DEF NumberedFirst, NeedsNumber, At, Mine
<1>10. SweepIsTrue'
  BY <1>0, <1>1, <1>2, <1>3 DEF SweepIsTrue
<1>11. RivalsYield'
  BY <1>0, <1>1, <1>2, <1>3 DEF RivalsYield, Guarded, Yields, Still, MayHaveDocument, Covered, At, Mine
<1>12. RefusalsMarked'
  BY <1>0, <1>2, <1>3 DEF RefusalsMarked
<1>13. OneWasRefused'
  BY <1>0, <1>1, <1>2, <1>3 DEF OneWasRefused
<1> QED BY <1>4, <1>5, <1>6, <1>7, <1>8, <1>9, <1>10, <1>11, <1>12, <1>13 DEF DocInv

(* The lock runs out.                                                           *)
LEMMA ExpiresStep ==
  ASSUME DocInv, LockExpires
  PROVE  DocInv'
<1> USE ConstantsAssumption
<1>0. TypeOK /\ LooksLocked /\ UnclaimedIsStill /\ FirstCallAlone /\ AnswersAreTrue
      /\ NumberedFirst /\ SweepIsTrue /\ RivalsYield /\ RefusalsMarked /\ OneWasRefused
  BY DEF DocInv
<1>1. /\ sweep.pc # "idle" => sweep.row \in Rows
      /\ \A u \in Procs : proc[u].pc # "idle" => proc[u].row \in Rows
      /\ Rows = Invoices \cup Receipts /\ \A q \in Rows : Rivals(q) \subseteq Rows
  BY <1>0, ProcIs, RivalsMutual DEF TypeOK, Rows
<1>2. UNCHANGED <<row, proc, sweep, docs, wire, faults>> /\ lock' = Free
      /\ \A t \in Procs : lock = t => Covered(t) \/ At(t, "release")
  BY DEF LockExpires
<1>3. TypeOK'
  BY <1>0, <1>1, <1>2 DEF TypeOK, ProcType, RowType, ProcPcs, At, Mine, Idle
<1>4. LooksLocked'
  BY <1>0, <1>2 DEF LooksLocked, Looking, At, Mine, Covered
<1>5. UnclaimedIsStill'
  BY <1>0, <1>2 DEF UnclaimedIsStill, Unclaimed, Still, MayHaveDocument, Covered, At, Mine
<1>6. FirstCallAlone'
  BY <1>0, <1>2 DEF FirstCallAlone, Engaged, Covered, At, Mine
<1>7. AnswersAreTrue'
  BY <1>0, <1>2 DEF AnswersAreTrue, At, Mine
<1>8. NumberedFirst'
  BY <1>0, <1>1, <1>2 DEF NumberedFirst, NeedsNumber, At, Mine
<1>9. SweepIsTrue'
  BY <1>0, <1>1, <1>2 DEF SweepIsTrue
<1>10. RivalsYield'
  BY <1>0, <1>1, <1>2 DEF RivalsYield, Guarded, Yields, Still, MayHaveDocument, Covered, At, Mine
<1>11. RefusalsMarked'
  BY <1>0, <1>2 DEF RefusalsMarked
<1>12. OneWasRefused'
  BY <1>0, <1>1, <1>2 DEF OneWasRefused
<1> QED BY <1>3, <1>4, <1>5, <1>6, <1>7, <1>8, <1>9, <1>10, <1>11, <1>12 DEF DocInv

(* A lease runs out.                                                            *)
LEMMA ElapsesStep ==
  ASSUME DocInv, NEW r \in Rows, LeaseElapses(r)
  PROVE  DocInv'
<1> USE ConstantsAssumption
<1>0. TypeOK /\ LooksLocked /\ UnclaimedIsStill /\ FirstCallAlone /\ AnswersAreTrue
      /\ NumberedFirst /\ SweepIsTrue /\ RivalsYield /\ RefusalsMarked /\ OneWasRefused
  BY DEF DocInv
<1>1. /\ sweep.pc # "idle" => sweep.row \in Rows
      /\ \A u \in Procs : proc[u].pc # "idle" => proc[u].row \in Rows
      /\ Rows = Invoices \cup Receipts /\ \A q \in Rows : Rivals(q) \subseteq Rows
  BY <1>0, ProcIs, RivalsMutual DEF TypeOK, Rows
<1>2. UNCHANGED <<lock, proc, sweep, docs, wire, faults>> /\ row[r].status = "working" /\ r \notin wire
      /\ \A t \in Procs : ~(Mine(t) = r /\ Covered(t))
  BY DEF LeaseElapses
<1>3. /\ row' \in [Rows -> RowType]
      /\ \A q \in Rows : q # r => row'[q] = row[q]
      /\ row'[r].status = row[r].status /\ row'[r].mode = row[r].mode
      /\ row'[r].refused = row[r].refused /\ row'[r].numbered = row[r].numbered
  <2> DEFINE l == IF row[r].lease = "live" THEN "expired" ELSE "stuck"
             e == [row[r] EXCEPT !.lease = l]
  <2>1. row[r] \in RowType /\ l \in {"none", "live", "expired", "stuck"}
    BY <1>0, RowIs
  <2>2. Write(r, e)
    BY DEF LeaseElapses
  <2> HIDE DEF l
  <2>3. /\ e \in RowType /\ e.status = row[r].status /\ e.mode = row[r].mode
        /\ e.refused = row[r].refused /\ e.numbered = row[r].numbered
    BY <2>1 DEF RowType
  <2> HIDE DEF e
  <2> QED BY <1>0, <2>2, <2>3, WriteIs
<1>4. TypeOK'
  BY <1>0, <1>1, <1>2, <1>3 DEF TypeOK, ProcType, RowType, ProcPcs, At, Mine, Idle
<1>5. LooksLocked'
  BY <1>0, <1>2, <1>3 DEF LooksLocked, Looking, At, Mine
<1>6. UnclaimedIsStill'
  BY <1>0, <1>2, <1>3 DEF UnclaimedIsStill, Unclaimed, Still, MayHaveDocument, Covered, At, Mine
<1>7. FirstCallAlone'
  BY <1>0, <1>2, <1>3 DEF FirstCallAlone, Engaged, Covered, At, Mine
<1>8. AnswersAreTrue'
  BY <1>0, <1>2, <1>3 DEF AnswersAreTrue, At, Mine
<1>9. NumberedFirst'
  BY <1>0, <1>1, <1>2, <1>3 DEF NumberedFirst, NeedsNumber, At, Mine
<1>10. SweepIsTrue'
  BY <1>0, <1>1, <1>2, <1>3 DEF SweepIsTrue
<1>11. RivalsYield'
  BY <1>0, <1>1, <1>2, <1>3 DEF RivalsYield, Guarded, Yields, Still, MayHaveDocument, Covered, At, Mine
<1>12. RefusalsMarked'
  BY <1>0, <1>2, <1>3 DEF RefusalsMarked
<1>13. OneWasRefused'
  BY <1>0, <1>1, <1>2, <1>3 DEF OneWasRefused
<1> QED BY <1>4, <1>5, <1>6, <1>7, <1>8, <1>9, <1>10, <1>11, <1>12, <1>13 DEF DocInv

(* A process dies; its request may be under way.                                *)
LEMMA DiesStep ==
  ASSUME DocInv, NEW t \in Procs, ProcessDies(t)
  PROVE  DocInv'
<1> USE ConstantsAssumption
<1>0. TypeOK /\ LooksLocked /\ UnclaimedIsStill /\ FirstCallAlone /\ AnswersAreTrue
      /\ NumberedFirst /\ SweepIsTrue /\ RivalsYield /\ RefusalsMarked /\ OneWasRefused
  BY DEF DocInv
<1>1. /\ sweep.pc # "idle" => sweep.row \in Rows
      /\ \A u \in Procs : proc[u].pc # "idle" => proc[u].row \in Rows
      /\ Rows = Invoices \cup Receipts /\ \A q \in Rows : Rivals(q) \subseteq Rows
  BY <1>0, ProcIs, RivalsMutual DEF TypeOK, Rows
<1>2. UNCHANGED <<row, sweep, docs>> /\ lock' = (IF lock = t THEN Orphan ELSE lock) /\ proc[t].pc # "idle"
      /\ wire' = (IF proc[t].pc = "call" THEN wire \cup {proc[t].row} ELSE wire)
  BY DEF ProcessDies, At, Mine
<1>3. faults' \in 0..MaxFaults
  BY <1>0 DEF ProcessDies, Fault, TypeOK
<1>4. /\ proc' \in [Procs -> ProcType]
      /\ \A u \in Procs : u # t => proc'[u] = proc[u]
      /\ proc'[t] = Idle /\ proc'[t].pc = "idle" /\ proc'[t].row = Free /\ proc[t].row \in Rows
  <2>1. proc' = [proc EXCEPT ![t] = Idle]
    BY DEF ProcessDies
  <2> QED BY <1>0, <1>2, <2>1, TurnsIs, IdleIs, ProcIs
<1>5. proc[t].pc = "call" => ~Unclaimed(proc[t].row) /\ ~Still(proc[t].row)
  BY <1>0, <1>2, <1>4 DEF UnclaimedIsStill, Still, MayHaveDocument, Covered, At, Mine
<1>6. docs[proc[t].row] = 0 /\ proc[t].pc = "call" =>
        \A u \in Procs : u # t => ~(proc[u].row = proc[t].row /\ Covered(u))
  BY <1>0, <1>2, <1>4 DEF FirstCallAlone, Covered, At, Mine
<1>7. /\ \A u \in Procs : u # t =>
           (Covered(u)' <=> Covered(u)) /\ (Guarded(u)' <=> Guarded(u)) /\ Mine(u)' = Mine(u)
      /\ ~Covered(t)' /\ ~Guarded(t)'
  BY <1>4 DEF Covered, Guarded, At, Mine
<1>8. \A q : Still(q) => Still(q)'
  BY <1>2, <1>4, <1>5, <1>7 DEF Still, MayHaveDocument
<1>9. TypeOK'
  <2>1. /\ row' \in [Rows -> RowType] /\ docs' \in [Rows -> 0..2] /\ wire' \subseteq Rows
        /\ lock' \in Procs \cup {Free, Orphan}
    BY <1>0, <1>1, <1>2, RowIs DEF TypeOK
  <2>2. /\ sweep' \in SweepType
        /\ (sweep'.pc # "idle" => sweep'.row \in Rows)
        /\ \A r \in Rows : row'[r].lease # "none" => row'[r].status = "working"
    BY <1>0, <1>2 DEF TypeOK, SweepType
  <2>3. \A u \in Procs : /\ (proc'[u].pc = "idle" => proc'[u] = Idle)
                         /\ (proc'[u].pc # "idle" => proc'[u].row \in Rows)
                         /\ (proc'[u].pc = "record" => proc'[u].result # "none")
    BY <1>0, <1>4 DEF TypeOK, At, Mine
  <2> QED BY <1>4, <1>3, <2>1, <2>2, <2>3 DEF TypeOK, RowType, ProcType, At, Mine, SweepType
<1>10. LooksLocked'
  BY <1>0, <1>2, <1>3, <1>4, <1>5, <1>6, <1>7, <1>8 DEF LooksLocked, Looking, At, Mine
<1>11. UnclaimedIsStill'
  BY <1>0, <1>2, <1>3, <1>4, <1>5, <1>6, <1>7, <1>8
  DEF UnclaimedIsStill, Unclaimed, Still, MayHaveDocument, Covered, At, Mine
<1>12. FirstCallAlone'
  BY <1>0, <1>2, <1>3, <1>4, <1>5, <1>6, <1>7, <1>8 DEF FirstCallAlone, Engaged, Covered, At, Mine
<1>13. AnswersAreTrue'
  BY <1>0, <1>2, <1>3, <1>4, <1>5, <1>6, <1>7, <1>8 DEF AnswersAreTrue, At, Mine, Covered
<1>14. NumberedFirst'
  BY <1>0, <1>1, <1>2, <1>3, <1>4, <1>5, <1>6, <1>7, <1>8 DEF NumberedFirst, NeedsNumber, At, Mine
<1>15. SweepIsTrue'
  BY <1>0, <1>1, <1>2, <1>3, <1>4, <1>5, <1>6, <1>7, <1>8 DEF SweepIsTrue
<1>16. RivalsYield'
  BY <1>0, <1>1, <1>2, <1>3, <1>4, <1>5, <1>6, <1>7, <1>8
  DEF RivalsYield, Guarded, Yields, Still, MayHaveDocument, Covered, At, Mine
<1>17. RefusalsMarked'
  BY <1>0, <1>2, <1>3, <1>4, <1>5, <1>6, <1>7, <1>8 DEF RefusalsMarked
<1>18. OneWasRefused'
  BY <1>0, <1>1, <1>2, <1>3, <1>4, <1>5, <1>6, <1>7, <1>8 DEF OneWasRefused
<1> QED BY <1>9, <1>10, <1>11, <1>12, <1>13, <1>14, <1>15, <1>16, <1>17, <1>18 DEF DocInv

(* The sweep picks a row.                                                       *)
LEMMA SelectStep ==
  ASSUME DocInv, NEW r \in Rows, SelectForRecovery(r)
  PROVE  DocInv'
<1> USE ConstantsAssumption
<1>0. TypeOK /\ LooksLocked /\ UnclaimedIsStill /\ FirstCallAlone /\ AnswersAreTrue
      /\ NumberedFirst /\ SweepIsTrue /\ RivalsYield /\ RefusalsMarked /\ OneWasRefused
  BY DEF DocInv
<1>1. /\ sweep.pc # "idle" => sweep.row \in Rows
      /\ \A u \in Procs : proc[u].pc # "idle" => proc[u].row \in Rows
      /\ Rows = Invoices \cup Receipts /\ \A q \in Rows : Rivals(q) \subseteq Rows
  BY <1>0, ProcIs, RivalsMutual DEF TypeOK, Rows
<1>2. /\ UNCHANGED <<row, lock, proc, docs, wire, faults>> /\ row[r].status # "absent"
      /\ sweep' \in SweepType
      /\ sweep'.row = r /\ sweep'.found = "no"
  BY DEF SelectForRecovery, Stuck, InDoubt, Asleep, SweepType
<1>3. TypeOK'
  BY <1>0, <1>1, <1>2 DEF TypeOK, ProcType, RowType, ProcPcs, At, Mine, Idle, SweepType
<1>4. LooksLocked'
  BY <1>0, <1>2 DEF LooksLocked, Looking, At, Mine
<1>5. UnclaimedIsStill'
  BY <1>0, <1>2 DEF UnclaimedIsStill, Unclaimed, Still, MayHaveDocument, Covered, At, Mine
<1>6. FirstCallAlone'
  BY <1>0, <1>2 DEF FirstCallAlone, Engaged, Covered, At, Mine
<1>7. AnswersAreTrue'
  BY <1>0, <1>2 DEF AnswersAreTrue, At, Mine
<1>8. NumberedFirst'
  BY <1>0, <1>1, <1>2 DEF NumberedFirst, NeedsNumber, At, Mine
<1>9. SweepIsTrue'
  BY <1>0, <1>1, <1>2 DEF SweepIsTrue
<1>10. RivalsYield'
  BY <1>0, <1>1, <1>2 DEF RivalsYield, Guarded, Yields, Still, MayHaveDocument, Covered, At, Mine
<1>11. RefusalsMarked'
  BY <1>0, <1>2 DEF RefusalsMarked
<1>12. OneWasRefused'
  BY <1>0, <1>1, <1>2 DEF OneWasRefused
<1> QED BY <1>3, <1>4, <1>5, <1>6, <1>7, <1>8, <1>9, <1>10, <1>11, <1>12 DEF DocInv

(* It asks the provider.                                                        *)
LEMMA LocateStep ==
  ASSUME DocInv, Locate
  PROVE  DocInv'
<1> USE ConstantsAssumption
<1>0. TypeOK /\ LooksLocked /\ UnclaimedIsStill /\ FirstCallAlone /\ AnswersAreTrue
      /\ NumberedFirst /\ SweepIsTrue /\ RivalsYield /\ RefusalsMarked /\ OneWasRefused
  BY DEF DocInv
<1>1. /\ sweep.pc # "idle" => sweep.row \in Rows
      /\ \A u \in Procs : proc[u].pc # "idle" => proc[u].row \in Rows
      /\ Rows = Invoices \cup Receipts /\ \A q \in Rows : Rivals(q) \subseteq Rows
  BY <1>0, ProcIs, RivalsMutual DEF TypeOK, Rows
<1>2. /\ UNCHANGED <<row, lock, proc, docs, wire, faults>> /\ sweep.pc = "locate"
      /\ sweep' \in SweepType
      /\ \/ sweep'.pc = "idle"
         \/ sweep'.row = sweep.row /\ (sweep'.found # "no" => docs[sweep.row] # 0)
  <2>1. sweep \in SweepType
    BY <1>0 DEF TypeOK, SweepType
  <2>2. CASE sweep' = Asleep
    BY <2>2 DEF Locate, Asleep, SweepType
  <2>3. ASSUME NEW a \in {"no", "yes", "refused"}, sweep' = [sweep EXCEPT !.pc = "write", !.found = a],
               a # "no" => docs[sweep.row] # 0
        PROVE  /\ sweep' \in SweepType
               /\ sweep'.row = sweep.row /\ (sweep'.found # "no" => docs[sweep.row] # 0)
    BY <2>1, <2>3 DEF SweepType
  <2>4. \/ sweep' = Asleep
        \/ \E a \in {"no", "yes", "refused"} :
             sweep' = [sweep EXCEPT !.pc = "write", !.found = a] /\ (a # "no" => docs[sweep.row] # 0)
    BY DEF Locate
  <2> QED BY <2>2, <2>3, <2>4 DEF Locate
<1>3. \A r \in Rows : docs[r] \in 0..2
  BY <1>0 DEF TypeOK
<1>4. TypeOK'
  BY <1>0, <1>1, <1>2, <1>3 DEF TypeOK, ProcType, RowType, ProcPcs, At, Mine, Idle, SweepType
<1>5. LooksLocked'
  BY <1>0, <1>2, <1>3 DEF LooksLocked, Looking, At, Mine
<1>6. UnclaimedIsStill'
  BY <1>0, <1>2, <1>3 DEF UnclaimedIsStill, Unclaimed, Still, MayHaveDocument, Covered, At, Mine
<1>7. FirstCallAlone'
  BY <1>0, <1>2, <1>3 DEF FirstCallAlone, Engaged, Covered, At, Mine
<1>8. AnswersAreTrue'
  BY <1>0, <1>2, <1>3 DEF AnswersAreTrue, At, Mine
<1>9. NumberedFirst'
  BY <1>0, <1>1, <1>2, <1>3 DEF NumberedFirst, NeedsNumber, At, Mine
<1>10. SweepIsTrue'
  BY <1>0, <1>1, <1>2, <1>3 DEF SweepIsTrue
<1>11. RivalsYield'
  BY <1>0, <1>1, <1>2, <1>3 DEF RivalsYield, Guarded, Yields, Still, MayHaveDocument, Covered, At, Mine
<1>12. RefusalsMarked'
  BY <1>0, <1>2, <1>3 DEF RefusalsMarked
<1>13. OneWasRefused'
  BY <1>0, <1>1, <1>2, <1>3 DEF OneWasRefused
<1> QED BY <1>4, <1>5, <1>6, <1>7, <1>8, <1>9, <1>10, <1>11, <1>12, <1>13 DEF DocInv

(* It writes what it concludes from what it read before.                        *)
LEMMA RecoverStep ==
  ASSUME DocInv, WriteRecovered
  PROVE  DocInv'
<1> USE ConstantsAssumption
<1>0. TypeOK /\ LooksLocked /\ UnclaimedIsStill /\ FirstCallAlone /\ AnswersAreTrue
      /\ NumberedFirst /\ SweepIsTrue /\ RivalsYield /\ RefusalsMarked /\ OneWasRefused
  BY DEF DocInv
<1>1. /\ sweep.pc # "idle" => sweep.row \in Rows
      /\ \A u \in Procs : proc[u].pc # "idle" => proc[u].row \in Rows
      /\ Rows = Invoices \cup Receipts /\ \A q \in Rows : Rivals(q) \subseteq Rows
  BY <1>0, ProcIs, RivalsMutual DEF TypeOK, Rows
<1>2. /\ UNCHANGED <<lock, proc, docs, wire, faults>> /\ sweep.pc = "write" /\ sweep' = Asleep
      /\ sweep'.pc = "idle" /\ sweep' \in SweepType
      /\ sweep.row \in Rows /\ row[sweep.row].status # "absent" /\ sweep.found \in {"no", "yes", "refused"}
      /\ (sweep.found # "no" => docs[sweep.row] > 0)
  BY <1>0 DEF WriteRecovered, TypeOK, SweepIsTrue, Asleep, SweepType
<1>3. /\ row' \in [Rows -> RowType]
      /\ \A q \in Rows : q # sweep.row => row'[q] = row[q]
      /\ row'[sweep.row].refused = row[sweep.row].refused /\ row'[sweep.row].numbered = row[sweep.row].numbered
      /\ row'[sweep.row].status # "absent"
      /\ (row'[sweep.row].mode = "rejected" => row[sweep.row].mode = "rejected")
      /\ (row'[sweep.row].lease # "none" => row'[sweep.row].status = "working")
      /\ \/ docs[sweep.row] > 0
            /\ \/ row'[sweep.row].status = "issued"
               \/ row'[sweep.row].status = row[sweep.row].status /\ row'[sweep.row].mode = row[sweep.row].mode
         \/ row'[sweep.row].status = "failed" /\ row'[sweep.row].mode = "inDoubt"
         \/ row'[sweep.row] = row[sweep.row]
  <2> DEFINE e == row[sweep.row]
             x == Recovered(e, sweep.row, sweep.found)
  <2>1. /\ e \in RowType /\ (sweep.row \in Invoices \/ sweep.row \in Receipts)
        /\ (e.lease # "none" => e.status = "working")
    BY <1>0, <1>2, RowIs DEF Rows, TypeOK
  <2>2. Write(sweep.row, x)
    BY DEF WriteRecovered
  <2> HIDE DEF e
  <2>3. /\ x \in RowType /\ x.refused = e.refused /\ x.numbered = e.numbered
        /\ (x.mode = "rejected" => e.mode = "rejected")
        /\ (x.lease # "none" => x.status = "working")
        /\ \/ sweep.found # "no" /\ (x.status = "issued" \/ (x.status = e.status /\ x.mode = e.mode))
           \/ x.status = "failed" /\ x.mode = "inDoubt"
           \/ x = e
    <3>1. CASE sweep.found = "yes" /\ sweep.row \in Invoices
      <4>1. x = [e EXCEPT !.status = "issued", !.lease = "none"]
        BY <3>1 DEF Recovered
      <4> QED BY <2>1, <3>1, <4>1 DEF RowType
    <3>2. CASE sweep.found = "yes" /\ sweep.row \in Receipts
      <4>1. x = Outcome(e, "issued")
        BY <3>2 DEF Recovered
      <4> HIDE DEF x
      <4> QED BY <2>1, <3>2, <4>1, OutcomeIs
    <3>3. CASE sweep.found = "refused"
      <4>1. x = [e EXCEPT !.lease = "none"]
        BY <3>3 DEF Recovered
      <4> QED BY <2>1, <3>3, <4>1 DEF RowType
    <3>4. CASE sweep.found = "no" /\ sweep.row \in Invoices
      <4>1. x = Outcome(e, "inDoubt")
        BY <3>4 DEF Recovered
      <4> HIDE DEF x
      <4> QED BY <2>1, <3>4, <4>1, OutcomeIs
    <3>5. CASE sweep.found = "no" /\ sweep.row \in Receipts
      <4>1. x = e
        BY <3>5 DEF Recovered
      <4> HIDE DEF x
      <4> QED BY <2>1, <3>5, <4>1
    <3> QED BY <1>2, <2>1, <3>1, <3>2, <3>3, <3>4, <3>5
  <2> HIDE DEF x
  <2>4. row' \in [Rows -> RowType] /\ row'[sweep.row] = x /\ \A q \in Rows : q # sweep.row => row'[q] = row[q]
    BY <1>0, <1>2, <2>2, <2>3, WriteIs
  <2>5. e = row[sweep.row] /\ e.status # "absent"
    BY <1>2 DEF e
  <2>6. row'[sweep.row].status # "absent"
    BY <2>3, <2>4, <2>5
  <2>7. \/ docs[sweep.row] > 0
            /\ \/ row'[sweep.row].status = "issued"
               \/ row'[sweep.row].status = row[sweep.row].status /\ row'[sweep.row].mode = row[sweep.row].mode
        \/ row'[sweep.row].status = "failed" /\ row'[sweep.row].mode = "inDoubt"
        \/ row'[sweep.row] = row[sweep.row]
    <3>1. CASE sweep.found # "no" /\ (x.status = "issued" \/ (x.status = e.status /\ x.mode = e.mode))
      <4> QED BY <1>2, <2>4, <2>5, <3>1
    <3>2. CASE x.status = "failed" /\ x.mode = "inDoubt"
      BY <2>4, <3>2
    <3>3. CASE x = e
      BY <2>4, <2>5, <3>3
    <3> QED BY <2>3, <3>1, <3>2, <3>3
  <2> QED BY <2>3, <2>4, <2>5, <2>6, <2>7
<1>4. TypeOK'
  BY <1>0, <1>1, <1>2, <1>3 DEF TypeOK, ProcType, RowType, ProcPcs, At, Mine, Idle, SweepType
<1>5. LooksLocked'
  BY <1>0, <1>2, <1>3 DEF LooksLocked, Looking, At, Mine
<1>6. UnclaimedIsStill'
  BY <1>0, <1>2, <1>3 DEF UnclaimedIsStill, Unclaimed, Still, MayHaveDocument, Covered, At, Mine
<1>7. FirstCallAlone'
  BY <1>0, <1>2, <1>3 DEF FirstCallAlone, Engaged, Covered, At, Mine
<1>8. AnswersAreTrue'
  BY <1>0, <1>2, <1>3 DEF AnswersAreTrue, At, Mine
<1>9. NumberedFirst'
  BY <1>0, <1>1, <1>2, <1>3 DEF NumberedFirst, NeedsNumber, At, Mine
<1>10. SweepIsTrue'
  BY <1>0, <1>1, <1>2, <1>3 DEF SweepIsTrue
<1>11. RivalsYield'
  BY <1>0, <1>1, <1>2, <1>3 DEF RivalsYield, Guarded, Yields, Still, MayHaveDocument, Covered, At, Mine
<1>12. RefusalsMarked'
  BY <1>0, <1>2, <1>3 DEF RefusalsMarked
<1>13. OneWasRefused'
  BY <1>0, <1>1, <1>2, <1>3 DEF OneWasRefused
<1> QED BY <1>4, <1>5, <1>6, <1>7, <1>8, <1>9, <1>10, <1>11, <1>12, <1>13 DEF DocInv

(* The tables are empty at first.                                               *)
LEMMA DocInit == Init => DocInv
<1> USE ConstantsAssumption
<1> SUFFICES ASSUME Init PROVE DocInv
  OBVIOUS
<1>1. /\ \A r \in Rows : row[r] = Absent /\ docs[r] = 0
      /\ \A t \in Procs : proc[t] = Idle
      /\ lock = Free /\ sweep = Asleep /\ wire = {} /\ faults = 0
  BY DEF Init
<1>2. Absent.status = "absent" /\ Absent.mode = "none" /\ Absent.lease = "none" /\ Absent \in RowType
  BY DEF Absent, RowType
<1>3. row \in [Rows -> RowType] /\ proc \in [Procs -> ProcType] /\ docs \in [Rows -> 0..2]
  BY <1>2, IdleIs DEF Init
<1>4. sweep.pc = "idle"
      /\ sweep \in SweepType
  BY <1>1 DEF Asleep, SweepType
<1>5. TypeOK
  BY <1>1, <1>2, <1>3, <1>4, IdleIs DEF TypeOK, RowType, ProcType, At, Mine, SweepType
<1>6. \A t \in Procs : proc[t].pc = "idle"
  BY <1>1, IdleIs
<1>7. LooksLocked /\ AnswersAreTrue /\ RivalsYield
  BY <1>6 DEF LooksLocked, Looking, AnswersAreTrue, RivalsYield, Guarded, At
<1>8. \A r \in Rows : Still(r)
  BY <1>1, <1>6 DEF Still, MayHaveDocument, Covered, At
<1>9. UnclaimedIsStill /\ FirstCallAlone
  BY <1>1, <1>6, <1>8 DEF UnclaimedIsStill, FirstCallAlone, Covered, At
<1>10. NumberedFirst
  BY <1>1, <1>6 DEF NumberedFirst, At, Rows
<1>11. SweepIsTrue /\ RefusalsMarked /\ OneWasRefused
  BY <1>1, <1>2, <1>4 DEF SweepIsTrue, RefusalsMarked, OneWasRefused
<1> QED BY <1>5, <1>7, <1>9, <1>10, <1>11 DEF DocInv

(* Every step keeps the invariant.                                              *)
LEMMA DocStep ==
  ASSUME "refused" \notin Repeat, DocInv, [Next]_vars
  PROVE  DocInv'
<1>1. CASE UNCHANGED vars
  BY <1>1 DEF vars, DocInv, TypeOK, LooksLocked, Looking, UnclaimedIsStill, Unclaimed, Still, MayHaveDocument,
    FirstCallAlone, Engaged, AnswersAreTrue, NumberedFirst, NeedsNumber, SweepIsTrue, RivalsYield, Guarded,
    Yields, RefusalsMarked, OneWasRefused, Covered, At, Mine
<1>2. ASSUME NEW t \in Procs, (\E r \in Rows : Acquire(t, r)) \/ Works(t) \/ ProcessDies(t)
      PROVE  DocInv'
  BY <1>2, AcquireStep, GuardStep, GateStep, CreateStep, ClaimStep, ResolveStep, NumberStep, CallStep,
     RecordStep, ReleaseStep, DiesStep DEF Works
<1>3. ASSUME NEW r \in Rows, RequestLands(r) \/ LeaseElapses(r) \/ SelectForRecovery(r)
      PROVE  DocInv'
  BY <1>3, LandsStep, ElapsesStep, SelectStep
<1>4. CASE Locate \/ WriteRecovered \/ LockExpires
  BY <1>4, LocateStep, RecoverStep, ExpiresStep
<1> QED BY <1>1, <1>2, <1>3, <1>4 DEF Next

(* So it holds throughout.                                                      *)
LEMMA DocHolds == ASSUME "refused" \notin Repeat PROVE Spec => []DocInv
BY DocInit, DocStep, PTL DEF Spec

(* Only the insert makes a row of a call that found none.                       *)
LEMMA RowsAreInserted ==
  ASSUME DocInv, [Next]_vars, NEW r \in Rows, row[r].status = "absent", row'[r].status # "absent"
  PROVE  \E t \in Procs : At(t, "create") /\ Mine(t) = r
<1> USE ConstantsAssumption
<1>0. TypeOK /\ UnclaimedIsStill /\ SweepIsTrue
  BY DEF DocInv
<1>1. row' # row
  OBVIOUS
<1>2. \A e : \A q \in Rows : Write(q, e) /\ row[q].status # "absent" => row'[r] = row[r]
  BY <1>0, RowIs DEF Write
<1>3. \A t \in Procs : Covered(t) => Mine(t) \in Rows /\ row[Mine(t)].status # "absent"
  BY <1>0, ProcIs DEF UnclaimedIsStill, Unclaimed, Still, MayHaveDocument, Covered, At, Mine
<1>4. ASSUME NEW t \in Procs, Works(t) PROVE At(t, "create") /\ Mine(t) = r
  <2>0. At(t, "create") \/ At(t, "claim") => Mine(t) \in Rows
    BY <1>0, ProcIs DEF At, Mine
  <2>1. CASE Create(t)
    <3>1. At(t, "create") /\ Write(Mine(t), [Absent EXCEPT !.status = "pending"])
      BY <1>1, <2>1 DEF Create
    <3> QED BY <1>0, <2>0, <3>1, RowIs DEF Write
  <2>2. CASE Claim(t)
    <3>1. /\ At(t, "claim") /\ Write(Mine(t), Claimed(row[Mine(t)]))
          /\ Claimable(row[Mine(t)])
      BY <1>1, <2>2 DEF Claim
    <3> QED BY <1>2, <2>0, <3>1 DEF Claimable
  <2>3. CASE AllocateNumber(t)
    <3>1. Covered(t) /\ \E e : Write(Mine(t), e)
      BY <1>1, <2>3 DEF AllocateNumber, Covered
    <3> QED BY <1>2, <1>3, <3>1
  <2>4. CASE Record(t)
    <3>1. Covered(t) /\ \E e : Write(Mine(t), e)
      BY <1>1, <2>4 DEF Record, Covered
    <3> QED BY <1>2, <1>3, <3>1
  <2>5. CASE Guard(t) \/ Gate(t) \/ Resolve(t) \/ CallProvider(t) \/ Release(t)
    BY <1>1, <2>5 DEF Guard, Gate, Resolve, CallProvider, Release
  <2> QED BY <1>4, <2>1, <2>2, <2>3, <2>4, <2>5 DEF Works
<1>5. ASSUME NEW t \in Procs, (\E q \in Rows : Acquire(t, q)) \/ ProcessDies(t) PROVE FALSE
  BY <1>1, <1>5 DEF Acquire, ProcessDies
<1>6. ASSUME NEW q \in Rows, RequestLands(q) \/ LeaseElapses(q) \/ SelectForRecovery(q) PROVE FALSE
  <2>1. CASE LeaseElapses(q)
    BY <1>2, <2>1 DEF LeaseElapses
  <2> QED BY <1>1, <1>6, <2>1 DEF RequestLands, SelectForRecovery
<1>7. ASSUME WriteRecovered PROVE FALSE
  <2>1. sweep.row \in Rows /\ row[sweep.row].status # "absent"
    BY <1>0, <1>7 DEF WriteRecovered, TypeOK, SweepIsTrue
  <2> QED BY <1>2, <1>7, <2>1 DEF WriteRecovered
<1>8. ~(Locate \/ LockExpires \/ UNCHANGED vars)
  BY <1>1 DEF Locate, LockExpires, vars
<1> QED BY <1>4, <1>5, <1>6, <1>7, <1>8 DEF Next

(* Whoever inserts is past the guard, and the lock has kept the rivals still.   *)
LEMMA IntentIsAlone ==
  ASSUME DocInv, [Next]_vars, NEW r \in Rows, row[r].status = "absent", row'[r].status # "absent"
  PROVE  ~\E q \in Rivals(r) : MayHaveDocument(q)
<1>1. PICK t \in Procs : At(t, "create") /\ Mine(t) = r
  BY RowsAreInserted
<1> QED BY <1>1 DEF DocInv, RivalsYield, Guarded, Still

(* A provider that does not refuse what it has issued: an order has documents   *)
(* on two rows only if one of them was refused before, or they are two invoices *)
(* of one connection; and a row that was refused, which is all that leaves the  *)
(* order free for another provider, has no document and no request under way    *)
(* (blocksIssuanceElsewhere, blocksFurtherRegistration, updateOutcome).         *)
THEOREM RefusalFrees ==
  ASSUME "refused" \notin Repeat
  PROVE  Spec => []RefusalFreesOrder
<1>1. ASSUME DocInv PROVE RefusalFreesOrder
  <2>1. UnclaimedIsStill /\ OneWasRefused
    BY <1>1 DEF DocInv
  <2>2. RejectedMeansNothing
    <3> SUFFICES ASSUME NEW r \in Rows, row[r].status = "failed", row[r].mode = "rejected"
                 PROVE  docs[r] = 0 /\ r \notin wire
      BY DEF RejectedMeansNothing
    <3>1. Still(r) /\ docs[r] \in 0..2
      BY <1>1, <2>1, RowIs DEF UnclaimedIsStill, Unclaimed, DocInv
    <3> QED BY <3>1 DEF Still, MayHaveDocument
  <2>3. SecondOnlyAfterRefusal
    <3> SUFFICES ASSUME NEW r \in Rows, NEW q \in Rows, r # q, docs[r] > 0, docs[q] > 0
                 PROVE  \/ row[r].refused \/ row[q].refused
                        \/ {r, q} \subseteq Invoices /\ ConnOf[r] = ConnOf[q]
      BY DEF SecondOnlyAfterRefusal
    <3>1. row[r].status # "absent" /\ row[q].status # "absent"
      BY <2>1 DEF UnclaimedIsStill, Unclaimed, Still, MayHaveDocument
    <3>2. CASE q \in Rivals(r)
      BY <2>1, <3>1, <3>2 DEF OneWasRefused
    <3>3. CASE q \notin Rivals(r)
      BY <3>3 DEF Rivals, Elsewhere, Rows
    <3> QED BY <3>2, <3>3
  <2> QED BY <2>2, <2>3 DEF RefusalFreesOrder
<1> QED BY <1>1, DocHolds, PTL

(* Nobody records the intent of a document while the order has, or may still    *)
(* get, one on a rival row, for as long as the provider does not refuse what it *)
(* has issued (assertNotInvoicedElsewhere, assertNotAlreadyRegistered).         *)
THEOREM IntentsAlone ==
  ASSUME "refused" \notin Repeat
  PROVE  Spec => IntentsAreAlone
<1>1. ASSUME DocInv, [Next]_vars
      PROVE  [\A r \in Rows : row[r].status = "absent" /\ row'[r].status # "absent" =>
                ~\E q \in Rivals(r) : MayHaveDocument(q)]_vars
  BY <1>1, IntentIsAlone
<1> QED BY <1>1, DocHolds, PTL DEF Spec, IntentsAreAlone

-----------------------------------------------------------------------------
(* RefundLedger.                                                                *)
Answers == {"none", "triggered", "in_doubt", "refunded", "denied"}
MoneyStates == Answers \cup {"pending"}
ClerkPcs == {"idle", "context", "lockReturn", "claim", "execute", "settle", "observe", "unlockReturn",
             "duplicate", "ceiling", "create", "unlockOrder"}
Keys == ((Returns \cup {0}) \X (SUBSET ReturnLines)) \cup DirectKeys \cup {NoKey}
ClerkStates ==
  [pc : ClerkPcs, kind : {"none", "return", "direct", "observe"}, return : Returns \cup {0},
   amount : Nat, key : Keys, ack : BOOLEAN,
   seen : Nat, lines : SUBSET ReturnLines, answer : Answers]

(* What the proofs need of the types.                                          *)
LinesOK ==
  /\ money \in [ReturnLines -> MoneyStates]
  /\ paid \in [ReturnLines -> Nat] /\ stays \in [ReturnLines -> BOOLEAN]
ClerksOK == clerk \in [Clerks -> ClerkStates]
RefundTypes ==
  reported \subseteq ReturnLines /\ recorded \in Nat /\ blurred \in BOOLEAN /\ LinesOK /\ ClerksOK

(* `stays` is whether a line was paid for, and such a line is not attempted.   *)
PaidStays ==
  \A l \in ReturnLines : /\ stays[l] => paid[l] = 1
                         /\ ~stays[l] => paid[l] = 0
                         /\ money[l] \in Attemptable => ~stays[l]

(* The lines of an attempt stay in doubt until it has settled them; they were  *)
(* not paid for before it executes, nor if it was denied.                      *)
Attempts(p) == clerk[p].pc \in {"execute", "settle"}
AttemptsInDoubt ==
  \A p \in Clerks : \A l \in clerk[p].lines : Attempts(p) =>
    /\ money[l] = "in_doubt"
    /\ clerk[p].pc = "execute" \/ clerk[p].answer = "denied" => ~stays[l]

(* No two attempts have a line in common.                                      *)
AttemptsApart ==
  \A p, q \in Clerks : p # q /\ Attempts(p) /\ Attempts(q) => clerk[p].lines \cap clerk[q].lines = {}

RefundInv == RefundTypes /\ (~blurred => PaidStays /\ AttemptsInDoubt /\ AttemptsApart)

LEMMA KeysOK ==
  /\ DirectKeys \cup {NoKey} \subseteq Keys
  /\ \A r \in Returns \cup {0}, ls \in SUBSET ReturnLines : RecordKey(r, ls) \in Keys
<1>1. \A r \in Returns \cup {0}, ls \in SUBSET ReturnLines : <<r, ls>> \in (Returns \cup {0}) \X SUBSET ReturnLines
  OBVIOUS
<1> QED BY <1>1 DEF Keys, RecordKey

LEMMA RefundInitInv == RefundInit => RefundInv
<1> SUFFICES ASSUME RefundInit PROVE RefundInv
  OBVIOUS
<1> USE RefundAssumption DEF RefundInit, FreeClerk
<1>1. RefundTypes
  BY KeysOK DEF RefundTypes, LinesOK, ClerksOK, MoneyStates, ClerkStates, ClerkPcs, Answers
<1>2. PaidStays /\ AttemptsInDoubt /\ AttemptsApart
  BY DEF PaidStays, AttemptsInDoubt, AttemptsApart, Attempts
<1> QED BY <1>1, <1>2 DEF RefundInv

-----------------------------------------------------------------------------
(* What a request becomes, and what becomes of its lines, is of the right type. *)
LEMMA FreeClerkOK ==
  FreeClerk \in ClerkStates /\ [FreeClerk EXCEPT !.pc = "unlockOrder"] \in ClerkStates
BY KeysOK DEF FreeClerk, ClerkStates, ClerkPcs, Answers

LEMMA ClerkBecomes ==
  ASSUME ClerksOK, NEW p \in Clerks, NEW c \in ClerkStates, clerk' = [clerk EXCEPT ![p] = c]
  PROVE  ClerksOK' /\ clerk'[p] = c /\ \A q \in Clerks \ {p} : clerk'[q] = clerk[q]
BY DEF ClerksOK

LEMMA ClerkLeaves ==
  ASSUME ClerksOK, NEW p \in Clerks, Dismiss(p) \/ Conclude(p)
  PROVE  ClerksOK' /\ clerk'[p].pc \in {"idle", "unlockOrder"} /\ \A q \in Clerks \ {p} : clerk'[q] = clerk[q]
<1>1. PICK c \in {FreeClerk, [FreeClerk EXCEPT !.pc = "unlockOrder"]} : clerk' = [clerk EXCEPT ![p] = c]
  BY DEF Dismiss, Conclude
<1>2. c \in ClerkStates
  BY FreeClerkOK
<1>3. c.pc \in {"idle", "unlockOrder"}
  BY DEF FreeClerk
<1> QED BY <1>1, <1>2, <1>3, ClerkBecomes

LEMMA ClerkGoes ==
  ASSUME ClerksOK, NEW p \in Clerks, NEW pc \in ClerkPcs, ClerkGoto(p, pc)
  PROVE  /\ ClerksOK' /\ clerk'[p].pc = pc
         /\ clerk'[p].lines = clerk[p].lines /\ clerk'[p].answer = clerk[p].answer
         /\ \A q \in Clerks \ {p} : clerk'[q] = clerk[q]
BY DEF ClerksOK, ClerkGoto, ClerkStates

LEMMA PaidOK ==
  ASSUME LinesOK, NEW ls, NEW amount, Pay(ls, amount) \/ PayNothing(ls) \/ UNCHANGED <<paid, stays>>
  PROVE  paid' \in [ReturnLines -> Nat] /\ stays' \in [ReturnLines -> BOOLEAN]
<1>1. CASE Pay(ls, amount)
  <2>1. paid' \in [ReturnLines -> Nat]
    BY <1>1 DEF LinesOK, Pay
  <2>2. stays' \in [ReturnLines -> BOOLEAN]
    BY <1>1, Zenon DEF LinesOK, Pay
  <2> QED BY <2>1, <2>2
<1>2. CASE PayNothing(ls)
  <2>1. stays' \in [ReturnLines -> BOOLEAN]
    BY <1>2, Zenon DEF LinesOK, PayNothing
  <2> QED BY <1>2, <2>1 DEF LinesOK, PayNothing
<1>3. CASE UNCHANGED <<paid, stays>>
  BY <1>3 DEF LinesOK
<1> QED BY <1>1, <1>2, <1>3

LEMMA SettledOK ==
  ASSUME LinesOK, NEW ls, NEW to \in MoneyStates, NEW from, SettleLines(ls, to, from)
  PROVE  money' \in [ReturnLines -> MoneyStates]
BY DEF LinesOK, SettleLines

LEMMA ClaimMarks ==
  ASSUME NEW p \in Clerks, LinesOK, ClaimRefund(p)
  PROVE  \E state \in {"in_doubt", "triggered"} :
           money' = [l \in ReturnLines |-> IF l \in ClaimedLines(clerk[p].return) THEN state ELSE money[l]]
<1>1. CASE ClaimedLines(clerk[p].return) = {} /\ UNCHANGED money
  BY <1>1 DEF LinesOK
<1> QED BY <1>1 DEF ClaimRefund

LEMMA RefundTypesStep == RefundTypes /\ [RefundNext]_refundVars => RefundTypes'
<1> SUFFICES ASSUME RefundTypes, [RefundNext]_refundVars PROVE RefundTypes'
  OBVIOUS
<1> USE RefundAssumption DEF RefundTypes, lineVars, recordVars, refundHistory
<1>1. ASSUME NEW p \in Clerks, StartRefund(p) PROVE RefundTypes'
  <2>1. LinesOK' /\ reported' \subseteq ReturnLines /\ recorded' \in Nat /\ blurred' \in BOOLEAN
    BY <1>1 DEF StartRefund, LinesOK
  <2>2. PICK c : c \in ClerkStates /\ clerk' = [clerk EXCEPT ![p] = c]
    BY ZenonT(60), <1>1, KeysOK DEF StartRefund, FreeClerk, ClerkStates, ClerkPcs, Answers
  <2> QED BY <2>1, <2>2, ClerkBecomes
<1>2. ASSUME NEW p \in Clerks, ReadContext(p) PROVE RefundTypes'
  BY <1>2, ClerkGoes, ClerkLeaves DEF ReadContext, LinesOK, ClerkPcs
<1>3. ASSUME NEW p \in Clerks, LockReturn(p) PROVE RefundTypes'
  BY <1>3, ClerkGoes, ClerkLeaves DEF LockReturn, LinesOK, ClerkPcs
<1>4. ASSUME NEW p \in Clerks, ClaimRefund(p) PROVE RefundTypes'
  <2>1. paid' \in [ReturnLines -> Nat] /\ stays' \in [ReturnLines -> BOOLEAN]
    BY <1>4, PaidOK DEF ClaimRefund
  <2>2. money' \in [ReturnLines -> MoneyStates]
    BY <1>4, ClaimMarks DEF LinesOK, MoneyStates, Answers
  <2>3. ClaimedLines(clerk[p].return) \in SUBSET ReturnLines
    BY DEF ClaimedLines, LinesOf
  <2>4. ClerksOK'
    BY <1>4, <2>3 DEF ClaimRefund, ClerkGoto, ClerksOK, ClerkStates, ClerkPcs, Answers
  <2> QED BY <1>4, <2>1, <2>2, <2>4 DEF ClaimRefund, LinesOK
<1>5. ASSUME NEW p \in Clerks, ExecuteRefund(p) PROVE RefundTypes'
  <2>1. paid' \in [ReturnLines -> Nat] /\ stays' \in [ReturnLines -> BOOLEAN]
    BY <1>5, PaidOK DEF ExecuteRefund
  <2>2. ClerksOK'
    BY <1>5 DEF ExecuteRefund, ClerksOK, ClerkStates, ClerkPcs, Answers
  <2> QED BY <1>5, <2>1, <2>2 DEF ExecuteRefund, LinesOK
<1>6. ASSUME NEW p \in Clerks, Settle(p) PROVE RefundTypes'
  <2>1. ClerksOK'
    BY <1>6, ClerkGoes DEF Settle, ClerksOK, ClerkStates, ClerkPcs, Answers
  <2>2. money' \in [ReturnLines -> MoneyStates]
    <3>1. clerk[p].answer \in MoneyStates
      BY DEF ClerksOK, ClerkStates, MoneyStates
    <3>2. CASE SettleLines(clerk[p].lines, clerk[p].answer, {"in_doubt"})
      BY <3>1, <3>2, SettledOK
    <3> QED BY <1>6, <3>2 DEF Settle, LinesOK
  <2> QED BY <1>6, <2>1, <2>2 DEF Settle, LinesOK
<1>7. ASSUME NEW p \in Clerks, UnlockReturn(p) PROVE RefundTypes'
  <2>1. RecordKey(clerk[p].return, clerk[p].lines) \in Keys
    BY KeysOK DEF ClerksOK, ClerkStates
  <2>2. ClerksOK'
    BY <1>7, <2>1, ClerkLeaves DEF UnlockReturn, ClerksOK, ClerkStates, ClerkPcs
  <2> QED BY <1>7, <2>2 DEF UnlockReturn, LinesOK
<1>8. ASSUME NEW p \in Clerks, FindDuplicate(p) PROVE RefundTypes'
  BY <1>8, ClerkGoes, ClerkLeaves DEF FindDuplicate, LinesOK, ClerkPcs
<1>9. ASSUME NEW p \in Clerks, ReadCeiling(p) PROVE RefundTypes'
  <2>1. ClerksOK'
    <3>1. [clerk[p] EXCEPT !.seen = recorded, !.pc = "create"] \in ClerkStates
      BY ZenonT(60) DEF ClerksOK, ClerkStates, ClerkPcs
    <3> QED BY ZenonT(60), <1>9, <3>1, ClerkBecomes DEF ReadCeiling
  <2> QED BY <1>9, <2>1 DEF ReadCeiling, LinesOK
<1>10. ASSUME NEW p \in Clerks, CreateRecord(p) PROVE RefundTypes'
  <2>1. ClerksOK'
    BY <1>10, ClerkLeaves DEF CreateRecord
  <2>2. recorded' \in Nat
    BY <1>10 DEF CreateRecord, ClerksOK, ClerkStates
  <2> QED BY <1>10, <2>1, <2>2 DEF CreateRecord, LinesOK
<1>11. ASSUME NEW p \in Clerks, UnlockOrder(p) PROVE RefundTypes'
  BY <1>11, ClerkLeaves DEF UnlockOrder, LinesOK
<1>12. ASSUME NEW p \in Clerks, StartObservation(p) PROVE RefundTypes'
  <2>1. PICK c : c \in ClerkStates /\ clerk' = [clerk EXCEPT ![p] = c]
    BY <1>12, KeysOK DEF StartObservation, FreeClerk, ClerkStates, ClerkPcs, Answers, Returns
  <2> QED BY <1>12, <2>1, ClerkBecomes DEF StartObservation, LinesOK
<1>13. ASSUME NEW p \in Clerks, Observe(p) PROVE RefundTypes'
  <2>1. money' \in [ReturnLines -> MoneyStates]
    BY <1>13, SettledOK DEF Observe, ClerksOK, ClerkStates, MoneyStates
  <2>2. ClerksOK'
    BY <1>13, ClerkGoes DEF Observe, ClerkPcs
  <2>3. blurred' \in BOOLEAN
    BY <1>13, Zenon DEF Observe
  <2> QED BY <1>13, <2>1, <2>2, <2>3 DEF Observe, LinesOK
<1>14. ASSUME NEW p \in Clerks, CrashClerk(p) PROVE RefundTypes'
  <2>1. paid' \in [ReturnLines -> Nat] /\ stays' \in [ReturnLines -> BOOLEAN]
    BY <1>14, PaidOK DEF CrashClerk
  <2>2. ClerksOK'
    BY <1>14, ClerkLeaves DEF CrashClerk
  <2> QED BY <1>14, <2>1, <2>2 DEF CrashClerk, LinesOK
<1>15. CASE AppendLine
  BY <1>15 DEF AppendLine, LinesOK, ClerksOK
<1>16. CASE RefundLockExpires
  BY <1>16 DEF RefundLockExpires, LinesOK, ClerksOK
<1>17. CASE UNCHANGED refundVars
  BY <1>17 DEF refundVars, LinesOK, ClerksOK
<1> QED
  BY <1>1, <1>2, <1>3, <1>4, <1>5, <1>6, <1>7, <1>8, <1>9, <1>10, <1>11, <1>12, <1>13, <1>14,
     <1>15, <1>16, <1>17 DEF RefundNext

-----------------------------------------------------------------------------
(* What an action that pays nothing and starts no attempt leaves as it was.    *)
LEMMA QuietStep ==
  ASSUME PaidStays, AttemptsInDoubt, AttemptsApart, UNCHANGED <<money, paid, stays>>,
         \A p \in Clerks : Attempts(p)' => clerk'[p] = clerk[p]
  PROVE  PaidStays' /\ AttemptsInDoubt' /\ AttemptsApart'
<1>1. PaidStays'
  BY DEF PaidStays
<1>2. AttemptsInDoubt'
  BY DEF AttemptsInDoubt, Attempts
<1>3. AttemptsApart'
  BY DEF AttemptsApart, Attempts
<1> QED BY <1>1, <1>2, <1>3

(* Lines that were not paid for are paid for once.                             *)
LEMMA PayCounts ==
  ASSUME LinesOK, PaidStays, NEW ls, NEW amount, \A l \in ReturnLines : l \in ls => ~stays[l],
         Pay(ls, amount) \/ PayNothing(ls) \/ UNCHANGED <<paid, stays>>
  PROVE  \A l \in ReturnLines : /\ stays'[l] => paid'[l] = 1
                                /\ ~stays'[l] => paid'[l] = 0
                                /\ l \notin ls => (stays'[l] <=> stays[l])
<1>1. CASE Pay(ls, amount)
  <2>1. \A l \in ReturnLines : stays'[l] <=> l \in ls \/ stays[l]
    BY <1>1, Zenon DEF Pay
  <2>2. \A l \in ReturnLines : paid'[l] = IF l \in ls THEN paid[l] + 1 ELSE paid[l]
    BY <1>1 DEF Pay
  <2> QED BY <2>1, <2>2 DEF PaidStays
<1>2. CASE PayNothing(ls)
  BY <1>2 DEF PayNothing, LinesOK, PaidStays
<1>3. CASE UNCHANGED <<paid, stays>>
  BY <1>3 DEF PaidStays
<1> QED BY <1>1, <1>2, <1>3

(* An attempt claims lines that were not paid for and that no attempt has.     *)
LEMMA ClaimKeepsInv ==
  ASSUME RefundTypes, PaidStays, AttemptsInDoubt, AttemptsApart, NEW p \in Clerks, ClaimRefund(p)
  PROVE  PaidStays' /\ AttemptsInDoubt' /\ AttemptsApart'
<1> DEFINE ls == ClaimedLines(clerk[p].return)
<1>1. /\ ls \subseteq ReturnLines
      /\ \A l \in ls : money[l] \in Attemptable /\ ~stays[l]
      /\ \A q \in Clerks : Attempts(q) => clerk[q].lines \cap ls = {}
  BY DEF RefundTypes, LinesOK, ClerksOK, ClerkStates, ClaimedLines, LinesOf, PaidStays, AttemptsInDoubt,
     Attemptable
<1>2. ~Attempts(p)
  BY DEF ClaimRefund, ClerkAt, Attempts
<1>3. CASE ls = {} /\ ClerkGoto(p, "unlockReturn") /\ UNCHANGED <<money, paid, stays>>
  BY <1>3, QuietStep, ClerkGoes DEF RefundTypes, ClerkPcs, Attempts
<1>4. CASE /\ money' = [l \in ReturnLines |-> IF l \in ls THEN "in_doubt" ELSE money[l]]
           /\ PayNothing(ls)
           /\ clerk' = [clerk EXCEPT ![p].pc = "execute", ![p].lines = ls]
  <2>1. \A l \in ReturnLines : /\ stays'[l] => paid'[l] = 1
                               /\ ~stays'[l] => paid'[l] = 0
                               /\ stays'[l] <=> stays[l] /\ l \notin ls
                               /\ money'[l] = IF l \in ls THEN "in_doubt" ELSE money[l]
    BY <1>1, <1>4, PayCounts, Zenon DEF RefundTypes, PayNothing
  <2>2. /\ clerk'[p].pc = "execute" /\ clerk'[p].lines = ls
        /\ \A q \in Clerks \ {p} : clerk'[q] = clerk[q]
        /\ \A q \in Clerks : clerk[q].lines \subseteq ReturnLines
    BY <1>4 DEF RefundTypes, ClerksOK, ClerkStates
  <2>3. PaidStays'
    BY <2>1 DEF PaidStays, Attemptable
  <2>4. AttemptsInDoubt'
    BY <1>1, <2>1, <2>2 DEF AttemptsInDoubt, Attempts
  <2>5. AttemptsApart'
    BY <1>1, <2>2 DEF AttemptsApart, Attempts
  <2> QED BY <2>3, <2>4, <2>5
<1>5. CASE /\ money' = [l \in ReturnLines |-> IF l \in ls THEN "triggered" ELSE money[l]]
           /\ Pay(ls, clerk[p].amount)
           /\ clerk' = [clerk EXCEPT ![p].pc = "unlockReturn", ![p].lines = ls, ![p].answer = "triggered"]
  <2>1. \A l \in ReturnLines : /\ stays'[l] => paid'[l] = 1
                               /\ ~stays'[l] => paid'[l] = 0
                               /\ l \notin ls => (stays'[l] <=> stays[l])
    BY <1>1, <1>5, PayCounts DEF RefundTypes
  <2>2. \A l \in ReturnLines : money'[l] = IF l \in ls THEN "triggered" ELSE money[l]
    BY <1>5
  <2>3. /\ ~Attempts(p)' /\ \A q \in Clerks \ {p} : clerk'[q] = clerk[q]
        /\ \A q \in Clerks : clerk[q].lines \subseteq ReturnLines
    BY <1>5 DEF RefundTypes, ClerksOK, ClerkStates, Attempts
  <2>4. PaidStays'
    BY <2>1, <2>2 DEF PaidStays, Attemptable
  <2>5. AttemptsInDoubt'
    BY <1>1, <2>1, <2>2, <2>3 DEF AttemptsInDoubt, Attempts
  <2>6. AttemptsApart'
    BY <2>3 DEF AttemptsApart, Attempts
  <2> QED BY <2>4, <2>5, <2>6
<1> QED BY <1>3, <1>4, <1>5 DEF ClaimRefund

(* The source pays, or does not, for the lines of an attempt that executes.    *)
LEMMA PaymentKeepsInv ==
  ASSUME RefundTypes, PaidStays, AttemptsInDoubt, AttemptsApart, NEW p \in Clerks,
         ExecuteRefund(p) \/ CrashClerk(p)
  PROVE  PaidStays' /\ AttemptsInDoubt' /\ AttemptsApart'
<1> DEFINE ls == clerk[p].lines
<1>1. CASE ClerkAt(p, "execute") /\ (Pay(ls, clerk[p].amount) \/ PayNothing(ls) \/ UNCHANGED <<paid, stays>>)
  <2>1. ls \subseteq ReturnLines /\ \A l \in ls : money[l] = "in_doubt" /\ ~stays[l]
    BY <1>1 DEF RefundTypes, ClerksOK, ClerkStates, ClerkAt, AttemptsInDoubt, Attempts
  <2>2. \A l \in ReturnLines : /\ stays'[l] => paid'[l] = 1
                               /\ ~stays'[l] => paid'[l] = 0
                               /\ l \notin ls => (stays'[l] <=> stays[l])
    BY <1>1, <2>1, PayCounts DEF RefundTypes
  <2>3. money' = money
    BY DEF ExecuteRefund, CrashClerk
  <2>4. PaidStays'
    BY <2>1, <2>2, <2>3 DEF PaidStays, Attemptable
  <2>5. /\ \A q \in Clerks \ {p} : clerk'[q] = clerk[q]
        /\ Attempts(p)' => /\ clerk'[p].pc = "settle" /\ clerk'[p].lines = ls
                           /\ clerk'[p].answer = "denied" => PayNothing(ls)
    <3>1. CASE CrashClerk(p)
      BY <3>1, ClerkLeaves DEF CrashClerk, RefundTypes, Attempts
    <3>2. CASE ExecuteRefund(p)
      BY <3>2 DEF ExecuteRefund, RefundTypes, ClerksOK, ClerkStates
    <3> QED BY <3>1, <3>2
  <2>6. PayNothing(ls) => \A l \in ls : ~stays'[l]
    BY <2>1 DEF PayNothing
  <2>7. \A q \in Clerks \ {p} : Attempts(q) => clerk[q].lines \cap ls = {} /\ clerk[q].lines \subseteq ReturnLines
    BY <1>1 DEF AttemptsApart, Attempts, ClerkAt, RefundTypes, ClerksOK, ClerkStates
  <2>8. AttemptsInDoubt'
    BY <2>1, <2>2, <2>3, <2>5, <2>6, <2>7 DEF AttemptsInDoubt, Attempts
  <2>9. AttemptsApart'
    BY <1>1, <2>5 DEF AttemptsApart, Attempts, ClerkAt
  <2> QED BY <2>4, <2>8, <2>9
<1>2. CASE CrashClerk(p) /\ UNCHANGED <<paid, stays>>
  <2>1. UNCHANGED money /\ \A q \in Clerks : Attempts(q)' => clerk'[q] = clerk[q]
    BY <1>2, ClerkLeaves DEF CrashClerk, RefundTypes, Attempts
  <2> QED BY <1>2, <2>1, QuietStep
<1> QED BY <1>1, <1>2 DEF ExecuteRefund, CrashClerk

(* An attempt settles its own lines: a denied one was not paid for.            *)
LEMMA SettleKeepsInv ==
  ASSUME RefundTypes, PaidStays, AttemptsInDoubt, AttemptsApart, NEW p \in Clerks, Settle(p)
  PROVE  PaidStays' /\ AttemptsInDoubt' /\ AttemptsApart'
<1>1. /\ ~Attempts(p)' /\ \A q \in Clerks \ {p} : clerk'[q] = clerk[q]
      /\ \A q \in Clerks : clerk[q].lines \subseteq ReturnLines
  BY DEF Settle, ClerkGoto, RefundTypes, ClerksOK, ClerkStates, Attempts
<1>2. CASE UNCHANGED money
  <2>1. \A q \in Clerks : Attempts(q)' => clerk'[q] = clerk[q]
    BY <1>1
  <2> QED BY <1>2, <2>1, QuietStep DEF Settle
<1>3. CASE SettleLines(clerk[p].lines, clerk[p].answer, {"in_doubt"})
  <2>1. \A l \in ReturnLines : money'[l] = IF l \in clerk[p].lines /\ money[l] = "in_doubt"
                                             THEN clerk[p].answer ELSE money[l]
    BY <1>3 DEF SettleLines
  <2>2. clerk[p].answer # "pending" /\ Attempts(p) /\ UNCHANGED <<paid, stays>>
    BY DEF Settle, ClerkAt, Attempts, RefundTypes, ClerksOK, ClerkStates, Answers
  <2>3. PaidStays'
    BY <2>1, <2>2 DEF PaidStays, Attemptable, AttemptsInDoubt
  <2>4. AttemptsInDoubt'
    BY <1>1, <2>1, <2>2 DEF AttemptsInDoubt, AttemptsApart, Attempts
  <2>5. AttemptsApart'
    BY <1>1 DEF AttemptsApart, Attempts
  <2> QED BY <2>3, <2>4, <2>5
<1> QED BY <1>2, <1>3 DEF Settle

(* So does an observation that agrees with what became of the lines.           *)
LEMMA ObserveKeepsInv ==
  ASSUME RefundTypes, PaidStays, AttemptsInDoubt, AttemptsApart, NEW p \in Clerks, Observe(p), ~blurred'
  PROVE  PaidStays' /\ AttemptsInDoubt' /\ AttemptsApart'
<1>1. \A q \in Clerks : Attempts(q)' => clerk'[q] = clerk[q] /\ Attempts(q)
  BY ClerkGoes DEF Observe, RefundTypes, ClerkPcs, Attempts
<1> DEFINE ls == LinesOf(clerk[p].return)
           state == clerk[p].answer
<1>2. /\ \A l \in ReturnLines : money'[l] = IF l \in ls /\ money[l] \in Standing THEN state ELSE money[l]
      /\ UNCHANGED <<paid, stays>>
  BY DEF Observe, SettleLines
<1>3. \A l \in ls : money[l] \in Standing => ~Unsettled(l) /\ stays[l] = (state = "refunded")
  BY DEF Observe
<1>4. ls \subseteq ReturnLines /\ state # "pending"
  BY DEF RefundTypes, LinesOf, ClerksOK, ClerkStates, Answers
<1>5. PaidStays'
  BY <1>2, <1>3, <1>4 DEF PaidStays, Attemptable
<1>6. AttemptsInDoubt'
  <2> SUFFICES ASSUME NEW q \in Clerks, NEW l \in clerk'[q].lines, Attempts(q)'
               PROVE  /\ money'[l] = "in_doubt"
                      /\ clerk'[q].pc = "execute" \/ clerk'[q].answer = "denied" => ~stays'[l]
    BY DEF AttemptsInDoubt
  <2>1. clerk'[q] = clerk[q] /\ Attempts(q) /\ l \in clerk[q].lines /\ l \in ReturnLines
    BY <1>1 DEF RefundTypes, ClerksOK, ClerkStates
  <2>2. Unsettled(l) /\ money[l] = "in_doubt"
    BY <2>1 DEF Unsettled, AttemptsInDoubt, Attempts
  <2>3. money'[l] = money[l]
    BY <1>2, <1>3, <2>1, <2>2 DEF Standing
  <2> QED BY <1>2, <2>1, <2>2, <2>3 DEF AttemptsInDoubt
<1>7. AttemptsApart'
  BY <1>1 DEF AttemptsApart
<1> QED BY <1>5, <1>6, <1>7

LEMMA RefundStepInv == RefundInv /\ [RefundNext]_refundVars => RefundInv'
<1> SUFFICES ASSUME RefundInv, [RefundNext]_refundVars, ~blurred'
             PROVE  PaidStays' /\ AttemptsInDoubt' /\ AttemptsApart'
  BY RefundTypesStep DEF RefundInv
<1>1. RefundTypes
  BY DEF RefundInv
<1>2. ~blurred
  <2>1. \A p \in Clerks : Observe(p) => blurred' \/ ~blurred
    BY DEF Observe
  <2> QED
    BY <2>1
    DEF RefundNext, StartRefund, ReadContext, LockReturn, ClaimRefund, ExecuteRefund, Settle, UnlockReturn,
       FindDuplicate, ReadCeiling, CreateRecord, UnlockOrder, StartObservation, CrashClerk, AppendLine,
       RefundLockExpires, refundHistory, refundVars
<1>3. PaidStays /\ AttemptsInDoubt /\ AttemptsApart
  BY <1>2 DEF RefundInv
<1> USE DEF lineVars, Attempts
<1>4. ASSUME NEW p \in Clerks, StartRefund(p) PROVE PaidStays' /\ AttemptsInDoubt' /\ AttemptsApart'
  <2>1. \A q \in Clerks : Attempts(q)' => clerk'[q] = clerk[q]
    BY <1>1, <1>4 DEF StartRefund, FreeClerk, RefundTypes, ClerksOK
  <2> QED BY <1>3, <1>4, <2>1, QuietStep DEF StartRefund
<1>5. ASSUME NEW p \in Clerks, ReadContext(p) PROVE PaidStays' /\ AttemptsInDoubt' /\ AttemptsApart'
  <2>1. \A q \in Clerks : Attempts(q)' => clerk'[q] = clerk[q]
    BY <1>1, <1>5, ClerkGoes, ClerkLeaves DEF ReadContext, RefundTypes, ClerkPcs
  <2> QED BY <1>3, <1>5, <2>1, QuietStep DEF ReadContext
<1>6. ASSUME NEW p \in Clerks, LockReturn(p) PROVE PaidStays' /\ AttemptsInDoubt' /\ AttemptsApart'
  <2>1. \A q \in Clerks : Attempts(q)' => clerk'[q] = clerk[q]
    BY <1>1, <1>6, ClerkGoes, ClerkLeaves DEF LockReturn, RefundTypes, ClerkPcs
  <2> QED BY <1>3, <1>6, <2>1, QuietStep DEF LockReturn
<1>7. ASSUME NEW p \in Clerks, ClaimRefund(p) PROVE PaidStays' /\ AttemptsInDoubt' /\ AttemptsApart'
  BY <1>1, <1>3, <1>7, ClaimKeepsInv
<1>8. ASSUME NEW p \in Clerks, ExecuteRefund(p) \/ CrashClerk(p)
      PROVE  PaidStays' /\ AttemptsInDoubt' /\ AttemptsApart'
  BY <1>1, <1>3, <1>8, PaymentKeepsInv
<1>9. ASSUME NEW p \in Clerks, Settle(p) PROVE PaidStays' /\ AttemptsInDoubt' /\ AttemptsApart'
  BY <1>1, <1>3, <1>9, SettleKeepsInv
<1>10. ASSUME NEW p \in Clerks, UnlockReturn(p) PROVE PaidStays' /\ AttemptsInDoubt' /\ AttemptsApart'
  <2>1. \A q \in Clerks : Attempts(q)' => clerk'[q] = clerk[q]
    BY <1>1, <1>10, ClerkLeaves DEF UnlockReturn, RefundTypes, ClerksOK, ClerkStates
  <2> QED BY <1>3, <1>10, <2>1, QuietStep DEF UnlockReturn
<1>11. ASSUME NEW p \in Clerks, FindDuplicate(p) PROVE PaidStays' /\ AttemptsInDoubt' /\ AttemptsApart'
  <2>1. \A q \in Clerks : Attempts(q)' => clerk'[q] = clerk[q]
    BY <1>1, <1>11, ClerkGoes, ClerkLeaves DEF FindDuplicate, RefundTypes, ClerkPcs
  <2> QED BY <1>3, <1>11, <2>1, QuietStep DEF FindDuplicate
<1>12. ASSUME NEW p \in Clerks, ReadCeiling(p) PROVE PaidStays' /\ AttemptsInDoubt' /\ AttemptsApart'
  <2>1. \A q \in Clerks : Attempts(q)' => clerk'[q] = clerk[q]
    BY <1>1, <1>12 DEF ReadCeiling, RefundTypes, ClerksOK, ClerkStates
  <2> QED BY <1>3, <1>12, <2>1, QuietStep DEF ReadCeiling
<1>13. ASSUME NEW p \in Clerks, CreateRecord(p) PROVE PaidStays' /\ AttemptsInDoubt' /\ AttemptsApart'
  <2>1. \A q \in Clerks : Attempts(q)' => clerk'[q] = clerk[q]
    BY <1>1, <1>13, ClerkLeaves DEF CreateRecord, RefundTypes
  <2> QED BY <1>3, <1>13, <2>1, QuietStep DEF CreateRecord
<1>14. ASSUME NEW p \in Clerks, UnlockOrder(p) PROVE PaidStays' /\ AttemptsInDoubt' /\ AttemptsApart'
  <2>1. \A q \in Clerks : Attempts(q)' => clerk'[q] = clerk[q]
    BY <1>1, <1>14, ClerkLeaves DEF UnlockOrder, RefundTypes
  <2> QED BY <1>3, <1>14, <2>1, QuietStep DEF UnlockOrder
<1>15. ASSUME NEW p \in Clerks, StartObservation(p) PROVE PaidStays' /\ AttemptsInDoubt' /\ AttemptsApart'
  <2>1. \A q \in Clerks : Attempts(q)' => clerk'[q] = clerk[q]
    BY <1>1, <1>15 DEF StartObservation, FreeClerk, RefundTypes, ClerksOK
  <2> QED BY <1>3, <1>15, <2>1, QuietStep DEF StartObservation
<1>16. ASSUME NEW p \in Clerks, Observe(p) PROVE PaidStays' /\ AttemptsInDoubt' /\ AttemptsApart'
  BY <1>1, <1>3, <1>16, ObserveKeepsInv
<1>17. CASE AppendLine \/ RefundLockExpires \/ UNCHANGED refundVars
  <2>1. UNCHANGED <<money, paid, stays, clerk>>
    BY <1>17 DEF AppendLine, RefundLockExpires, refundVars
  <2> QED BY <1>3, <2>1, QuietStep
<1> QED
  BY <1>4, <1>5, <1>6, <1>7, <1>8, <1>9, <1>10, <1>11, <1>12, <1>13, <1>14, <1>15, <1>16, <1>17 DEF RefundNext

-----------------------------------------------------------------------------
(* For any requests, lines, amounts and faults: no line is paid for twice      *)
(* (claimRefundAttempt, executeRefund, settleRefundState), unless an           *)
(* observation met an attempt it did not belong to.                            *)
THEOREM NoLinePaidTwice == RefundSpec => []LinePaidOnce
<1>1. RefundInv => LinePaidOnce
  BY DEF RefundInv, PaidStays, LinePaidOnce
<1> QED BY <1>1, RefundInitInv, RefundStepInv, PTL DEF RefundSpec

(* And a refund that was settled stays settled, whatever answer or observation *)
(* arrives after it (settleRefundState).                                       *)
THEOREM SettledRefundIsFinal == RefundSpec => RefundedIsFinal
<1>1. RefundTypes /\ [RefundNext]_refundVars =>
        [\A l \in ReturnLines : money[l] = "refunded" => money'[l] = "refunded"]_refundVars
  <2> SUFFICES ASSUME RefundTypes, RefundNext, NEW l \in ReturnLines, money[l] = "refunded"
               PROVE  money'[l] = "refunded"
    OBVIOUS
  <2>1. CASE UNCHANGED money
    BY <2>1
  <2>2. ASSUME NEW p \in Clerks, ClaimRefund(p) PROVE money'[l] = "refunded"
    BY <2>2, ClaimMarks DEF RefundTypes, ClaimedLines, Attemptable
  <2>3. ASSUME NEW ls, NEW to, NEW from, SettleLines(ls, to, from), "refunded" \notin from
        PROVE  money'[l] = "refunded"
    BY <2>3 DEF SettleLines
  <2>4. ASSUME NEW p \in Clerks, Settle(p) PROVE money'[l] = "refunded"
    BY <2>1, <2>3, <2>4 DEF Settle
  <2>5. ASSUME NEW p \in Clerks, Observe(p) PROVE money'[l] = "refunded"
    BY <2>3, <2>5 DEF Observe, Standing
  <2> QED
    BY <2>1, <2>2, <2>4, <2>5 DEF RefundNext, StartRefund, ReadContext, LockReturn, ExecuteRefund, UnlockReturn,
       FindDuplicate, ReadCeiling, CreateRecord, UnlockOrder, StartObservation, CrashClerk, AppendLine,
       RefundLockExpires, lineVars
<1>2. RefundInit => RefundTypes
  BY RefundInitInv DEF RefundInv
<1> QED BY <1>1, <1>2, RefundTypesStep, PTL DEF RefundSpec, RefundedIsFinal

-----------------------------------------------------------------------------
(* The records and the money.                                                  *)
(* What a request is about, and what it knows, at each point of its way.       *)
KindFits(c) ==
  /\ c.pc \in {"context", "claim", "execute", "settle"} => c.kind = "return"
  /\ c.pc \in {"lockReturn", "unlockReturn"} => c.kind \in {"return", "observe"}
  /\ c.pc = "observe" => c.kind = "observe"
  /\ c.pc \in {"duplicate", "ceiling", "create"} => c.kind \in {"return", "direct"}
  /\ c.pc \in {"idle", "unlockOrder"} => c.kind = "none"
  /\ c.kind = "observe" => c.answer \in {"refunded", "denied"}
AnswerFits(c) ==
  c.kind = "return" =>
    /\ c.pc \in {"context", "lockReturn", "claim", "execute"} => c.answer = "none"
    /\ c.pc \in {"execute", "settle"} \/ MovesMoney(c.answer) => c.lines # {}
    /\ c.pc \in {"duplicate", "ceiling", "create"} =>
         MovesMoney(c.answer) /\ c.key = RecordKey(c.return, c.lines)
DirectFits(c) == c.kind = "direct" => c.key \in DirectKeys \cup {NoKey}
ClerksFit == \A p \in Clerks : KindFits(clerk[p]) /\ AnswerFits(clerk[p]) /\ DirectFits(clerk[p])

(* While no lock is lost, who handles a refund has the order's lock, so what it*)
(* read of the records is still true when it writes its own.                   *)
Refunding(p) == clerk[p].pc # "idle" /\ clerk[p].kind # "observe"
OrderIsLocked == \A p \in Clerks : Refunding(p) => orderLock = p
SumIsCurrent == \A p \in Clerks : clerk[p].pc = "create" => clerk[p].seen = recorded
CeilingInv ==
  /\ lockLost => refundFaults > 0
  /\ ~lockLost => OrderIsLocked /\ SumIsCurrent /\ (~acked => recorded <= Total)

(* While nothing fails, a return's record stands for lines whose money moved;  *)
(* a request that works on a return was cleared by the ceiling, and one whose  *)
(* money moved is the first to record it; and beside what such a request still *)
(* owes, no more was paid than is recorded.                                    *)
Smooth == refundFaults = 0 /\ ~bounced /\ ~blurred
Moved(ls) == \A l \in ls : MovesMoney(money[l])
RecordsMoved ==
  \A r \in Returns \cup {0}, ls \in SUBSET ReturnLines : RecordKey(r, ls) \in recordKeys => ls # {} /\ Moved(ls)
Cleared(p) == recorded + clerk[p].amount <= Total \/ clerk[p].ack
Unrecorded(p) ==
  clerk[p].kind = "return" /\ clerk[p].pc \in {"unlockReturn", "duplicate", "ceiling", "create"}
    /\ MovesMoney(clerk[p].answer)
Owes(p) == Unrecorded(p) \/ (clerk[p].pc = "settle" /\ MovesMoney(clerk[p].answer))
ReturnsAreCleared ==
  \A p \in Clerks :
    /\ clerk[p].kind = "return" /\ clerk[p].pc # "context" => Cleared(p)
    /\ Unrecorded(p) => Moved(clerk[p].lines) /\ RecordKey(clerk[p].return, clerk[p].lines) \notin recordKeys
Balance ==
  /\ (\A p \in Clerks : ~Owes(p)) => paidOut + direct <= recorded
  /\ \A p \in Clerks : Owes(p) => paidOut + direct <= recorded + clerk[p].amount
BalanceInv == Smooth => RecordsMoved /\ ReturnsAreCleared /\ Balance

(* One request moves: it is enough to look at what it becomes.                 *)
LEMMA FitsOne ==
  ASSUME ClerksFit, NEW p \in Clerks, \A q \in Clerks \ {p} : clerk'[q] = clerk[q],
         KindFits(clerk'[p]), AnswerFits(clerk'[p]), DirectFits(clerk'[p])
  PROVE  ClerksFit'
BY DEF ClerksFit

LEMMA FitsLeave ==
  ASSUME ClerksFit, ClerksOK, NEW p \in Clerks, Dismiss(p) \/ Conclude(p)
  PROVE  /\ ClerksFit' /\ \A q \in Clerks \ {p} : clerk'[q] = clerk[q]
         /\ clerk'[p].kind = "none" /\ clerk'[p].answer = "none" /\ clerk'[p].ack = FALSE
         /\ Dismiss(p) => clerk'[p].pc = "idle"
         /\ Conclude(p) => clerk'[p].pc = "unlockOrder"
<1>1. PICK c \in {FreeClerk, [FreeClerk EXCEPT !.pc = "unlockOrder"]} :
        clerk' = [clerk EXCEPT ![p] = c] /\ (Dismiss(p) => c.pc = "idle") /\ (Conclude(p) => c.pc = "unlockOrder")
  <2>1. CASE Dismiss(p) /\ ~Conclude(p)
    BY <2>1 DEF Dismiss, FreeClerk
  <2>2. CASE Conclude(p)
    BY <2>2 DEF Dismiss, Conclude, FreeClerk, ClerksOK
  <2> QED BY <2>1, <2>2
<1>2. c \in ClerkStates /\ c.kind = "none" /\ c.answer = "none" /\ c.ack = FALSE /\ c.pc \in {"idle", "unlockOrder"}
  <2>1. c \in ClerkStates
    BY FreeClerkOK
  <2> QED BY <2>1 DEF FreeClerk
<1>3. clerk'[p] = c /\ \A q \in Clerks \ {p} : clerk'[q] = clerk[q]
  BY <1>1, <1>2, ClerkBecomes
<1>4. KindFits(c) /\ AnswerFits(c) /\ DirectFits(c)
  BY <1>2 DEF KindFits, AnswerFits, DirectFits
<1> QED BY <1>1, <1>2, <1>3, <1>4, FitsOne

(* A request that only goes on is otherwise the same.                          *)
LEMMA ClerkGoesOn ==
  ASSUME ClerksOK, NEW p \in Clerks, NEW pc \in ClerkPcs, ClerkGoto(p, pc)
  PROVE  /\ clerk'[p].pc = pc /\ \A q \in Clerks \ {p} : clerk'[q] = clerk[q]
         /\ clerk'[p].kind = clerk[p].kind /\ clerk'[p].return = clerk[p].return
         /\ clerk'[p].amount = clerk[p].amount /\ clerk'[p].key = clerk[p].key
         /\ clerk'[p].ack = clerk[p].ack /\ clerk'[p].seen = clerk[p].seen
         /\ clerk'[p].lines = clerk[p].lines /\ clerk'[p].answer = clerk[p].answer
BY DEF ClerksOK, ClerkGoto, ClerkStates

LEMMA FitsStep == ClerksOK /\ ClerksFit /\ [RefundNext]_refundVars => ClerksFit'
<1> SUFFICES ASSUME ClerksOK, ClerksFit, [RefundNext]_refundVars PROVE ClerksFit'
  OBVIOUS
<1> USE DEF ClerkAt
<1>1. ASSUME NEW p \in Clerks
      PROVE  /\ KindFits(clerk[p]) /\ AnswerFits(clerk[p]) /\ DirectFits(clerk[p])
             /\ clerk[p] \in ClerkStates
  BY DEF ClerksFit, ClerksOK
<1>2. ASSUME NEW p \in Clerks, NEW pc \in ClerkPcs, ClerkGoto(p, pc),
             KindFits([clerk[p] EXCEPT !.pc = pc]), AnswerFits([clerk[p] EXCEPT !.pc = pc])
      PROVE  ClerksFit'
  <2>1. clerk'[p] = [clerk[p] EXCEPT !.pc = pc] /\ \A q \in Clerks \ {p} : clerk'[q] = clerk[q]
    BY <1>2 DEF ClerkGoto, ClerksOK
  <2>2. DirectFits([clerk[p] EXCEPT !.pc = pc])
    BY <1>1 DEF DirectFits, ClerkStates
  <2> QED BY <1>2, <2>1, <2>2, FitsOne
<1>3. ASSUME NEW p \in Clerks, Dismiss(p) \/ Conclude(p) PROVE ClerksFit'
  BY <1>3, FitsLeave
<1>4. ASSUME NEW p \in Clerks, StartRefund(p) PROVE ClerksFit'
  <2> DEFINE Starts(c) == /\ c.answer = "none"
                          /\ \/ c.pc = "context" /\ c.kind = "return"
                             \/ c.pc = "duplicate" /\ c.kind = "direct" /\ c.key \in DirectKeys \cup {NoKey}
  <2>a. ASSUME NEW r \in Returns, NEW amount \in Amounts, NEW ack \in BOOLEAN
        PROVE  Starts([FreeClerk EXCEPT !.pc = "context", !.kind = "return",
                         !.return = r, !.amount = amount, !.ack = ack])
    BY DEF FreeClerk
  <2>b. ASSUME NEW key \in DirectKeys \cup {NoKey}, NEW amount \in Amounts, NEW ack \in BOOLEAN
        PROVE  Starts([FreeClerk EXCEPT !.pc = "duplicate", !.kind = "direct",
                         !.key = key, !.amount = amount, !.ack = ack])
    BY DEF FreeClerk
  <2> HIDE DEF Starts
  <2>1. PICK c : clerk' = [clerk EXCEPT ![p] = c] /\ Starts(c)
    BY <1>4, <2>a, <2>b, Zenon DEF StartRefund
  <2> USE DEF Starts
  <2>2. clerk'[p] = c /\ \A q \in Clerks \ {p} : clerk'[q] = clerk[q]
    BY <2>1 DEF ClerksOK
  <2>3. KindFits(c) /\ AnswerFits(c) /\ DirectFits(c)
    BY <2>1 DEF KindFits, AnswerFits, DirectFits, MovesMoney
  <2> QED BY <2>2, <2>3, FitsOne
<1>5. ASSUME NEW p \in Clerks, ReadContext(p) PROVE ClerksFit'
  <2>1. CASE ClerkGoto(p, "lockReturn")
    BY <1>1, <1>2, <1>5, <2>1 DEF ReadContext, KindFits, AnswerFits, ClerkStates, ClerkPcs, MovesMoney
  <2> QED BY <1>3, <1>5, <2>1 DEF ReadContext
<1>6. ASSUME NEW p \in Clerks, LockReturn(p) PROVE ClerksFit'
  <2>1. CASE ClerkGoto(p, IF clerk[p].kind = "observe" THEN "observe" ELSE "claim")
    BY <1>1, <1>2, <1>6, <2>1 DEF LockReturn, KindFits, AnswerFits, ClerkStates, ClerkPcs, MovesMoney
  <2> QED BY <1>3, <1>6, <2>1 DEF LockReturn
<1>7. ASSUME NEW p \in Clerks, ClaimRefund(p) PROVE ClerksFit'
  <2>1. CASE ClerkGoto(p, "unlockReturn")
    BY <1>1, <1>2, <1>7, <2>1 DEF ClaimRefund, KindFits, AnswerFits, ClerkStates, ClerkPcs, MovesMoney
  <2>2. ASSUME NEW ls, NEW answer, ls # {},
               \/ clerk' = [clerk EXCEPT ![p].pc = "execute", ![p].lines = ls] /\ answer = "none"
               \/ clerk' = [clerk EXCEPT ![p].pc = "unlockReturn", ![p].lines = ls, ![p].answer = "triggered"]
        PROVE  ClerksFit'
    <3>1. /\ \A q \in Clerks \ {p} : clerk'[q] = clerk[q]
          /\ clerk'[p].kind = "return" /\ clerk'[p].lines = ls
          /\ \/ clerk'[p].pc = "execute" /\ clerk'[p].answer = "none"
             \/ clerk'[p].pc = "unlockReturn"
      BY <1>1, <1>7, <2>2 DEF ClaimRefund, ClerksOK, ClerkStates, KindFits, AnswerFits
    <3> QED BY <2>2, <3>1, FitsOne DEF KindFits, AnswerFits, DirectFits
  <2> QED BY <1>7, <2>1, <2>2 DEF ClaimRefund
<1>8. ASSUME NEW p \in Clerks, ExecuteRefund(p) PROVE ClerksFit'
  <2>1. /\ \A q \in Clerks \ {p} : clerk'[q] = clerk[q]
        /\ clerk'[p].pc = "settle" /\ clerk'[p].kind = "return" /\ clerk'[p].lines = clerk[p].lines
        /\ clerk[p].lines # {}
    BY <1>1, <1>8 DEF ExecuteRefund, ClerksOK, ClerkStates, KindFits, AnswerFits
  <2> QED BY <2>1, FitsOne DEF KindFits, AnswerFits, DirectFits
<1>9. ASSUME NEW p \in Clerks, Settle(p) PROVE ClerksFit'
  <2>1. /\ \A q \in Clerks \ {p} : clerk'[q] = clerk[q]
        /\ clerk'[p].pc = "unlockReturn" /\ clerk'[p].kind = "return" /\ clerk'[p].lines = clerk[p].lines
        /\ clerk[p].lines # {}
    BY <1>1, <1>9 DEF Settle, ClerkGoto, ClerksOK, ClerkStates, KindFits, AnswerFits
  <2> QED BY <2>1, FitsOne DEF KindFits, AnswerFits, DirectFits
<1>10. ASSUME NEW p \in Clerks, UnlockReturn(p) PROVE ClerksFit'
  <2>1. CASE /\ clerk[p].kind # "observe" /\ MovesMoney(clerk[p].answer)
             /\ clerk' = [clerk EXCEPT ![p].pc = "duplicate", ![p].key = RecordKey(clerk[p].return, clerk[p].lines)]
    <3>1. /\ \A q \in Clerks \ {p} : clerk'[q] = clerk[q]
          /\ clerk'[p].pc = "duplicate" /\ clerk'[p].kind = "return"
          /\ clerk'[p].lines = clerk[p].lines /\ clerk'[p].return = clerk[p].return
          /\ clerk'[p].answer = clerk[p].answer
          /\ clerk'[p].key = RecordKey(clerk[p].return, clerk[p].lines)
      BY <1>1, <1>10, <2>1 DEF UnlockReturn, ClerksOK, ClerkStates, KindFits
    <3>2. clerk[p].lines # {}
      BY <1>1, <1>10, <2>1 DEF UnlockReturn, KindFits, AnswerFits
    <3> QED BY <2>1, <3>1, <3>2, FitsOne DEF KindFits, AnswerFits, DirectFits
  <2> QED BY <1>3, <1>10, <2>1 DEF UnlockReturn
<1>11. ASSUME NEW p \in Clerks, FindDuplicate(p) PROVE ClerksFit'
  <2>1. CASE ClerkGoto(p, "ceiling")
    BY <1>1, <1>2, <1>11, <2>1 DEF FindDuplicate, KindFits, AnswerFits, ClerkStates, ClerkPcs
  <2> QED BY <1>3, <1>11, <2>1 DEF FindDuplicate
<1>12. ASSUME NEW p \in Clerks, ReadCeiling(p) PROVE ClerksFit'
  <2>1. /\ \A q \in Clerks \ {p} : clerk'[q] = clerk[q]
        /\ clerk'[p].pc = "create" /\ clerk'[p].kind = clerk[p].kind /\ clerk'[p].key = clerk[p].key
        /\ clerk'[p].lines = clerk[p].lines /\ clerk'[p].return = clerk[p].return
        /\ clerk'[p].answer = clerk[p].answer
    BY <1>12 DEF ReadCeiling, ClerksOK, ClerkStates
  <2> QED BY <1>1, <1>12, <2>1, FitsOne DEF ReadCeiling, KindFits, AnswerFits, DirectFits
<1>13. ASSUME NEW p \in Clerks, StartObservation(p) PROVE ClerksFit'
  <2>a. PICK l \in reported, state \in {"refunded", "denied"} :
          clerk' = [clerk EXCEPT ![p] = [FreeClerk EXCEPT !.pc = "lockReturn", !.kind = "observe",
                                           !.return = ReturnOf[l], !.answer = state]]
    BY <1>13 DEF StartObservation
  <2> DEFINE c == [FreeClerk EXCEPT !.pc = "lockReturn", !.kind = "observe",
                                    !.return = ReturnOf[l], !.answer = state]
  <2>1. /\ clerk' = [clerk EXCEPT ![p] = c] /\ c.pc = "lockReturn" /\ c.kind = "observe"
        /\ c.answer \in {"refunded", "denied"}
    BY <2>a DEF FreeClerk
  <2> HIDE DEF c
  <2>2. clerk'[p] = c /\ \A q \in Clerks \ {p} : clerk'[q] = clerk[q]
    BY <2>1 DEF ClerksOK
  <2> QED BY <2>1, <2>2, FitsOne DEF KindFits, AnswerFits, DirectFits
<1>14. ASSUME NEW p \in Clerks, Observe(p) PROVE ClerksFit'
  BY <1>1, <1>2, <1>14 DEF Observe, KindFits, AnswerFits, ClerkStates, ClerkPcs
<1>15. CASE AppendLine \/ RefundLockExpires \/ UNCHANGED refundVars
  BY <1>15 DEF AppendLine, RefundLockExpires, refundVars, ClerksFit
<1>16. ASSUME NEW p \in Clerks, CreateRecord(p) \/ UnlockOrder(p) \/ CrashClerk(p) PROVE ClerksFit'
  BY <1>3, <1>16 DEF CreateRecord, UnlockOrder, CrashClerk
<1> QED
  BY <1>4, <1>5, <1>6, <1>7, <1>8, <1>9, <1>10, <1>11, <1>12, <1>13, <1>14, <1>15, <1>16 DEF RefundNext

-----------------------------------------------------------------------------
MoneyTypes == {paidOut, direct, refundFaults} \subseteq Nat

LEMMA MoneyTypesStep == RefundTypes /\ MoneyTypes /\ [RefundNext]_refundVars => MoneyTypes'
<1> SUFFICES ASSUME RefundTypes, MoneyTypes, [RefundNext]_refundVars PROVE MoneyTypes'
  OBVIOUS
<1>1. \A p \in Clerks : clerk[p].amount \in Nat
  BY DEF RefundTypes, ClerksOK, ClerkStates
<1> USE <1>1 DEF MoneyTypes, lineVars, recordVars, RefundFault, NoRefundFault, Pay, PayNothing
<1>2. ASSUME NEW p \in Clerks,
             \/ StartRefund(p) \/ ReadContext(p) \/ LockReturn(p) \/ UnlockReturn(p) \/ FindDuplicate(p)
             \/ ReadCeiling(p) \/ UnlockOrder(p) \/ StartObservation(p)
      PROVE  MoneyTypes'
  BY <1>2 DEF StartRefund, ReadContext, LockReturn, UnlockReturn, FindDuplicate, ReadCeiling, UnlockOrder,
     StartObservation
<1>3. ASSUME NEW p \in Clerks, ClaimRefund(p) \/ ExecuteRefund(p) PROVE MoneyTypes'
  BY <1>3 DEF ClaimRefund, ExecuteRefund
<1>4. ASSUME NEW p \in Clerks, Settle(p) \/ CreateRecord(p) PROVE MoneyTypes'
  BY <1>4 DEF Settle, CreateRecord
<1>5. ASSUME NEW p \in Clerks, Observe(p) PROVE MoneyTypes'
  BY <1>5 DEF Observe
<1>6. CASE AppendLine \/ RefundLockExpires \/ UNCHANGED refundVars
  BY <1>6 DEF AppendLine, RefundLockExpires, refundVars
<1>7. ASSUME NEW p \in Clerks, CrashClerk(p) PROVE MoneyTypes'
  BY <1>7 DEF CrashClerk
<1> QED BY <1>2, <1>3, <1>4, <1>5, <1>6, <1>7 DEF RefundNext

(* What a request that neither takes nor gives back the order's lock, and      *)
(* writes no record, leaves true of the ceiling.                               *)
LEMMA CeilingFrame ==
  ASSUME CeilingInv, MoneyTypes, MoneyTypes', NEW p \in Clerks, \A q \in Clerks \ {p} : clerk'[q] = clerk[q],
         UNCHANGED <<orderLock, lockLost, recorded, acked>>, refundFaults' >= refundFaults,
         Refunding(p)' => Refunding(p),
         clerk'[p].pc = "create" => clerk'[p].seen = recorded
  PROVE  CeilingInv'
<1>1. (lockLost => refundFaults > 0)'
  BY DEF CeilingInv, MoneyTypes
<1>2. ASSUME ~lockLost PROVE OrderIsLocked' /\ SumIsCurrent'
  BY <1>2 DEF CeilingInv, OrderIsLocked, SumIsCurrent, Refunding
<1> QED BY <1>1, <1>2 DEF CeilingInv

(* What a step that records and pays nothing leaves true of the balance, if the*)
(* requests that owe a record still do.                                        *)
LEMMA BalanceFrame ==
  ASSUME RefundTypes, BalanceInv, NEW p \in Clerks, \A q \in Clerks \ {p} : clerk'[q] = clerk[q],
         UNCHANGED <<recordKeys, recorded, direct, paidOut>>,
         Smooth' => Smooth /\ \A l \in ReturnLines : MovesMoney(money[l]) => MovesMoney(money'[l]),
         Smooth' /\ clerk'[p].kind = "return" /\ clerk'[p].pc # "context" => Cleared(p)',
         Smooth' /\ Unrecorded(p)' =>
           Moved(clerk[p].lines)' /\ RecordKey(clerk'[p].return, clerk'[p].lines) \notin recordKeys,
         Smooth' => (Owes(p)' <=> Owes(p)),
         Smooth' /\ Owes(p) => clerk'[p].amount = clerk[p].amount
  PROVE  BalanceInv'
<1> SUFFICES ASSUME Smooth' PROVE RecordsMoved' /\ ReturnsAreCleared' /\ Balance'
  BY DEF BalanceInv
<1>1. RecordsMoved /\ ReturnsAreCleared /\ Balance
  BY DEF BalanceInv
<1>2. RecordsMoved'
  BY <1>1 DEF RecordsMoved, Moved, RecordKey
<1>3. ReturnsAreCleared'
  <2> SUFFICES ASSUME NEW q \in Clerks \ {p}
               PROVE  /\ clerk'[q].kind = "return" /\ clerk'[q].pc # "context" => Cleared(q)'
                      /\ Unrecorded(q)' =>
                           Moved(clerk[q].lines)' /\ (RecordKey(clerk[q].return, clerk[q].lines) \notin recordKeys)'
    BY DEF ReturnsAreCleared
  <2>1. clerk'[q] = clerk[q] /\ clerk[q].lines \subseteq ReturnLines
    BY DEF RefundTypes, ClerksOK, ClerkStates
  <2> QED BY <1>1, <2>1 DEF ReturnsAreCleared, Cleared, Unrecorded, Moved, RecordKey
<1>4. \A q \in Clerks : /\ Owes(q)' <=> Owes(q)
                        /\ Owes(q) => clerk'[q].amount = clerk[q].amount
  BY DEF Owes, Unrecorded
<1>5. Balance'
  BY <1>1, <1>4 DEF Balance
<1> QED BY <1>2, <1>3, <1>5

-----------------------------------------------------------------------------
(* A client's key is none that the controller makes for a return.              *)
KeysApart == \A r \in Returns \cup {0}, ls \in SUBSET ReturnLines : RecordKey(r, ls) \notin DirectKeys

MoneyInv == RefundInv /\ MoneyTypes /\ ClerksFit /\ CeilingInv /\ BalanceInv

(* While nothing fails one request at a time handles a refund, so it alone can *)
(* owe a record.                                                               *)
LEMMA OneOwes ==
  ASSUME CeilingInv, ClerksFit, Smooth, NEW p \in Clerks, Refunding(p)
  PROVE  /\ ~lockLost /\ orderLock = p
         /\ \A q \in Clerks \ {p} : ~Refunding(q) /\ ~Owes(q)
<1>1. ~lockLost /\ OrderIsLocked
  BY DEF CeilingInv, Smooth
<1>2. \A q \in Clerks : Owes(q) => Refunding(q)
  BY DEF Owes, Unrecorded, Refunding, ClerksFit, KindFits
<1> QED BY <1>1, <1>2 DEF OrderIsLocked

(* The steps after which a request owes what it owed before.                   *)
LEMMA PlainSteps ==
  ASSUME MoneyInv, MoneyTypes', ClerksFit', NEW p \in Clerks,
         \/ ReadContext(p) \/ LockReturn(p) \/ UnlockReturn(p) \/ FindDuplicate(p) \/ ReadCeiling(p)
         \/ StartObservation(p)
  PROVE  CeilingInv' /\ BalanceInv'
<1> USE DEF ClerkAt, lineVars, recordVars, lockVars, refundHistory
<1>1. /\ RefundTypes /\ ClerksOK /\ MoneyTypes /\ CeilingInv /\ BalanceInv /\ ClerksFit
      /\ KindFits(clerk[p]) /\ AnswerFits(clerk[p])
  BY DEF MoneyInv, RefundInv, RefundTypes, ClerksFit
<1>2. /\ UNCHANGED <<orderLock, lockLost, acked, recordVars, paidOut, refundFaults, bounced, blurred, money>>
      /\ Smooth' => Smooth
  <2>1. UNCHANGED <<orderLock, lockLost, acked, recordVars, paidOut, refundFaults, bounced, blurred, money>>
    <3>1. CASE ReadContext(p) \/ FindDuplicate(p) \/ ReadCeiling(p)
      BY <3>1 DEF ReadContext, FindDuplicate, ReadCeiling
    <3>2. CASE LockReturn(p) \/ UnlockReturn(p) \/ StartObservation(p)
      BY <3>2 DEF LockReturn, UnlockReturn, StartObservation
    <3> QED BY <3>1, <3>2
  <2> QED BY <2>1 DEF Smooth
<1>3. Smooth /\ clerk[p].kind = "return" /\ clerk[p].pc # "context" => Cleared(p)
  BY <1>1 DEF BalanceInv, ReturnsAreCleared
<1>4. Smooth /\ Unrecorded(p) =>
        Moved(clerk[p].lines) /\ RecordKey(clerk[p].return, clerk[p].lines) \notin recordKeys
  BY <1>1 DEF BalanceInv, ReturnsAreCleared
<1> DEFINE Goal ==
     /\ \A q \in Clerks \ {p} : clerk'[q] = clerk[q]
     /\ Refunding(p)' => Refunding(p)
     /\ clerk'[p].pc = "create" => clerk'[p].seen = recorded
     /\ Smooth /\ clerk'[p].kind = "return" /\ clerk'[p].pc # "context" => Cleared(p)'
     /\ Smooth => (Owes(p)' <=> Owes(p))
     /\ Owes(p)' => /\ Unrecorded(p)' /\ Unrecorded(p)
                    /\ clerk'[p].lines = clerk[p].lines /\ clerk'[p].return = clerk[p].return
     /\ Smooth /\ Owes(p) => clerk'[p].amount = clerk[p].amount
<1>5. SUFFICES Goal
  <2>1. Smooth' /\ Unrecorded(p)' =>
          Moved(clerk[p].lines)' /\ RecordKey(clerk'[p].return, clerk'[p].lines) \notin recordKeys
    BY <1>2, <1>4, <1>5 DEF Owes, Moved
  <2>2. CeilingInv'
    BY <1>1, <1>2, <1>5, CeilingFrame DEF MoneyTypes
  <2> QED BY <1>1, <1>2, <1>5, <2>1, <2>2, BalanceFrame
<1>6. ASSUME Dismiss(p) \/ Conclude(p), ~Owes(p), Dismiss(p) \/ Refunding(p) PROVE Goal
  BY <1>1, <1>6, FitsLeave DEF Refunding, Owes, Unrecorded, MovesMoney
<1>7. ASSUME NEW pc \in {"lockReturn", "claim", "observe"}, ClerkGoto(p, pc), ~Owes(p),
             Refunding(p) \/ pc = "observe",
             clerk[p].kind \in {"return", "observe"}, clerk[p].kind = "observe" <=> pc = "observe",
             Smooth /\ clerk[p].kind = "return" => Cleared(p)
      PROVE  Goal
  <2>1. pc \in ClerkPcs
    BY DEF ClerkPcs
  <2> QED BY <1>1, <1>2, <1>7, <2>1, ClerkGoesOn DEF Refunding, Owes, Unrecorded, Cleared
<1>14. ASSUME ClerkGoto(p, "ceiling"), Refunding(p),
              (clerk[p].kind = "direct" /\ ~Owes(p)) \/ (clerk[p].kind = "return" /\ Unrecorded(p)),
              Smooth /\ clerk[p].kind = "return" => Cleared(p)
       PROVE  Goal
  <2>1. "ceiling" \in ClerkPcs
    BY DEF ClerkPcs
  <2> QED BY <1>1, <1>2, <1>14, <2>1, ClerkGoesOn DEF Refunding, Owes, Unrecorded, Cleared
<1> HIDE DEF Goal
<1>8. CASE ReadContext(p)
  <2>1. CASE ClerkGoto(p, "lockReturn")
    <3>1. clerk[p].pc = "context" /\ clerk[p].kind = "return" /\ Refunding(p) /\ ~Owes(p)
      BY <1>1, <1>8 DEF ReadContext, KindFits, Refunding, Owes, Unrecorded
    <3>2. Allowed(p, recorded) \/ Conclude(p)
      BY <1>8 DEF ReadContext
    <3>3. CASE Allowed(p, recorded)
      <4>1. Cleared(p)
        BY <3>3 DEF Allowed, Cleared
      <4> QED BY <1>7, <2>1, <3>1, <4>1
    <3>4. CASE Conclude(p)
      BY <1>6, <3>1, <3>4
    <3> QED BY <3>2, <3>3, <3>4
  <2>2. CASE Conclude(p)
    BY <1>1, <1>6, <1>8, <2>2 DEF ReadContext, KindFits, Refunding, Owes, Unrecorded
  <2> QED BY <1>8, <2>1, <2>2 DEF ReadContext, Goal
<1>9. CASE LockReturn(p)
  <2>1. ~Owes(p) /\ clerk[p].pc = "lockReturn" /\ clerk[p].kind \in {"return", "observe"}
    BY <1>1, <1>9 DEF LockReturn, KindFits, Owes, Unrecorded
  <2>2. ASSUME ClerkGoto(p, IF clerk[p].kind = "observe" THEN "observe" ELSE "claim") PROVE Goal
    <3>1. CASE clerk[p].kind = "observe"
      BY <1>7, <2>1, <2>2, <3>1
    <3>2. CASE clerk[p].kind = "return"
      <4>1. ClerkGoto(p, "claim") /\ Refunding(p)
        BY <2>1, <2>2, <3>2 DEF Refunding
      <4> QED BY <1>3, <1>7, <2>1, <3>2, <4>1
    <3> QED BY <2>1, <3>1, <3>2
  <2>3. ASSUME IF clerk[p].kind = "observe" THEN Dismiss(p) ELSE Conclude(p) PROVE Goal
    BY <1>6, <2>1, <2>3 DEF Refunding
  <2> QED BY <1>9, <2>2, <2>3 DEF LockReturn, Goal
<1>10. CASE UnlockReturn(p)
  <2>1. CASE clerk[p].kind = "observe" /\ Dismiss(p)
    BY <1>6, <1>10, <2>1 DEF UnlockReturn, Owes, Unrecorded, Goal
  <2>2. CASE clerk[p].kind # "observe" /\ ~MovesMoney(clerk[p].answer) /\ Conclude(p)
    BY <1>6, <1>10, <2>2 DEF UnlockReturn, Owes, Unrecorded, Refunding
  <2>3. CASE /\ clerk[p].kind # "observe" /\ MovesMoney(clerk[p].answer)
             /\ clerk' = [clerk EXCEPT ![p].pc = "duplicate", ![p].key = RecordKey(clerk[p].return, clerk[p].lines)]
    <3>1. /\ \A q \in Clerks \ {p} : clerk'[q] = clerk[q]
          /\ clerk'[p].pc = "duplicate" /\ clerk'[p].kind = "return" /\ clerk[p].kind = "return"
          /\ clerk'[p].lines = clerk[p].lines /\ clerk'[p].return = clerk[p].return
          /\ clerk'[p].answer = clerk[p].answer /\ clerk'[p].amount = clerk[p].amount
          /\ clerk'[p].ack = clerk[p].ack
      BY <1>1, <1>10, <2>3 DEF UnlockReturn, ClerksOK, ClerkStates, KindFits
    <3> QED BY <1>2, <1>3, <1>10, <2>3, <3>1 DEF UnlockReturn, Refunding, Owes, Unrecorded, Cleared, Goal
  <2> QED BY <1>10, <2>1, <2>2, <2>3 DEF UnlockReturn, Goal
<1>11. CASE FindDuplicate(p)
  <2>1. /\ clerk[p].pc = "duplicate" /\ Refunding(p)
        /\ \/ clerk[p].kind = "direct" /\ ~Owes(p)
           \/ clerk[p].kind = "return" /\ Unrecorded(p) /\ clerk[p].key = RecordKey(clerk[p].return, clerk[p].lines)
    BY <1>1, <1>11 DEF FindDuplicate, KindFits, AnswerFits, Refunding, Owes, Unrecorded
  <2>2. ASSUME ClerkGoto(p, "ceiling") PROVE Goal
    BY <1>3, <1>14, <2>1, <2>2
  <2>3. ASSUME Conclude(p), clerk[p].key \in recordKeys, ~Owes(p) PROVE Goal
    BY <1>6, <2>1, <2>3
  <2>4. ASSUME Conclude(p), clerk[p].key \in recordKeys, Owes(p) PROVE Goal
    <3>1. ~Smooth
      BY <1>4, <2>1, <2>4
    <3> QED BY <1>1, <2>1, <2>4, <3>1, FitsLeave DEF Goal, Owes, Unrecorded, Refunding, MovesMoney
  <2> QED BY <1>11, <2>2, <2>3, <2>4 DEF FindDuplicate, Goal
<1>12. CASE ReadCeiling(p)
  <2>1. /\ \A q \in Clerks \ {p} : clerk'[q] = clerk[q]
        /\ clerk[p].pc = "ceiling" /\ clerk'[p].pc = "create" /\ clerk'[p].seen = recorded
        /\ clerk'[p].kind = clerk[p].kind /\ clerk'[p].ack = clerk[p].ack
        /\ clerk'[p].lines = clerk[p].lines /\ clerk'[p].return = clerk[p].return
        /\ clerk'[p].answer = clerk[p].answer /\ clerk'[p].amount = clerk[p].amount
    BY <1>1, <1>12 DEF ReadCeiling, ClerksOK, ClerkStates
  <2> QED BY <1>1, <1>2, <1>3, <2>1 DEF Refunding, Owes, Unrecorded, Cleared, KindFits, Goal
<1>13. CASE StartObservation(p)
  <2>1. PICK l \in reported, state \in {"refunded", "denied"} :
          clerk' = [clerk EXCEPT ![p] = [FreeClerk EXCEPT !.pc = "lockReturn", !.kind = "observe",
                                           !.return = ReturnOf[l], !.answer = state]]
    BY <1>13 DEF StartObservation
  <2> DEFINE c == [FreeClerk EXCEPT !.pc = "lockReturn", !.kind = "observe",
                                    !.return = ReturnOf[l], !.answer = state]
  <2>2. clerk' = [clerk EXCEPT ![p] = c] /\ c.pc = "lockReturn" /\ c.kind = "observe"
    BY <2>1 DEF FreeClerk
  <2> HIDE DEF c
  <2>3. clerk'[p] = c /\ (\A q \in Clerks \ {p} : clerk'[q] = clerk[q]) /\ clerk[p].pc = "idle"
    BY <1>1, <1>13, <2>2 DEF ClerksOK, StartObservation
  <2> QED BY <2>2, <2>3 DEF Refunding, Owes, Unrecorded, Goal
<1> QED BY <1>8, <1>9, <1>10, <1>11, <1>12, <1>13

(* What neither pays nor records, and moves no request that handles a refund.  *)
LEMMA OutsideSteps ==
  ASSUME MoneyInv, MoneyTypes', ClerksFit',
         AppendLine \/ RefundLockExpires \/ UNCHANGED refundVars
  PROVE  CeilingInv' /\ BalanceInv'
<1> USE DEF lineVars, recordVars
<1>1. UNCHANGED <<clerk, money, recordKeys, recorded, direct, paidOut, acked, bounced, blurred>>
  BY DEF AppendLine, RefundLockExpires, refundVars, refundHistory
<1>2. /\ refundFaults' >= refundFaults /\ (lockLost' => lockLost \/ refundFaults' > refundFaults)
      /\ \A q \in Clerks : Refunding(q) => lockLost' \/ (orderLock' = orderLock) \/ orderLock # q
  <2>1. CASE AppendLine \/ UNCHANGED refundVars
    BY <2>1 DEF AppendLine, refundVars, refundHistory, lockVars, MoneyInv, MoneyTypes
  <2>2. CASE RefundLockExpires
    BY <2>2 DEF RefundLockExpires, RefundFault, NoRefundFault, MoneyInv, MoneyTypes, Refunding, ClerkAt
  <2> QED BY <2>1, <2>2
<1>3. lockLost' \/ ~lockLost
  BY DEF AppendLine, RefundLockExpires, refundVars, refundHistory
<1>4. CeilingInv'
  <2>1. (lockLost => refundFaults > 0)'
    BY <1>2 DEF MoneyInv, MoneyTypes, CeilingInv
  <2>2. ASSUME ~lockLost' PROVE OrderIsLocked' /\ SumIsCurrent' /\ (~acked => recorded <= Total)'
    BY <1>1, <1>2, <1>3, <2>2 DEF MoneyInv, CeilingInv, OrderIsLocked, SumIsCurrent, Refunding
  <2> QED BY <2>1, <2>2 DEF CeilingInv
<1>5. BalanceInv'
  <2>1. Smooth' => Smooth
    BY <1>1, <1>2 DEF Smooth, MoneyInv, MoneyTypes
  <2>2. Smooth => RecordsMoved' /\ ReturnsAreCleared' /\ Balance'
    <3>1. Smooth => RecordsMoved /\ ReturnsAreCleared /\ Balance
      BY DEF MoneyInv, BalanceInv
    <3>2. RecordsMoved <=> RecordsMoved'
      BY <1>1 DEF RecordsMoved, Moved
    <3>3. ReturnsAreCleared <=> ReturnsAreCleared'
      BY <1>1 DEF ReturnsAreCleared, Cleared, Unrecorded, Moved
    <3>4. Balance <=> Balance'
      BY <1>1 DEF Balance, Owes, Unrecorded
    <3> QED BY <3>1, <3>2, <3>3, <3>4
  <2> QED BY <2>1, <2>2 DEF BalanceInv
<1> QED BY <1>4, <1>5

(* A request takes the order's lock, or gives it back.                         *)
LEMMA OrderLockSteps ==
  ASSUME MoneyInv, MoneyTypes', ClerksFit', NEW p \in Clerks, StartRefund(p) \/ UnlockOrder(p)
  PROVE  CeilingInv' /\ BalanceInv'
<1> USE DEF ClerkAt, lineVars, recordVars, lockVars, refundHistory
<1>1. /\ RefundTypes /\ ClerksOK /\ MoneyTypes /\ CeilingInv /\ BalanceInv /\ ClerksFit
      /\ KindFits(clerk[p])
  BY DEF MoneyInv, RefundInv, RefundTypes, ClerksFit
<1>2. /\ UNCHANGED <<lockLost, acked, recordVars, paidOut, refundFaults, bounced, blurred, money>>
      /\ Smooth' => Smooth
  <2>1. UNCHANGED <<lockLost, acked, recordVars, paidOut, refundFaults, bounced, blurred, money>>
    <3>1. CASE StartRefund(p)
      BY <3>1 DEF StartRefund
    <3>2. CASE UnlockOrder(p)
      BY <3>2 DEF UnlockOrder
    <3> QED BY <3>1, <3>2
  <2> QED BY <2>1 DEF Smooth
<1>3. /\ \A q \in Clerks \ {p} : clerk'[q] = clerk[q]
      /\ clerk'[p].pc \in {"idle", "context", "duplicate"}
      /\ clerk'[p].pc = "context" => clerk'[p].kind = "return" /\ clerk'[p].answer = "none"
      /\ clerk'[p].pc = "duplicate" => clerk'[p].kind = "direct"
      /\ clerk'[p].pc = "idle" => clerk'[p].kind = "none"
      /\ ~Owes(p)
  <2>1. CASE UnlockOrder(p)
    BY <1>1, <2>1, FitsLeave DEF UnlockOrder, Owes, Unrecorded
  <2>2. CASE StartRefund(p)
    <3> DEFINE Starts(c) == \/ c.pc = "context" /\ c.kind = "return" /\ c.answer = "none"
                            \/ c.pc = "duplicate" /\ c.kind = "direct"
    <3>1. ASSUME NEW r \in Returns, NEW amount \in Amounts, NEW ack \in BOOLEAN
          PROVE  Starts([FreeClerk EXCEPT !.pc = "context", !.kind = "return",
                           !.return = r, !.amount = amount, !.ack = ack])
      BY DEF FreeClerk
    <3>2. ASSUME NEW key \in DirectKeys \cup {NoKey}, NEW amount \in Amounts, NEW ack \in BOOLEAN
          PROVE  Starts([FreeClerk EXCEPT !.pc = "duplicate", !.kind = "direct",
                           !.key = key, !.amount = amount, !.ack = ack])
      BY DEF FreeClerk
    <3> HIDE DEF Starts
    <3>3. PICK c : clerk' = [clerk EXCEPT ![p] = c] /\ Starts(c)
      BY <2>2, <3>1, <3>2, Zenon DEF StartRefund
    <3> USE DEF Starts
    <3>4. clerk'[p] = c /\ (\A q \in Clerks \ {p} : clerk'[q] = clerk[q]) /\ clerk[p].pc = "idle"
      BY <1>1, <2>2, <3>3 DEF ClerksOK, StartRefund
    <3> QED BY <3>3, <3>4 DEF Owes, Unrecorded
  <2> QED BY <2>1, <2>2
<1>4. BalanceInv'
  <2>1. ~Owes(p)' /\ ~Unrecorded(p)' /\ ~(clerk'[p].kind = "return" /\ clerk'[p].pc # "context")
    BY <1>3 DEF Owes, Unrecorded
  <2> QED BY <1>1, <1>2, <1>3, <2>1, BalanceFrame
<1>5. CeilingInv'
  <2>1. ASSUME ~lockLost PROVE OrderIsLocked' /\ SumIsCurrent'
    <3>1. OrderIsLocked /\ SumIsCurrent
      BY <1>1, <2>1 DEF CeilingInv
    <3>2. SumIsCurrent'
      BY <1>2, <1>3, <3>1 DEF SumIsCurrent
    <3>3. CASE StartRefund(p)
      <4>1. orderLock = NoClerk /\ orderLock' = p
        BY <3>3 DEF StartRefund, TakeOrderLock
      <4>2. \A q \in Clerks \ {p} : ~Refunding(q)
        BY <3>1, <4>1, RefundAssumption DEF OrderIsLocked
      <4> QED BY <1>3, <3>2, <4>1, <4>2 DEF OrderIsLocked, Refunding
    <3>4. CASE UnlockOrder(p)
      <4>1. ~Refunding(p)' /\ Refunding(p)
        BY <1>1, <3>4, FitsLeave DEF UnlockOrder, Refunding, KindFits
      <4>2. orderLock = p /\ \A q \in Clerks \ {p} : ~Refunding(q)
        BY <3>1, <4>1 DEF OrderIsLocked
      <4> QED BY <1>3, <3>2, <4>1, <4>2 DEF OrderIsLocked, Refunding
    <3> QED BY <3>3, <3>4
  <2> QED BY <1>1, <1>2, <2>1 DEF CeilingInv
<1> QED BY <1>4, <1>5

(* An observation, whatever it settles, and the death of a process.            *)
LEMMA ObserveAndCrashSteps ==
  ASSUME MoneyInv, MoneyTypes', ClerksFit', NEW p \in Clerks, Observe(p) \/ CrashClerk(p)
  PROVE  CeilingInv' /\ BalanceInv'
<1> USE DEF ClerkAt, lineVars, recordVars, lockVars, refundHistory
<1>1. /\ RefundTypes /\ ClerksOK /\ MoneyTypes /\ CeilingInv /\ BalanceInv /\ ClerksFit
      /\ KindFits(clerk[p])
  BY DEF MoneyInv, RefundInv, RefundTypes, ClerksFit
<1>2. CASE CrashClerk(p)
  <2>1. /\ UNCHANGED <<orderLock, lockLost, recorded, acked>>
        /\ refundFaults' = refundFaults + 1
        /\ ~Refunding(p)' /\ clerk'[p].pc = "idle" /\ \A q \in Clerks \ {p} : clerk'[q] = clerk[q]
    BY <1>1, <1>2, FitsLeave DEF CrashClerk, RefundFault, Refunding
  <2>2. ~Smooth'
    BY <1>1, <2>1 DEF Smooth, MoneyTypes
  <2>3. CeilingInv'
    BY <1>1, <2>1, CeilingFrame DEF MoneyTypes
  <2> QED BY <2>2, <2>3 DEF BalanceInv
<1>3. CASE Observe(p)
  <2>1. /\ UNCHANGED <<orderLock, lockLost, acked, recordVars, paidOut, refundFaults>>
        /\ bounced' = \/ bounced
                       \/ \E l \in LinesOf(clerk[p].return) : money[l] = "triggered" /\ clerk[p].answer = "denied"
        /\ Smooth' => Smooth
    BY <1>3 DEF Observe, Smooth
  <2>2. /\ clerk[p].kind = "observe" /\ clerk[p].pc = "observe" /\ clerk'[p].kind = "observe"
        /\ clerk'[p].pc = "unlockReturn" /\ \A q \in Clerks \ {p} : clerk'[q] = clerk[q]
    BY <1>1, <1>3, ClerkGoesOn DEF Observe, KindFits, ClerkPcs
  <2>3. ASSUME Smooth', NEW l \in ReturnLines, MovesMoney(money[l]) PROVE MovesMoney(money'[l])
    <3>1. money'[l] = IF l \in LinesOf(clerk[p].return) /\ money[l] \in Standing THEN clerk[p].answer ELSE money[l]
      BY <1>3 DEF Observe, SettleLines
    <3>2. clerk[p].answer \in {"refunded", "denied"}
      BY <1>1, <2>2 DEF KindFits
    <3>3. money[l] = "triggered" /\ l \in LinesOf(clerk[p].return) => clerk[p].answer # "denied"
      BY <2>1, <2>3 DEF Smooth
    <3> QED BY <2>3, <3>1, <3>2, <3>3 DEF MovesMoney, Standing
  <2>4. ~Owes(p) /\ ~Owes(p)' /\ ~Unrecorded(p)' /\ ~Refunding(p)'
    BY <2>2 DEF Owes, Unrecorded, Refunding
  <2>5. CeilingInv'
    BY <1>1, <2>1, <2>2, <2>4, CeilingFrame DEF MoneyTypes
  <2>6. BalanceInv'
    BY <1>1, <2>1, <2>2, <2>3, <2>4, BalanceFrame
  <2> QED BY <2>5, <2>6
<1> QED BY <1>2, <1>3

(* Lines are claimed: in doubt, or paid for by the operator.                   *)
LEMMA ClaimingStep ==
  ASSUME MoneyInv, MoneyTypes', ClerksFit', NEW p \in Clerks, ClaimRefund(p)
  PROVE  CeilingInv' /\ BalanceInv'
<1> USE DEF ClerkAt, recordVars, lockVars, refundHistory
<1> DEFINE ls == ClaimedLines(clerk[p].return)
<1>1. /\ RefundTypes /\ ClerksOK /\ MoneyTypes /\ CeilingInv /\ BalanceInv /\ ClerksFit
      /\ KindFits(clerk[p]) /\ AnswerFits(clerk[p])
  BY DEF MoneyInv, RefundInv, RefundTypes, ClerksFit
<1>2. /\ UNCHANGED <<orderLock, lockLost, acked, recordVars, refundFaults, bounced, blurred>>
      /\ Smooth' => Smooth
  BY DEF ClaimRefund, Smooth
<1>3. clerk[p].pc = "claim" /\ clerk[p].kind = "return" /\ clerk[p].answer = "none" /\ Refunding(p) /\ ~Owes(p)
  BY <1>1 DEF ClaimRefund, KindFits, AnswerFits, Refunding, Owes, Unrecorded
<1>4. /\ ls \subseteq ReturnLines /\ clerk[p].return \in Returns \cup {0}
      /\ \A l \in ls : ~MovesMoney(money[l])
  BY <1>1 DEF ClaimedLines, LinesOf, Attemptable, MovesMoney, RefundTypes, ClerksOK, ClerkStates
<1>5. \A l \in ReturnLines : MovesMoney(money[l]) => MovesMoney(money'[l])
  BY <1>1, <1>4, ClaimMarks DEF RefundTypes
<1>6. Smooth => Cleared(p)
  BY <1>1, <1>3 DEF BalanceInv, ReturnsAreCleared
<1>7. CASE ls = {} /\ ClerkGoto(p, "unlockReturn") /\ UNCHANGED <<money, paid, stays, paidOut>>
  <2>1. /\ \A q \in Clerks \ {p} : clerk'[q] = clerk[q]
        /\ clerk'[p].pc = "unlockReturn" /\ clerk'[p].kind = "return" /\ clerk'[p].answer = "none"
        /\ clerk'[p].amount = clerk[p].amount /\ clerk'[p].ack = clerk[p].ack
    BY <1>1, <1>3, <1>7, ClerkGoesOn DEF ClerkPcs
  <2>2. ~Owes(p)' /\ ~Unrecorded(p)' /\ Refunding(p)' /\ (Smooth => Cleared(p)')
    BY <1>2, <1>6, <2>1 DEF Owes, Unrecorded, Refunding, MovesMoney, Cleared
  <2>3. CeilingInv'
    BY <1>1, <1>2, <1>3, <2>1, <2>2, CeilingFrame DEF MoneyTypes
  <2> QED BY <1>1, <1>2, <1>3, <1>5, <1>7, <2>1, <2>2, <2>3, BalanceFrame
<1>8. CASE /\ ls # {} /\ PayNothing(ls)
           /\ clerk' = [clerk EXCEPT ![p].pc = "execute", ![p].lines = ls]
  <2>1. /\ \A q \in Clerks \ {p} : clerk'[q] = clerk[q]
        /\ clerk'[p].pc = "execute" /\ clerk'[p].kind = "return"
        /\ clerk'[p].amount = clerk[p].amount /\ clerk'[p].ack = clerk[p].ack
    BY <1>1, <1>3, <1>8 DEF ClerksOK, ClerkStates
  <2>2. ~Owes(p)' /\ ~Unrecorded(p)' /\ Refunding(p)' /\ (Smooth => Cleared(p)')
    BY <1>2, <1>6, <2>1 DEF Owes, Unrecorded, Refunding, Cleared
  <2>3. CeilingInv'
    BY <1>1, <1>2, <1>3, <2>1, <2>2, CeilingFrame DEF MoneyTypes
  <2>4. UNCHANGED paidOut
    BY <1>8 DEF PayNothing
  <2> QED BY <1>1, <1>2, <1>3, <1>5, <2>1, <2>2, <2>3, <2>4, BalanceFrame
<1>9. CASE /\ ls # {} /\ Pay(ls, clerk[p].amount)
           /\ money' = [l \in ReturnLines |-> IF l \in ls THEN "triggered" ELSE money[l]]
           /\ clerk' = [clerk EXCEPT ![p].pc = "unlockReturn", ![p].lines = ls, ![p].answer = "triggered"]
  <2>1. /\ \A q \in Clerks \ {p} : clerk'[q] = clerk[q]
        /\ clerk'[p].pc = "unlockReturn" /\ clerk'[p].kind = "return" /\ clerk'[p].lines = ls
        /\ clerk'[p].answer = "triggered" /\ clerk'[p].return = clerk[p].return
        /\ clerk'[p].amount = clerk[p].amount /\ clerk'[p].ack = clerk[p].ack
    BY <1>1, <1>3, <1>9 DEF ClerksOK, ClerkStates
  <2>2. Owes(p)' /\ Unrecorded(p)' /\ Refunding(p)' /\ (Smooth => Cleared(p)')
    BY <1>2, <1>6, <2>1 DEF Owes, Unrecorded, Refunding, Cleared, MovesMoney
  <2>3. CeilingInv'
    BY <1>1, <1>2, <1>3, <2>1, <2>2, CeilingFrame DEF MoneyTypes
  <2>4. ASSUME Smooth' PROVE RecordsMoved' /\ ReturnsAreCleared' /\ Balance'
    <3>1. Smooth /\ RecordsMoved /\ ReturnsAreCleared /\ Balance
      BY <1>1, <1>2, <2>4 DEF BalanceInv
    <3>2. RecordsMoved'
      BY <1>2, <1>5, <3>1 DEF RecordsMoved, Moved
    <3>3. RecordKey(clerk[p].return, ls) \notin recordKeys
      BY <1>4, <1>9, <3>1 DEF RecordsMoved, Moved
    <3>4. \A q \in Clerks \ {p} : ~Refunding(q) /\ ~Owes(q)
      BY <1>1, <1>3, <3>1, OneOwes
    <3>5. \A q \in Clerks \ {p} : clerk[q].kind = "return" => clerk[q].pc = "idle"
      BY <3>4 DEF Refunding
    <3>6. ReturnsAreCleared'
      <4>1. Moved(clerk[p].lines)' /\ (RecordKey(clerk[p].return, clerk[p].lines) \notin recordKeys)'
        BY <1>2, <1>4, <1>9, <2>1, <3>3 DEF Moved, MovesMoney
      <4>2. \A q \in Clerks \ {p} : clerk'[q].kind # "return"
        BY <1>1, <2>1, <3>5 DEF ClerksFit, KindFits
      <4> QED BY <2>2, <3>1, <4>1, <4>2 DEF ReturnsAreCleared, Unrecorded
    <3>7. paidOut' = paidOut + clerk[p].amount
      BY <1>9 DEF Pay
    <3>8. \A q \in Clerks \ {p} : ~Owes(q)'
      BY <2>1, <3>4 DEF Owes, Unrecorded
    <3>9. paidOut + direct <= recorded
      BY <1>3, <3>1, <3>4 DEF Balance
    <3>10. clerk[p].amount \in Nat /\ recorded \in Nat /\ paidOut \in Nat /\ direct \in Nat
      BY <1>1 DEF ClerksOK, ClerkStates, RefundTypes, MoneyTypes
    <3>11. paidOut' + direct' <= recorded' + clerk'[p].amount
      BY <1>2, <2>1, <3>7, <3>9, <3>10
    <3> QED BY <2>2, <3>2, <3>6, <3>8, <3>11 DEF Balance
  <2> QED BY <2>3, <2>4 DEF BalanceInv
<1> QED BY <1>7, <1>8, <1>9 DEF ClaimRefund

(* The source pays, or does not.                                               *)
LEMMA ExecuteStep ==
  ASSUME MoneyInv, MoneyTypes', ClerksFit', NEW p \in Clerks, ExecuteRefund(p)
  PROVE  CeilingInv' /\ BalanceInv'
<1> USE DEF ClerkAt, recordVars, lockVars, refundHistory
<1>1. /\ RefundTypes /\ ClerksOK /\ MoneyTypes /\ CeilingInv /\ BalanceInv /\ ClerksFit
      /\ KindFits(clerk[p])
  BY DEF MoneyInv, RefundInv, RefundTypes, ClerksFit
<1>2. /\ UNCHANGED <<money, orderLock, lockLost, acked, recordVars, bounced, blurred>>
      /\ refundFaults' = refundFaults \/ refundFaults' = refundFaults + 1
      /\ clerk[p].pc = "execute" /\ clerk[p].kind = "return" /\ Refunding(p) /\ ~Owes(p)
  BY <1>1 DEF ExecuteRefund, RefundFault, NoRefundFault, KindFits, Refunding, Owes, Unrecorded
<1>3. /\ \A q \in Clerks \ {p} : clerk'[q] = clerk[q]
      /\ clerk'[p].pc = "settle" /\ clerk'[p].kind = "return"
      /\ clerk'[p].amount = clerk[p].amount /\ clerk'[p].ack = clerk[p].ack
  BY <1>1, <1>2 DEF ExecuteRefund, ClerksOK, ClerkStates
<1>4. CeilingInv'
  BY <1>1, <1>2, <1>3, CeilingFrame DEF MoneyTypes
<1>5. ASSUME Smooth' PROVE RecordsMoved' /\ ReturnsAreCleared' /\ Balance'
  <2>1. Smooth /\ refundFaults' = refundFaults
    BY <1>1, <1>2, <1>5 DEF Smooth, MoneyTypes
  <2>2. RecordsMoved /\ ReturnsAreCleared /\ Balance
    BY <1>1, <2>1 DEF BalanceInv
  <2>3. RecordsMoved'
    BY <1>2, <2>2 DEF RecordsMoved, Moved
  <2>4. ReturnsAreCleared'
    BY <1>2, <1>3, <2>2 DEF ReturnsAreCleared, Cleared, Unrecorded, Moved
  <2>5. \A q \in Clerks \ {p} : ~Owes(q) /\ ~Owes(q)'
    BY <1>1, <1>2, <1>3, <2>1, OneOwes DEF Owes, Unrecorded
  <2>6. paidOut + direct <= recorded
    BY <1>2, <2>2, <2>5 DEF Balance
  <2>7. clerk[p].amount \in Nat /\ recorded \in Nat /\ paidOut \in Nat /\ direct \in Nat
    BY <1>1 DEF ClerksOK, ClerkStates, RefundTypes, MoneyTypes
  <2>8. \/ paidOut' \in {paidOut, paidOut + clerk[p].amount} /\ Owes(p)'
        \/ paidOut' = paidOut /\ ~Owes(p)'
    <3>1. ASSUME NEW state \in Answers, clerk' = [clerk EXCEPT ![p].pc = "settle", ![p].answer = state]
          PROVE  clerk'[p].answer = state
      BY <1>1, <3>1 DEF ClerksOK, ClerkStates
    <3>2. \/ clerk'[p].answer \in {"refunded", "triggered"}
          \/ clerk'[p].answer = "denied" /\ PayNothing(clerk[p].lines)
      <4>1. ~RefundFault
        BY <2>1, <2>7, <1>1 DEF RefundFault, MoneyTypes
      <4> QED BY <3>1, <4>1 DEF ExecuteRefund, Answers
    <3>3. paidOut' \in {paidOut, paidOut + clerk[p].amount}
      BY DEF ExecuteRefund, Pay, PayNothing
    <3>4. PayNothing(clerk[p].lines) => paidOut' = paidOut
      BY DEF PayNothing
    <3> QED BY <1>3, <3>2, <3>3, <3>4 DEF Owes, Unrecorded, MovesMoney
  <2>9. Balance'
    BY <1>2, <1>3, <2>5, <2>6, <2>7, <2>8 DEF Balance
  <2> QED BY <2>3, <2>4, <2>9
<1> QED BY <1>4, <1>5 DEF BalanceInv

(* What the source answered is written to the lines of the attempt.            *)
LEMMA SettleStep ==
  ASSUME MoneyInv, MoneyTypes', ClerksFit', NEW p \in Clerks, Settle(p)
  PROVE  CeilingInv' /\ BalanceInv'
<1> USE DEF ClerkAt, recordVars, lockVars, refundHistory
<1>1. /\ RefundTypes /\ ClerksOK /\ MoneyTypes /\ CeilingInv /\ BalanceInv /\ ClerksFit
      /\ KindFits(clerk[p]) /\ AnswerFits(clerk[p])
  BY DEF MoneyInv, RefundInv, RefundTypes, ClerksFit
<1>2. /\ UNCHANGED <<orderLock, lockLost, acked, recordVars, bounced, blurred, paidOut>>
      /\ refundFaults' = refundFaults \/ refundFaults' = refundFaults + 1
      /\ clerk[p].pc = "settle" /\ clerk[p].kind = "return" /\ Refunding(p)
  BY <1>1 DEF Settle, RefundFault, NoRefundFault, KindFits, Refunding
<1>3. /\ \A q \in Clerks \ {p} : clerk'[q] = clerk[q]
      /\ clerk'[p].pc = "unlockReturn" /\ clerk'[p].kind = "return" /\ clerk'[p].lines = clerk[p].lines
      /\ clerk'[p].amount = clerk[p].amount /\ clerk'[p].ack = clerk[p].ack
      /\ clerk'[p].return = clerk[p].return
  BY <1>1, <1>2 DEF Settle, ClerkGoto, ClerksOK, ClerkStates
<1>4. CeilingInv'
  BY <1>1, <1>2, <1>3, CeilingFrame DEF MoneyTypes
<1>5. CASE ~Smooth'
  BY <1>4, <1>5 DEF BalanceInv
<1>6. CASE Smooth'
  <2>1. Smooth /\ refundFaults' = refundFaults
    BY <1>1, <1>2, <1>6 DEF Smooth, MoneyTypes
  <2>2. ~RefundFault
    BY <1>1, <2>1 DEF RefundFault, MoneyTypes
  <2>3. SettleLines(clerk[p].lines, clerk[p].answer, {"in_doubt"}) /\ clerk'[p].answer = clerk[p].answer
    BY <1>1, <2>2, ClerkGoesOn DEF Settle, ClerkPcs
  <2>4. /\ \A l \in clerk[p].lines : money[l] = "in_doubt"
        /\ clerk[p].lines \subseteq ReturnLines /\ clerk[p].lines # {} /\ clerk[p].return \in Returns \cup {0}
    BY <1>1, <1>2, <2>1
    DEF MoneyInv, RefundInv, AttemptsInDoubt, Attempts, Smooth, RefundTypes, ClerksOK, ClerkStates,
       AnswerFits
  <2>5. \A l \in ReturnLines : money'[l] = IF l \in clerk[p].lines THEN clerk[p].answer ELSE money[l]
    BY <2>3, <2>4 DEF SettleLines
  <2>6. \A l \in ReturnLines : MovesMoney(money[l]) => MovesMoney(money'[l])
    BY <2>4, <2>5 DEF MovesMoney
  <2>7. /\ Owes(p)' <=> Owes(p)
        /\ Unrecorded(p)' => MovesMoney(clerk[p].answer)
    BY <1>2, <1>3, <2>3 DEF Owes, Unrecorded
  <2>8. RecordKey(clerk[p].return, clerk[p].lines) \notin recordKeys
    BY <1>1, <2>1, <2>4 DEF BalanceInv, RecordsMoved, Moved, MovesMoney
  <2>9. MovesMoney(clerk[p].answer) => Moved(clerk[p].lines)'
    BY <1>3, <2>4, <2>5 DEF Moved
  <2>10. Cleared(p)'
    <3>1. Cleared(p)
      BY <1>1, <1>2, <2>1 DEF BalanceInv, ReturnsAreCleared
    <3> QED BY <1>2, <1>3, <3>1 DEF Cleared
  <2>11. BalanceInv'
    BY <1>1, <1>2, <1>3, <2>1, <2>6, <2>7, <2>8, <2>9, <2>10, BalanceFrame
  <2> QED BY <1>4, <2>11
<1> QED BY <1>5, <1>6

(* The record is written: by who has the order's lock, of what it read there.  *)
LEMMA RecordingStep ==
  ASSUME KeysApart, MoneyInv, MoneyTypes', ClerksFit', NEW p \in Clerks, CreateRecord(p)
  PROVE  CeilingInv' /\ BalanceInv'
<1> USE DEF ClerkAt, lineVars, lockVars, refundHistory
<1> DEFINE key == clerk[p].key
           amount == clerk[p].amount
           seen == clerk[p].seen
<1>1. /\ RefundTypes /\ ClerksOK /\ MoneyTypes /\ CeilingInv /\ BalanceInv /\ ClerksFit
      /\ KindFits(clerk[p]) /\ AnswerFits(clerk[p]) /\ DirectFits(clerk[p])
  BY DEF MoneyInv, RefundInv, RefundTypes, ClerksFit
<1>2. /\ UNCHANGED <<money, orderLock, lockLost, bounced, blurred, paidOut>>
      /\ refundFaults' = refundFaults \/ refundFaults' = refundFaults + 1
      /\ clerk[p].pc = "create" /\ clerk[p].kind \in {"return", "direct"} /\ Refunding(p)
  BY <1>1 DEF CreateRecord, RefundFault, NoRefundFault, KindFits, Refunding
<1>3. /\ \A q \in Clerks \ {p} : clerk'[q] = clerk[q]
      /\ clerk'[p].pc = "unlockOrder" /\ clerk'[p].kind = "none"
  BY <1>1, FitsLeave DEF CreateRecord
<1>4. amount \in Nat /\ seen \in Nat /\ recorded \in Nat /\ paidOut \in Nat /\ direct \in Nat
  BY <1>1 DEF ClerksOK, ClerkStates, RefundTypes, MoneyTypes
<1>5. \/ /\ Allowed(p, seen) /\ key \notin recordKeys
         /\ recordKeys' = recordKeys \cup ({key} \ {NoKey})
         /\ recorded' = recorded + amount
         /\ direct' = IF clerk[p].kind = "direct" THEN direct + amount ELSE direct
         /\ ~acked' => ~acked /\ ~(seen + amount > Total)
      \/ /\ ~Allowed(p, seen) \/ key \in recordKeys \/ refundFaults' # refundFaults
         /\ UNCHANGED <<recordKeys, recorded, direct, acked>>
  <2>1. RefundFault => refundFaults' # refundFaults
    BY <1>1 DEF RefundFault, MoneyTypes
  <2>2. acked' = (acked \/ seen + amount > Total) => (~acked' => ~acked /\ ~(seen + amount > Total))
    BY Zenon
  <2> QED BY <2>1, <2>2, Zenon DEF CreateRecord, recordVars
<1>6. ~lockLost => /\ seen = recorded /\ orderLock = p
                   /\ \A q \in Clerks \ {p} : ~Refunding(q) /\ ~Owes(q)
  <2>1. \A q \in Clerks : Owes(q) => Refunding(q)
    BY <1>1 DEF Owes, Unrecorded, Refunding, ClerksFit, KindFits
  <2> QED BY <1>1, <1>2, <2>1 DEF CeilingInv, OrderIsLocked, SumIsCurrent
<1>7. CeilingInv'
  <2>1. (lockLost => refundFaults > 0)'
    BY <1>1, <1>2 DEF CeilingInv, MoneyTypes
  <2>2. ASSUME ~lockLost PROVE OrderIsLocked' /\ SumIsCurrent'
    <3>1. \A q \in Clerks \ {p} : clerk[q].pc # "create"
      BY <1>1, <1>6, <2>2 DEF Refunding, ClerksFit, KindFits
    <3> QED BY <1>1, <1>2, <1>3, <2>2, <3>1 DEF CeilingInv, OrderIsLocked, SumIsCurrent, Refunding
  <2>3. ASSUME ~lockLost, ~acked' PROVE recorded' <= Total
    <3>1. ~acked
      BY <1>5, <2>3
    <3>2. recorded <= Total
      BY <1>1, <2>3, <3>1 DEF CeilingInv
    <3> QED BY <1>4, <1>5, <1>6, <2>3, <3>2, RefundAssumption
  <2> QED BY <1>2, <2>1, <2>2, <2>3 DEF CeilingInv
<1>8. ASSUME Smooth' PROVE RecordsMoved' /\ ReturnsAreCleared' /\ Balance'
  <2>1. Smooth /\ refundFaults' = refundFaults /\ ~lockLost
    BY <1>1, <1>2, <1>8 DEF Smooth, MoneyTypes, CeilingInv
  <2>2. RecordsMoved /\ ReturnsAreCleared /\ Balance
    BY <1>1, <2>1 DEF BalanceInv
  <2>3. \A q \in Clerks : ~Owes(q)' /\ clerk'[q].kind # "return"
    <3>1. \A q \in Clerks \ {p} : clerk[q].kind # "return"
      BY <1>1, <1>6, <2>1 DEF Refunding, ClerksFit, KindFits
    <3> QED BY <1>3, <1>6, <2>1, <3>1 DEF Owes, Unrecorded
  <2>4. ReturnsAreCleared'
    BY <2>3 DEF ReturnsAreCleared, Unrecorded
  <2>5. CASE clerk[p].kind = "return"
    <3>1. /\ Unrecorded(p) /\ Owes(p) /\ key = RecordKey(clerk[p].return, clerk[p].lines)
          /\ clerk[p].lines # {} /\ clerk[p].lines \subseteq ReturnLines
      BY <1>1, <1>2, <2>5 DEF AnswerFits, Unrecorded, Owes, ClerksOK, ClerkStates
    <3>2. Cleared(p) /\ Moved(clerk[p].lines) /\ key \notin recordKeys
      BY <1>2, <2>2, <2>5, <3>1 DEF ReturnsAreCleared
    <3>3. Allowed(p, seen)
      BY <1>6, <2>1, <3>2 DEF Allowed, Cleared
    <3>4. /\ recordKeys' \subseteq recordKeys \cup {key} /\ direct' = direct
          /\ recorded' = recorded + amount
      BY <1>4, <1>5, <2>1, <2>5, <3>2, <3>3
    <3>5. RecordsMoved'
      <4> SUFFICES ASSUME NEW r \in Returns \cup {0}, NEW ls \in SUBSET ReturnLines, RecordKey(r, ls) \in recordKeys'
                   PROVE  ls # {} /\ Moved(ls)'
        BY DEF RecordsMoved, RecordKey
      <4>1. CASE RecordKey(r, ls) \in recordKeys
        BY <1>2, <2>2, <4>1 DEF RecordsMoved, Moved
      <4>2. CASE RecordKey(r, ls) = key
        <5>1. ls = clerk[p].lines
          BY <3>1, <4>2 DEF RecordKey
        <5> QED BY <1>2, <3>1, <3>2, <5>1 DEF Moved
      <4> QED BY <3>4, <4>1, <4>2
    <3>6. paidOut + direct <= recorded + amount
      BY <2>2, <3>1 DEF Balance
    <3> QED BY <1>2, <2>3, <2>4, <3>4, <3>5, <3>6 DEF Balance
  <2>6. CASE clerk[p].kind = "direct"
    <3>1. ~Owes(p) /\ key \in DirectKeys \cup {NoKey}
      BY <1>1, <1>2, <2>6 DEF Owes, Unrecorded, DirectFits
    <3>2. paidOut + direct <= recorded
      BY <1>6, <2>1, <2>2, <3>1 DEF Balance
    <3>3. paidOut + direct' <= recorded'
      BY <1>4, <1>5, <2>6, <3>2
    <3>4. recordKeys' \subseteq recordKeys \cup DirectKeys
      BY <1>5, <3>1
    <3>5. RecordsMoved'
      BY <1>2, <2>2, <3>4 DEF RecordsMoved, Moved, KeysApart, RecordKey
    <3> QED BY <1>2, <2>3, <2>4, <3>3, <3>5 DEF Balance
  <2> QED BY <1>2, <2>5, <2>6
<1> QED BY <1>7, <1>8 DEF BalanceInv

LEMMA MoneyInitInv == RefundInit => MoneyInv
<1> SUFFICES ASSUME RefundInit PROVE MoneyInv
  OBVIOUS
<1> USE RefundAssumption DEF RefundInit
<1>1. RefundInv
  BY RefundInitInv
<1>2. MoneyTypes
  BY DEF MoneyTypes
<1>3. \A p \in Clerks : clerk[p] = FreeClerk
  OBVIOUS
<1>4. FreeClerk.pc = "idle" /\ FreeClerk.kind = "none" /\ FreeClerk.answer = "none"
  BY DEF FreeClerk
<1> HIDE DEF RefundInit
<1>5. ClerksFit
  BY <1>3, <1>4 DEF ClerksFit, KindFits, AnswerFits, DirectFits, MovesMoney
<1>6. CeilingInv
  BY <1>3, <1>4 DEF RefundInit, CeilingInv, OrderIsLocked, SumIsCurrent, Refunding
<1>7. RecordsMoved /\ ReturnsAreCleared /\ Balance
  BY <1>3, <1>4 DEF RefundInit, RecordsMoved, ReturnsAreCleared, Balance, Owes, Unrecorded
<1> QED BY <1>1, <1>2, <1>5, <1>6, <1>7 DEF MoneyInv, BalanceInv

LEMMA MoneyStepInv == KeysApart /\ MoneyInv /\ [RefundNext]_refundVars => MoneyInv'
<1> SUFFICES ASSUME KeysApart, MoneyInv, [RefundNext]_refundVars PROVE MoneyInv'
  OBVIOUS
<1>1. RefundInv' /\ MoneyTypes' /\ ClerksFit'
  BY RefundStepInv, MoneyTypesStep, FitsStep DEF MoneyInv, RefundInv, RefundTypes
<1>2. CeilingInv' /\ BalanceInv'
  BY <1>1, PlainSteps, OutsideSteps, OrderLockSteps, ObserveAndCrashSteps, ClaimingStep, ExecuteStep, SettleStep,
     RecordingStep DEF RefundNext
<1> QED BY <1>1, <1>2 DEF MoneyInv

(* For any requests, returns, lines, amounts and keys: what is recorded stays  *)
(* within the order's total unless somebody acknowledged more or the order's   *)
(* lock ended under a request; and while nothing fails, every refund that moved*)
(* money is recorded when its request ends, and money and records together stay*)
(* within the total (triggerRefund, recordRefundLocked, decideRefundCeiling).  *)
(* A client may not choose the key of a return's record.                       *)
THEOREM RefundsAreRecorded == ASSUME KeysApart PROVE RefundSpec => []MoneyMatchesRecords
<1>1. MoneyInv => MoneyMatchesRecords
  <2> SUFFICES ASSUME MoneyInv PROVE CeilingHolds /\ MoneyIsRecorded
    BY DEF MoneyMatchesRecords
  <2>1. /\ CeilingInv /\ BalanceInv
        /\ recorded \in Nat /\ paidOut \in Nat /\ direct \in Nat /\ Total \in Nat
        /\ \A p \in Clerks : clerk[p].amount \in Nat
    BY RefundAssumption DEF MoneyInv, RefundInv, RefundTypes, MoneyTypes, ClerksOK, ClerkStates
  <2>2. ~acked /\ ~lockLost => recorded <= Total
    BY <2>1 DEF CeilingInv
  <2>3. ASSUME Smooth, ~acked, \A p \in Clerks : ~clerk[p].ack PROVE paidOut + direct <= Total
    <3>1. CASE \A p \in Clerks : ~Owes(p)
      BY <2>1, <2>2, <2>3, <3>1 DEF BalanceInv, Balance, CeilingInv, Smooth
    <3>2. CASE \E p \in Clerks : Owes(p)
      <4>1. PICK p \in Clerks : Owes(p)
        BY <3>2
      <4>2. clerk[p].kind = "return" /\ clerk[p].pc # "context"
        BY <4>1 DEF Owes, Unrecorded, MoneyInv, ClerksFit, KindFits
      <4>3. Cleared(p) /\ paidOut + direct <= recorded + clerk[p].amount
        BY <2>1, <2>3, <4>1, <4>2 DEF BalanceInv, ReturnsAreCleared, Balance
      <4> QED BY <2>1, <2>3, <4>3 DEF Cleared
    <3> QED BY <3>1, <3>2
  <2>4. ASSUME Smooth, \A p \in Clerks : ClerkAt(p, "idle") PROVE recorded - direct >= paidOut
    <3>1. \A p \in Clerks : ~Owes(p)
      BY <2>4 DEF ClerkAt, Owes, Unrecorded
    <3> QED BY <2>1, <2>4, <3>1 DEF BalanceInv, Balance
  <2> QED BY <2>2, <2>3, <2>4 DEF CeilingHolds, MoneyIsRecorded, Smooth
<1> QED BY <1>1, MoneyInitInv, MoneyStepInv, PTL DEF RefundSpec
=============================================================================

----------------------------- MODULE MCLockedWork -----------------------------
(* One instance for TLC of the modules about work done under a lock of Redis    *)
(* whose TTL runs on: the scheduler's lease, the catalog sweep, the sale        *)
(* decrement, routing, the create at a destination, the slots of the limiter;   *)
(* and the webhook gate, whose lock is a transaction.  They share no state, so  *)
(* `focus` picks one of them at the start and the others stand still; the same  *)
(* two processes work in each.                                                  *)
EXTENDS SingletonLease, CatalogSweep, SaleDecrement, RoutingCommit, OrderCreate, WebhookGate,
        RateLimiter, TLC

CONSTANTS p1, p2, t1, t2, t3, t4, e1, r1, r2

VARIABLE focus

(* A line with one work and an edit; a line of two works.                       *)
OneWorkLine == [qty |-> 1 :> 2, edits |-> e1 :> 1]
TwoWorkLine == [qty |-> 1 :> 1 @@ 2 :> 1, edits |-> <<>>]
Lines == {OneWorkLine, TwoWorkLine}

(* A caller of the limiter is the only one of its process.                      *)
OwnHome == [p \in {p1, p2} |-> p]

(* Slots only; neither; slots and a pace.                                       *)
SlotsAndPaces ==
  {[cap |-> 1, interval |-> 0], [cap |-> 0, interval |-> 0], [cap |-> 1, interval |-> 2]}

MCInit ==
  /\ focus \in {"lease", "sweep", "sale", "route", "create", "gate", "limit"}
  /\ Init /\ SweepInit /\ SaleInit /\ RouteInit /\ CreateInit /\ GateInit /\ LimiterInit
  /\ focus # "sale" => saleCase = OneWorkLine
  /\ focus # "create" => adapterDedups
  /\ focus # "gate" => gateRouted
  /\ focus # "limit" => policy.cap = 0

MCNext ==
  \/ focus = "lease" /\ Next
     /\ UNCHANGED <<focus, sweepVars, saleVars, routeVars, createVars, gateVars, limiterVars>>
  \/ focus = "sweep" /\ SweepNext
     /\ UNCHANGED <<focus, vars, saleVars, routeVars, createVars, gateVars, limiterVars>>
  \/ focus = "sale" /\ SaleNext
     /\ UNCHANGED <<focus, vars, sweepVars, routeVars, createVars, gateVars, limiterVars>>
  \/ focus = "route" /\ RouteNext
     /\ UNCHANGED <<focus, vars, sweepVars, saleVars, createVars, gateVars, limiterVars>>
  \/ focus = "create" /\ CreateNext
     /\ UNCHANGED <<focus, vars, sweepVars, saleVars, routeVars, gateVars, limiterVars>>
  \/ focus = "gate" /\ GateNext
     /\ UNCHANGED <<focus, vars, sweepVars, saleVars, routeVars, createVars, limiterVars>>
  \/ focus = "limit" /\ LimiterNext
     /\ UNCHANGED <<focus, vars, sweepVars, saleVars, routeVars, createVars, gateVars>>

MCSpec ==
  MCInit /\ [][MCNext]_<<focus, vars, sweepVars, saleVars, routeVars, createVars, gateVars, limiterVars>>

(* Every module's state is what it says: no cursor beyond the list, quantities  *)
(* within the stock, a transaction within its jobs, times within their bounds,  *)
(* ages of slots within their lifetime.                                         *)
LockedTypeOK ==
  CASE focus = "lease" -> TypeOK
    [] focus = "sweep" -> SweepTypeOK
    [] focus = "sale" -> SaleTypeOK
    [] focus = "route" -> RouteTypeOK
    [] focus = "create" -> CreateTypeOK
    [] focus = "gate" -> GateTypeOK
    [] focus = "limit" -> LimiterTypeOK

(* A strained cycle is not followed any further: README, "Bounds".              *)
Unstrained == strained = {}

(* Nor, where there are slots, both a Retry-After and a fault, or two of either. *)
FewEvents == policy.cap > 0 => retryAfters + limitFaults <= 1

Symmetry == Permutations(Procs)
=============================================================================

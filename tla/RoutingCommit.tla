---------------------------- MODULE RoutingCommit ----------------------------
(* Routing one order: RoutingCommitService.route, which asks an external router*)
(* for a plan under a claimed decision and commits the works of the plan, and  *)
(* RoutingDecisionReaperService.reapOne, which abandons a decision nobody      *)
(* finished.  Both work under the order's lock, whose TTL runs on; the call to *)
(* the router is held to half of it.  A decision's id is the key the router    *)
(* recognises a retry by.                                                      *)
(*                                                                             *)
(* Time is counted in ticks.  What a run does before the call (four queries)   *)
(* has no bound in the code; a run that took longer than Preamble is `slow`.   *)
EXTENDS Naturals

CONSTANTS
  RouteProcs,     \* executions of the route and reap jobs at a time
  Routers,        \* connections that may be the primary router
  MaxDecisions,   \* bound: rows of routing_decisions for the order
  RouteTTL,       \* FULFILLMENT_ROUTE_LOCK_TTL_MS
  Preamble,       \* ticks from the lock to the call that leave room for it
  MaxRouteFaults, \* bound: crashes and failing calls
  NoRouteProc, NoRouter

RouteBudget == RouteTTL \div 2   \* FULFILLMENT_ROUTE_TIMEOUT_MS

ASSUME RouteAssumption ==
  /\ NoRouteProc \notin RouteProcs /\ NoRouter \notin Routers
  /\ MaxDecisions \in Nat /\ MaxRouteFaults \in Nat
  /\ RouteTTL \in Nat /\ Preamble \in Nat
  /\ Preamble + RouteBudget < RouteTTL

VARIABLES
  decisions,      \* per id, handed out in order: state and router
  routeWorks,     \* per decision: how often works were committed for it
  routeGone,      \* decisions whose works are cancelled
  routeCancelled, \* the order is cancelled
  routeLock,      \* the execution that has the order's lock
  routeLockAge,   \* ticks since it was taken
  routeJob,       \* per execution: where it is, router, decision, ticks of the call
  routeSlow,      \* a run has been slow
  routeFaults

routeVars == <<decisions, routeWorks, routeGone, routeCancelled, routeLock, routeLockAge,
               routeJob, routeSlow, routeFaults>>
routeOrder == <<routeWorks, routeGone, routeCancelled>>
routeClock == <<routeLock, routeLockAge, routeSlow>>

DecisionIds == 1..MaxDecisions
NoDecision == 0
IdleRoute == [pc |-> "idle", router |-> NoRouter, id |-> NoDecision, spent |-> 0]

RouteInit ==
  /\ decisions = [d \in DecisionIds |-> [state |-> "none", router |-> NoRouter]]
  /\ routeWorks = [d \in DecisionIds |-> 0]
  /\ routeGone = {}
  /\ routeCancelled = FALSE
  /\ routeLock = NoRouteProc
  /\ routeLockAge = 0
  /\ routeJob = [p \in RouteProcs |-> IdleRoute]
  /\ routeSlow = FALSE
  /\ routeFaults = 0

RouteFault == routeFaults < MaxRouteFaults /\ routeFaults' = routeFaults + 1
RouteAt(p, pc) == routeJob[p].pc = pc
RouteGoto(p, pc) == routeJob' = [routeJob EXCEPT ![p].pc = pc]

IsLive(d) == decisions[d].state = "live"
NothingLive == \A d \in DecisionIds : ~IsLive(d)
StandingWorks == \E d \in DecisionIds : routeWorks[d] > 0 /\ d \notin routeGone

-----------------------------------------------------------------------------
(* The handler picked the primary router of the moment; the reaper read a      *)
(* decision that is live.  Its cutoff is left out: any age will do.            *)
StartRoute(p) ==
  /\ RouteAt(p, "idle")
  /\ \E r \in Routers :
       routeJob' = [routeJob EXCEPT ![p] = [IdleRoute EXCEPT !.pc = "lock", !.router = r]]
  /\ UNCHANGED <<decisions, routeOrder, routeClock, routeFaults>>

StartReap(p) ==
  /\ RouteAt(p, "idle")
  /\ \E d \in DecisionIds :
       /\ IsLive(d)
       /\ routeJob' = [routeJob EXCEPT ![p] = [IdleRoute EXCEPT !.pc = "reapLock", !.id = d]]
  /\ UNCHANGED <<decisions, routeOrder, routeClock, routeFaults>>

(* A lock that is taken ends the run: contended, or busy.                      *)
RouteLockFree_ReapAnyway(p) == routeLock = NoRouteProc \/ RouteAt(p, "reapLock")
RouteLockFree(p) == routeLock = NoRouteProc
TakeRouteLock(p) ==
  /\ RouteAt(p, "lock") \/ RouteAt(p, "reapLock")
  /\ IF RouteLockFree(p)
       THEN /\ routeLock' = p /\ routeLockAge' = 0
            /\ RouteGoto(p, IF RouteAt(p, "lock") THEN "check" ELSE "reap")
       ELSE /\ routeJob' = [routeJob EXCEPT ![p] = IdleRoute]
            /\ UNCHANGED <<routeLock, routeLockAge>>
  /\ UNCHANGED <<decisions, routeOrder, routeFaults, routeSlow>>

(* isCancelled, read again under the lock.                                     *)
CheckCancelled(p) ==
  /\ RouteAt(p, "check")
  /\ RouteGoto(p, IF routeCancelled THEN "unlock" ELSE "live")
  /\ UNCHANGED <<decisions, routeOrder, routeClock, routeFaults>>

(* findLiveByOrderId: this router's decision is resumed, another's refused.    *)
(* Read again after a refused claim, nothing live means it is routed by now.   *)
FindLive(p) ==
  /\ RouteAt(p, "live") \/ RouteAt(p, "liveAgain")
  /\ \/ \E d \in DecisionIds :
          /\ IsLive(d)
          /\ routeJob' = [routeJob EXCEPT ![p] =
               IF decisions[d].router = @.router THEN [@ EXCEPT !.pc = "await", !.id = d]
                                                 ELSE [@ EXCEPT !.pc = "unlock"]]
     \/ NothingLive /\ RouteGoto(p, IF RouteAt(p, "live") THEN "works" ELSE "unlock")
  /\ UNCHANGED <<decisions, routeOrder, routeClock, routeFaults>>

(* A work that is not cancelled: the order is routed.                          *)
FindWorks(p) ==
  /\ RouteAt(p, "works")
  /\ RouteGoto(p, IF StandingWorks THEN "unlock" ELSE "claim")
  /\ UNCHANGED <<decisions, routeOrder, routeClock, routeFaults>>

(* claimIntent: at most one live row per order.  With no id left, which is the *)
(* bound's doing, the run ends.                                                *)
ClaimIntent(p) ==
  /\ RouteAt(p, "claim")
  /\ \/ /\ NothingLive
        /\ \E d \in DecisionIds :
             /\ decisions[d].state = "none" /\ \A e \in DecisionIds : e < d => decisions[e].state # "none"
             /\ decisions' = [decisions EXCEPT ![d] = [state |-> "live", router |-> routeJob[p].router]]
             /\ routeJob' = [routeJob EXCEPT ![p].pc = "await", ![p].id = d]
     \/ /\ ~NothingLive
        /\ RouteGoto(p, "liveAgain") /\ UNCHANGED decisions
     \/ /\ NothingLive /\ \A d \in DecisionIds : decisions[d].state # "none"
        /\ RouteGoto(p, "unlock") /\ UNCHANGED decisions
  /\ UNCHANGED <<routeOrder, routeClock, routeFaults>>

(* The router's answer within the budget: a plan that can be committed, or one *)
(* that is refused.  A timeout or an error leaves the decision live.           *)
RouterAnswers(p) ==
  /\ RouteAt(p, "await")
  /\ \/ \E pc \in {"commit", "refuse"} : RouteGoto(p, pc) /\ UNCHANGED routeFaults
     \/ RouteFault /\ RouteGoto(p, "unlock")
  /\ UNCHANGED <<decisions, routeOrder, routeClock>>

(* terminalise: a live decision only.                                          *)
Terminalises_AnyState(d, to) ==
  decisions' = [decisions EXCEPT ![d].state = to]
Terminalises(d, to) ==
  IsLive(d) /\ decisions' = [decisions EXCEPT ![d].state = to]

(* The works and `committed` in one transaction; a decision that is not live   *)
(* any more, or an error, rolls it back.                                       *)
CommitWorks(p) ==
  /\ RouteAt(p, "commit")
  /\ LET d == routeJob[p].id
     IN \/ /\ Terminalises(d, "committed")
           /\ routeWorks' = [routeWorks EXCEPT ![d] = @ + 1]
           /\ UNCHANGED routeFaults
        \/ ~IsLive(d) /\ UNCHANGED <<decisions, routeWorks, routeFaults>>
        \/ RouteFault /\ UNCHANGED <<decisions, routeWorks>>
  /\ RouteGoto(p, "unlock")
  /\ UNCHANGED <<routeGone, routeCancelled, routeClock>>

(* refuse: the router did answer.  reapOne: nobody holds the lock but us.      *)
Abandon(p) ==
  /\ RouteAt(p, "refuse") \/ RouteAt(p, "reap")
  /\ \/ Terminalises(routeJob[p].id, "abandoned") /\ UNCHANGED routeFaults
     \/ ~IsLive(routeJob[p].id) /\ UNCHANGED <<decisions, routeFaults>>
     \/ RouteFault /\ UNCHANGED decisions
  /\ RouteGoto(p, "unlock")
  /\ UNCHANGED <<routeOrder, routeClock>>

(* Compare-and-delete of the token.  A release that fails leaves the lock to   *)
(* its TTL, as a crash does.                                                   *)
ReleaseRouteLock(p) ==
  /\ RouteAt(p, "unlock")
  /\ routeLock' = IF routeLock = p THEN NoRouteProc ELSE routeLock
  /\ routeJob' = [routeJob EXCEPT ![p] = IdleRoute]
  /\ UNCHANGED <<decisions, routeOrder, routeLockAge, routeFaults, routeSlow>>

CrashRoute(p) ==
  /\ ~RouteAt(p, "idle") /\ RouteFault
  /\ routeJob' = [routeJob EXCEPT ![p] = IdleRoute]
  /\ UNCHANGED <<decisions, routeOrder, routeClock>>

(* The works of a decision are cancelled, by an operator or with the order.    *)
CancelWorks ==
  /\ \E d \in DecisionIds :
       routeWorks[d] > 0 /\ d \notin routeGone /\ routeGone' = routeGone \cup {d}
  /\ UNCHANGED <<decisions, routeWorks, routeCancelled, routeClock, routeJob, routeFaults>>

CancelRoutedOrder ==
  /\ ~routeCancelled
  /\ routeCancelled' = TRUE
  /\ UNCHANGED <<decisions, routeWorks, routeGone, routeClock, routeJob, routeFaults>>

(* A tick, for the lock and for every call.  The budget ends a call; nothing   *)
(* bounds what comes before it or after it, so the lock's TTL may end there.   *)
Preparing(p) == routeJob[p].pc \in {"check", "live", "works", "claim", "liveAgain", "reap"}
RouteTick ==
  /\ routeLock # NoRouteProc \/ \E p \in RouteProcs : RouteAt(p, "await")
  /\ \A p \in RouteProcs : RouteAt(p, "await") => routeJob[p].spent < RouteBudget
  /\ LET over == routeLockAge + 1 >= RouteTTL
     IN /\ routeLock' = IF over THEN NoRouteProc ELSE routeLock
        /\ routeLockAge' = IF over \/ routeLock = NoRouteProc THEN 0 ELSE routeLockAge + 1
  /\ routeSlow' = (routeSlow \/ \E p \in RouteProcs : Preparing(p) /\ routeLockAge >= Preamble)
  /\ routeJob' = [p \in RouteProcs |-> IF RouteAt(p, "await") THEN [routeJob[p] EXCEPT !.spent = @ + 1]
                                                              ELSE routeJob[p]]
  /\ UNCHANGED <<decisions, routeOrder, routeFaults>>

RouteNext ==
  \/ \E p \in RouteProcs :
       \/ StartRoute(p) \/ StartReap(p) \/ TakeRouteLock(p) \/ CheckCancelled(p) \/ FindLive(p)
       \/ FindWorks(p) \/ ClaimIntent(p) \/ RouterAnswers(p) \/ CommitWorks(p) \/ Abandon(p)
       \/ ReleaseRouteLock(p) \/ CrashRoute(p)
  \/ CancelWorks \/ CancelRoutedOrder \/ RouteTick

RouteSpec == RouteInit /\ [][RouteNext]_routeVars

-----------------------------------------------------------------------------
RoutePcs == {"idle", "lock", "reapLock", "check", "live", "liveAgain", "works", "claim", "await",
             "commit", "refuse", "reap", "unlock"}

RouteTypeOK ==
  /\ decisions \in [DecisionIds -> [state : {"none", "live", "committed", "abandoned"},
                                    router : Routers \cup {NoRouter}]]
  /\ routeWorks \in [DecisionIds -> Nat]
  /\ routeGone \subseteq DecisionIds
  /\ routeCancelled \in BOOLEAN
  /\ routeLock \in RouteProcs \cup {NoRouteProc}
  /\ routeLockAge \in Nat
  /\ routeJob \in [RouteProcs -> [pc : RoutePcs, router : Routers \cup {NoRouter},
                                  id : DecisionIds \cup {NoDecision}, spent : Nat]]
  /\ routeSlow \in BOOLEAN
  /\ routeFaults \in Nat

(* An order is shipped once: works stand for one decision at most, and were    *)
(* committed for it once, whichever runs resumed it, outlived their lock, were *)
(* refused, reaped or crashed.  When a run was slow the lock may have gone to  *)
(* another before the claim, and only the latter is sure.                      *)
RouteShipsOnce ==
  /\ \A d \in DecisionIds : routeWorks[d] <= 1
  /\ ~routeSlow => \A d, e \in DecisionIds \ routeGone : routeWorks[d] > 0 /\ routeWorks[e] > 0 => d = e

(* No second key: unless a run was slow, two runs never wait for the router    *)
(* under different keys, and while one waits nobody is about to reap.  (A late *)
(* run of the same decision may well commit or refuse it meanwhile.)           *)
RouteKeysApart ==
  ~routeSlow => \A p, q \in RouteProcs : RouteAt(p, "await") =>
    /\ RouteAt(q, "await") => routeJob[q].id = routeJob[p].id
    /\ ~RouteAt(q, "reap")
(* One order, one routing: neither two sets of works nor two keys at the router.*)
RoutedOnce == RouteShipsOnce /\ RouteKeysApart
=============================================================================

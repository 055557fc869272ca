---------------------------- MODULE StockAccount ----------------------------
(* What the reservation ledger promises: a transaction on the holds of an     *)
(* order happens at once.  The order's claims are booked together, out of     *)
(* units that are on offer; a hold ends on its own, for good as far as its    *)
(* record goes; and the counter of a position follows both.  Nothing is said  *)
(* of calls, statements, locks, deadlocks, failures or restarts.              *)
EXTENDS Integers, FiniteSets, FiniteSetsExt

CONSTANTS
  Orders, Positions,
  Keys,    \* an order, one of its lines and a position
  NoHold

VARIABLES
  offered,   \* per position the units that may be promised
  reserved,  \* per position the units counted as reserved
  held,      \* per key a hold, with its quantity and stamp, or NoHold
  closed     \* the keys of holds that have ended

vars == <<offered, reserved, held, closed>>

Booked(h, p) == MapThenSumSet(LAMBDA k : h[k].qty, {k \in Keys : k[3] = p})
Promised(h, p) ==
  MapThenSumSet(LAMBDA k : h[k].qty, {k \in Keys : k[3] = p /\ h[k].stamp = "published"})

Init ==
  /\ reserved = [p \in Positions |-> 0]
  /\ held = [k \in Keys |-> NoHold]
  /\ closed = {}

Books == reserved' = [p \in Positions |-> reserved[p] + Booked(held', p) - Booked(held, p)]

(* Holds of one order come or change together.  What is held stays, as visible *)
(* to the channels as it was.                                                  *)
Claim(o) ==
  /\ \A k \in Keys : held'[k] # held[k] => k[1] = o
  /\ \A k \in Keys : held[k] # NoHold => held'[k] # NoHold /\ held'[k].stamp = held[k].stamp
  /\ \A p \in Positions : Promised(held', p) > Promised(held, p) => Promised(held', p) <= offered[p]
  /\ Books
  /\ UNCHANGED <<offered, closed>>

End(k) ==
  /\ held[k] # NoHold
  /\ held' = [held EXCEPT ![k] = NoHold]
  /\ closed' = closed \cup {k}
  /\ Books
  /\ UNCHANGED offered

Restock(p) ==
  /\ UNCHANGED <<held, closed, reserved>>
  /\ \A q \in Positions \ {p} : offered'[q] = offered[q]

Next ==
  \/ \E p \in Positions : Restock(p)
  \/ \E o \in Orders : Claim(o)
  \/ \E k \in Keys : End(k)

Spec == Init /\ [][Next]_vars
=============================================================================

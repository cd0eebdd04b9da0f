--------------------------- MODULE ParkingLedger ---------------------------
(***************************************************************************)
(* What the parking component promises a car park: a plate that enters has *)
(* one stay, a stay ends once and for good, and an entry read of a plate   *)
(* that is already in does not start another.                              *)
(***************************************************************************)
CONSTANTS Plates, Sids

VARIABLES
  open,   \* plate -> stays without an exit
  done    \* plate -> stays that ended

ledgerVars == <<open, done>>

Known == UNION {open[p] \cup done[p] : p \in Plates}

LedgerInit ==
  /\ open = [p \in Plates |-> {}]
  /\ done = [p \in Plates |-> {}]

Enter(p, s) ==
  /\ open[p] = {}
  /\ s \notin Known
  /\ open' = [open EXCEPT ![p] = {s}]
  /\ UNCHANGED done

Leave(p, s) ==
  /\ s \in open[p]
  /\ open' = [open EXCEPT ![p] = @ \ {s}]
  /\ done' = [done EXCEPT ![p] = @ \cup {s}]

(* the site is deleted with everything recorded for it *)
Forget ==
  /\ open' = [p \in Plates |-> {}]
  /\ done' = [p \in Plates |-> {}]

LedgerNext ==
  \/ \E p \in Plates, s \in Sids : Enter(p, s) \/ Leave(p, s)
  \/ Forget

LedgerSpec == LedgerInit /\ [][LedgerNext]_ledgerVars
=============================================================================

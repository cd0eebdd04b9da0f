------------------------------- MODULE MCDesk -------------------------------
(* Finite instance of OperatorDesk.  Webhooks and labels are                *)
(* interchangeable.                                                         *)
EXTENDS OperatorDesk, TLC

MCSymmetry == Permutations(Hooks) \cup Permutations(Labels)

NoWebhooks ==
  /\ test = Idle
  /\ \A w \in Hooks : hook[w] = None
  /\ \A c \in Cams : cam[c] \notin FireState
NoReview == \A i \in Items : item[i].status = "pending" /\ i \notin odd /\ file[i] = None
NoList == walk = Idle /\ \A a \in DOMAIN alerts : alerts[a].status = "new"
OneCam == now = 0 /\ Cardinality({c \in Cams : cam[c] # Idle}) < 2

(* Deliveries, the alert list and the review share no variable but alerts,  *)
(* to which a delivery only appends before it begins: the states explored   *)
(* are those where two of the three are at rest.  Deliveries share only the *)
(* status code, so one camera delivers at a time.                           *)
MCOneConcern ==
  \/ NoWebhooks /\ NoReview
  \/ NoList /\ NoReview /\ OneCam
  \/ NoWebhooks /\ alerts = <<>> /\ now = 0
=============================================================================

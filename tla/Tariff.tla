------------------------------- MODULE Tariff -------------------------------
(***************************************************************************)
(* What a stay costs: _compute_charge, which parking_session.py and         *)
(* routers/parking.py each define.  Durations are seconds, the limits of a *)
(* tariff minutes; amounts are whole units of the currency.                *)
(***************************************************************************)
EXTENDS Integers, Sequences, FiniteSetsExt

Minute == 60
Hour == 60 * Minute

(* A tier charges once for a stay that reaches into it ("up_to_minutes"),   *)
(* or by the started hour, which ends the list ("per_hour", cap is          *)
(* max_per_day).                                                            *)
FlatTier == [kind: {"flat"}, upTo: Nat, charge: Nat]
HourTier == [kind: {"hour"}, rate: Nat, cap: Nat]

Rules == [grace: Nat, tiers: Seq(FlatTier \cup HourTier)]

(* prev_limit: where the tiers before tier i end                            *)
PrevLimit(tiers, i) == IF i = 1 THEN 0 ELSE tiers[i - 1].upTo * Minute

(* The loop gets to tier i: none before it breaks.                          *)
Reached(d, tiers, i) ==
  \A j \in 1 .. i - 1 : tiers[j].kind = "flat" /\ d > tiers[j].upTo * Minute

StartedHours(d) == (d + Hour - 1) \div Hour

(* What tier i adds for a stay of d *)
TierCharge(d, tiers, i) ==
  LET t == tiers[i]  from == PrevLimit(tiers, i) IN
  CASE d <= from -> 0
    [] d > from /\ t.kind = "flat" -> IF t.upTo * Minute > from THEN t.charge ELSE 0
    [] d > from /\ t.kind = "hour" ->
         LET hourly == t.rate * StartedHours(d - from)
         IN IF hourly < t.cap THEN hourly ELSE t.cap

(* _compute_charge *)
ComputeCharge(d, rules) ==
  IF d <= rules.grace * Minute THEN 0
  ELSE MapThenSumSet(LAMBDA i : TierCharge(d, rules.tiers, i),
                     {i \in DOMAIN rules.tiers : Reached(d, rules.tiers, i)})
=============================================================================

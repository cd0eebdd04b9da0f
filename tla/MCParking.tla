----------------------------- MODULE MCParking -----------------------------
(* Finite instance of ParkingSession with the charges of Tariff.            *)
EXTENDS ParkingSession, Tariff, TLC

(* A stay of d ticks lasts 20 + 45 d minutes: past the grace period and in  *)
(* the first tier at 0, in the hourly tier from 1 on.                       *)
StayOf(d) == (20 + 45 * d) * Minute

DayTariff ==
  [grace |-> 10,
   tiers |-> <<[kind |-> "flat", upTo |-> 60, charge |-> 40],
               [kind |-> "hour", rate |-> 30, cap |-> 300]>>]

MCTariffs == {DayTariff}

ASSUME MCTariffAssumption == MCTariffs \subseteq Rules

MCCharge(t, d) == IF t = NoTariff THEN 0 ELSE ComputeCharge(StayOf(d), t)

Symm == Permutations(EntryCams) \cup Permutations(ExitCams)
          \cup Permutations(Sids) \cup Permutations(Plates)
=============================================================================

------------------------------- MODULE MCTier -------------------------------
(* Instances of TierSubscription. *)
EXTENDS TierSubscription

(* 150% of every unit above 10, 10% of the first 10. *)
TwoRates == <<[amount |-> 10, rate |-> 150], [amount |-> 0, rate |-> 10]>>
TenPercent == {<<1, 10>>}
=============================================================================

----------------------------- MODULE TierCredit -----------------------------
(***************************************************************************)
(* How many credits a lock earns in x/tier: calculateCredit and            *)
(* calculateProratedCredit.                                                *)
(*                                                                         *)
(* Reward rates are a sequence of [amount, rate], the highest amount       *)
(* first; a rate is a percentage.  The products fit the code's decimals,   *)
(* so that only the truncation of each tier shows.                         *)
(***************************************************************************)
EXTENDS Integers, Sequences, FiniteSetsExt

Larger(a, b) == IF a >= b THEN a ELSE b

RewardFromBottom(locked, acc, r) ==
    LET diff == acc.staked - r.amount
    IN  IF acc.locking = 0 \/ acc.staked < r.amount THEN acc
        ELSE [credit |-> acc.credit + (diff * r.rate) \div 100,
              staked |-> r.amount, locking |-> acc.locking - diff]
(* One round of the loop: the part of the stake above both the tier's      *)
(* amount and what was locked before is rewarded at the tier's rate.       *)
RewardFromTier(locked, acc, r) ==
    LET lower == Larger(r.amount, locked)
        diff == acc.staked - lower
    IN  IF acc.locking = 0 \/ acc.staked < r.amount THEN acc
        ELSE [credit |-> acc.credit + (diff * r.rate) \div 100,
              staked |-> lower, locking |-> acc.locking - diff]

(* calculateCredit: locking comes on top of locked. *)
CalculateCredit(rates, locked, locking) ==
    LET Round(i, acc) == RewardFromTier(locked, acc, rates[i])
        start == [credit |-> 0, staked |-> locked + locking, locking |-> locking]
    IN  MapThenFoldSet(Round, start, LAMBDA i : i, Max, DOMAIN rates).credit

(* calculateProratedCredit: the share of the epoch that has passed. *)
CalculateProratedCredit(rates, locked, locking, since, duration) ==
    LET credit == CalculateCredit(rates, locked, locking)
    IN  IF since < duration THEN (credit * since) \div duration ELSE credit
=============================================================================

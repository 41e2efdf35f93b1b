---------------------------- MODULE FeeAllowance ----------------------------
(***************************************************************************)
(* The allowances of x/feegrant: basic, periodic and filtered by message,  *)
(* with what Accept refuses, charges and leaves of them.                   *)
(*                                                                         *)
(* Coins are amounts of one denomination.  An absent spend limit or expiry *)
(* is None.                                                                *)
(***************************************************************************)
EXTENDS Integers

CONSTANTS Msg,         \* message types
          NoGrant      \* there is no grant

None == -1
OptNat == Nat \cup {None}

(* Either kind of allowance, with the messages an AllowedMsgAllowance      *)
(* around it lets pass; a basic one leaves the fields of its period at 0.  *)
Allowance == [periodic : BOOLEAN, filtered : BOOLEAN, allowed : SUBSET Msg,
              limit : OptNat, exp : OptNat,
              period : Nat, periodLimit : Nat, canSpend : Nat, reset : Nat]

ASSUME NoGrantAssumption == NoGrant \notin Allowance

ValidateBasic(a) ==
    /\ a.limit # 0
    /\ a.periodic => a.periodLimit > 0
    /\ a.filtered => a.allowed # {}

Expired(a, t) == a.exp # None /\ a.exp < t
Permits(a, m) == a.filtered => m \in a.allowed

(* A first period that never gets a new end. *)
NoNextPeriod(a, t) ==
    IF t < a.reset THEN a
    ELSE [a EXCEPT !.canSpend = a.periodLimit]

(* tryResetPeriod: the budget of the next period, which ends one period    *)
(* after the last one, or one period from now when that is past already.   *)
NextBudget(a) ==
    IF a.limit # None /\ a.limit < a.periodLimit THEN a.limit ELSE a.periodLimit
NextReset(a, t) ==
    IF t > a.reset + a.period THEN t + a.period ELSE a.reset + a.period
TryResetPeriod(a, t) ==
    IF t < a.reset THEN a
    ELSE [a EXCEPT !.canSpend = NextBudget(a), !.reset = NextReset(a, t)]

AtTime(a, t) == IF a.periodic THEN TryResetPeriod(a, t) ELSE a

(* The outcomes of Accept: refused and removed, accepted, or refused. *)
AcceptExpires(a, m, t) == Permits(a, m) /\ Expired(a, t)
AcceptIgnoringExpiry(a, fee, m, t) ==
    /\ Permits(a, m)
    /\ a.periodic => fee <= AtTime(a, t).canSpend
    /\ a.limit # None => fee <= a.limit
Accept(a, fee, m, t) ==
    /\ Permits(a, m)
    /\ ~ Expired(a, t)
    /\ a.periodic => fee <= AtTime(a, t).canSpend
    /\ a.limit # None => fee <= a.limit

(* What Accept leaves of an allowance; one that is used up is removed. *)
Charged(a, fee, t) ==
    LET b == AtTime(a, t)
    IN  [b EXCEPT !.canSpend = IF a.periodic THEN @ - fee ELSE @,
                  !.limit = IF @ = None THEN None ELSE @ - fee]
UsedUp(a, fee) == a.limit # None /\ a.limit = fee
Remaining(a, fee, t) == IF UsedUp(a, fee) THEN NoGrant ELSE Charged(a, fee, t)
=============================================================================

----------------------------- MODULE MCFeeAnte -----------------------------
(***************************************************************************)
(* Small instances of FeeAnte.                                             *)
(***************************************************************************)
EXTENDS FeeAnte

CONSTANTS m1, m2

Basic(limit, exp) ==
    [periodic |-> FALSE, filtered |-> FALSE, allowed |-> {}, limit |-> limit, exp |-> exp,
     period |-> 0, periodLimit |-> 0, canSpend |-> 0, reset |-> 0]
Periodic(limit, exp, period, periodLimit, reset) ==
    [Basic(limit, exp) EXCEPT !.periodic = TRUE, !.period = period,
         !.periodLimit = periodLimit, !.canSpend = periodLimit, !.reset = reset]
Filtered(a, msgs) == [a EXCEPT !.filtered = TRUE, !.allowed = msgs]

(* An expiry, a limit that one fee uses up, a filter, a budget per period. *)
Mixed == {Basic(1, 1), Filtered(Basic(None, 1), {m1}), Periodic(None, None, 1, 1, 1)}
Plain == {Basic(None, 1), Basic(1, None)}
=============================================================================

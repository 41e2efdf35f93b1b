---------------------------- MODULE MCCoreToken ----------------------------
(* Instances of CoreToken. *)
EXTENDS CoreToken
CONSTANTS d, e, a, b

Tokens ==
    {[did |-> d, account |-> a, exp |-> 4], [did |-> d, account |-> b, exp |-> 6],
     [did |-> e, account |-> a, exp |-> 2]}
=============================================================================

---------------------------- MODULE GrantPromise ----------------------------
(***************************************************************************)
(* What a store of fee grants promises, without queues and sweeps: a grant *)
(* is given where there is none and not after its expiry, fees are drawn   *)
(* from a live grant that has room for them, and a grant goes away only    *)
(* when it is used up or has expired.                                      *)
(***************************************************************************)
EXTENDS FeeAllowance

CONSTANTS Holder,      \* whom a grant is from and to
          Fee          \* fees that may be drawn

VARIABLES now, held    \* block time, and the grant of each holder

ExpiredHolders == {p \in Holder : held[p] # NoGrant /\ Expired(held[p], now)}
Dropped(S) == [p \in Holder |-> IF p \in S THEN NoGrant ELSE held[p]]

Init == now = 0 /\ held = [p \in Holder |-> NoGrant]

(* Any expired grants go, and time may pass. *)
Drop ==
    \E S \in SUBSET ExpiredHolders :
        /\ held' = Dropped(S)
        /\ now' \in {now, now + 1}

Give ==
    \E p \in Holder :
        /\ held[p] = NoGrant
        /\ held'[p] \in Allowance /\ ~ Expired(held'[p], now)
        /\ \A q \in Holder \ {p} : held'[q] = held[q]
        /\ now' = now

(* A fee is drawn from one live grant; expired ones may go on the way. *)
Draw ==
    \E S \in SUBSET ExpiredHolders, p \in Holder, fee \in Fee, m \in Msg :
        /\ held[p] # NoGrant /\ Accept(held[p], fee, m, now)
        /\ held' = [Dropped(S) EXCEPT ![p] = Remaining(held[p], fee, now)]
        /\ now' = now

(* The granter sets a new expiry and changes nothing else. *)
Cut ==
    \E p \in Holder :
        /\ held[p] # NoGrant /\ held'[p] # NoGrant
        /\ held' = [held EXCEPT ![p] = [@ EXCEPT !.exp = held'[p].exp]]
        /\ now' = now

Next == Drop \/ Give \/ Draw \/ Cut

Spec == Init /\ [][Next]_<<now, held>>
=============================================================================

----------------------------- MODULE CoreToken -----------------------------
(***************************************************************************)
(* Bearer tokens (JWS) of x/core: the ante handler records each token with *)
(* its first use, its issuer or account may invalidate it, and the end of  *)
(* a block invalidates those that have expired.                            *)
(*                                                                         *)
(* A token stands for its hash, and has the fields did (the actor),        *)
(* account (NoAccount when it names none) and exp.  On a chain that        *)
(* ignores bearer authorization (Relay) a trusted relay signs in place of  *)
(* the token's account.  A second has Ticks instants: an expiry is a whole *)
(* second, a block time need not be.                                       *)
(***************************************************************************)
EXTENDS Integers

CONSTANTS
    Token, Signer,
    Relay,             \* IgnoreBearerAuth of the chain configuration
    NoAccount, NoRecord,
    NoDid,             \* a transaction without a token
    Ticks,             \* instants of a second
    Step, LastTime      \* instants between blocks; bound on block time

VARIABLES
    blockTime,
    records,           \* the record of every token, or NoRecord
    didIndex, accountIndex

tokenVars == <<blockTime, records, didIndex, accountIndex>>

Record == [valid : BOOLEAN, first : Nat, last : Nat, ended : Int]
Never == -1            \* InvalidatedAt is not set

ASSUME TokenAssumption ==
    /\ Relay \in BOOLEAN /\ NoRecord \notin Record
    /\ Ticks \in Nat \ {0} /\ \A t \in Token : t.exp \in Nat /\ t.exp % Ticks = 0
    /\ Step \subseteq Nat \ {0} /\ LastTime \in Nat

TokenInit ==
    /\ blockTime = 0
    /\ records = [t \in Token |-> NoRecord]
    /\ didIndex = {} /\ accountIndex = {}

Known(t) == records[t] # NoRecord
AccountEntry(t) == IF t.account = NoAccount THEN {} ELSE {<<t.account, t>>}

(* SetJWSToken refuses a token without an account unless relays sign. *)
CanSet(t, relay) == t.account # NoAccount \/ relay
SetPrimaryOnly(t, r) ==
    /\ CanSet(t, Relay)
    /\ records' = [records EXCEPT ![t] = r]
    /\ UNCHANGED <<didIndex, accountIndex>>
SetJWSToken(t, r) ==
    /\ CanSet(t, Relay)
    /\ records' = [records EXCEPT ![t] = r]
    /\ didIndex' = didIndex \cup {<<t.did, t>>}
    /\ accountIndex' = accountIndex \cup AccountEntry(t)

(* StoreOrUpdateJWSToken *)
StoreOrUpdate(t) ==
    IF Known(t) THEN records[t].valid /\ SetJWSToken(t, [records[t] EXCEPT !.last = blockTime])
    ELSE /\ blockTime < t.exp
         /\ SetJWSToken(t, [valid |-> TRUE, first |-> blockTime, last |-> blockTime, ended |-> Never])

(* AnteHandle of the extension options compares whole seconds (Unix), so   *)
(* the token is still good in the second of its expiry, and must name the  *)
(* signer unless a relay signs.                                            *)
Unix(time) == time \div Ticks
AcceptsAnyTime(t) == TRUE
Timely(t) == Unix(blockTime) <= Unix(t.exp)
Authenticate(t, signer) ==
    /\ Timely(t) /\ (Relay \/ t.account = signer)
    /\ StoreOrUpdate(t)
    /\ UNCHANGED blockTime

(* UpdateJWSTokenStatus *)
Ended(r) == [valid |-> FALSE, first |-> r.first, last |-> r.last, ended |-> blockTime]

(* The transaction carries the token u, which the ante handler let through.*)
Carries(u, signer) ==
    Known(u) /\ records[u].valid /\ records[u].last = blockTime /\ (Relay \/ u.account = signer)

(* InvalidateJWS of a transaction with the DID of a token, or without one. *)
InvalidateJWS(creator, did, t) ==
    /\ Known(t) /\ records[t].valid
    /\ did = t.did \/ creator = t.account
    /\ SetJWSToken(t, Ended(records[t]))
    /\ UNCHANGED blockTime

(* EndBlocker: CheckAndUpdateExpiredTokens; a token that cannot be stored  *)
(* is only reported.                                                       *)
RunsOutOnTime(t) == Known(t) /\ records[t].valid /\ t.exp = blockTime /\ CanSet(t, Relay)
RunsOut(t) == Known(t) /\ records[t].valid /\ t.exp <= blockTime /\ CanSet(t, Relay)
TokenBlock ==
    /\ records' = [t \in Token |-> IF RunsOut(t) THEN Ended(records[t]) ELSE records[t]]
    /\ \E s \in Step : blockTime' = IF blockTime + s <= LastTime THEN blockTime + s ELSE blockTime
    /\ UNCHANGED <<didIndex, accountIndex>>

(* ExportGenesis and InitGenesis; the tokens are set before the chain      *)
(* configuration, so that they meet the default one, without relays.       *)
Importable == \A t \in Token : Known(t) => CanSet(t, FALSE)
TokenRestart ==
    /\ Importable
    /\ didIndex' = {<<t.did, t>> : t \in {u \in Token : Known(u)}}
    /\ accountIndex' = UNION {AccountEntry(t) : t \in {u \in Token : Known(u)}}
    /\ UNCHANGED <<blockTime, records>>

TokenNext ==
    \/ \E t \in Token, signer \in Signer : Authenticate(t, signer)
    \/ \E creator \in Signer, t \in Token :
          \/ InvalidateJWS(creator, NoDid, t)
          \/ \E u \in Token : Carries(u, creator) /\ InvalidateJWS(creator, u.did, t)
    \/ TokenBlock \/ TokenRestart

TokenSpec == TokenInit /\ [][TokenNext]_tokenVars

(* Consensus produces blocks. *)
TokenFairSpec == TokenSpec /\ WF_tokenVars(TokenBlock)

-----------------------------------------------------------------------------
(* Properties *)

(* The indices by DID and by account list exactly the recorded tokens,     *)
(* whichever of first use, reuse, invalidation, expiry and import wrote    *)
(* them last.                                                              *)
IndicesAgree ==
    /\ didIndex = {<<t.did, t>> : t \in {u \in Token : Known(u)}}
    /\ accountIndex = UNION {AccountEntry(t) : t \in {u \in Token : Known(u)}}

(* A token is used within its life: not after the second in which it       *)
(* expires, and not after it was invalidated.                              *)
UsedWhileGood ==
    \A t \in Token : Known(t) =>
        /\ Unix(records[t].last) <= Unix(t.exp)
        /\ ~records[t].valid => records[t].last <= records[t].ended /\ records[t].ended # Never

(* A token that was invalidated stays invalid, and with it its record. *)
NeverRevived ==
    [][\A t \in Token : Known(t) /\ ~records[t].valid => records'[t] = records[t]]_tokenVars

(* A recorded token that has expired is invalidated. *)
ExpiryNoticed ==
    \A t \in Token : (Known(t) /\ t.exp <= blockTime) ~> (Known(t) /\ ~records[t].valid)
=============================================================================

------------------------------- MODULE Faucet ------------------------------
(***************************************************************************)
(* The faucet's HTTP handlers.  Each request runs in a goroutine of its    *)
(* own: it checks whether it should send, reads the sequence number of the *)
(* faucet account at the last commit, signs, broadcasts, and a request for *)
(* funds that the mempool accepts is recorded.  All sign with one key.     *)
(***************************************************************************)
EXTENDS Integers, Sequences, FiniteSetsExt

CONSTANTS
    Handler,           \* the requests; each is served once
    Address,           \* accounts and DIDs
    Blocked,           \* module accounts that may not receive coins
    Amount, Funds      \* of a request for funds; the faucet's at the start

VARIABLES
    pc,                \* of every handler: "idle", "checked", "read", "accepted" or "done"
    job,               \* [kind, to, seq] of every handler
    mempool,           \* sequence of the jobs broadcast
    recorded,          \* addresses in the faucet's store
    chain              \* committed: seq, balance, accounts, paid, granted

faucetVars == <<pc, job, mempool, recorded, chain>>

Kind == {"request", "init", "grant", "grantDid"}
Job == [kind : Kind, to : Address, seq : Nat]

ASSUME FaucetAssumption == Amount \in Nat \ {0} /\ Funds \in Nat /\ Address # {} /\ Blocked \subseteq Address

NoJob == [kind |-> "grant", to |-> CHOOSE a \in Address : TRUE, seq |-> 0]

FaucetInit ==
    /\ pc = [h \in Handler |-> "idle"]
    /\ job = [h \in Handler |-> NoJob]
    /\ mempool = <<>> /\ recorded = {}
    /\ \E existing \in SUBSET Blocked :
          chain = [seq |-> 0, balance |-> Funds, accounts |-> existing,
                   paid |-> [a \in Address |-> 0], granted |-> {}]

(* A handler that goes on has loaded the key and built its message. *)
Check(h, kind, a) ==
    /\ pc[h] = "idle"
    /\ pc' = [pc EXCEPT ![h] = "checked"]
    /\ job' = [job EXCEPT ![h] = [kind |-> kind, to |-> a, seq |-> 0]]
    /\ UNCHANGED <<mempool, recorded, chain>>

(* The four handlers differ in what they check and send; from there they   *)
(* run the same code.                                                      *)
HasAddressRequested(a) == a \in recorded
HandleFaucetRequest(h, a) == ~ HasAddressRequested(a) /\ Check(h, "request", a)
HandleInitAccount(h, a) == a \notin chain.accounts /\ Check(h, "init", a)
HandleGrantAllowance(h, a) == Check(h, "grant", a)
HandleGrantDIDAllowance(h, a) == Check(h, "grantDid", a)

(* GetAccount, then WithSequence; the account is that of the last commit. *)
PendingSequence == chain.seq + Len(mempool)
AccountSequence == chain.seq
GetAccount(h) ==
    /\ pc[h] = "checked"
    /\ pc' = [pc EXCEPT ![h] = "read"]
    /\ job' = [job EXCEPT ![h].seq = AccountSequence]
    /\ UNCHANGED <<mempool, recorded, chain>>

(* BroadcastTxSync runs the ante handler on the mempool's state, which     *)
(* counts the pending transactions; any other sequence is answered with a  *)
(* code.                                                                   *)
Broadcast(h) ==
    /\ pc[h] = "read"
    /\ IF job[h].seq = chain.seq + Len(mempool)
       THEN /\ mempool' = Append(mempool, job[h])
            /\ pc' = [pc EXCEPT ![h] = IF job[h].kind = "request" THEN "accepted" ELSE "done"]
       ELSE /\ pc' = [pc EXCEPT ![h] = "done"]
            /\ UNCHANGED mempool
    /\ UNCHANGED <<job, recorded, chain>>

(* recordAddressRequested *)
RecordNothing(h) ==
    /\ pc[h] = "accepted"
    /\ pc' = [pc EXCEPT ![h] = "done"]
    /\ UNCHANGED <<job, mempool, recorded, chain>>
RecordRequest(h) ==
    /\ pc[h] = "accepted"
    /\ recorded' = recorded \cup {job[h].to}
    /\ pc' = [pc EXCEPT ![h] = "done"]
    /\ UNCHANGED <<job, mempool, chain>>

(* A delivered transaction counts for the sequence even when its message   *)
(* fails: for want of funds, for a recipient the bank refuses, or as the   *)
(* allowance exists, which changes nothing either.  An allowance creates   *)
(* the account it is for, unless that is refused.                          *)
Sent(j) == IF j.kind = "request" THEN Amount ELSE 1
Fails(c, j) ==
    CASE j.kind \in {"request", "init"} -> j.to \in Blocked \/ Sent(j) > c.balance
      [] j.kind = "grant" -> j.to \in Blocked \ c.accounts
      [] OTHER -> FALSE
Deliver(c, j) ==
    LET next == [c EXCEPT !.seq = @ + 1] IN
    IF Fails(c, j) THEN next
    ELSE IF j.kind \in {"request", "init"}
    THEN [next EXCEPT !.balance = @ - Sent(j), !.accounts = @ \cup {j.to},
                      !.paid[j.to] = @ + (IF j.kind = "request" THEN 1 ELSE 0)]
    ELSE [next EXCEPT !.granted = @ \cup {<<j.kind, j.to>>},
                      !.accounts = IF j.kind = "grant" THEN @ \cup {j.to} ELSE @]

(* A block takes the first n pending transactions, in their order. *)
DeliverFirst(n) ==
    LET Turn(i, c) == Deliver(c, mempool[i])
    IN  MapThenFoldSet(Turn, chain, LAMBDA i : i, Max, 1 .. n)
CommitBlock(n) ==
    /\ chain' = DeliverFirst(n)
    /\ mempool' = SubSeq(mempool, n + 1, Len(mempool))
    /\ UNCHANGED <<pc, job, recorded>>

Serve(h) ==
    \/ \E a \in Address : \/ HandleFaucetRequest(h, a) \/ HandleInitAccount(h, a)
                          \/ HandleGrantAllowance(h, a) \/ HandleGrantDIDAllowance(h, a)
    \/ GetAccount(h) \/ Broadcast(h) \/ RecordRequest(h)

FaucetNext == (\E h \in Handler : Serve(h)) \/ \E n \in 0 .. Len(mempool) : CommitBlock(n)

FaucetSpec == FaucetInit /\ [][FaucetNext]_faucetVars

(* The HTTP server runs the goroutines; consensus empties the mempool. *)
FaucetFairSpec ==
    /\ FaucetSpec /\ WF_faucetVars(CommitBlock(Len(mempool)))
    /\ \A h \in Handler : WF_faucetVars(GetAccount(h) \/ Broadcast(h) \/ RecordRequest(h))

-----------------------------------------------------------------------------
(* Properties *)

(* Whatever handlers overlap, the mempool never holds two of the faucet's  *)
(* transactions, as each is signed for the committed sequence: the faucet  *)
(* sends at most once a block.                                             *)
OnePending == Len(mempool) <= 1

(* A request for funds that the mempool accepted is recorded, and it is    *)
(* paid unless the faucet runs dry or the bank refuses the recipient.      *)
AcceptedSettled ==
    \A h \in Handler :
        (pc[h] = "accepted") ~>
            /\ job[h].to \in recorded
            /\ \/ chain.paid[job[h].to] > 0 \/ chain.balance < Amount
               \/ job[h].to \in Blocked
=============================================================================

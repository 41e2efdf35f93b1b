----------------------------- MODULE AcpCommand -----------------------------
(***************************************************************************)
(* Policy commands of x/acp as they reach the registrations: sent by their *)
(* actor directly (or with a bearer token), or signed by the actor and     *)
(* submitted by anyone, any number of times, until they expire.            *)
(*                                                                         *)
(* A signed command is submitted as a string, and one payload with its     *)
(* signature has several: the compact serialisation and the JSON ones.     *)
(* Both parsers take them all, so form tells apart the strings of one      *)
(* payload.  The replay cache is keyed by the hash of the string, for      *)
(* which the string stands.                                                *)
(***************************************************************************)
EXTENDS AcpRegistration

CONSTANTS
    Jws,               \* strings submitted: [actor, cmd, issued, delta, form]
    Params,            \* values of both parameters: <<commitment validity, max delta>>
    Word,              \* 2^w for heights of w bits
    NotSeen            \* not in the replay cache

VARIABLES
    maxDelta,          \* PolicyCommandMaxExpirationDelta
    seen,              \* replay cache: height at which the entry of a string expires
    ran                \* history: how often each string was executed

cmdVars == <<vars, maxDelta, seen, ran>>

(* Commands of a policy, by what they name. *)
PolicyCmd ==
    [kind : {"register", "archive", "unarchive"}, object : Object]
        \cup [kind : {"commit"}, leaves : Content]
        \cup [kind : {"reveal"}, commitment : 1..MaxCommitments, object : Object]
        \cup [kind : {"flag"}, event : 1..MaxEvents]

ASSUME CommandAssumption ==
    /\ Word \in Nat \ {0} /\ Params \subseteq Validity \X Nat /\ NotSeen \notin Nat
    /\ \A s \in Jws : /\ s.issued \in 0..(Word - 1) /\ s.delta \in 0..(Word - 1)
                          /\ s.actor \in Actor /\ s.cmd \in PolicyCmd

(* Dispatch of the policy command handler. *)
Dispatch(a, c) ==
    \/ c.kind = "register" /\ RegisterObject(a, c.object)
    \/ c.kind = "archive" /\ ArchiveObject(a, c.object)
    \/ c.kind = "unarchive" /\ UnarchiveObject(a, c.object)
    \/ c.kind = "commit" /\ CommitRegistrations(c.leaves)
    \/ c.kind = "reveal" /\ RevealRegistration(a, c.commitment, c.object)
    \/ c.kind = "flag" /\ FlagHijackAttempt(a, c.event)

(* What Verify gets from the string: the signed payload, in whatever form. *)
Payload(s) == [actor |-> s.actor, cmd |-> s.cmd, issued |-> s.issued, delta |-> s.delta]

ExpireHeight(s) == (s.issued + s.delta) % Word

(* payloadSpec *)
PayloadSpec(s) == s.delta <= maxDelta /\ height <= ExpireHeight(s)

(* hasSeenSignedPolicyCmd: an entry that has expired counts for nothing. *)
SeenUntilExpiry(s) == seen[s] # NotSeen /\ seen[s] > height
HasSeen(s) == seen[s] # NotSeen /\ seen[s] >= height

(* SignedPolicyCmd; the command runs in the transaction that marks it. *)
SignedPolicyCmd(s) ==
    /\ PayloadSpec(s) /\ ~HasSeen(s)
    /\ seen' = [seen EXCEPT ![s] = ExpireHeight(s)]
    /\ Dispatch(s.actor, s.cmd)
    /\ ran' = [ran EXCEPT ![s] = @ + 1]
    /\ UNCHANGED maxDelta

DirectPolicyCmd ==
    /\ Command \/ \E leaves \in Content : CommitRegistrations(leaves)
    /\ UNCHANGED <<maxDelta, seen, ran>>

(* MsgUpdateParams sets both parameters. *)
SetParams(v, d) ==
    /\ UpdateParams(v)
    /\ maxDelta' = d
    /\ UNCHANGED <<seen, ran>>

CmdBlock == Block /\ UNCHANGED <<maxDelta, seen, ran>>

CmdInit ==
    /\ Init
    /\ \E p \in Params : validity = p[1] /\ maxDelta = p[2]
    /\ seen = [s \in Jws |-> NotSeen] /\ ran = [s \in Jws |-> 0]

CmdNext ==
    \/ \E s \in Jws : SignedPolicyCmd(s)
    \/ DirectPolicyCmd
    \/ \E p \in Params : SetParams(p[1], p[2])
    \/ CmdBlock

CmdSpec == CmdInit /\ [][CmdNext]_cmdVars

(* Consensus produces blocks. *)
CmdFairSpec == CmdSpec /\ WF_cmdVars(CmdBlock)

-----------------------------------------------------------------------------
(* Properties *)

(* A string takes effect once at most, however often it is submitted and   *)
(* whatever undoes its command in between: its entry in the replay cache   *)
(* lasts as long as the command is accepted, to the block.                 *)
JwsRunsOnce == \A s \in Jws : ran[s] <= 1

(* "Upon accepting a payload, the ACP module must not process it again"    *)
(* (ADR-001): a payload takes effect once at most, in whatever form it is  *)
(* submitted.                                                              *)
PayloadRunsOnce ==
    \A s, t \in Jws : Payload(s) = Payload(t) /\ ran[s] > 0 /\ ran[t] > 0 => s = t /\ ran[s] = 1
=============================================================================

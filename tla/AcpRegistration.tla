-------------------------- MODULE AcpRegistration --------------------------
(***************************************************************************)
(* Object registration in x/acp: who owns an object, and the commitments   *)
(* with which an actor claims objects before it names them.  Revealing an  *)
(* object of a commitment registers it, or takes it over from a later      *)
(* registration.                                                           *)
(*                                                                         *)
(* The model has one policy.  The content of a commitment (a Merkle root)  *)
(* is the set of its leaves <<actor, object>>.  The engine that stores the *)
(* registrations is external.  A command that fails is rolled back.        *)
(***************************************************************************)
EXTENDS Integers, Sequences, FiniteSets

CONSTANTS
    Actor, Object,
    Content,           \* contents of commitments
    Validity,          \* values of RegistrationsCommitmentValidity
    NotRegistered,     \* no registration
    MaxCommitments, MaxEvents, MaxHeight

VARIABLES
    height, clock,     \* block height and time
    validity,          \* the parameter's value
    objects,           \* registration of each object
    commitments, events

vars == <<height, clock, validity, objects, commitments, events>>

Duration == [unit : {"blocks", "time"}, length : Nat]
Leaf == Actor \X Object
Registration == [owner : Actor, height : Nat, archived : BOOLEAN]
Commitment ==
    [leaves : SUBSET Leaf, height : Nat, time : Nat, validity : Duration, expired : BOOLEAN]
Event == [object : Object, owner : Actor, from : Actor, commitment : Nat, hijack : BOOLEAN]

ASSUME AcpAssumption ==
    /\ Content \subseteq SUBSET Leaf /\ Validity \subseteq Duration
    /\ NotRegistered \notin Registration
    /\ MaxCommitments \in Nat /\ MaxEvents \in Nat /\ MaxHeight \in Nat

(* IsAfter: a duration after a commitment was made, it is no longer valid. *)
IsAfter(c) ==
    IF c.validity.unit = "blocks" THEN c.height + c.validity.length < height
    ELSE clock > c.time + c.validity.length

Registered(o) == objects[o] # NotRegistered
Owns(a, o) == Registered(o) /\ objects[o].owner = a

Init ==
    /\ height = 1 /\ clock = 1 /\ validity \in Validity
    /\ objects = [o \in Object |-> NotRegistered]
    /\ commitments = <<>> /\ events = <<>>

-----------------------------------------------------------------------------
(* Commands of an actor *)

(* The engine refuses an object that is registered, archived or not. *)
RegisterObject(a, o) ==
    /\ ~Registered(o)
    /\ objects' = [objects EXCEPT ![o] = [owner |-> a, height |-> height, archived |-> FALSE]]
    /\ UNCHANGED <<height, clock, validity, commitments, events>>

ArchiveObject(a, o) ==
    /\ Owns(a, o)
    /\ objects' = [objects EXCEPT ![o].archived = TRUE]
    /\ UNCHANGED <<height, clock, validity, commitments, events>>

UnarchiveObject(a, o) ==
    /\ Owns(a, o)
    /\ objects' = [objects EXCEPT ![o].archived = FALSE]
    /\ UNCHANGED <<height, clock, validity, commitments, events>>

(* SetNewCommitment; leaves may name any actor. *)
CommitRegistrations(leaves) ==
    /\ Len(commitments) < MaxCommitments
    /\ commitments' = Append(commitments,
          [leaves |-> leaves, height |-> height, time |-> clock, validity |-> validity, expired |-> FALSE])
    /\ UNCHANGED <<height, clock, validity, objects, events>>

(* ValidateOpening *)
OpensLate(i, a, o) == <<a, o>> \in commitments[i].leaves
ValidateOpening(i, a, o) == ~IsAfter(commitments[i]) /\ <<a, o>> \in commitments[i].leaves

(* An object that nobody registered gets the height of the commitment. *)
RevealNew(i, a, o) ==
    /\ ~Registered(o)
    /\ objects' = [objects EXCEPT ![o] =
                      [owner |-> a, height |-> commitments[i].height, archived |-> FALSE]]
    /\ UNCHANGED events

(* amendRegistration refuses a registration older than the commitment;     *)
(* whether the engine keeps an amended object archived is left open.       *)
AmendsAny(i, o) == TRUE
Amends(i, o) == commitments[i].height <= objects[o].height
AmendRegistration(i, a, o) ==
    /\ Registered(o) /\ Amends(i, o) /\ Len(events) < MaxEvents
    /\ \E archived \in {FALSE, objects[o].archived} :
          objects' = [objects EXCEPT ![o] =
                         [owner |-> a, height |-> commitments[i].height, archived |-> archived]]
    /\ events' = Append(events, [object |-> o, owner |-> a, from |-> objects[o].owner,
                                 commitment |-> i, hijack |-> FALSE])

RevealRegistration(a, i, o) ==
    /\ i \in DOMAIN commitments /\ ValidateOpening(i, a, o)
    /\ RevealNew(i, a, o) \/ AmendRegistration(i, a, o)
    /\ UNCHANGED <<height, clock, validity, commitments>>

(* FlagHijackEvent, by the owner that the amendment made. *)
FlagHijackAttempt(a, e) ==
    /\ e \in DOMAIN events /\ events[e].owner = a
    /\ events' = [events EXCEPT ![e].hijack = TRUE]
    /\ UNCHANGED <<height, clock, validity, objects, commitments>>

-----------------------------------------------------------------------------
(* Blocks *)

UpdateParams(v) ==
    /\ validity' = v
    /\ UNCHANGED <<height, clock, objects, commitments, events>>

FlagNothing(c) == c
(* FlagExpiredCommitments *)
FlagExpired(c) == [c EXCEPT !.expired = @ \/ IsAfter(c)]
EndBlock ==
    /\ commitments' = [i \in DOMAIN commitments |-> FlagExpired(commitments[i])]
    /\ height' = height + 1
    /\ \E later \in 1..2 : clock' = clock + later
    /\ UNCHANGED <<validity, objects, events>>
Block == height < MaxHeight /\ EndBlock

Command ==
    \E a \in Actor :
        \/ \E o \in Object : RegisterObject(a, o) \/ ArchiveObject(a, o) \/ UnarchiveObject(a, o)
        \/ \E i \in 1..MaxCommitments, o \in Object : RevealRegistration(a, i, o)
        \/ \E e \in 1..MaxEvents : FlagHijackAttempt(a, e)

Next ==
    \/ Command
    \/ \E leaves \in Content : CommitRegistrations(leaves)
    \/ \E v \in Validity : UpdateParams(v)
    \/ Block

Spec == Init /\ [][Next]_vars

-----------------------------------------------------------------------------
(* Properties *)

(* Every variable has its type, and an event refers to a commitment. *)
TypeOK ==
    /\ height \in Nat /\ clock \in Nat /\ validity \in Validity
    /\ objects \in [Object -> Registration \cup {NotRegistered}]
    /\ commitments \in Seq(Commitment) /\ events \in Seq(Event)

(* A registration, once made, never disappears and never gets younger: the *)
(* claim that reveals and amendments leave is at least as old as the one   *)
(* that they replace, also across archiving.                               *)
ClaimsGetOlder ==
    [][\A o \in Object : Registered(o) =>
          objects'[o] # NotRegistered /\ objects'[o].height <= objects[o].height]_vars

(* An object changes hands only to an actor that a commitment names for    *)
(* it, one that is still valid and no younger than the registration.       *)
TakenByCommitment ==
    [][\A o \in Object : Registered(o) /\ objects'[o].owner # objects[o].owner =>
          \E i \in DOMAIN commitments :
              /\ <<objects'[o].owner, o>> \in commitments[i].leaves
              /\ ~IsAfter(commitments[i])
              /\ commitments[i].height <= objects[o].height]_vars

(* The registration that an amendment leaves is as old as its commitment,  *)
(* or older: no later claim undoes it.                                     *)
AmendmentStands ==
    \A e \in DOMAIN events :
        /\ Registered(events[e].object)
        /\ events[e].commitment \in DOMAIN commitments
        /\ objects[events[e].object].height <= commitments[events[e].commitment].height

(* A commitment that has run out is flagged as expired by a later block. *)
EventuallyFlagged ==
    \A i \in 1..MaxCommitments :
        (i \in DOMAIN commitments /\ IsAfter(commitments[i]) /\ height < MaxHeight)
            ~> (i \in DOMAIN commitments /\ commitments[i].expired)
=============================================================================

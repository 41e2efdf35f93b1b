---------------------------- MODULE AccessProofs ----------------------------
(***************************************************************************)
(* Proofs about who may do what: the registrations and signed commands of  *)
(* x/acp, for every set of actors, objects and payloads; the bearer tokens *)
(* of x/core, for every set of tokens, accounts and block times; the       *)
(* faucet, however its handlers overlap; and the fee grants of DIDs, for   *)
(* every set of accounts, DIDs and allowances and every limit of a sweep.  *)
(***************************************************************************)
EXTENDS AcpCommand, CoreToken, Faucet, FeeAnte, TLAPS

-----------------------------------------------------------------------------
(* Registrations *)

(* The initial state has the types. *)
LEMMA InitType == Init => TypeOK
  BY AcpAssumption DEF Init, TypeOK, Duration

(* What a step may do to the registrations, the commitments and the        *)
(* events, apart from the flags: the shape all the proofs below use.       *)
Shape ==
    /\ DOMAIN commitments \subseteq DOMAIN commitments'
    /\ \A i \in DOMAIN commitments : commitments'[i].height = commitments[i].height
    /\ \A x \in Object : Registered(x) =>
          /\ objects'[x] # NotRegistered
          /\ objects'[x].height <= objects[x].height

(* Flagging a commitment changes nothing else of it. *)
LEMMA FlagType ==
    ASSUME NEW c \in Commitment
    PROVE  FlagExpired(c) \in Commitment /\ FlagExpired(c).height = c.height
  BY Zenon DEF FlagExpired, Commitment, IsAfter

(* Every step keeps the types. *)
LEMMA TypeStep == TypeOK /\ [Next]_vars => TypeOK'
<1> SUFFICES ASSUME TypeOK, [Next]_vars PROVE TypeOK'
  BY Zenon
<1> USE AcpAssumption DEF TypeOK
<1>1. ASSUME NEW a \in Actor, NEW x \in Object, RegisterObject(a, x) PROVE TypeOK'
  BY <1>1, Zenon DEF RegisterObject, Registration
<1>2. ASSUME NEW a \in Actor, NEW x \in Object, ArchiveObject(a, x) PROVE TypeOK'
  BY <1>2, Zenon DEF ArchiveObject, Owns, Registered, Registration
<1>3. ASSUME NEW a \in Actor, NEW x \in Object, UnarchiveObject(a, x) PROVE TypeOK'
  BY <1>3, Zenon DEF UnarchiveObject, Owns, Registered, Registration
<1>4. ASSUME NEW leaves \in Content, CommitRegistrations(leaves) PROVE TypeOK'
  <2>1. [leaves |-> leaves, height |-> height, time |-> clock, validity |-> validity,
         expired |-> FALSE] \in Commitment
    BY Zenon DEF Commitment
  <2> QED
    BY <1>4, <2>1 DEF CommitRegistrations
<1>5. ASSUME NEW a \in Actor, NEW i \in 1..MaxCommitments, NEW x \in Object,
             RevealRegistration(a, i, x)
      PROVE TypeOK'
  <2>1. i \in DOMAIN commitments /\ i \in Nat /\ commitments[i] \in Commitment
    BY <1>5 DEF RevealRegistration
  <2>2. commitments[i].height \in Nat
    BY <2>1, Zenon DEF Commitment
  <2>3. CASE RevealNew(i, a, x)
    BY <1>5, <2>2, <2>3, Zenon DEF RevealRegistration, RevealNew, Registration
  <2>4. CASE AmendRegistration(i, a, x)
    <3>1. objects[x] \in Registration
      BY <2>4, Zenon DEF AmendRegistration, Registered
    <3>2. objects' \in [Object -> Registration \cup {NotRegistered}]
      <4>1. PICK kept \in {FALSE, objects[x].archived} :
               objects' = [objects EXCEPT ![x] =
                   [owner |-> a, height |-> commitments[i].height, archived |-> kept]]
        BY <2>4, Zenon DEF AmendRegistration
      <4>2. kept \in BOOLEAN
        BY <3>1, Zenon DEF Registration
      <4>3. [owner |-> a, height |-> commitments[i].height, archived |-> kept] \in Registration
        BY <2>2, <4>2, Zenon DEF Registration
      <4> QED
        BY <4>1, <4>3, Zenon
    <3>3. [object |-> x, owner |-> a, from |-> objects[x].owner, commitment |-> i,
           hijack |-> FALSE] \in Event
      BY <2>1, <3>1, Zenon DEF Event, Registration
    <3>4. events' \in Seq(Event)
      BY <2>4, <3>3 DEF AmendRegistration
    <3> QED
      BY <1>5, <3>2, <3>4, Zenon DEF RevealRegistration
  <2> QED
    BY <1>5, <2>3, <2>4, Zenon DEF RevealRegistration
<1>6. ASSUME NEW a \in Actor, NEW e \in 1..MaxEvents, FlagHijackAttempt(a, e) PROVE TypeOK'
  <2>1. e \in DOMAIN events /\ events[e] \in Event
    BY <1>6 DEF FlagHijackAttempt
  <2>2. [events[e] EXCEPT !.hijack = TRUE] \in Event
    BY <2>1, Zenon DEF Event
  <2>3. events' \in Seq(Event)
    BY <1>6, <2>1, <2>2 DEF FlagHijackAttempt
  <2> QED
    BY <1>6, <2>3, Zenon DEF FlagHijackAttempt
<1>7. ASSUME NEW v \in Validity, UpdateParams(v) PROVE TypeOK'
  BY <1>7, Zenon DEF UpdateParams
<1>8. CASE Block
  <2>1. commitments' = [i \in 1..Len(commitments) |-> FlagExpired(commitments[i])]
    BY <1>8 DEF Block, EndBlock
  <2>2. \A i \in 1..Len(commitments) : FlagExpired(commitments[i]) \in Commitment
    BY FlagType
  <2>3. commitments' \in Seq(Commitment)
    <3> HIDE DEF TypeOK
    <3> QED BY <2>1, <2>2 DEF TypeOK
  <2> QED
    BY <1>8, <2>3 DEF Block, EndBlock
<1>9. CASE UNCHANGED vars
  BY <1>9, Zenon DEF vars
<1> QED
  BY <1>1, <1>2, <1>3, <1>4, <1>5, <1>6, <1>7, <1>8, <1>9, Zenon DEF Next, Command

(* Every step has the shape. *)
LEMMA ShapeStep == TypeOK /\ [Next]_vars => Shape
<1> SUFFICES ASSUME TypeOK, [Next]_vars PROVE Shape
  BY Zenon
<1>t. /\ commitments \in Seq(Commitment) /\ objects \in [Object -> Registration \cup {NotRegistered}]
      /\ \A x \in Object : Registered(x) => objects[x] \in Registration /\ objects[x].height \in Nat
  BY Zenon DEF TypeOK, Registered, Registration
<1> USE <1>t DEF Shape
<1>1. ASSUME NEW a \in Actor, NEW x \in Object, RegisterObject(a, x) PROVE Shape
  BY <1>1 DEF RegisterObject, Registered
<1>2. ASSUME NEW a \in Actor, NEW x \in Object,
             ArchiveObject(a, x) \/ UnarchiveObject(a, x)
      PROVE Shape
  <2>1. PICK flag \in BOOLEAN : objects' = [objects EXCEPT ![x].archived = flag]
    BY <1>2, Zenon DEF ArchiveObject, UnarchiveObject
  <2>2. Registered(x)
    BY <1>2, Zenon DEF ArchiveObject, UnarchiveObject, Owns
  <2>3. [objects[x] EXCEPT !.archived = flag] \in Registration
    BY <2>1, <2>2, Zenon DEF Registration
  <2>4. objects'[x] # NotRegistered /\ objects'[x].height = objects[x].height
    BY <2>1, <2>2, <2>3, AcpAssumption, Zenon DEF Registration
  <2>5. \A y \in Object : y # x => objects'[y] = objects[y]
    BY <2>1, Zenon
  <2> QED
    BY <1>2, <2>4, <2>5 DEF ArchiveObject, UnarchiveObject, Registered
<1>4. ASSUME NEW leaves \in Content, CommitRegistrations(leaves) PROVE Shape
  BY <1>4 DEF CommitRegistrations, Registered
<1>5. ASSUME NEW a \in Actor, NEW i \in 1..MaxCommitments, NEW x \in Object,
             RevealRegistration(a, i, x)
      PROVE Shape
  <2>1. CASE RevealNew(i, a, x)
    BY <1>5, <2>1 DEF RevealRegistration, RevealNew, Registered
  <2>2. CASE AmendRegistration(i, a, x)
    <3>1. PICK kept \in {FALSE, objects[x].archived} :
             objects' = [objects EXCEPT ![x] =
                 [owner |-> a, height |-> commitments[i].height, archived |-> kept]]
      BY <2>2, Zenon DEF AmendRegistration
    <3>2. Registered(x) /\ commitments[i].height <= objects[x].height
      BY <2>2, Zenon DEF AmendRegistration, Amends
    <3>3. i \in DOMAIN commitments /\ commitments[i] \in Commitment
      BY <1>5 DEF RevealRegistration
    <3>4. [owner |-> a, height |-> commitments[i].height, archived |-> kept] \in Registration
      <4>1. kept \in BOOLEAN
        BY <3>2, Zenon DEF Registration
      <4> QED
        BY <3>3, <4>1, Zenon DEF Registration, Commitment
    <3>5. objects'[x] # NotRegistered /\ objects'[x].height <= objects[x].height
      BY <3>1, <3>2, <3>4, AcpAssumption, Zenon
    <3>6. \A y \in Object : y # x => objects'[y] = objects[y]
      BY <3>1, Zenon
    <3> QED
      BY <1>5, <3>5, <3>6 DEF RevealRegistration, Registered
  <2> QED
    BY <1>5, <2>1, <2>2, Zenon DEF RevealRegistration
<1>6. ASSUME NEW a \in Actor, NEW e \in 1..MaxEvents, FlagHijackAttempt(a, e) PROVE Shape
  BY <1>6 DEF FlagHijackAttempt, Registered
<1>7. ASSUME NEW v \in Validity, UpdateParams(v) PROVE Shape
  BY <1>7 DEF UpdateParams, Registered
<1>8. CASE Block
  <2>1. commitments' = [i \in DOMAIN commitments |-> FlagExpired(commitments[i])]
    BY <1>8, Zenon DEF Block, EndBlock
  <2>2. \A i \in DOMAIN commitments : FlagExpired(commitments[i]).height = commitments[i].height
    BY FlagType
  <2> QED
    BY <1>8, <2>1, <2>2 DEF Block, EndBlock, Registered
<1>9. CASE UNCHANGED vars
  BY <1>9 DEF vars, Registered
<1> QED
  BY <1>1, <1>2, <1>4, <1>5, <1>6, <1>7, <1>8, <1>9, Zenon DEF Next, Command

(* The types hold in every state. *)
LEMMA Typed == Spec => []TypeOK
  BY InitType, TypeStep, PTL DEF Spec

-----------------------------------------------------------------------------
(* Commands *)

(* A command that the handler dispatches is a step of the registrations. *)
LEMMA DispatchStep ==
    ASSUME NEW a \in Actor, NEW c \in PolicyCmd, Dispatch(a, c)
    PROVE  Next
<1>1. CASE c.kind \in {"register", "archive", "unarchive"}
  <2>1. c.object \in Object
    BY <1>1, Zenon DEF PolicyCmd
  <2>2. RegisterObject(a, c.object) \/ ArchiveObject(a, c.object) \/ UnarchiveObject(a, c.object)
    BY <1>1, Zenon DEF Dispatch
  <2> QED
    BY <2>1, <2>2, Zenon DEF Next, Command
<1>2. CASE c.kind = "commit"
  <2>1. c.leaves \in Content
    BY <1>2, Zenon DEF PolicyCmd
  <2> QED
    BY <1>2, <2>1, Zenon DEF Dispatch, Next
<1>3. CASE c.kind = "reveal"
  <2>1. c.commitment \in 1..MaxCommitments /\ c.object \in Object
    BY <1>3, Zenon DEF PolicyCmd
  <2> QED
    BY <1>3, <2>1, Zenon DEF Dispatch, Next, Command
<1>4. CASE c.kind = "flag"
  <2>1. c.event \in 1..MaxEvents
    BY <1>4, Zenon DEF PolicyCmd
  <2> QED
    BY <1>4, <2>1, Zenon DEF Dispatch, Next, Command
<1> QED
  BY <1>1, <1>2, <1>3, <1>4, Zenon DEF Dispatch

(* Commands, signed or not, change registrations and commitments only as   *)
(* the registration module allows: the replay cache and the parameter come *)
(* on top.                                                                 *)
THEOREM CommandsImplement == CmdSpec => Spec
<1>1. CmdInit => Init
  BY Zenon DEF CmdInit
<1>2. [CmdNext]_cmdVars => [Next]_vars
  <2> SUFFICES ASSUME [CmdNext]_cmdVars PROVE [Next]_vars
    BY Zenon
  <2>1. ASSUME NEW s \in Jws, SignedPolicyCmd(s) PROVE Next
    BY <2>1, CommandAssumption, DispatchStep, Zenon DEF SignedPolicyCmd
  <2>2. CASE DirectPolicyCmd
    BY <2>2, Zenon DEF DirectPolicyCmd, Next
  <2>3. ASSUME NEW p \in Params, SetParams(p[1], p[2]) PROVE Next
    <3>1. p[1] \in Validity
      BY CommandAssumption, Zenon
    <3> QED
      BY <2>3, <3>1, Zenon DEF SetParams, Next
  <2>4. CASE CmdBlock
    BY <2>4, Zenon DEF CmdBlock, Next
  <2>5. CASE UNCHANGED cmdVars
    BY <2>5, Zenon DEF cmdVars
  <2> QED
    BY <2>1, <2>2, <2>3, <2>4, <2>5, Zenon DEF CmdNext
<1> QED
  BY <1>1, <1>2, PTL DEF CmdSpec, Spec

-----------------------------------------------------------------------------
(* Claims *)

(* Registrations never disappear and never get younger, for any actors,    *)
(* objects, contents and validities: ArchiveObject, UnarchiveObject,       *)
(* reveals and amendments keep or lower the height of the claim.           *)
THEOREM ClaimsOnlyGetOlder == CmdSpec => ClaimsGetOlder
<1>1. TypeOK /\ [Next]_vars =>
        [\A o \in Object : Registered(o) =>
            objects'[o] # NotRegistered /\ objects'[o].height <= objects[o].height]_vars
  BY ShapeStep, Zenon DEF Shape
<1> QED
  BY <1>1, Typed, CommandsImplement, PTL DEF Spec, ClaimsGetOlder

(* An object changes hands only by an amendment under a commitment that    *)
(* names the new owner, that is still valid and no younger than the        *)
(* registration.                                                           *)
THEOREM OnlyCommitmentsTake == CmdSpec => TakenByCommitment
<1>1. ASSUME TypeOK, [Next]_vars, NEW x \in Object, Registered(x),
             objects'[x].owner # objects[x].owner
      PROVE  \E i \in DOMAIN commitments :
                /\ <<objects'[x].owner, x>> \in commitments[i].leaves
                /\ ~IsAfter(commitments[i])
                /\ commitments[i].height <= objects[x].height
  <2>t. /\ objects \in [Object -> Registration \cup {NotRegistered}]
        /\ objects[x] \in Registration
    BY <1>1, Zenon DEF TypeOK, Registered
  <2>1. ASSUME NEW a \in Actor, NEW y \in Object, RegisterObject(a, y) PROVE FALSE
    BY <1>1, <2>1, <2>t, Zenon DEF RegisterObject, Registered
  <2>2. ASSUME NEW a \in Actor, NEW y \in Object,
               ArchiveObject(a, y) \/ UnarchiveObject(a, y)
        PROVE  FALSE
    <3>1. PICK flag \in BOOLEAN : objects' = [objects EXCEPT ![y].archived = flag]
      BY <2>2, Zenon DEF ArchiveObject, UnarchiveObject
    <3>2. [objects[x] EXCEPT !.archived = flag].owner = objects[x].owner
      BY <2>t, Zenon DEF Registration
    <3> QED
      BY <1>1, <2>t, <3>1, <3>2, Zenon
  <2>3. ASSUME NEW a \in Actor, NEW i \in 1..MaxCommitments, NEW y \in Object,
               RevealRegistration(a, i, y)
        PROVE  /\ i \in DOMAIN commitments
               /\ <<objects'[x].owner, x>> \in commitments[i].leaves
               /\ ~IsAfter(commitments[i])
               /\ commitments[i].height <= objects[x].height
    <3>1. x = y /\ objects'[x].owner = a
      <4>1. PICK r : r.owner = a /\ objects' = [objects EXCEPT ![y] = r]
        BY <2>3, Zenon DEF RevealRegistration, RevealNew, AmendRegistration
      <4> QED
        BY <1>1, <2>t, <4>1, Zenon
    <3>2. AmendRegistration(i, a, x)
      BY <1>1, <2>3, <3>1, Zenon DEF RevealRegistration, RevealNew
    <3> QED
      BY <2>3, <3>1, <3>2, Zenon DEF RevealRegistration, ValidateOpening, AmendRegistration, Amends
  <2>4. \/ \E a \in Actor, y \in Object :
              RegisterObject(a, y) \/ ArchiveObject(a, y) \/ UnarchiveObject(a, y)
        \/ \E a \in Actor, i \in 1..MaxCommitments, y \in Object : RevealRegistration(a, i, y)
        \/ UNCHANGED objects
    BY <1>1, Zenon DEF Next, Command, FlagHijackAttempt, CommitRegistrations, UpdateParams,
                Block, EndBlock, vars
  <2> QED
    BY <1>1, <2>1, <2>2, <2>3, <2>4, Zenon
<1>2. TypeOK /\ [Next]_vars =>
        [\A o \in Object : Registered(o) /\ objects'[o].owner # objects[o].owner =>
            \E i \in DOMAIN commitments :
                /\ <<objects'[o].owner, o>> \in commitments[i].leaves
                /\ ~IsAfter(commitments[i])
                /\ commitments[i].height <= objects[o].height]_vars
  BY <1>1, Zenon
<1> QED
  BY <1>2, Typed, CommandsImplement, PTL DEF Spec, TakenByCommitment

-----------------------------------------------------------------------------
(* Amendments *)

(* A step appends the event of an amendment, or leaves what the events are *)
(* about as it is.                                                         *)
LEMMA EventStep ==
    ASSUME TypeOK, [Next]_vars
    PROVE  \/ \E a \in Actor, i \in 1..MaxCommitments, x \in Object :
                 RevealRegistration(a, i, x) /\ AmendRegistration(i, a, x)
           \/ /\ DOMAIN events' = DOMAIN events
              /\ \A e \in DOMAIN events : /\ events'[e].object = events[e].object
                                          /\ events'[e].commitment = events[e].commitment
<1>1. ASSUME NEW a \in Actor, NEW e \in 1..MaxEvents, FlagHijackAttempt(a, e)
      PROVE  /\ DOMAIN events' = DOMAIN events
             /\ \A f \in DOMAIN events : /\ events'[f].object = events[f].object
                                         /\ events'[f].commitment = events[f].commitment
  <2>1. events \in Seq(Event) /\ e \in DOMAIN events
    BY <1>1, Zenon DEF TypeOK, FlagHijackAttempt
  <2>2. /\ [events[e] EXCEPT !.hijack = TRUE].object = events[e].object
        /\ [events[e] EXCEPT !.hijack = TRUE].commitment = events[e].commitment
    BY <2>1 DEF Event
  <2> QED
    BY <1>1, <2>1, <2>2, Zenon DEF FlagHijackAttempt
<1>2. ASSUME UNCHANGED events
      PROVE  /\ DOMAIN events' = DOMAIN events
             /\ \A e \in DOMAIN events : /\ events'[e].object = events[e].object
                                         /\ events'[e].commitment = events[e].commitment
  BY <1>2, Zenon
<1>3. \/ \E a \in Actor, i \in 1..MaxCommitments, x \in Object :
            RevealRegistration(a, i, x) /\ AmendRegistration(i, a, x)
      \/ \E a \in Actor, e \in 1..MaxEvents : FlagHijackAttempt(a, e)
      \/ UNCHANGED events
  BY Zenon DEF Next, Command, RegisterObject, ArchiveObject, UnarchiveObject, RevealRegistration,
         RevealNew, CommitRegistrations, UpdateParams, Block, EndBlock, vars
<1> QED
  BY <1>1, <1>2, <1>3, Zenon

(* An amendment holds its ground after any step. *)
LEMMA AmendmentStep == TypeOK /\ AmendmentStands /\ [Next]_vars => AmendmentStands'
<1> SUFFICES ASSUME TypeOK, AmendmentStands, [Next]_vars, NEW e \in DOMAIN events'
             PROVE  /\ objects'[events'[e].object] # NotRegistered
                    /\ events'[e].commitment \in DOMAIN commitments'
                    /\ objects'[events'[e].object].height
                          <= commitments'[events'[e].commitment].height
  BY Zenon DEF AmendmentStands, Registered
<1>t. /\ events \in Seq(Event) /\ commitments \in Seq(Commitment)
      /\ objects \in [Object -> Registration \cup {NotRegistered}] /\ TypeOK'
  BY TypeStep, Zenon DEF TypeOK
<1>s. Shape
  BY ShapeStep, Zenon
<1>1. ASSUME e \in DOMAIN events, events'[e].object = events[e].object,
             events'[e].commitment = events[e].commitment
      PROVE  /\ objects'[events'[e].object] # NotRegistered
             /\ events'[e].commitment \in DOMAIN commitments'
             /\ objects'[events'[e].object].height
                   <= commitments'[events'[e].commitment].height
  <2> DEFINE x == events[e].object
             c == events[e].commitment
  <2>1. x \in Object /\ Registered(x) /\ c \in DOMAIN commitments
        /\ objects[x].height <= commitments[c].height
    <3>1. events[e] \in Event
      BY <1>t, <1>1
    <3>2. x \in Object
      BY <3>1, Zenon DEF Event
    <3> QED
      BY <1>1, <3>2, Zenon DEF AmendmentStands
  <2>2. objects'[x] # NotRegistered /\ objects'[x].height <= objects[x].height
        /\ c \in DOMAIN commitments' /\ commitments'[c].height = commitments[c].height
    BY <1>s, <2>1, Zenon DEF Shape
  <2>3. objects[x].height \in Nat /\ commitments[c].height \in Nat /\ objects'[x].height \in Nat
    <3> HIDE DEF x, c
    <3>1. objects[x] \in Registration /\ objects'[x] \in Registration
      BY <1>t, <2>1, <2>2, Zenon DEF Registered, TypeOK
    <3>2. commitments[c] \in Commitment
      BY <1>t, <2>1
    <3> QED
      BY <3>1, <3>2, Zenon DEF Registration, Commitment
  <2> HIDE DEF x, c
  <2>4. objects'[x].height <= commitments'[c].height
    BY <2>1, <2>2, <2>3
  <2> QED
    BY <1>1, <2>2, <2>4, Zenon DEF x, c
<1>2. ASSUME NEW a \in Actor, NEW i \in 1..MaxCommitments, NEW x \in Object,
             RevealRegistration(a, i, x), AmendRegistration(i, a, x), e \notin DOMAIN events
      PROVE  /\ objects'[events'[e].object] # NotRegistered
             /\ events'[e].commitment \in DOMAIN commitments'
             /\ objects'[events'[e].object].height
                   <= commitments'[events'[e].commitment].height
  <2>1. events'[e].object = x /\ events'[e].commitment = i
    BY <1>t, <1>2 DEF AmendRegistration
  <2>2. i \in DOMAIN commitments /\ commitments' = commitments /\ commitments[i].height \in Nat
    <3>1. i \in DOMAIN commitments /\ commitments' = commitments
      BY <1>2, Zenon DEF RevealRegistration
    <3>2. commitments[i] \in Commitment
      BY <1>t, <3>1
    <3> QED
      BY <3>1, <3>2, Zenon DEF Commitment
  <2>3. objects'[x] # NotRegistered
    BY <1>s, <1>2, Zenon DEF Shape, AmendRegistration
  <2>4. objects'[x].height = commitments[i].height
    BY <1>t, <1>2 DEF AmendRegistration
  <2> QED
    BY <2>1, <2>2, <2>3, <2>4
<1>3. ASSUME NEW a \in Actor, NEW i \in 1..MaxCommitments, NEW x \in Object,
             AmendRegistration(i, a, x), e \in DOMAIN events
      PROVE  events'[e] = events[e]
  BY <1>t, <1>3 DEF AmendRegistration
<1> QED
  BY <1>1, <1>2, <1>3, EventStep, Zenon

(* No later claim undoes an amendment. *)
THEOREM AmendmentsStand == CmdSpec => []AmendmentStands
<1>1. Init => AmendmentStands
  BY DEF Init, AmendmentStands
<1> QED
  BY <1>1, AmendmentStep, Typed, CommandsImplement, PTL DEF Spec

-----------------------------------------------------------------------------
(* Signed commands *)

(* The replay cache knows of every command that ran until it expires. *)
Cached ==
    /\ height \in Nat
    /\ ran \in [Jws -> Nat] /\ seen \in [Jws -> Nat \cup {NotSeen}]
    /\ \A s \in Jws : seen[s] # NotSeen => seen[s] = ExpireHeight(s)
    /\ \A s \in Jws : ran[s] > 0 => seen[s] # NotSeen
    /\ JwsRunsOnce

(* A command runs only when the cache does not know it. *)
LEMMA CachedStep == Cached /\ [CmdNext]_cmdVars => Cached'
<1> SUFFICES ASSUME Cached, [CmdNext]_cmdVars PROVE Cached'
  BY Zenon
<1>h. height' \in Nat
  <2>1. ASSUME NEW a, NEW c, Dispatch(a, c) PROVE UNCHANGED height
    BY <2>1, Zenon DEF Dispatch, RegisterObject, ArchiveObject, UnarchiveObject, CommitRegistrations,
                RevealRegistration, FlagHijackAttempt
  <2>2. ASSUME DirectPolicyCmd PROVE UNCHANGED height
    BY <2>2, Zenon DEF DirectPolicyCmd, Command, RegisterObject, ArchiveObject, UnarchiveObject,
                CommitRegistrations, RevealRegistration, FlagHijackAttempt
  <2>3. \/ UNCHANGED height
        \/ height' = height + 1
    BY <2>1, <2>2, Zenon DEF CmdNext, SignedPolicyCmd, SetParams, UpdateParams, CmdBlock, Block, EndBlock,
                      vars, cmdVars
  <2> QED
    BY <2>3 DEF Cached
<1>1. ASSUME NEW s \in Jws, SignedPolicyCmd(s) PROVE Cached'
  <2>1. ExpireHeight(s) \in Nat /\ NotSeen \notin Nat
    BY CommandAssumption DEF ExpireHeight
  <2>2. seen[s] = NotSeen
    BY <1>1, <2>1, Zenon DEF SignedPolicyCmd, PayloadSpec, HasSeen, Cached
  <2>3. ran[s] = 0
    BY <2>2 DEF Cached
  <2>4. ran' = [ran EXCEPT ![s] = 1] /\ seen' = [seen EXCEPT ![s] = ExpireHeight(s)]
    BY <1>1, <2>3 DEF SignedPolicyCmd, Cached
  <2> HIDE DEF ExpireHeight
  <2>5. ran' \in [Jws -> Nat] /\ seen' \in [Jws -> Nat \cup {NotSeen}]
    BY <2>1, <2>4, Zenon DEF Cached
  <2>6. \A t \in Jws : seen'[t] # NotSeen => seen'[t] = ExpireHeight(t)
    BY <2>1, <2>4, Zenon DEF Cached
  <2>7. \A t \in Jws : ran'[t] > 0 => seen'[t] # NotSeen
    BY <2>1, <2>4, Zenon DEF Cached
  <2>8. \A t \in Jws : ran'[t] <= 1
    BY <2>4 DEF Cached, JwsRunsOnce
  <2> QED
    BY <1>h, <2>5, <2>6, <2>7, <2>8, Zenon DEF Cached, JwsRunsOnce, ExpireHeight
<1>2. CASE UNCHANGED <<seen, ran>>
  BY <1>h, <1>2, Zenon DEF Cached, JwsRunsOnce, ExpireHeight
<1> QED
  BY <1>1, <1>2, Zenon DEF CmdNext, DirectPolicyCmd, SetParams, UpdateParams, CmdBlock, cmdVars

(* A submitted string takes effect once at most, for any payloads in any   *)
(* forms, heights of any width and changes of the largest delta.           *)
THEOREM EachJwsRunsOnce == CmdSpec => []JwsRunsOnce
<1>1. CmdInit => Cached
  BY DEF CmdInit, Init, Cached, JwsRunsOnce
<1>2. Cached => JwsRunsOnce
  BY Zenon DEF Cached
<1> QED
  BY <1>1, <1>2, CachedStep, PTL DEF CmdSpec

-----------------------------------------------------------------------------
(* Bearer tokens *)

(* The record of a token, where there is one, has its type; block time is  *)
(* a natural number.                                                       *)
TokenTypeOK == blockTime \in Nat /\ records \in [Token -> Record \cup {NoRecord}]

(* The next-state relation, action by action.                              *)
Used == \E t \in Token, signer \in Signer : Authenticate(t, signer)
AnyDid == {u.did : u \in Token} \cup {NoDid}
Invalidated ==
    \E creator \in Signer, t \in Token, did \in AnyDid : InvalidateJWS(creator, did, t)

(* Authenticate writes one record: a new one before the token's expiry, or *)
(* a valid one with the current time as that of the last use.              *)
LEMMA AuthenticateWrites ==
    ASSUME TokenTypeOK, NEW t \in Token, NEW signer, Authenticate(t, signer)
    PROVE  \E r \in Record :
              /\ SetJWSToken(t, r) /\ blockTime' = blockTime
              /\ Known(t) => records[t].valid
              /\ r.valid /\ r.last = blockTime /\ Timely(t)
<1>1. CASE Known(t)
  <2>1. records[t] \in Record
    BY <1>1, Zenon DEF TokenTypeOK, Known
  <2>2. [records[t] EXCEPT !.last = blockTime] \in Record
    BY <2>1, Zenon DEF Record, TokenTypeOK
  <2> QED
    BY <1>1, <2>1, <2>2, Zenon DEF Authenticate, StoreOrUpdate, Record
<1>2. CASE ~Known(t)
  <2> DEFINE r == [valid |-> TRUE, first |-> blockTime, last |-> blockTime, ended |-> Never]
  <2>1. r \in Record /\ r.valid /\ r.last = blockTime
    BY DEF TokenTypeOK, Record, Never
  <2>2. SetJWSToken(t, r) /\ blockTime' = blockTime /\ Timely(t)
    BY <1>2, Zenon DEF Authenticate, StoreOrUpdate
  <2> QED
    BY <1>2, <2>1, <2>2, Zenon
<1> QED
  BY <1>1, <1>2, Zenon

(* UpdateJWSTokenStatus keeps all but the status and the time it changed.  *)
LEMMA EndedType ==
    ASSUME TokenTypeOK, NEW r \in Record
    PROVE  /\ Ended(r) \in Record /\ ~Ended(r).valid
           /\ Ended(r).ended = blockTime /\ Ended(r).last = r.last
<1>1. blockTime \in Int
  BY DEF TokenTypeOK
<1> QED
  BY <1>1, Zenon DEF Ended, Record

(* Init and every step keep the types.                                     *)
LEMMA TokenTypes == TokenSpec => []TokenTypeOK
<1>1. TokenInit => TokenTypeOK
  BY DEF TokenInit, TokenTypeOK
<1>2. TokenTypeOK /\ [TokenNext]_tokenVars => TokenTypeOK'
  <2> SUFFICES ASSUME TokenTypeOK, [TokenNext]_tokenVars PROVE TokenTypeOK'
    BY Zenon
  <2>1. CASE Used
    <3>1. PICK t \in Token, signer \in Signer : Authenticate(t, signer)
      BY <2>1, Zenon DEF Used
    <3>2. PICK r \in Record : SetJWSToken(t, r) /\ blockTime' = blockTime
      BY <3>1, AuthenticateWrites, Zenon
    <3> QED
      BY <3>2, Zenon DEF SetJWSToken, TokenTypeOK
  <2>2. CASE Invalidated
    <3>1. PICK creator \in Signer, t \in Token, did \in AnyDid : InvalidateJWS(creator, did, t)
      BY <2>2, Zenon DEF Invalidated
    <3>2. records[t] \in Record
      BY <3>1, Zenon DEF InvalidateJWS, Known, TokenTypeOK
    <3> QED
      BY <3>1, <3>2, EndedType, Zenon DEF InvalidateJWS, SetJWSToken, TokenTypeOK
  <2>3. CASE TokenBlock
    <3>1. \A t \in Token : RunsOut(t) => Ended(records[t]) \in Record
      BY EndedType, Zenon DEF RunsOut, Known, TokenTypeOK
    <3>2. blockTime' \in Nat
      BY <2>3, TokenAssumption DEF TokenBlock, TokenTypeOK
    <3> QED
      BY <2>3, <3>1, <3>2, Zenon DEF TokenBlock, TokenTypeOK
  <2>4. CASE TokenRestart
    BY <2>4, Zenon DEF TokenRestart, TokenTypeOK
  <2>5. CASE UNCHANGED tokenVars
    BY <2>5, Zenon DEF tokenVars, TokenTypeOK
  <2> QED
    BY <2>1, <2>2, <2>3, <2>4, <2>5, Zenon DEF TokenNext, Used, Invalidated, AnyDid
<1> QED
  BY <1>1, <1>2, PTL DEF TokenSpec

(* A token that is known stays known, and SetJWSToken makes known no other.*)
LEMMA SetKnows ==
    ASSUME TokenTypeOK, NEW t \in Token, NEW r \in Record, SetJWSToken(t, r)
    PROVE  \A u \in Token : Known(u)' <=> Known(u) \/ u = t
BY TokenAssumption, Zenon DEF SetJWSToken, Known, TokenTypeOK

(* Writing a record files it under its DID and its account.                *)
LEMMA SetIndexes ==
    ASSUME TokenTypeOK, IndicesAgree, NEW t \in Token, NEW r \in Record, SetJWSToken(t, r)
    PROVE  IndicesAgree'
<1> DEFINE K == {u \in Token : Known(u)}
           L == {u \in Token : Known(u)'}
<1>1. L = K \cup {t}
  BY SetKnows, Zenon
<1>2. didIndex' = {<<u.did, u>> : u \in L}
  BY <1>1, Zenon DEF IndicesAgree, SetJWSToken
<1>3. accountIndex' = UNION {AccountEntry(u) : u \in L}
  <2>1. accountIndex' = (UNION {AccountEntry(u) : u \in K}) \cup AccountEntry(t)
    BY Zenon DEF IndicesAgree, SetJWSToken
  <2> HIDE DEF K, L
  <2> QED
    BY <1>1, <2>1, Zenon
<1> QED
  BY <1>2, <1>3, Zenon DEF IndicesAgree, AccountEntry

(* The indices agree with the records.                                     *)
THEOREM IndicesExact == TokenSpec => []IndicesAgree
<1>1. TokenInit => IndicesAgree
  BY Zenon DEF TokenInit, IndicesAgree, Known
<1>2. TokenTypeOK /\ IndicesAgree /\ [TokenNext]_tokenVars => IndicesAgree'
  <2> SUFFICES ASSUME TokenTypeOK, IndicesAgree, [TokenNext]_tokenVars PROVE IndicesAgree'
    BY Zenon
  <2>1. CASE Used
    <3>1. PICK t \in Token, signer \in Signer : Authenticate(t, signer)
      BY <2>1, Zenon DEF Used
    <3>2. PICK r \in Record : SetJWSToken(t, r)
      BY <3>1, AuthenticateWrites, Zenon
    <3> QED
      BY <3>2, SetIndexes, Zenon
  <2>2. CASE Invalidated
    <3>1. PICK creator \in Signer, t \in Token, did \in AnyDid : InvalidateJWS(creator, did, t)
      BY <2>2, Zenon DEF Invalidated
    <3>2. records[t] \in Record
      BY <3>1, Zenon DEF InvalidateJWS, Known, TokenTypeOK
    <3> QED
      BY <3>1, <3>2, EndedType, SetIndexes, Zenon DEF InvalidateJWS
  <2>3. CASE TokenBlock
    <3>1. \A t \in Token : RunsOut(t) => Ended(records[t]) # NoRecord /\ Known(t)
      BY EndedType, TokenAssumption, Zenon DEF RunsOut, Known, TokenTypeOK
    <3>2. \A t \in Token : Known(t)' <=> Known(t)
      BY <2>3, <3>1, Zenon DEF TokenBlock, Known
    <3> DEFINE K == {u \in Token : Known(u)}
               L == {u \in Token : Known(u)'}
    <3>3. L = K
      BY <3>2, Zenon
    <3> QED
      BY <2>3, <3>3, Zenon DEF TokenBlock, IndicesAgree, AccountEntry
  <2>4. CASE TokenRestart
    BY <2>4, Zenon DEF TokenRestart, IndicesAgree, Known, AccountEntry
  <2>5. CASE UNCHANGED tokenVars
    BY <2>5, Zenon DEF tokenVars, IndicesAgree, Known, AccountEntry
  <2> QED
    BY <2>1, <2>2, <2>3, <2>4, <2>5, Zenon DEF TokenNext, Used, Invalidated, AnyDid
<1> QED
  BY <1>1, <1>2, TokenTypes, PTL DEF TokenSpec

(* A use lies within the life of its token; while the token is valid, no   *)
(* use lies ahead of the block time.                                       *)
LifeInv ==
    \A t \in Token : Known(t) =>
        /\ records[t].last <= blockTime
        /\ Unix(records[t].last) <= Unix(t.exp)
        /\ ~records[t].valid =>
              records[t].last <= records[t].ended /\ records[t].ended # Never

(* What a step writes for one token keeps the facts about its life.        *)
LifeOf(t, r, time) ==
    /\ r.last <= time /\ Unix(r.last) <= Unix(t.exp)
    /\ ~r.valid => r.last <= r.ended /\ r.ended # Never

(* Ending a record at the current time keeps them.                         *)
LEMMA EndedLife ==
    ASSUME TokenTypeOK, NEW t \in Token, Known(t), LifeOf(t, records[t], blockTime)
    PROVE  LifeOf(t, Ended(records[t]), blockTime)
<1>1. records[t] \in Record
  BY Zenon DEF TokenTypeOK, Known
<1>2. blockTime \in Nat /\ blockTime # Never
  BY DEF TokenTypeOK, Never
<1> QED
  BY <1>1, <1>2, EndedType, Zenon DEF LifeOf

(* Writing one record keeps the facts of the others.                       *)
LEMMA SetLife ==
    ASSUME TokenTypeOK, LifeInv, NEW t \in Token, NEW r \in Record, SetJWSToken(t, r),
           LifeOf(t, r, blockTime), blockTime' = blockTime
    PROVE  LifeInv'
<1> SUFFICES ASSUME NEW u \in Token, Known(u)'
             PROVE  LifeOf(u, records'[u], blockTime')
  BY Zenon DEF LifeInv, LifeOf, Unix
<1>1. CASE u = t
  <2>1. records'[u] = r
    BY <1>1, Zenon DEF SetJWSToken, TokenTypeOK
  <2> QED
    BY <1>1, <2>1, Zenon
<1>2. CASE u # t
  <2>1. records'[u] = records[u] /\ Known(u)
    BY <1>2, Zenon DEF SetJWSToken, TokenTypeOK, Known
  <2> QED
    BY <2>1, Zenon DEF LifeInv, LifeOf
<1> QED
  BY <1>1, <1>2, Zenon

(* No use of a token lies after its expiry or after its invalidation.      *)
THEOREM LifeKept == TokenSpec => []UsedWhileGood
<1>1. TokenInit => LifeInv
  BY Zenon DEF TokenInit, LifeInv, Known
<1>2. TokenTypeOK /\ LifeInv /\ [TokenNext]_tokenVars => LifeInv'
  <2> SUFFICES ASSUME TokenTypeOK, LifeInv, [TokenNext]_tokenVars PROVE LifeInv'
    BY Zenon
  <2>1. CASE Used
    <3>1. PICK t \in Token, signer \in Signer : Authenticate(t, signer)
      BY <2>1, Zenon DEF Used
    <3>2. PICK r \in Record : /\ SetJWSToken(t, r) /\ blockTime' = blockTime
                              /\ r.valid /\ r.last = blockTime /\ Timely(t)
      BY <3>1, AuthenticateWrites, Zenon
    <3>3. LifeOf(t, r, blockTime)
      BY <3>2 DEF LifeOf, Timely, TokenTypeOK
    <3> QED
      BY <3>2, <3>3, SetLife, Zenon
  <2>2. CASE Invalidated
    <3>1. PICK creator \in Signer, t \in Token, did \in AnyDid : InvalidateJWS(creator, did, t)
      BY <2>2, Zenon DEF Invalidated
    <3>2. records[t] \in Record /\ Known(t)
      BY <3>1, Zenon DEF InvalidateJWS, Known, TokenTypeOK
    <3>3. LifeOf(t, Ended(records[t]), blockTime)
      BY <3>2, EndedLife, Zenon DEF LifeInv, LifeOf
    <3> QED
      BY <3>1, <3>2, <3>3, EndedType, SetLife, Zenon DEF InvalidateJWS
  <2>3. CASE TokenBlock
    <3> SUFFICES ASSUME NEW t \in Token, Known(t)'
                 PROVE  LifeOf(t, records'[t], blockTime')
      BY Zenon DEF LifeInv, LifeOf, Unix
    <3>1. blockTime' \in Nat /\ blockTime <= blockTime' /\ blockTime \in Nat
      BY <2>3, TokenAssumption DEF TokenBlock, TokenTypeOK
    <3>2. Known(t) /\ records'[t] \in Record /\ LifeOf(t, records'[t], blockTime)
      <4>1. records'[t] = IF RunsOut(t) THEN Ended(records[t]) ELSE records[t]
        BY <2>3, Zenon DEF TokenBlock
      <4>2. Known(t)
        BY <4>1, Zenon DEF RunsOut, Known
      <4>3. records[t] \in Record /\ LifeOf(t, records[t], blockTime)
        BY <4>2, Zenon DEF Known, TokenTypeOK, LifeInv, LifeOf
      <4> QED
        BY <4>1, <4>2, <4>3, EndedLife, EndedType, Zenon
    <3>3. records'[t].last <= blockTime'
      BY <3>1, <3>2 DEF Record, LifeOf
    <3> QED
      BY <3>2, <3>3, Zenon DEF LifeOf
  <2>4. CASE TokenRestart
    BY <2>4, Zenon DEF TokenRestart, LifeInv, Known, Unix
  <2>5. CASE UNCHANGED tokenVars
    BY <2>5, Zenon DEF tokenVars, LifeInv, Known, Unix
  <2> QED
    BY <2>1, <2>2, <2>3, <2>4, <2>5, Zenon DEF TokenNext, Used, Invalidated, AnyDid
<1>3. LifeInv => UsedWhileGood
  BY Zenon DEF LifeInv, UsedWhileGood
<1> QED
  BY <1>1, <1>2, <1>3, TokenTypes, PTL DEF TokenSpec

(* An invalidated token is never made valid or used again.                 *)
THEOREM InvalidForGood == TokenSpec => NeverRevived
<1>1. TokenTypeOK /\ [TokenNext]_tokenVars =>
         [\A t \in Token : Known(t) /\ ~records[t].valid => records'[t] = records[t]]_tokenVars
  <2> SUFFICES ASSUME TokenTypeOK, TokenNext, NEW u \in Token, Known(u), ~records[u].valid
               PROVE  records'[u] = records[u]
    BY Zenon
  <2>1. CASE Used
    <3>1. PICK t \in Token, signer \in Signer : Authenticate(t, signer)
      BY <2>1, Zenon DEF Used
    <3>2. PICK r \in Record : SetJWSToken(t, r) /\ (Known(t) => records[t].valid)
      BY <3>1, AuthenticateWrites, Zenon
    <3> QED
      BY <3>2, Zenon DEF SetJWSToken, TokenTypeOK
  <2>2. CASE Invalidated
    BY <2>2, Zenon DEF Invalidated, InvalidateJWS, SetJWSToken, TokenTypeOK
  <2>3. CASE TokenBlock
    BY <2>3, Zenon DEF TokenBlock, RunsOut
  <2>4. CASE TokenRestart
    BY <2>4, Zenon DEF TokenRestart
  <2> QED
    BY <2>1, <2>2, <2>3, <2>4, Zenon DEF TokenNext, Used, Invalidated, AnyDid
<1> QED
  BY <1>1, TokenTypes, PTL DEF TokenSpec, NeverRevived

-----------------------------------------------------------------------------
(* The faucet *)

(* The committed state. *)
Committed == [seq : Nat, balance : Nat, accounts : SUBSET Address,
              paid : [Address -> Nat], granted : SUBSET (Kind \X Address)]

FaucetTypeOK ==
    /\ pc \in [Handler -> {"idle", "checked", "read", "accepted", "done"}]
    /\ job \in [Handler -> Job]
    /\ mempool \in Seq(Job)
    /\ chain \in Committed

(* A handler signs for a sequence number that was committed when it read   *)
(* it, so it is never ahead of the chain.                                  *)
SignedForThePast == \A h \in Handler : job[h].seq <= chain.seq

PendingInv == FaucetTypeOK /\ SignedForThePast /\ OnePending

-----------------------------------------------------------------------------
(* Delivering *)

(* Any delivered transaction, also one that fails, uses up one sequence    *)
(* number.                                                                 *)
LEMMA DeliverCounts ==
    ASSUME NEW c \in Committed, NEW j \in Job
    PROVE  Deliver(c, j) \in Committed /\ Deliver(c, j).seq = c.seq + 1
<1> DEFINE next == [c EXCEPT !.seq = @ + 1]
<1>1. next \in Committed /\ next.seq = c.seq + 1 /\ next.balance = c.balance
  BY DEF Committed
<1>3. j.to \in Address /\ next.balance \in Nat /\ next.accounts \in SUBSET Address
      /\ next.paid \in [Address -> Nat] /\ next.granted \in SUBSET (Kind \X Address)
      /\ j.kind \in Kind
  <2> HIDE DEF next
  <2> QED BY <1>1, Zenon DEF Committed, Job
<1>4. CASE ~ Fails(c, j) /\ j.kind \in {"request", "init"}
  <2> DEFINE b == next.balance - Sent(j)
             a == next.accounts \cup {j.to}
             p == [next.paid EXCEPT ![j.to] = @ + (IF j.kind = "request" THEN 1 ELSE 0)]
  <2>1. Deliver(c, j) = [next EXCEPT !.balance = b, !.accounts = a, !.paid = p]
    BY <1>4, Zenon DEF Deliver
  <2>2. b \in Nat
    <3>1. ~ (Sent(j) > c.balance)
      BY <1>4, Zenon DEF Fails
    <3> QED
      BY <1>1, <1>3, <3>1, FaucetAssumption DEF Sent
  <2>3. a \in SUBSET Address /\ p \in [Address -> Nat]
    BY <1>3
  <2> HIDE DEF b, a, p, next
  <2> QED BY <1>1, <2>1, <2>2, <2>3, Zenon DEF Committed
<1>5. CASE ~ Fails(c, j) /\ j.kind \in {"grant", "grantDid"}
  <2> DEFINE g == next.granted \cup {<<j.kind, j.to>>}
             a == IF j.kind = "grant" THEN next.accounts \cup {j.to} ELSE next.accounts
  <2>1. Deliver(c, j) = [next EXCEPT !.granted = g, !.accounts = a]
    BY <1>5, Zenon DEF Deliver
  <2>2. g \in SUBSET (Kind \X Address) /\ a \in SUBSET Address
    BY <1>3
  <2> HIDE DEF g, a, next
  <2> QED BY <1>1, <2>1, <2>2, Zenon DEF Committed
<1>6. CASE Fails(c, j)
  BY <1>1, <1>6, Zenon DEF Deliver
<1> QED
  BY <1>3, <1>4, <1>5, <1>6, Zenon DEF Kind

(* A block without transactions.                                           *)
LEMMA DeliverNone == DeliverFirst(0) = chain
<1> DEFINE Iter(g) == g = [s \in SUBSET {} |-> IF s = {} THEN chain
                                              ELSE Deliver(g[s \ {Max(s)}], mempool[Max(s)])]
<1>1. 1 .. 0 = {}
  OBVIOUS
<1>2. DeliverFirst(0) = (CHOOSE g : Iter(g))[{}]
  BY <1>1, Zenon DEF DeliverFirst, MapThenFoldSet
<1>3. Iter([s \in SUBSET {} |-> chain])
  BY Zenon
<1>4. ASSUME NEW g, Iter(g) PROVE g[{}] = chain
  BY <1>4, Zenon
<1> HIDE DEF Iter
<1> QED BY <1>2, <1>3, <1>4, Zenon

(* A block with a single transaction.                                      *)
LEMMA DeliverOne == DeliverFirst(1) = Deliver(chain, mempool[1])
<1> DEFINE Body(g, s) == IF s = {} THEN chain ELSE Deliver(g[s \ {Max(s)}], mempool[Max(s)])
           Iter(g) == g = [s \in SUBSET {1} |-> Body(g, s)]
<1>1. DeliverFirst(1) = (CHOOSE g : Iter(g))[{1}]
  <2>1. 1 .. 1 = {1} OBVIOUS
  <2> QED BY <2>1, Zenon DEF DeliverFirst, MapThenFoldSet
<1>2. Max({1}) = 1
  BY DEF Max
<1>3. \A s \in SUBSET {1} : s = {} \/ s = {1}
  BY Zenon
<1>4. \E g : Iter(g)
  <2> DEFINE g == [s \in SUBSET {1} |-> IF s = {} THEN chain ELSE Deliver(chain, mempool[1])]
  <2>1. g[{}] = chain BY Zenon
  <2>2. ASSUME NEW s \in SUBSET {1} PROVE g[s] = Body(g, s)
    <3>1. CASE s = {} BY <3>1, <2>1, Zenon
    <3>2. CASE s = {1}
      <4>1. s \ {Max(s)} = {} BY <3>2, <1>2, Zenon
      <4>2. mempool[Max(s)] = mempool[1] BY <3>2, <1>2, Zenon
      <4>3. g[s] = Deliver(chain, mempool[1]) BY <3>2, Zenon
      <4> HIDE DEF g
      <4> QED BY <3>2, <4>1, <4>2, <4>3, <2>1, Zenon
    <3> QED BY <3>1, <3>2, <1>3, Zenon
  <2> HIDE DEF Body
  <2>3. Iter(g) BY <2>2, Zenon
  <2> HIDE DEF g, Iter
  <2> QED BY <2>3, Zenon
<1>5. ASSUME NEW g, Iter(g) PROVE g[{1}] = Deliver(chain, mempool[1])
  <2>0. {} \in SUBSET {1} /\ {1} \in SUBSET {1} BY Zenon
  <2>1. g[{}] = Body(g, {}) /\ g[{1}] = Body(g, {1})
    <3> HIDE DEF Body
    <3> QED BY <1>5, <2>0, Zenon
  <2>2. {1} \ {1} = {} BY Zenon
  <2> QED BY <2>1, <2>2, <1>2, Zenon
<1> HIDE DEF Iter
<1> QED BY <1>1, <1>4, <1>5, Zenon

-----------------------------------------------------------------------------
(* One pending transaction *)

(* The faucet starts with an empty mempool.                                *)
LEMMA PendingInit == FaucetInit => PendingInv
<1> SUFFICES ASSUME FaucetInit PROVE PendingInv
  BY Zenon
<1>1. NoJob \in Job /\ NoJob.seq = 0
  BY FaucetAssumption, Zenon DEF NoJob, Job, Kind
<1>2. chain \in Committed /\ chain.seq = 0
  <2>1. PICK existing \in SUBSET Blocked :
            chain = [seq |-> 0, balance |-> Funds, accounts |-> existing,
                     paid |-> [a \in Address |-> 0], granted |-> {}]
    BY Zenon DEF FaucetInit
  <2>2. existing \in SUBSET Address
    BY FaucetAssumption
  <2> QED
    BY <2>1, <2>2, FaucetAssumption, Zenon DEF Committed
<1> QED
  BY <1>1, <1>2 DEF FaucetInit, PendingInv, FaucetTypeOK, SignedForThePast, OnePending

(* A block takes no more than the one transaction there is, and moves the  *)
(* sequence number of the account past it.                                 *)
LEMMA BlockCounts ==
    ASSUME PendingInv, NEW n \in 0 .. Len(mempool), CommitBlock(n)
    PROVE  chain' \in Committed /\ chain'.seq = chain.seq + n /\ Len(mempool') <= 1
           /\ mempool' \in Seq(Job)
<1>1. mempool \in Seq(Job) /\ Len(mempool) \in Nat /\ Len(mempool) <= 1
      /\ chain \in Committed /\ chain.seq \in Nat
  BY DEF PendingInv, FaucetTypeOK, OnePending, Committed
<1>2. CASE n = 0
  <2>1. mempool' = mempool
    BY <1>1, <1>2 DEF CommitBlock
  <2>2. chain' = chain
    BY <1>2, DeliverNone, Zenon DEF CommitBlock
  <2> QED
    BY <1>1, <1>2, <2>1, <2>2
<1>3. CASE n = 1 /\ Len(mempool) = 1
  <2>1. mempool[1] \in Job
    <3>1. 1 \in DOMAIN mempool
      BY <1>1, <1>3
    <3> QED
      BY <1>1, <3>1
  <2>2. chain' = Deliver(chain, mempool[1])
    BY <1>3, DeliverOne, Zenon DEF CommitBlock
  <2>3. Len(mempool') = 0 /\ mempool' \in Seq(Job)
    BY <1>1, <1>3 DEF CommitBlock
  <2> QED
    BY <1>1, <1>3, <2>1, <2>2, <2>3, DeliverCounts
<1>4. n = 0 \/ (n = 1 /\ Len(mempool) = 1)
  <2> DEFINE len == Len(mempool)
  <2>1. len \in Nat /\ len <= 1 /\ n \in 0 .. len
    BY <1>1, Zenon
  <2> HIDE DEF len
  <2>2. n = 0 \/ (n = 1 /\ len = 1)
    BY <2>1
  <2> QED BY <2>2, Zenon DEF len
<1> QED
  BY <1>2, <1>3, <1>4, Zenon

(* Every step of a handler and every block keep at most one pending.       *)
LEMMA PendingStep == PendingInv /\ [FaucetNext]_faucetVars => PendingInv'
<1> SUFFICES ASSUME PendingInv, [FaucetNext]_faucetVars PROVE PendingInv'
  BY Zenon
<1> USE DEF PendingInv
<1>0. /\ chain.seq \in Nat /\ Len(mempool) \in Nat
      /\ \A h \in Handler : job[h] \in Job /\ job[h].seq \in Nat
  BY DEF FaucetTypeOK, Committed, Job
<1>1. ASSUME NEW h \in Handler, NEW kind \in Kind, NEW a \in Address, Check(h, kind, a)
      PROVE  PendingInv'
  <2> DEFINE new == [kind |-> kind, to |-> a, seq |-> 0]
  <2>1. new \in Job /\ new.seq = 0
    BY Zenon DEF Job
  <2>2. job' = [job EXCEPT ![h] = new]
    BY <1>1, Zenon DEF Check
  <2> HIDE DEF new
  <2> QED
    BY <1>0, <1>1, <2>1, <2>2 DEF Check, FaucetTypeOK, SignedForThePast, OnePending
<1>2. ASSUME NEW h \in Handler, GetAccount(h) PROVE PendingInv'
  <2> DEFINE new == [job[h] EXCEPT !.seq = chain.seq]
  <2>1. new \in Job /\ new.seq = chain.seq
    BY <1>0, Zenon DEF Job
  <2>2. job' = [job EXCEPT ![h] = new]
    BY <1>2, Zenon DEF GetAccount, AccountSequence
  <2> HIDE DEF new
  <2>3. UNCHANGED <<mempool, chain>> /\ pc' = [pc EXCEPT ![h] = "read"]
    BY <1>2, Zenon DEF GetAccount
  <2>4. FaucetTypeOK'
    BY <2>1, <2>2, <2>3, Zenon DEF FaucetTypeOK
  <2>5. SignedForThePast'
    BY <1>0, <2>1, <2>2, <2>3 DEF FaucetTypeOK, SignedForThePast
  <2> QED
    BY <2>3, <2>4, <2>5, Zenon DEF OnePending
<1>3. ASSUME NEW h \in Handler, Broadcast(h) PROVE PendingInv'
  <2>1. CASE job[h].seq = chain.seq + Len(mempool)
    <3>1. Len(mempool) = 0
      BY <1>0, <2>1 DEF SignedForThePast
    <3>2. mempool \in Seq(Job) /\ job[h] \in Job /\ mempool' = Append(mempool, job[h])
      BY <1>0, <1>3, <2>1, Zenon DEF Broadcast, FaucetTypeOK
    <3>3. mempool' \in Seq(Job) /\ Len(mempool') = 1
      BY <3>1, <3>2
    <3> QED
      BY <1>3, <2>1, <3>3 DEF Broadcast, FaucetTypeOK, SignedForThePast, OnePending
  <2>2. CASE job[h].seq # chain.seq + Len(mempool)
    BY <1>3, <2>2, Zenon DEF Broadcast, FaucetTypeOK, SignedForThePast, OnePending
  <2> QED
    BY <2>1, <2>2, Zenon
<1>4. ASSUME NEW h \in Handler, RecordRequest(h) PROVE PendingInv'
  BY <1>4, Zenon DEF RecordRequest, FaucetTypeOK, SignedForThePast, OnePending
<1>5. ASSUME NEW n \in 0 .. Len(mempool), CommitBlock(n) PROVE PendingInv'
  <2>1. /\ chain' \in Committed /\ chain'.seq = chain.seq + n /\ Len(mempool') <= 1
        /\ mempool' \in Seq(Job)
    BY <1>5, BlockCounts, Zenon
  <2>2. n \in Nat /\ UNCHANGED <<pc, job>>
    BY <1>0, <1>5 DEF CommitBlock
  <2> QED
    BY <1>0, <2>1, <2>2 DEF FaucetTypeOK, SignedForThePast, OnePending
<1>6. CASE UNCHANGED faucetVars
  BY <1>6, Zenon DEF faucetVars, FaucetTypeOK, SignedForThePast, OnePending
<1> QED
  <2>1. ASSUME NEW h \in Handler, Serve(h) PROVE PendingInv'
    BY <1>1, <1>2, <1>3, <1>4, <2>1, Zenon
    DEF Serve, Kind, HandleFaucetRequest, HandleInitAccount, HandleGrantAllowance, HandleGrantDIDAllowance
  <2> QED
    BY <1>5, <1>6, <2>1, Zenon DEF FaucetNext

(* Whatever handlers overlap, the mempool never holds two of the faucet's  *)
(* transactions: each is signed for a committed sequence number, and the   *)
(* mempool takes only the number after the ones it holds.                  *)
THEOREM AtMostOnePending == FaucetSpec => []OnePending
<1>1. PendingInv => OnePending
  BY Zenon DEF PendingInv
<1> QED
  BY <1>1, PendingInit, PendingStep, PTL DEF FaucetSpec

-----------------------------------------------------------------------------
(* Fee grants *)

GrantMap == [DidPair -> Allowance \cup {NoGrant}]

(* What the invariant is about: the DID grants, their queue and the clock. *)
DidTypeOK == now \in Nat /\ didGrants \in GrantMap

-----------------------------------------------------------------------------
(* Queues *)

(* The entries of a queue built from grants.                               *)
LEMMA QueueMember ==
    ASSUME NEW g \in GrantMap, NEW e
    PROVE  e \in QueueOf(g) <=>
             \E p \in DidPair : g[p] # NoGrant /\ g[p].exp # None /\ e = <<g[p].exp, p[1], p[2]>>
<1>1. DOMAIN g = DidPair
  BY Zenon DEF GrantMap
<1> QED
  BY <1>1, Zenon DEF QueueOf, Entry

(* A queue entry belongs to one pair.                                      *)
LEMMA EntryPair ==
    ASSUME NEW p \in DidPair, NEW q \in DidPair, p[1] = q[1], p[2] = q[2]
    PROVE  p = q
BY DEF DidPair

(* Replacing one grant moves its entry.                                    *)
LEMMA QueueReplace ==
    ASSUME NEW g \in GrantMap, NEW p \in DidPair, NEW a \in Allowance,
           g[p] # NoGrant
    PROVE  QueueOf([g EXCEPT ![p] = a]) = (QueueOf(g) \ Entry(g[p].exp, p)) \cup Entry(a.exp, p)
<1> DEFINE h == [g EXCEPT ![p] = a]
<1>1. h \in GrantMap /\ h[p] = a /\ a # NoGrant /\ \A q \in DidPair \ {p} : h[q] = g[q]
  BY NoGrantAssumption, Zenon DEF GrantMap
<1>2. \A e : e \in QueueOf(h) <=>
         \E q \in DidPair : h[q] # NoGrant /\ h[q].exp # None /\ e = <<h[q].exp, q[1], q[2]>>
  BY <1>1, QueueMember, Zenon
<1>3. \A e : e \in QueueOf(g) <=>
         \E q \in DidPair : g[q] # NoGrant /\ g[q].exp # None /\ e = <<g[q].exp, q[1], q[2]>>
  BY QueueMember, Zenon
<1> HIDE DEF h
<1>4. ASSUME NEW e
      PROVE  e \in QueueOf(h) <=> e \in (QueueOf(g) \ Entry(g[p].exp, p)) \cup Entry(a.exp, p)
  BY <1>1, <1>2, <1>3, EntryPair DEF Entry
<1> QED
  BY <1>4, Zenon DEF h

(* Giving a grant adds its entry.                                          *)
LEMMA QueueAdd ==
    ASSUME NEW g \in GrantMap, NEW p \in DidPair, NEW a \in Allowance,
           g[p] = NoGrant
    PROVE  QueueOf([g EXCEPT ![p] = a]) = QueueOf(g) \cup Entry(a.exp, p)
<1> DEFINE h == [g EXCEPT ![p] = a]
<1>1. h \in GrantMap /\ h[p] = a /\ a # NoGrant /\ \A q \in DidPair \ {p} : h[q] = g[q]
  BY NoGrantAssumption, Zenon DEF GrantMap
<1>2. \A e : e \in QueueOf(h) <=>
         \E q \in DidPair : h[q] # NoGrant /\ h[q].exp # None /\ e = <<h[q].exp, q[1], q[2]>>
  BY <1>1, QueueMember, Zenon
<1>3. \A e : e \in QueueOf(g) <=>
         \E q \in DidPair : g[q] # NoGrant /\ g[q].exp # None /\ e = <<g[q].exp, q[1], q[2]>>
  BY QueueMember, Zenon
<1> HIDE DEF h
<1>4. ASSUME NEW e
      PROVE  e \in QueueOf(h) <=> e \in QueueOf(g) \cup Entry(a.exp, p)
  BY <1>1, <1>2, <1>3 DEF Entry
<1> QED
  BY <1>4, Zenon DEF h

(* Removing grants removes their entries.                                  *)
LEMMA QueueRemove ==
    ASSUME NEW g \in GrantMap, NEW S \in SUBSET DidPair, \A p \in S : g[p] # NoGrant
    PROVE  QueueOf(Without(g, S)) = QueueOf(g) \ UNION {Entry(g[p].exp, p) : p \in S}
<1> DEFINE h == Without(g, S)
<1>1. h \in GrantMap /\ \A q \in DidPair : h[q] = IF q \in S THEN NoGrant ELSE g[q]
  BY Zenon DEF GrantMap, Without
<1>2. \A e : e \in QueueOf(h) <=>
         \E q \in DidPair : h[q] # NoGrant /\ h[q].exp # None /\ e = <<h[q].exp, q[1], q[2]>>
  BY <1>1, QueueMember, Zenon
<1>3. \A e : e \in QueueOf(g) <=>
         \E q \in DidPair : g[q] # NoGrant /\ g[q].exp # None /\ e = <<g[q].exp, q[1], q[2]>>
  BY QueueMember, Zenon
<1> HIDE DEF h
<1>4. ASSUME NEW e
      PROVE  e \in QueueOf(h) <=> e \in QueueOf(g) \ UNION {Entry(g[p].exp, p) : p \in S}
  <2>1. e \in UNION {Entry(g[p].exp, p) : p \in S} <=>
           \E p \in S : g[p].exp # None /\ e = <<g[p].exp, p[1], p[2]>>
    BY Zenon DEF Entry
  <2> QED
    BY <1>1, <1>2, <1>3, <2>1, EntryPair
<1> QED
  BY <1>4, Zenon DEF h

(* Removing the grants of some entries removes just those entries.         *)
LEMMA QueueSweep ==
    ASSUME NEW g \in GrantMap, NEW swept \in SUBSET QueueOf(g)
    PROVE  /\ QueueOf(Without(g, PairsOf(swept))) = QueueOf(g) \ swept
           /\ \A p \in DidPair : p \in PairsOf(swept) =>
                g[p] # NoGrant /\ g[p].exp # None /\ <<g[p].exp, p[1], p[2]>> \in swept
<1> DEFINE S == PairsOf(swept)
<1>1. \A e : e \in QueueOf(g) <=>
         \E q \in DidPair : g[q] # NoGrant /\ g[q].exp # None /\ e = <<g[q].exp, q[1], q[2]>>
  BY QueueMember, Zenon
<1>2. ASSUME NEW e \in swept
      PROVE  \E q \in DidPair : /\ g[q] # NoGrant /\ g[q].exp # None /\ e = <<g[q].exp, q[1], q[2]>>
                                /\ <<e[2], e[3]>> = q
  <2>1. PICK q \in DidPair : g[q] # NoGrant /\ g[q].exp # None /\ e = <<g[q].exp, q[1], q[2]>>
    BY <1>1, Zenon
  <2>2. <<e[2], e[3]>> = q
    BY <2>1 DEF DidPair
  <2> QED
    BY <2>1, <2>2, Zenon
<1>3. \A p : p \in S => p \in DidPair /\ g[p] # NoGrant /\ g[p].exp # None
                        /\ <<g[p].exp, p[1], p[2]>> \in swept
  BY <1>2, Zenon DEF PairsOf
<1>4. \A q \in DidPair : <<g[q].exp, q[1], q[2]>> \in swept => q \in S
  BY <1>2, EntryPair DEF PairsOf
<1>5. UNION {Entry(g[p].exp, p) : p \in S} = swept
  <2>1. ASSUME NEW e
        PROVE  e \in UNION {Entry(g[p].exp, p) : p \in S} <=>
                 \E p \in S : g[p].exp # None /\ e = <<g[p].exp, p[1], p[2]>>
    BY Zenon DEF Entry
  <2>2. ASSUME NEW e \in swept
        PROVE  \E p \in S : g[p].exp # None /\ e = <<g[p].exp, p[1], p[2]>>
    BY <1>2, <1>4, Zenon
  <2> HIDE DEF S
  <2> QED
    BY <2>1, <2>2, <1>3
<1> HIDE DEF S
<1>6. S \in SUBSET DidPair /\ \A p \in S : g[p] # NoGrant
  BY <1>3, Zenon
<1>7. QueueOf(Without(g, S)) = QueueOf(g) \ swept
  BY <1>5, <1>6, QueueRemove, Zenon
<1> QED
  BY <1>3, <1>7, Zenon DEF S

-----------------------------------------------------------------------------
(* Allowances *)

(* Accepting a fee keeps an allowance well-formed and its expiry as it is. *)
LEMMA ChargedType ==
    ASSUME NEW a \in Allowance, NEW fee \in Nat, NEW t \in Nat, NEW m, Accept(a, fee, m, t)
    PROVE  Charged(a, fee, t) \in Allowance /\ Charged(a, fee, t).exp = a.exp
<1> DEFINE b == AtTime(a, t)
<1>1. b \in Allowance /\ b.exp = a.exp /\ b.limit = a.limit /\ b.periodic = a.periodic
  <2> DEFINE x == NextBudget(a)
             y == NextReset(a, t)
  <2>1. x \in Nat /\ y \in Nat
    BY DEF NextBudget, NextReset, Allowance, OptNat, None
  <2>2. b = a \/ b = [a EXCEPT !.canSpend = x, !.reset = y]
    BY Zenon DEF AtTime, TryResetPeriod
  <2> HIDE DEF x, y
  <2>3. LET c == [a EXCEPT !.canSpend = x, !.reset = y]
        IN  c \in Allowance /\ c.exp = a.exp /\ c.limit = a.limit /\ c.periodic = a.periodic
    BY <2>1, Zenon DEF Allowance
  <2> QED
    BY <2>2, <2>3, Zenon
<1>2. (a.periodic => fee <= b.canSpend) /\ (a.limit # None => fee <= a.limit)
  BY Zenon DEF Accept
<1> DEFINE can == IF a.periodic THEN b.canSpend - fee ELSE b.canSpend
           lim == IF b.limit = None THEN None ELSE b.limit - fee
<1>3. b.canSpend \in Nat /\ b.limit \in OptNat
  BY <1>1, Zenon DEF Allowance
<1>4. can \in Nat /\ lim \in OptNat
  BY <1>1, <1>2, <1>3 DEF OptNat, None
<1>5. Charged(a, fee, t) = [b EXCEPT !.canSpend = can, !.limit = lim]
  BY <1>1, Zenon DEF Charged, Allowance
<1> HIDE DEF b, can, lim
<1>6. [b EXCEPT !.canSpend = can, !.limit = lim] \in Allowance
      /\ [b EXCEPT !.canSpend = can, !.limit = lim].exp = b.exp
  BY <1>1, <1>4, Zenon DEF Allowance
<1> QED
  BY <1>1, <1>5, <1>6, Zenon

-----------------------------------------------------------------------------
(* Steps *)

DidInv == DidTypeOK /\ DidQueueExact

(* A step of the promise, or one that it does not see. *)
PromiseStep == [Promise!Next]_<<now, didGrants>>

(* An expired DID grant. *)
ExpiredPairs == {p \in DidPair : didGrants[p] # NoGrant /\ Expired(didGrants[p], now)}

(* The promise reads allowances as the stores do.                          *)
LEMMA SameExpired == ASSUME NEW a, NEW t PROVE Promise!Expired(a, t) <=> Expired(a, t)
BY Zenon DEF Expired, Promise!Expired, None, Promise!None

(* The promise and the store agree on what an allowance accepts.           *)
LEMMA SameAccept ==
    ASSUME NEW a, NEW fee, NEW m, NEW t
    PROVE  /\ Promise!Accept(a, fee, m, t) <=> Accept(a, fee, m, t)
           /\ Promise!Remaining(a, fee, t) = Remaining(a, fee, t)
<1>1. Promise!None = None
  BY Zenon DEF None, Promise!None
<1>2. Promise!AtTime(a, t) = AtTime(a, t)
  BY <1>1, Zenon DEF AtTime, Promise!AtTime, TryResetPeriod, Promise!TryResetPeriod,
         NextBudget, Promise!NextBudget, NextReset, Promise!NextReset
<1>3. Promise!Charged(a, fee, t) = Charged(a, fee, t)
  BY <1>1, <1>2, Zenon DEF Charged, Promise!Charged
<1> QED
  BY <1>1, <1>2, <1>3, SameExpired, Zenon DEF Accept, Promise!Accept, Permits, Promise!Permits,
         Remaining, Promise!Remaining, UsedUp, Promise!UsedUp

(* There are no grants at genesis.                                         *)
LEMMA InitInv == FeeInit => DidInv /\ Promise!Init
<1> SUFFICES ASSUME FeeInit PROVE DidInv /\ Promise!Init
  BY Zenon
<1>1. didGrants \in GrantMap /\ \A p \in DidPair : didGrants[p] = NoGrant
  BY Zenon DEF FeeInit, GrantMap
<1>2. \A e : e \notin QueueOf(didGrants)
  BY <1>1, QueueMember, Zenon
<1> QED
  BY <1>1, <1>2, Zenon DEF FeeInit, DidInv, DidTypeOK, DidQueueExact, Promise!Init

(* Steps that leave the DID store alone.                                   *)
LEMMA UnchangedStep ==
    ASSUME DidInv, UNCHANGED <<now, didStore>>
    PROVE  DidInv' /\ PromiseStep
<1>1. UNCHANGED <<now, didGrants, didQueue>>
  BY Zenon DEF didStore
<1> QED
  BY <1>1, Zenon DEF DidInv, DidTypeOK, DidQueueExact, PromiseStep

(* Sweeps, whatever their limit, take expired grants only.                 *)
LEMMA SweepStep ==
    ASSUME DidInv, NEW limit \in Nat, RemoveExpiredDIDAllowances(limit), now' \in {now, now + 1}
    PROVE  DidInv' /\ PromiseStep
<1> DEFINE swept == Swept(didQueue, now, limit)
           S == PairsOf(swept)
<1>1. didGrants \in GrantMap /\ now \in Nat /\ didQueue = QueueOf(didGrants)
  BY Zenon DEF DidInv, DidTypeOK, DidQueueExact
<1>2. swept \in SUBSET QueueOf(didGrants) /\ \A e \in swept : e[1] < now
  BY <1>1, Zenon DEF Swept, Due
<1>3. didQueue' = didQueue \ swept /\ didGrants' = Without(didGrants, S)
  BY Zenon DEF RemoveExpiredDIDAllowances
<1> HIDE DEF swept
<1>4. /\ QueueOf(Without(didGrants, S)) = QueueOf(didGrants) \ swept
      /\ \A p \in DidPair : p \in S =>
            didGrants[p] # NoGrant /\ didGrants[p].exp # None
            /\ <<didGrants[p].exp, p[1], p[2]>> \in swept
  BY <1>1, <1>2, QueueSweep, Zenon
<1> HIDE DEF S
<1>5. \A p \in DidPair : p \in S => p \in ExpiredPairs
  BY <1>2, <1>4, Zenon DEF ExpiredPairs, Expired
<1>6. Without(didGrants, S) = [p \in DidPair |-> IF p \in S THEN NoGrant ELSE didGrants[p]]
  BY <1>1, Zenon DEF Without, GrantMap
<1>7. didGrants' \in GrantMap
  BY <1>1, <1>3, <1>6, Zenon DEF GrantMap
<1>8. DidInv'
  BY <1>1, <1>3, <1>4, <1>7 DEF DidInv, DidTypeOK, DidQueueExact
<1>9. Promise!Drop
  <2> DEFINE T == {p \in DidPair : p \in S}
  <2>1. T \in SUBSET Promise!ExpiredHolders
    BY <1>5, SameExpired, Zenon DEF ExpiredPairs, Promise!ExpiredHolders
  <2>2. didGrants' = Promise!Dropped(T)
    BY <1>3, <1>6, Zenon DEF Promise!Dropped
  <2> QED
    BY <2>1, <2>2, Zenon DEF Promise!Drop
<1> QED
  BY <1>8, <1>9, Zenon DEF PromiseStep, Promise!Next

(* Giving a grant.                                                         *)
LEMMA GiveStep ==
    ASSUME DidInv, NEW p \in DidPair, NEW a \in Allowance, GrantDIDAllowance(p, a)
    PROVE  DidInv' /\ PromiseStep
<1>1. didGrants \in GrantMap /\ now \in Nat /\ didQueue = QueueOf(didGrants)
  BY Zenon DEF DidInv, DidTypeOK, DidQueueExact
<1>2. /\ didGrants[p] = NoGrant /\ ~ Expired(a, now) /\ now' = now
      /\ didGrants' = [didGrants EXCEPT ![p] = a]
      /\ didQueue' = didQueue \cup Entry(a.exp, p)
  BY Zenon DEF GrantDIDAllowance
<1>3. didGrants' \in GrantMap
  BY <1>1, <1>2, Zenon DEF GrantMap
<1>4. DidInv'
  BY <1>1, <1>2, <1>3, QueueAdd DEF DidInv, DidTypeOK, DidQueueExact
<1>5. didGrants'[p] = a /\ \A q \in DidPair \ {p} : didGrants'[q] = didGrants[q]
  BY <1>1, <1>2, Zenon DEF GrantMap
<1>6. Promise!Allowance = Allowance
  BY Zenon DEF Allowance, Promise!Allowance, OptNat, Promise!OptNat, None, Promise!None
<1>7. Promise!Give
  BY <1>2, <1>5, <1>6, SameExpired DEF Promise!Give
<1> QED
  BY <1>4, <1>7, Zenon DEF PromiseStep, Promise!Next

(* Expiring a grant.                                                       *)
LEMMA CutStep ==
    ASSUME DidInv, NEW p \in DidPair, ExpireDIDAllowance(p)
    PROVE  DidInv' /\ PromiseStep
<1> DEFINE a == didGrants[p]
           e == IF a.periodic THEN a.reset ELSE now
           b == [a EXCEPT !.exp = e]
<1>1. didGrants \in GrantMap /\ now \in Nat /\ didQueue = QueueOf(didGrants)
  BY Zenon DEF DidInv, DidTypeOK, DidQueueExact
<1>2. /\ a # NoGrant /\ now' = now
      /\ didGrants' = [didGrants EXCEPT ![p] = b]
      /\ didQueue' = (didQueue \ Entry(a.exp, p)) \cup Entry(b.exp, p)
  BY Zenon DEF ExpireDIDAllowance, UpdateDIDAllowance
<1>3. a \in Allowance
  BY <1>1, <1>2, Zenon DEF GrantMap
<1>4. e \in OptNat
  BY <1>1, <1>3, Zenon DEF Allowance, OptNat
<1> HIDE DEF e
<1>5. b \in Allowance /\ b.exp = e
  BY <1>3, <1>4, Zenon DEF Allowance
<1> HIDE DEF b
<1>6. didGrants' \in GrantMap /\ didGrants'[p] = b
  BY <1>1, <1>2, <1>5, Zenon DEF GrantMap
<1>7. QueueOf([didGrants EXCEPT ![p] = b]) = (QueueOf(didGrants) \ Entry(a.exp, p)) \cup Entry(b.exp, p)
  BY <1>1, <1>2, <1>5, QueueReplace, Zenon
<1>8. DidInv'
  BY <1>1, <1>2, <1>6, <1>7, Zenon DEF DidInv, DidTypeOK, DidQueueExact
<1>9. Promise!Cut
  <2>1. b # NoGrant
    BY <1>5, NoGrantAssumption, Zenon
  <2>2. didGrants'[p].exp = e
    BY <1>5, <1>6, Zenon
  <2>3. didGrants' = [didGrants EXCEPT ![p] = [a EXCEPT !.exp = didGrants'[p].exp]]
    BY <1>2, <2>2, Zenon DEF b
  <2> QED
    BY <1>2, <1>6, <2>1, <2>3, Zenon DEF Promise!Cut
<1> QED
  BY <1>8, <1>9, Zenon DEF PromiseStep, Promise!Next

(* Revoking expired grants on the way to another payer.                    *)
LEMMA RevokeStep ==
    ASSUME DidInv, NEW S \in SUBSET ExpiredPairs, Revoked(S), now' = now
    PROVE  DidInv' /\ PromiseStep
<1>1. didGrants \in GrantMap /\ now \in Nat /\ didQueue = QueueOf(didGrants)
  BY Zenon DEF DidInv, DidTypeOK, DidQueueExact
<1>2. S \in SUBSET DidPair /\ \A p \in S : didGrants[p] # NoGrant
  BY Zenon DEF ExpiredPairs
<1>3. /\ didGrants' = Without(didGrants, S)
      /\ didQueue' = didQueue \ UNION {Entry(didGrants[p].exp, p) : p \in S}
  BY Zenon DEF Revoked
<1>4. Without(didGrants, S) = [p \in DidPair |-> IF p \in S THEN NoGrant ELSE didGrants[p]]
  BY <1>1, Zenon DEF Without, GrantMap
<1>5. didGrants' \in GrantMap
  BY <1>1, <1>3, <1>4, Zenon DEF GrantMap
<1>6. QueueOf(Without(didGrants, S))
        = QueueOf(didGrants) \ UNION {Entry(didGrants[p].exp, p) : p \in S}
  BY <1>1, <1>2, QueueRemove, Zenon
<1>7. DidInv'
  BY <1>1, <1>3, <1>5, <1>6, Zenon DEF DidInv, DidTypeOK, DidQueueExact
<1>8. Promise!Drop
  <2>1. S \in SUBSET Promise!ExpiredHolders
    BY SameExpired, Zenon DEF ExpiredPairs, Promise!ExpiredHolders
  <2>2. didGrants' = Promise!Dropped(S)
    BY <1>3, <1>4, Zenon DEF Promise!Dropped
  <2> QED
    BY <2>1, <2>2, Zenon DEF Promise!Drop
<1> QED
  BY <1>7, <1>8, Zenon DEF PromiseStep, Promise!Next

(* Drawing a fee from the first grant that accepts.                        *)
LEMMA DrawStep ==
    ASSUME DidInv, NEW g \in Account, NEW did \in Did, NEW fee \in Fee, NEW m \in Msg,
           UseDIDGrant(g, did, fee, m), now' = now
    PROVE  DidInv' /\ PromiseStep
<1> DEFINE p == <<g, did>>
           a == didGrants[p]
           S == {<<s, did>> : s \in {s \in Stale(did, m) : s < g}}
           gone == IF UsedUp(a, fee) THEN S \cup {p} ELSE S
           mid == Without(didGrants, S)
           left == Remaining(a, fee, now)
<1>1. didGrants \in GrantMap /\ now \in Nat /\ didQueue = QueueOf(didGrants) /\ fee \in Nat
  BY AnteAssumption, Zenon DEF DidInv, DidTypeOK, DidQueueExact
<1>2. /\ a # NoGrant /\ Accept(a, fee, m, now)
      /\ didGrants' = [mid EXCEPT ![p] = left]
      /\ didQueue' = didQueue \ UNION {Entry(didGrants[q].exp, q) : q \in gone}
  BY Zenon DEF UseDIDGrant, Accepting, Granters
<1>3. p \in DidPair /\ a \in Allowance
  BY <1>1, <1>2, Zenon DEF DidPair, GrantMap
<1>4. S \in SUBSET ExpiredPairs /\ p \notin S
  <2>1. ASSUME NEW s \in Stale(did, m), s < g
        PROVE  <<s, did>> \in ExpiredPairs /\ <<s, did>> # p
    <3>1. s \in Account /\ didGrants[<<s, did>>] # NoGrant /\ Expired(didGrants[<<s, did>>], now)
      BY <2>1, Zenon DEF Stale, Granters, AcceptExpires
    <3>2. s # g
      BY <2>1, <3>1, GrantAssumption
    <3> QED
      BY <3>1, <3>2, Zenon DEF ExpiredPairs, DidPair
  <2> QED
    BY <2>1, Zenon
<1>5. gone \in SUBSET DidPair /\ S \in SUBSET DidPair /\ \A q \in gone : didGrants[q] # NoGrant
  BY <1>2, <1>3, <1>4, Zenon DEF ExpiredPairs
<1>6. /\ UsedUp(a, fee) => left = NoGrant
      /\ ~ UsedUp(a, fee) => left = Charged(a, fee, now)
  BY Zenon DEF Remaining, UsedUp
<1>7. Charged(a, fee, now) \in Allowance /\ Charged(a, fee, now).exp = a.exp
  BY <1>1, <1>2, <1>3, ChargedType, Zenon
<1> HIDE DEF S, left
<1>8. /\ mid = [q \in DidPair |-> IF q \in S THEN NoGrant ELSE didGrants[q]]
      /\ mid \in GrantMap /\ mid[p] = a
  BY <1>1, <1>3, <1>4, Zenon DEF Without, GrantMap
<1>9. QueueOf(mid) = QueueOf(didGrants) \ UNION {Entry(didGrants[q].exp, q) : q \in S}
  BY <1>1, <1>4, <1>5, QueueRemove, Zenon DEF ExpiredPairs
<1>10. DidInv'
  <2>1. CASE UsedUp(a, fee)
    <3>1. didGrants' = Without(didGrants, gone)
      <4>1. Without(didGrants, gone) = [q \in DidPair |-> IF q \in gone THEN NoGrant ELSE didGrants[q]]
        BY <1>1, Zenon DEF Without, GrantMap
      <4> QED
        BY <1>2, <1>6, <1>8, <2>1, <4>1, Zenon
    <3>2. didGrants' \in GrantMap
      BY <1>2, <1>6, <1>8, <2>1, Zenon DEF GrantMap
    <3>3. QueueOf(Without(didGrants, gone))
            = QueueOf(didGrants) \ UNION {Entry(didGrants[q].exp, q) : q \in gone}
      BY <1>1, <1>5, QueueRemove, Zenon
    <3> QED
      BY <1>1, <1>2, <3>1, <3>2, <3>3, Zenon DEF DidInv, DidTypeOK, DidQueueExact
  <2>2. CASE ~ UsedUp(a, fee)
    <3>1. gone = S /\ left = Charged(a, fee, now)
      BY <1>6, <2>2, Zenon
    <3>2. didGrants' \in GrantMap
      BY <1>2, <1>7, <1>8, <3>1, Zenon DEF GrantMap
    <3> HIDE DEF mid
    <3>3. QueueOf([mid EXCEPT ![p] = left]) = (QueueOf(mid) \ Entry(a.exp, p)) \cup Entry(a.exp, p)
      <4>1. left \in Allowance /\ left.exp = a.exp
        BY <1>7, <3>1, Zenon
      <4>2. mid \in GrantMap /\ p \in DidPair /\ mid[p] = a /\ mid[p] # NoGrant
        BY <1>2, <1>3, <1>8, Zenon
      <4>3. QueueOf([mid EXCEPT ![p] = left])
              = (QueueOf(mid) \ Entry(mid[p].exp, p)) \cup Entry(left.exp, p)
        BY <4>1, <4>2, QueueReplace, Zenon
      <4> QED
        BY <4>1, <4>2, <4>3, Zenon
    <3>4. Entry(a.exp, p) \subseteq QueueOf(mid)
      BY <1>2, <1>3, <1>8, QueueMember, Zenon DEF Entry
    <3>5. QueueOf(didGrants') = QueueOf(mid)
      BY <1>2, <3>3, <3>4, Zenon
    <3> QED
      BY <1>1, <1>2, <1>9, <3>1, <3>2, <3>5, Zenon DEF DidInv, DidTypeOK, DidQueueExact
  <2> QED
    BY <2>1, <2>2, Zenon
<1>11. Promise!Draw
  <2>1. S \in SUBSET Promise!ExpiredHolders
    BY <1>4, SameExpired, Zenon DEF ExpiredPairs, Promise!ExpiredHolders
  <2>2. mid = Promise!Dropped(S)
    BY <1>8, Zenon DEF Promise!Dropped
  <2>3. Promise!Accept(a, fee, m, now) /\ left = Promise!Remaining(a, fee, now)
    BY <1>2, SameAccept, Zenon DEF left
  <2> HIDE DEF mid
  <2>4. didGrants' = [Promise!Dropped(S) EXCEPT ![p] = Promise!Remaining(a, fee, now)]
    BY <1>2, <2>2, <2>3, Zenon
  <2> QED
    BY <1>2, <1>3, <2>1, <2>3, <2>4, Zenon DEF Promise!Draw
<1> QED
  BY <1>10, <1>11, Zenon DEF PromiseStep, Promise!Next

(* Falling through to another payer.                                       *)
LEMMA NoGrantStep ==
    ASSUME DidInv, NEW did \in Did \cup {None}, NEW fee, NEW m, NoDIDGrant(did, fee, m), now' = now
    PROVE  DidInv' /\ PromiseStep
<1>1. CASE UNCHANGED didStore
  BY <1>1, UnchangedStep, Zenon
<1>2. CASE did # None /\ Revoked({<<s, did>> : s \in Stale(did, m)})
  <2>1. {<<s, did>> : s \in Stale(did, m)} \in SUBSET ExpiredPairs
    <3>1. ASSUME NEW s \in Stale(did, m)
          PROVE  <<s, did>> \in ExpiredPairs
      <4>1. s \in Account /\ did \in Did
        BY <1>2, Zenon DEF Stale, Granters
      <4>2. didGrants[<<s, did>>] # NoGrant /\ Expired(didGrants[<<s, did>>], now)
        BY Zenon DEF Stale, Granters, AcceptExpires
      <4> QED
        BY <4>1, <4>2, Zenon DEF ExpiredPairs, DidPair
    <3> QED
      BY <3>1, Zenon
  <2> QED
    BY <1>2, <2>1, RevokeStep, Zenon
<1> QED
  BY <1>1, <1>2, Zenon DEF NoDIDGrant

(* Every step.                                                             *)
LEMMA NextStep == DidInv /\ [FeeNext]_feeVars => DidInv' /\ PromiseStep
<1> SUFFICES ASSUME DidInv, [FeeNext]_feeVars PROVE DidInv' /\ PromiseStep
  BY Zenon
<1>1. CASE UNCHANGED feeVars
  BY <1>1, UnchangedStep, Zenon DEF feeVars, grantVars, didStore
<1>2. CASE FeeBlock
  <2>1. RemoveExpiredDIDAllowances(SweepLimit) /\ now' \in {now, now + 1} /\ SweepLimit \in Nat
    BY <1>2, GrantAssumption, Zenon DEF FeeBlock, NextBlock, EndBlocker
  <2> QED
    BY <2>1, SweepStep, Zenon
<1>3. CASE FeeRestart
  <2>1. UNCHANGED <<now, didGrants>> /\ didQueue' = QueueOf(didGrants)
    BY <1>3, Zenon DEF FeeRestart, InitGenesis
  <2> QED
    BY <2>1, Zenon DEF DidInv, DidTypeOK, DidQueueExact, PromiseStep
<1>4. CASE AccountMessage
  BY <1>4, UnchangedStep, Zenon DEF AccountMessage, GrantAllowance, RevokeAllowance, PruneAllowances
<1>5. CASE DidMessage
  <2>1. CASE \E p \in DidPair, a \in DidOffered : GrantDIDAllowance(p, a)
    BY <2>1, GiveStep, GrantAssumption, Zenon
  <2>2. CASE \E p \in DidPair : ExpireDIDAllowance(p)
    BY <2>2, CutStep, Zenon
  <2>3. CASE PruneDIDAllowances
    BY <2>3, SweepStep, GrantAssumption, Zenon DEF PruneDIDAllowances
  <2> QED
    BY <1>5, <2>1, <2>2, <2>3, Zenon DEF DidMessage
<1>6. CASE Pay
  <2> PICK payer \in Payer, fee \in Fee, m \in Msg :
        \/ \E g \in Account : PayByRelay(payer, g, fee, m)
        \/ \E did \in Did : PayByDID(did, fee, m)
        \/ \E did \in Did \cup {None}, g \in Account : PayByGranter(payer, g, did, fee, m)
        \/ \E did \in Did \cup {None} : PayByPayer(payer, did, fee, m)
    BY <1>6, Zenon DEF Pay
  <2>1. CASE \E g \in Account : PayByRelay(payer, g, fee, m)
    BY <2>1, UnchangedStep, Zenon DEF PayByRelay
  <2>2. CASE \E did \in Did : PayByDID(did, fee, m)
    BY <2>2, DrawStep, Zenon DEF PayByDID
  <2>3. CASE \E did \in Did \cup {None}, g \in Account : PayByGranter(payer, g, did, fee, m)
    BY <2>3, NoGrantStep, Zenon DEF PayByGranter
  <2>4. CASE \E did \in Did \cup {None} : PayByPayer(payer, did, fee, m)
    BY <2>4, NoGrantStep, Zenon DEF PayByPayer
  <2> QED
    BY <2>1, <2>2, <2>3, <2>4, Zenon
<1> QED
  BY <1>1, <1>2, <1>3, <1>4, <1>5, <1>6, Zenon DEF FeeNext

-----------------------------------------------------------------------------
(* Periods and payments *)

(* A grant whose budget is reset by the clock: a basic allowance, and one  *)
(* with a period of no length, are not bounded by their periods.           *)
Resetting(a) == a # NoGrant /\ a.periodic /\ a.period > 0

(* What one block may still draw from an allowance: twice the budget of a  *)
(* period as long as the period that ended exactly one period ago has not  *)
(* been reset, and the rest of it afterwards.                              *)
WithinPeriods(a, d, t) ==
    /\ a.canSpend <= a.periodLimit
    /\ a.reset < t => d = 0
    /\ a.reset = t => d <= a.periodLimit
    /\ a.reset > t => d + a.canSpend <= 2 * a.periodLimit

(* What the granters of DID grants offer starts within the budget of one   *)
(* period.                                                                 *)
OffersWithinPeriod == \A a \in DidOffered : a.canSpend <= a.periodLimit

PaidTypeOK == balance \in [Account -> Int] /\ drawn \in [DidPair -> Nat]

PeriodInv ==
    /\ DidInv /\ PaidTypeOK
    /\ \A p \in DidPair : Resetting(didGrants[p]) => WithinPeriods(didGrants[p], drawn[p], now)

(* Charging a fee leaves the kind and the length of the period alone.      *)
LEMMA ChargedKeepsPeriod ==
    ASSUME NEW a \in Allowance, NEW fee, NEW t \in Nat
    PROVE  Charged(a, fee, t).periodic = a.periodic /\ Charged(a, fee, t).period = a.period
<1> DEFINE b == AtTime(a, t)
           x == NextBudget(a)
           y == NextReset(a, t)
           can == IF a.periodic THEN b.canSpend - fee ELSE b.canSpend
           lim == IF b.limit = None THEN None ELSE b.limit - fee
<1>1. x \in Nat /\ y \in Nat
  BY DEF NextBudget, NextReset, Allowance, OptNat, None
<1>2. b = a \/ b = [a EXCEPT !.canSpend = x, !.reset = y]
  BY Zenon DEF AtTime, TryResetPeriod
<1> HIDE DEF x, y
<1>3. b \in Allowance /\ b.periodic = a.periodic /\ b.period = a.period
  BY <1>1, <1>2, Zenon DEF Allowance
<1>4. Charged(a, fee, t) = [b EXCEPT !.canSpend = can, !.limit = lim]
  BY <1>3, Zenon DEF Charged, Allowance
<1> HIDE DEF b, can, lim
<1> QED
  BY <1>3, <1>4, Zenon DEF Allowance

(* A fee drawn within a period, or after one or two resets, stays within.  *)
LEMMA ChargedWithin ==
    ASSUME NEW a \in Allowance, a.periodic, a.period > 0, NEW fee \in Nat, NEW t \in Nat, NEW m,
           NEW d \in Nat, Accept(a, fee, m, t), WithinPeriods(a, d, t)
    PROVE  WithinPeriods(Charged(a, fee, t), d + fee, t)
<1> DEFINE b == AtTime(a, t)
           x == NextBudget(a)
           y == NextReset(a, t)
           can == b.canSpend - fee
           lim == IF b.limit = None THEN None ELSE b.limit - fee
           c == [b EXCEPT !.canSpend = can, !.limit = lim]
<1>1. x \in Nat /\ y \in Nat /\ x <= a.periodLimit
  BY DEF NextBudget, NextReset, Allowance, OptNat, None
<1>2. /\ a.reset \in Nat /\ a.period \in Nat /\ a.canSpend \in Nat /\ a.periodLimit \in Nat
      /\ a.period > 0
  BY Zenon DEF Allowance
<1>3. /\ t < a.reset => b = a
      /\ ~ (t < a.reset) => b = [a EXCEPT !.canSpend = x, !.reset = y]
  BY Zenon DEF AtTime, TryResetPeriod
<1>4. y >= t /\ y >= a.reset + a.period
  BY <1>2 DEF NextReset
<1> HIDE DEF x, y
<1>5. ~ (t < a.reset) => b.canSpend = x /\ b.reset = y /\ b.periodLimit = a.periodLimit
  BY <1>3, Zenon DEF Allowance
<1>6. fee <= b.canSpend
  BY Zenon DEF Accept
<1>7. Charged(a, fee, t) = c
  BY Zenon DEF Charged
<1>8. b \in Allowance
  <2>1. [a EXCEPT !.canSpend = x, !.reset = y] \in Allowance
    BY <1>1, Zenon DEF Allowance
  <2> QED
    BY <1>3, <2>1, Zenon
<1> HIDE DEF b, can, lim
<1>9. c.canSpend = can /\ c.reset = b.reset /\ c.periodLimit = b.periodLimit
  BY <1>8, Zenon DEF Allowance
<1>10. can = b.canSpend - fee
  BY Zenon DEF can
<1> HIDE DEF c
<1>11. CASE t < a.reset
  BY <1>2, <1>3, <1>6, <1>7, <1>9, <1>10, <1>11 DEF WithinPeriods
<1>12. CASE ~ (t < a.reset)
  <2>1. b.canSpend = x /\ b.reset = y /\ b.periodLimit = a.periodLimit
    BY <1>5, <1>12, Zenon
  <2>2. d <= a.periodLimit
    BY <1>2, <1>12 DEF WithinPeriods
  <2>3. y = t => a.reset < t
    BY <1>2, <1>4
  <2> QED
    BY <1>1, <1>2, <1>4, <1>6, <1>7, <1>9, <1>10, <2>1, <2>2, <2>3 DEF WithinPeriods
<1> QED
  BY <1>11, <1>12, Zenon

(* A grant that no step charges stays within its periods, and so does one  *)
(* that is gone or new.                                                    *)
LEMMA KeptWithin ==
    ASSUME PeriodInv, DidInv', PaidTypeOK', now' = now,
           \A p \in DidPair :
             \/ ~ Resetting(didGrants'[p])
             \/ WithinPeriods(didGrants'[p], drawn'[p], now)
             \/ didGrants'[p] = didGrants[p] /\ drawn'[p] = drawn[p]
    PROVE  PeriodInv'
BY Zenon DEF PeriodInv

(* Every use, revocation, sweep and block keeps the account of the         *)
(* periods.                                                                *)
LEMMA PeriodStep ==
    OffersWithinPeriod /\ PeriodInv /\ [FeeNext]_feeVars => PeriodInv'
<1> SUFFICES ASSUME OffersWithinPeriod, PeriodInv, [FeeNext]_feeVars PROVE PeriodInv'
  BY Zenon
<1>0. DidInv /\ DidInv'
  BY NextStep, Zenon DEF PeriodInv
<1>a. /\ didGrants \in GrantMap /\ now \in Nat /\ balance \in [Account -> Int]
      /\ drawn \in [DidPair -> Nat] /\ PaidTypeOK
  BY <1>0, Zenon DEF PeriodInv, PaidTypeOK, DidInv, DidTypeOK
<1>1. CASE UNCHANGED feeVars
  BY <1>0, <1>1, Zenon DEF feeVars, grantVars, PeriodInv, PaidTypeOK
<1>2. CASE FeeBlock
  <2>1. drawn' = Nothing /\ UNCHANGED balance /\ RemoveExpiredDIDAllowances(SweepLimit)
    BY <1>2, Zenon DEF FeeBlock, NextBlock, EndBlocker
  <2>2. \A p \in DidPair : didGrants'[p] = NoGrant \/ didGrants'[p] = didGrants[p]
    BY <1>a, <2>1, Zenon DEF RemoveExpiredDIDAllowances, Without, GrantMap
  <2>3. PaidTypeOK'
    BY <1>a, <2>1, Zenon DEF PaidTypeOK, Nothing
  <2>4. ASSUME NEW p \in DidPair, Resetting(didGrants'[p])
        PROVE  WithinPeriods(didGrants'[p], drawn'[p], now')
    <3>1. didGrants'[p] = didGrants[p] /\ drawn'[p] = 0
      BY <2>1, <2>2, <2>4, Zenon DEF Resetting, Nothing
    <3>2. didGrants[p].canSpend <= didGrants[p].periodLimit
      BY <2>4, <3>1, Zenon DEF PeriodInv, WithinPeriods
    <3>3. didGrants[p].canSpend \in Nat /\ didGrants[p].periodLimit \in Nat
      BY <1>a, <2>4, <3>1, Zenon DEF GrantMap, Resetting, Allowance
    <3> QED
      BY <3>1, <3>2, <3>3 DEF WithinPeriods
  <2> QED
    BY <1>0, <2>3, <2>4, Zenon DEF PeriodInv
<1>3. CASE FeeRestart
  BY <1>0, <1>3, Zenon DEF FeeRestart, InitGenesis, PeriodInv, PaidTypeOK
<1>4. CASE AccountMessage
  <2>1. UNCHANGED <<now, didGrants, balance, drawn>>
    BY <1>4, Zenon DEF AccountMessage, GrantAllowance, RevokeAllowance, PruneAllowances, didStore
  <2> QED
    BY <1>0, <2>1, Zenon DEF PeriodInv, PaidTypeOK
<1>5. CASE DidMessage
  <2>1. ASSUME NEW p \in DidPair, NEW a \in DidOffered, GrantDIDAllowance(p, a),
               drawn' = [drawn EXCEPT ![p] = 0], UNCHANGED balance
        PROVE  PeriodInv'
    <3>1. didGrants' = [didGrants EXCEPT ![p] = a] /\ now' = now
      BY <2>1, Zenon DEF GrantDIDAllowance
    <3>2. PaidTypeOK'
      BY <1>a, <2>1, Zenon DEF PaidTypeOK
    <3>3. a \in Allowance /\ a.canSpend <= a.periodLimit
      BY GrantAssumption, Zenon DEF OffersWithinPeriod
    <3>4. WithinPeriods(a, 0, now)
      BY <1>a, <3>3 DEF WithinPeriods, Allowance
    <3>5. ASSUME NEW q \in DidPair
          PROVE  \/ WithinPeriods(didGrants'[q], drawn'[q], now)
                 \/ didGrants'[q] = didGrants[q] /\ drawn'[q] = drawn[q]
      <4>1. CASE q = p
        <5>1. didGrants'[q] = a /\ drawn'[q] = 0
          BY <1>a, <2>1, <3>1, <4>1, Zenon DEF GrantMap
        <5> QED
          BY <3>4, <5>1, Zenon
      <4>2. CASE q # p
        BY <1>a, <2>1, <3>1, <4>2, Zenon DEF GrantMap
      <4> QED
        BY <4>1, <4>2, Zenon
    <3> QED
      BY <1>0, <3>1, <3>2, <3>5, KeptWithin, Zenon
  <2>2. ASSUME NEW p \in DidPair, ExpireDIDAllowance(p), UNCHANGED <<balance, drawn>>
        PROVE  PeriodInv'
    <3> DEFINE a == didGrants[p]
               e == IF a.periodic THEN a.reset ELSE now
               b == [a EXCEPT !.exp = e]
    <3>1. a # NoGrant /\ didGrants' = [didGrants EXCEPT ![p] = b] /\ now' = now
      BY <2>2, Zenon DEF ExpireDIDAllowance, UpdateDIDAllowance
    <3>2. a \in Allowance
      BY <1>a, <3>1, Zenon DEF GrantMap
    <3> HIDE DEF e
    <3>3. /\ b.periodic = a.periodic /\ b.period = a.period /\ b.canSpend = a.canSpend
          /\ b.reset = a.reset /\ b.periodLimit = a.periodLimit
      BY <3>2, Zenon DEF Allowance
    <3> HIDE DEF b
    <3>4. didGrants'[p] = b /\ \A q \in DidPair \ {p} : didGrants'[q] = didGrants[q]
      BY <1>a, <3>1, Zenon DEF GrantMap
    <3>5. ~ Resetting(b) \/ WithinPeriods(b, drawn[p], now)
      BY <3>1, <3>3, Zenon DEF PeriodInv, Resetting, WithinPeriods
    <3>6. PaidTypeOK' /\ drawn' = drawn
      BY <1>a, <2>2, Zenon DEF PaidTypeOK
    <3> QED
      BY <1>0, <3>1, <3>4, <3>5, <3>6, KeptWithin, Zenon
  <2>3. CASE PruneDIDAllowances /\ UNCHANGED <<balance, drawn>>
    <3>1. \A p \in DidPair : didGrants'[p] = NoGrant \/ didGrants'[p] = didGrants[p]
      BY <1>a, <2>3, Zenon DEF PruneDIDAllowances, RemoveExpiredDIDAllowances, Without, GrantMap
    <3>2. PaidTypeOK' /\ drawn' = drawn /\ now' = now
      BY <1>a, <2>3, Zenon DEF PaidTypeOK, PruneDIDAllowances
    <3> QED
      BY <1>0, <3>1, <3>2, KeptWithin, Zenon DEF Resetting
  <2> QED
    BY <1>5, <2>1, <2>2, <2>3, Zenon DEF DidMessage
<1>6. CASE Pay
  <2> PICK payer \in Payer, fee \in Fee, m \in Msg :
        \/ \E g \in Account : PayByRelay(payer, g, fee, m)
        \/ \E did \in Did : PayByDID(did, fee, m)
        \/ \E did \in Did \cup {None}, g \in Account : PayByGranter(payer, g, did, fee, m)
        \/ \E did \in Did \cup {None} : PayByPayer(payer, did, fee, m)
    BY <1>6, Zenon DEF Pay
  <2>0. fee \in Nat /\ payer \in Account
    BY AnteAssumption, Zenon
  <2>a. \A a \in Account : DeductFees(a, fee) => balance' \in [Account -> Int]
    BY <1>a, <2>0 DEF DeductFees
  <2>b. \A did, x, y : NoDIDGrant(did, x, y) =>
           \A p \in DidPair : didGrants'[p] = NoGrant \/ didGrants'[p] = didGrants[p]
    BY <1>a, Zenon DEF NoDIDGrant, Revoked, Without, GrantMap, didStore
  <2>1. CASE \E g \in Account : PayByRelay(payer, g, fee, m)
    <3>1. UNCHANGED <<now, didGrants, drawn>> /\ balance' \in [Account -> Int]
      BY <2>a, <2>1, Zenon DEF PayByRelay, didStore
    <3> QED
      BY <1>0, <1>a, <3>1, KeptWithin, Zenon DEF PaidTypeOK
  <2>2. CASE \E did \in Did : PayByDID(did, fee, m)
    <3> PICK did \in Did, g \in Account :
          /\ UseDIDGrant(g, did, fee, m) /\ DeductFees(g, fee) /\ UNCHANGED now
          /\ drawn' = [drawn EXCEPT ![<<g, did>>] = @ + fee]
      BY <2>2, Zenon DEF PayByDID
    <3> DEFINE p == <<g, did>>
               a == didGrants[p]
               S == {<<s, did>> : s \in {s \in Stale(did, m) : s < g}}
               left == Remaining(a, fee, now)
    <3>1. /\ a # NoGrant /\ Accept(a, fee, m, now)
          /\ didGrants' = [Without(didGrants, S) EXCEPT ![p] = left]
      BY Zenon DEF UseDIDGrant, Accepting, Granters
    <3>2. p \in DidPair /\ a \in Allowance
      BY <1>a, <3>1, Zenon DEF DidPair, GrantMap
    <3>3. PaidTypeOK' /\ drawn'[p] = drawn[p] + fee /\ drawn[p] \in Nat
          /\ \A q \in DidPair \ {p} : drawn'[q] = drawn[q]
      <4>1. drawn \in [DidPair -> Nat] /\ balance' \in [Account -> Int]
        BY <1>a, <2>a, Zenon DEF PaidTypeOK
      <4>2. drawn' \in [DidPair -> Nat] /\ drawn'[p] = drawn[p] + fee
            /\ \A q \in DidPair \ {p} : drawn'[q] = drawn[q]
        <5>1. drawn[p] + fee \in Nat
          BY <2>0, <3>2, <4>1
        <5> QED
          BY <3>2, <4>1, <5>1, Zenon
      <4> QED
        BY <3>2, <4>1, <4>2, Zenon DEF PaidTypeOK
    <3> HIDE DEF S, left
    <3>4. /\ didGrants'[p] = left
          /\ \A q \in DidPair \ {p} : didGrants'[q] = NoGrant \/ didGrants'[q] = didGrants[q]
      BY <1>a, <3>1, <3>2, Zenon DEF Without, GrantMap
    <3>5. left = NoGrant \/ left = Charged(a, fee, now)
      BY Zenon DEF left, Remaining
    <3>6. Charged(a, fee, now) \in Allowance
          /\ Charged(a, fee, now).periodic = a.periodic /\ Charged(a, fee, now).period = a.period
      <4> HIDE DEF a
      <4>1. Charged(a, fee, now) \in Allowance
        BY <1>a, <2>0, <3>1, <3>2, ChargedType, Zenon
      <4>2. Charged(a, fee, now).periodic = a.periodic /\ Charged(a, fee, now).period = a.period
        BY <1>a, <3>2, ChargedKeepsPeriod, Zenon
      <4> QED
        BY <4>1, <4>2, Zenon
    <3> HIDE DEF a
    <3>7. Resetting(left) => WithinPeriods(left, drawn[p] + fee, now)
      <4> SUFFICES ASSUME Resetting(left) PROVE WithinPeriods(left, drawn[p] + fee, now)
        BY Zenon
      <4>1. left = Charged(a, fee, now) /\ a.periodic /\ a.period > 0
        BY <3>5, <3>6, Zenon DEF Resetting
      <4>2. WithinPeriods(a, drawn[p], now)
        BY <3>1, <3>2, <4>1, Zenon DEF PeriodInv, Resetting, a
      <4> QED
        BY <1>a, <2>0, <3>1, <3>2, <3>3, <4>1, <4>2, ChargedWithin, Zenon
    <3>8. \A q \in DidPair :
             \/ ~ Resetting(didGrants'[q])
             \/ WithinPeriods(didGrants'[q], drawn'[q], now)
             \/ didGrants'[q] = didGrants[q] /\ drawn'[q] = drawn[q]
      <4> TAKE q \in DidPair
      <4>1. CASE q = p
        BY <3>3, <3>4, <3>7, <4>1, Zenon
      <4>2. CASE q # p
        BY <3>3, <3>4, <4>2, Zenon DEF Resetting
      <4> QED
        BY <4>1, <4>2, Zenon
    <3> QED
      BY <1>0, <3>3, <3>8, KeptWithin, Zenon
  <2>3. CASE \E did \in Did \cup {None}, g \in Account : PayByGranter(payer, g, did, fee, m)
    <3>1. UNCHANGED <<now, drawn>> /\ balance' \in [Account -> Int]
          /\ \A p \in DidPair : didGrants'[p] = NoGrant \/ didGrants'[p] = didGrants[p]
      BY <2>a, <2>b, <2>3, Zenon DEF PayByGranter
    <3> QED
      BY <1>0, <1>a, <3>1, KeptWithin, Zenon DEF PaidTypeOK, Resetting
  <2>4. CASE \E did \in Did \cup {None} : PayByPayer(payer, did, fee, m)
    <3>1. UNCHANGED <<now, drawn>> /\ balance' \in [Account -> Int]
          /\ \A p \in DidPair : didGrants'[p] = NoGrant \/ didGrants'[p] = didGrants[p]
      BY <2>0, <2>a, <2>b, <2>4, Zenon DEF PayByPayer
    <3> QED
      BY <1>0, <1>a, <3>1, KeptWithin, Zenon DEF PaidTypeOK, Resetting
  <2> QED
    BY <2>1, <2>2, <2>3, <2>4, Zenon
<1> QED
  BY <1>1, <1>2, <1>3, <1>4, <1>5, <1>6, Zenon DEF FeeNext

-----------------------------------------------------------------------------
(* Theorems *)

(* The expiry queue of DID grants always holds exactly the entries of the  *)
(* grants that expire (GrantDIDAllowance, UpdateDIDAllowance,              *)
(* revokeDIDAllowance, RemoveExpiredDIDAllowances and InitGenesis agree).  *)
THEOREM DidQueueAgrees == FeeSpec => []DidQueueExact
<1>1. FeeInit => DidInv
  BY InitInv, Zenon
<1>2. DidInv /\ [FeeNext]_feeVars => DidInv'
  BY NextStep, Zenon
<1>3. DidInv => DidQueueExact
  BY Zenon DEF DidInv
<1> QED
  BY <1>1, <1>2, <1>3, PTL DEF FeeSpec

(* The DID grants of x/feegrant, used by the fee decorator, implement the  *)
(* promise of a store of grants.                                           *)
THEOREM DidGrantsImplement == FeeSpec => DidGrantsKept
<1>1. FeeInit => DidInv /\ Promise!Init
  BY InitInv, Zenon
<1>2. DidInv /\ [FeeNext]_feeVars => DidInv' /\ [Promise!Next]_<<now, didGrants>>
  BY NextStep, Zenon DEF PromiseStep
<1> QED
  BY <1>1, <1>2, PTL DEF FeeSpec, DidGrantsKept, Promise!Spec

(* The fees drawn from a periodic DID grant in one block stay within twice *)
(* the budget of a period (tryResetPeriod, UseFirstAvailableDIDGrant),     *)
(* whatever its period, its first reset and the times of the blocks, when  *)
(* granters offer no more than the budget of a period to start with.       *)
THEOREM DrawnTwiceHolds == OffersWithinPeriod => (FeeSpec => []DrawnTwiceAtMost)
<1> SUFFICES ASSUME OffersWithinPeriod PROVE FeeSpec => []DrawnTwiceAtMost
  BY Zenon
<1>1. FeeInit => PeriodInv
  <2> SUFFICES ASSUME FeeInit PROVE PeriodInv
    BY Zenon
  <2>1. DidInv
    BY InitInv, Zenon
  <2>2. PaidTypeOK
    BY AnteAssumption DEF FeeInit, PaidTypeOK
  <2>3. \A p \in DidPair : ~ Resetting(didGrants[p])
    BY Zenon DEF FeeInit, Resetting
  <2> QED
    BY <2>1, <2>2, <2>3, Zenon DEF PeriodInv
<1>2. PeriodInv /\ [FeeNext]_feeVars => PeriodInv'
  BY PeriodStep, Zenon
<1>3. PeriodInv => DrawnTwiceAtMost
  <2> SUFFICES ASSUME PeriodInv, NEW p \in DidPair, didGrants[p] # NoGrant,
                      didGrants[p].periodic, didGrants[p].period > 0
               PROVE  drawn[p] <= 2 * didGrants[p].periodLimit
    BY Zenon DEF DrawnTwiceAtMost
  <2>1. WithinPeriods(didGrants[p], drawn[p], now)
    BY Zenon DEF PeriodInv, Resetting
  <2>2. didGrants[p] \in Allowance /\ drawn[p] \in Nat /\ now \in Nat
    BY Zenon DEF PeriodInv, DidInv, DidTypeOK, PaidTypeOK, GrantMap
  <2> QED
    BY <2>1, <2>2 DEF WithinPeriods, Allowance
<1> QED
  BY <1>1, <1>2, <1>3, PTL DEF FeeSpec

(* An account that signs nothing is charged only under a grant of its own  *)
(* that has not expired and has room for the fee, by whichever way through *)
(* handleFeegrant the fee is paid.                                         *)
THEOREM ChargedUnderGrantHolds == FeeSpec => ChargedUnderGrant
<1> DEFINE covers(g, paid) == /\ g # NoGrant /\ ~ Expired(g, now)
                              /\ g.limit # None => paid <= g.limit
           Covered(a) == LET paid == balance[a] - balance'[a]
                         IN  \/ \E b \in Payer : covers(grants[<<a, b>>], paid)
                             \/ \E d \in Did : covers(didGrants[<<a, d>>], paid)
           BalanceOK == balance \in [Account -> Int]
           Change == \A a \in Account \ Payer : balance'[a] < balance[a] => Covered(a)
<1>1. FeeInit => BalanceOK
  BY AnteAssumption DEF FeeInit
<1>2. BalanceOK /\ [FeeNext]_feeVars => BalanceOK' /\ Change
  <2> SUFFICES ASSUME BalanceOK, [FeeNext]_feeVars PROVE BalanceOK' /\ Change
    BY Zenon
  <2>1. CASE UNCHANGED balance
    <3> HIDE DEF Covered
    <3>1. \A a \in Account : balance[a] \in Int
      BY Zenon
    <3> QED
      BY <2>1, <3>1
  <2>2. CASE Pay
    <3> PICK payer \in Payer, fee \in Fee, m \in Msg :
          \/ \E g \in Account : PayByRelay(payer, g, fee, m)
          \/ \E did \in Did : PayByDID(did, fee, m)
          \/ \E did \in Did \cup {None}, g \in Account : PayByGranter(payer, g, did, fee, m)
          \/ \E did \in Did \cup {None} : PayByPayer(payer, did, fee, m)
      BY <2>2, Zenon DEF Pay
    <3>1. fee \in Nat /\ payer \in Account
      BY AnteAssumption, Zenon
    <3>2. ASSUME NEW g \in Account, DeductFees(g, fee)
          PROVE  /\ BalanceOK' /\ balance[g] - balance'[g] = fee
                 /\ \A a \in Account : balance'[a] < balance[a] => a = g
      BY <3>1, <3>2 DEF DeductFees
    <3> HIDE DEF covers
    <3>3. ASSUME NEW a \in Account, UseGrantedFees(<<a, payer>>, fee, m)
          PROVE  covers(grants[<<a, payer>>], fee)
      BY <3>3, Zenon DEF UseGrantedFees, Accept, covers
    <3>4. CASE \E g \in Account : PayByRelay(payer, g, fee, m)
      BY <3>1, <3>2, <3>3, <3>4, Zenon DEF PayByRelay
    <3>5. CASE \E did \in Did : PayByDID(did, fee, m)
      <4> PICK did \in Did, g \in Account : UseDIDGrant(g, did, fee, m) /\ DeductFees(g, fee)
        BY <3>5, Zenon DEF PayByDID
      <4>1. covers(didGrants[<<g, did>>], fee)
        BY Zenon DEF UseDIDGrant, Accepting, Granters, Accept, covers
      <4> QED
        BY <3>2, <4>1, Zenon
    <3>6. CASE \E did \in Did \cup {None}, g \in Account : PayByGranter(payer, g, did, fee, m)
      <4> PICK did \in Did \cup {None}, g \in Account : PayByGranter(payer, g, did, fee, m)
        BY <3>6, Zenon
      <4>1. DeductFees(g, fee) /\ (g = payer \/ UseGrantedFees(<<g, payer>>, fee, m))
        BY Zenon DEF PayByGranter
      <4> QED
        BY <3>1, <3>2, <3>3, <4>1, Zenon
    <3>7. CASE \E did \in Did \cup {None} : PayByPayer(payer, did, fee, m)
      BY <3>1, <3>2, <3>7, Zenon DEF PayByPayer
    <3> QED
      BY <3>4, <3>5, <3>6, <3>7, Zenon
  <2> QED
    BY <2>1, <2>2, Zenon DEF FeeNext, FeeBlock, FeeRestart, AccountMessage, DidMessage, feeVars
<1>3. BalanceOK /\ [FeeNext]_feeVars => [Change]_feeVars
  BY <1>2, Zenon
<1>4. (\A a \in Account \ Payer :
          balance'[a] < balance[a] =>
            LET paid == balance[a] - balance'[a]
                cov(g) == /\ g # NoGrant /\ ~ Expired(g, now)
                          /\ g.limit # None => paid <= g.limit
            IN  \/ \E b \in Payer : cov(grants[<<a, b>>])
                \/ \E d \in Did : cov(didGrants[<<a, d>>])) <=> Change
  BY Zenon
<1> HIDE DEF Change, BalanceOK
<1> QED
  BY <1>1, <1>2, <1>3, <1>4, PTL DEF FeeSpec, ChargedUnderGrant
=============================================================================

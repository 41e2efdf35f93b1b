# Verification of the vera chain

Vera is a Cosmos SDK chain. Its own modules are `x/acp` (access control), `x/orbis`
(threshold-key rings), `x/tier` (locked stake and credits), `x/feegrant` (a fork that adds
grants to DIDs), `x/epochs`, `x/bulletin` and `x/core`; `app/` adds ante handlers, a faucet,
a mint function and transaction lanes. This directory holds TLA+ models of that code, TLC
configurations that check them on small instances, and TLAPS proofs for every instance.

The chain executes the messages of a block one after the other and rolls back a message that
fails. What makes it hard to get right is not threads but *order*: any user may put any
message between any two of another user's, time passes between blocks, committees sign off
chain over states that are gone when the signature arrives, and sweeps run at the end of a
block. The models therefore take one step per successful message, one per block end, and one
per act outside the chain that matters (a committee signing).

## Inventory

| Part | State | Operations | Hard behaviour | Modelled by |
|---|---|---|---|---|
| orbis node registry | `NodeInfo` store | create, update peer, transfer controller, whitelist, drain | whitelist read when a node is drafted, not when it joins | `OrbisNode` (drain left out) |
| orbis rings | ring store, params, ACP objects | create, vote, cancel, 8 settings, reshare by signature | votes in any order, signatures over old states, upgrades that mature by time | `OrbisRing` |
| orbis reports | two dedupe stores, expiry index, demerits | submit, end of block | the same evidence in many envelopes, windows, a kick that changes the ring | `OrbisReport` |
| orbis documents | documents, key derivations | store | the ring changes after storing | `OrbisDocument` |
| feegrant | grants and DID grants, two expiry queues | grant, revoke, use, update, expire, prune, sweep, genesis | queue and grants must agree; bounded sweep; periods reset on use | `FeeAllowance`, `FeeGrant` |
| epochs | epoch infos | begin block, genesis | catching up after a halt | `EpochInfo` (the timer of x/tier only) |
| tier lockups | lockups, unlocking lockups, insurance lockups, totals | lock, unlock, redelegate, cancel, complete, slash, genesis | one module account for all delegators; two operations at one height | `Tier` (without `UpdateParams`) |
| tier credits | balances of ucredit, total | start of epoch, rewards | one failing account stops the loop | `Tier`, `TierCredit` |
| tier subscriptions | developers, subscriptions, total granted | create, update, remove, auto-lock | the total against the subscriptions, grants that outlive them | `TierSubscription` |
| acp registration | commitments, registrations, amendment events | commit, reveal, register, archive, flag, expire | amendment by height, opening at expiry | `AcpRegistration` |
| acp commands | replay cache | signed and direct commands | replay around the expiry, heights in uint64 | `AcpCommand` (without relationships and policies) |
| core | JWS tokens with two indices, ICA connections | store, use, invalidate, expire, genesis | use in the second of expiry | `CoreToken` (tokens only) |
| ante handlers | none | deduct fee, authenticate | fall-through between payers | `FeeSource`, `FeeAnte`, `CoreToken` |
| faucet | requests | request, init account, grant | concurrent HTTP requests, one key | `Faucet` |

Interactions: rings register objects with acp and ask it for permission; reports read rings
and the registry and schedule reshares; documents name rings; tier listens to epochs, calls
staking and feegrant; ante handlers use feegrant and core.

`PROJECT.json` lists the hazards of each part at the line where they bite, and which property
covers them.

## Modules

| Module | Models | Uses |
|---|---|---|
| `OrbisNode` | the node registry (`node_info.go`, messages of `msg_server.go`) | |
| `OrbisRing` | the ring lifecycle (`msg_server.go`, `validation.go`, `ring_upgrade.go`, `reshare_sign_bytes.go`) | `OrbisNode` |
| `OrbisReport` | reports, demerits, kicks, end of block (`report.go`, `store.go`, `endblock.go`) | `OrbisRing` |
| `OrbisDocument` | documents and key derivations | `OrbisRing` |
| `FeeAllowance` | what an allowance accepts and leaves (`basic_fee.go`, `periodic_fee.go`, `filtered_fee.go`) | |
| `FeeGrant` | both grant stores and their queues (`feegrant/keeper`) | `FeeAllowance` |
| `FeeSource` | drawing a fee from a grant or an account (`UseGrantedFees`, `UseFirstAvailableDIDGrant`, `deductFees`) | `FeeGrant` |
| `FeeAnte` | who pays a fee (`app/ante/fee.go`), over the grants | `FeeSource` |
| `GrantPromise` | abstract: a store of grants without queues or sweeps | `FeeAllowance` |
| `EpochInfo` | the record of a timer and its tick (`epochs/keeper/abci.go`) | |
| `TierCredit` | credits for a lock (`calculate_credit.go`) | |
| `Tier` | lockups, epoch hooks, slashing and rewards (`tier/keeper`), staking as an external ledger | `EpochInfo`, `TierCredit` |
| `TierSubscription` | developers and subscriptions, composed with lockups and DID grants | `Tier`, `FeeSource` |
| `AcpRegistration` | registration and commitments (`acp/registration`, `acp/commitment`) | |
| `AcpCommand` | direct and signed commands (`acp/keeper`, `acp/signed_policy_cmd`) | `AcpRegistration` |
| `CoreToken` | JWS tokens (`core/keeper/jws_token.go`, `app/ante/extension.go`) | |
| `Faucet` | HTTP handlers (`app/faucet.go`) | |
| `MC...` | the small instances TLC checks | |
| `SumTheorems` | sums over finite sets, by induction over their subsets | |
| `OrbisRingProofs` | proofs about `OrbisRing` | |
| `OrbisStoreProofs` | proofs about `OrbisReport` and `OrbisDocument`, and that both implement `OrbisRing` | `OrbisRingProofs`, `SumTheorems` |
| `AccessProofs` | proofs about `AcpCommand`, `CoreToken`, `Faucet` and `FeeAnte`, and that commands implement `AcpRegistration` and DID grants `GrantPromise` | |
| `TierTypes` | types and credits of `Tier`, operation by operation | `SumTheorems` |
| `TierSteps` | what each operation of `Tier` does to sums and to the ledger of unlocking | `TierTypes` |
| `TierProofs` | types, running totals, subscriptions and credits of `TierSubscription` | `TierTypes` |
| `TierBooks` | what delegators have and what the module owes them, in `TierSubscription` | `TierProofs`, `TierSteps` |

Operators that stand directly before a definition under another name and with the same
parameters (`SubtractedOnly` before `Moved`) are faulty variants of it. Each property of a
passing run is violated when the variant that `PROJECT.json` pairs with it takes its place.

### State

`rings`, `nodeInfo`, `acceptedReports`, `acceptedSessions`, `acceptedExpiry`, `demerits`,
`documents` and `keyDerivations` are the stores of the module, as functions or sets.
`height` and `now` are the block's height and its time in whole seconds, which is all the
module reads of it. `fresh` says that no message of the block has run: committees read the
state a block committed, so they sign only then. `votes`, `fate`, `used`, `scheduledAt`,
`ledger` and the `sealed` field of an entry are history; no action reads them.

Elsewhere stores are functions from keys to records, with a constant (`NoGrant`, `NoSub`,
`NoRecord`, `NotRegistered`) for an absent one. The time of a block is `clock` in the acp modules
and `blockTime` in `CoreToken`; modules that share proofs keep their names apart (`FeeSpec`,
`TokenSpec`, `FaucetSpec`, `CmdSpec`). `drawn` (fees taken from a grant in this block),
`ran` (executions of each string that carries a signed command), `rounding` (tokens of lockups
that rounding took), `unseen` (validators with a slash that x/tier does not learn of) and the
counters `slashes`, `restarts` and `sent` are history or bounds. `Tier` splits a block into
phases, in the order of `app_config.go`, so that a slash, a tick and a failing hook can meet in
one block. `Faucet` alone has processes: `pc` is where each handler is.

### Abstractions

* A ring, document or derivation identifier is a hash of its content, so the content stands
  for the identifier: `Config` gives the configuration behind each ring identifier.
* A signature is the document it signs. Whether a committee signs is left open: any pending
  reshare may be signed once a block committed it, and a signature is never forgotten. Any
  report may turn up signed.
* The signed statement inside a report is kept as what the checks read: protocol, version,
  scopes, attempt and time. The encodings of the kinds of evidence are not modelled, and what
  their decoders demand of a single statement (lengths, non-empty fields, drift of the caller's
  clock, current scopes only for an unauthorized request) is left out: a report that the model
  accepts and a decoder refuses only adds behaviours.
* Committees are sets: the code sorts them and refuses duplicates. Backups stay a sequence,
  since the first eligible one is promoted.
* `RegisterRingACPObject` and `UpdatePermitted` are the calls of `orbis/keeper/acp.go` with what
  x/acp answers: registering fails if the object was ever registered, archived or not; updates
  need a registered object. Who holds the permission is left open.
* An action is a message that succeeds, since a failing one is rolled back. Where the code
  carries on after an error (epoch hooks, slashing, auto-lock, `RemoveDeveloper`), the model
  keeps what was written before it.
* Fees, grants and credits are of one denomination; a message is a model value that a filter
  permits or not.
* Staking is external. Delegations are counted in tokens; a slashed validator may return one
  token less than asked for, and delegating a cover of zero is taken to succeed. A slash also
  takes from delegations that a redelegation has moved away since the infraction, as far as they
  go; unbonding entries at the destination are not cut, and no limit of entries is modelled.
* The event of a slash carries the operator address of the validator or its consensus address
  (`EventAddress`). `handleSlashingEvents` parses the former. The SDK version of `go.mod` (v0.50.14)
  emits the latter, the tests of the module the former; both are modelled, see the findings.
* A string that is submitted as a signed command stands for its hash. It consists of the payload
  and a `form`, since one signed payload has several serialisations.
* Where the ante handler has extracted a DID, the keeper of x/tier acts for its address in place of
  the sender (`tier/keeper/keeper.go:995`). The handler extracts one only if every message has a
  `creator` (`app/ante/extension.go:117` and `171`), which no message of x/tier has; this is left out.
* A Merkle root is the set of its leaves, a token is its hash. Whether acp_core keeps an amended
  object archived is left open.
* The faucet's fees and a mempool that drops transactions are left out. `Blocked` are the module
  accounts that the bank refuses as recipients (`app_config.go:200`).

## Runs

Most runs set `CHECK_DEADLOCK FALSE`: heights and times are bounded, and a chain nobody sends a
message to may stand still.

| Run | Question | Bounds |
|---|---|---|
| `rings_and_documents` | Do votes, conflicts, cancellations and repeated creation leave only unanimous keys, and can what is stored for a ring always be used, and by its first creator? | a ring of two nodes and one of three with a PET key; two keys and the identity key; two users; two blocks, since nothing in key generation or storing reads time |
| `ring_reshare` | Do reshares survive settings and registry changes, and is a signature good once? | one ring, three nodes of which one registers late (and may change its peer id and controller), relays, backups, three blocks: enough to sign, finalise and repeat a reshare |
| `ring_upgrade` | Does the version in force ever go back or come without notice? | one node, versions 1..3, gaps of 0, 1 and 3 s around a lead time of 2 s |
| `reports` | Is evidence counted once, do the three stores agree, is a kick earned, does it keep the committee's size, and does every step obey `OrbisRing`? | four nodes, two reporters, a pinned and an unpinned kind of report, evidence good for 1 s, kick at three points, a window of 2 s; three blocks 1 or 2 s apart: enough for a report to be swept and sent again, for a window to lapse, and for a kick to be finalised and the node to be brought back |
| `report_boundary` | Is evidence counted once with two blocks in one second? | three nodes, evidence good for 2 s, gaps of 0 and 1 s: **violated**, see below |
| `fee_grants` | Is the DID queue exact, does the store refine `GrantPromise`, does an account that signs nothing pay only under its own live grant, and is every expired DID grant removed? | two accounts, one DID, basic, periodic and filtered grants; a sweep and a pruning of one entry, so that more expires than a block removes; three instants, so that a grant expires, is given again and expires again |
| `tier` | Does nobody gain, is what the module owes backed, do totals, developers and grants follow the subscriptions, and is what is due paid? | two delegators, two validators, one developer with one subscriber, four messages in any order, one slash of a tenth, with either address in its event, or one export and import, gaps of 1 and 3 against an epoch of 2 |
| `tier_slash` | Do the lockups follow the delegation when a slash event carries the consensus address? | as above: **violated**, see below |
| `acp_command` | Do claims only get older, taken by valid commitments only, are expired ones flagged, and does a string with a signed command run once? | two actors, one object, two commitments valid for blocks or for time, two events, heights up to 3, payloads around the expiry and in the future, two settings of the parameters |
| `acp_forms` | Does a signed payload run once, whatever its serialisation? | as above, with one payload in two forms: **violated**, see below |
| `token_life` | Are tokens used only while good, and noticed when expired? | two DIDs, two accounts, two instants a second, gaps of 1 and 3 |
| `faucet_serve` | Is one transaction pending at most, and is what was accepted settled? | three handlers, two addresses of which the bank refuses one, funds for one request |

In `tier`, four messages are enough to lock, unlock and lock or cancel for two delegators, to
subscribe after a lock and change or remove the subscription, and to do two of these in one
block. `LastMessage` ends them early enough that everything unlocked falls due before `MaxTime`.
Amounts are 10, so that a tenth is one token and the arithmetic of a slash rounds, and the rates
pay 10% of the first 10 tokens and 150% above, so that a second lock earns at another rate and,
after a slash or with insurance, lies in two tiers. `MaxFaults`
counts slashes and imports together: their combination is not explored.
In `acp_command` `Word` is 16 in place of 2^64, so that the height at which a command expires
can wrap.

`BlockGap`, `MaxHeight` and `MaxTime` bound time; the other constants are the sets messages
draw from, and include values the handlers refuse (a zero threshold, an interval below the
minimum, a kick threshold of 0, the identity key).

### Fairness

The orbis runs and `tier` assume none: whether a ring ever becomes final, a reshare is ever
signed or a lockup ever withdrawn is up to its users, and that what is due is paid is stated of
the step that must pay it (`DuePaid`). `ExpiredRemoved`, `EventuallyFlagged` and `ExpiryNoticed`
assume weak fairness of the block only: consensus keeps producing blocks, and begin and end
blockers run in each. `AcceptedSettled` assumes that the HTTP server runs the goroutines it
started and that a block eventually takes the whole mempool. No message is assumed to be sent.
Where time is bounded, the bound is past the last instant at which a message is delivered plus
the time the property needs, or the property excludes the last height.

### Findings

*Evidence at the second in which it expires.* A comment in `report.go` (lines 85-88) says that
the dedupe record of a report always outlives any resubmission of its evidence. A record written
at second *t* is deleted by the `EndBlock` of the first block at second *t + TTL*; the evidence,
if accepted at its first possible second, is still valid during that second. When the next block
falls in the same Unix second the same statement is accepted, and its demerits counted, again
(`report_boundary`). The rest of the comment is right: with block times in different seconds
evidence is never accepted twice, which `EvidenceCountsOnce` proves.

*The address in a slash event.* The comment on `handleSlashingEvents` (`slashing.go:18`) says that
lockups "are updated to reflect changes after slashing". Both handlers parse the address of the
event as that of an operator (lines 60 and 118), and the SDK emits the consensus address there.
Parsing fails, the error is logged, no lockup changes and nothing is insured, so that the lockups
with the validator exceed what the slash left of the delegation (`tier_slash`). For the operator
address, which the tests emit, lockups stay backed (`OwedIsBacked`, which leaves out the validators
in `unseen`: those slashed under a consensus address or down to nothing, and those that lost a
redelegation to a slash of its source, for which no event names them).

*Replays of a payload.* ADR-001 (`x/acp/docs/adr-001-polcy-cmd.md:48`) says that "upon accepting a
payload, the ACP module must not process it again", and line 69 to "only accept web encoded jws".
The replay cache is keyed by the hash of the string (`jws.go:86`), and `Verify` accepts other
serialisations than the compact one, so that a payload runs once for each of its forms
(`acp_forms`). One string runs once (`JwsRunsOnce`).

### Where comments say more than the code does

The properties above state what the code does. Building them, TLC refuted stronger ones that
comments suggest. They are not kept as runs; the models still contain the behaviour.

* `feegrant/keeper/keeper.go:178`: revoking an account grant deletes the queue entry of the
  swapped pair. The old entry stays, and when it is due the sweep removes whatever the granter
  has given the grantee since, although it is said to delete "the expired grants" (line 357).
  The queue of DID grants is exact (`DidQueueExact`).
* `feegrant/periodic_fee.go:71-76`: at a block time of exactly one period after the reset, a
  period is reset twice, so that twice the limit can be spent in one block, and no more
  (`DrawnTwiceAtMost`).
* `feegrant/keeper/keeper.go:587`: a periodic DID grant is to expire "at the end of the current
  period"; if it was idle, the end that is stored has passed, and it ends at once.
* `tier/keeper/keeper.go:455`: a second `Unlock` of the same lockup in one block replaces the
  record of the first, whose amount stays with the module account. `LossesExplained` shows that
  this, a slash, and the next item are the only ways to lose anything.
* `tier/keeper/keeper.go:505`: a redelegation from a slashed validator may stake one token less than
  was asked for, while the lockup moves in full; `rounding` counts these tokens.
* `tier/keeper/keeper.go:948`: raising a subscription adds to the total granted without the check of
  credits that adding one makes.
* `tier/keeper/subscription.go:241`: when the automatic lock of a developer earns no credit, its
  coins are staked without a lockup.
* `tier/keeper/credit.go:125`: `burnAllCredits` passes over accounts without a lockup.
* `tier/keeper/slashing.go:104`: the rate subtracts the slashed amount from a stake that was
  already reduced, so that lockups, where they are adjusted at all, lose more than the delegation
  did.
* `tier/module/genesis.go:12`: an import leaves the total granted at zero, after which
  `RemoveDeveloper` may leave subscriptions behind (`NothingOrphaned` holds up to an import).
* `tier/keeper/subscription.go:328`: the amount "per period" is also the spend limit of the whole
  grant.
* `tier/keeper/keeper.go:853`: with automatic locks a subscription may be given that the
  developer's credits do not cover.
* `acp/registration/service.go:82`: a commitment of the same height as a registration amends it,
  not only an older one; hence the second reveal of one object makes an event of an actor
  against itself, and two commitments of one height amend each other in turn. Claims still only
  get older (`ClaimsGetOlder`).
* `acp/signed_policy_cmd/spec.go:18`: a command is also accepted before its issued height.
* `core/module/genesis.go:31`: tokens are imported before the chain configuration, so that a token
  without an account, which a chain with `IgnoreBearerAuth` may hold, is refused.
* `app/faucet.go:176`: an address is recorded after the broadcast, so that two requests that
  overlap can both be paid.

## Proofs

`tlapm` checks all of the following from nothing. They hold for all constants that satisfy
the named assumptions of the modules (`RingAssumption`, `AnteAssumption`, `TierAssumption` and
so on): finitely many nodes and delegators, special values outside their sets, numbers that are
natural, a positive lead time, well-typed commands, and a list of reward rates that is not empty,
each of at least 1 and with an amount that is not negative. `validateRewardRates`
(`tier/types/params.go:177`) demands the latter two; an empty list, which it lets pass, is left
out. Five theorems have a further hypothesis, named where they are described below.

### Rings, reports and documents

* `RingInvariant`: `Spec => []RingInv`. `RingInv` is inductive and has three parts besides
  types. `DkgInv` ties the confirmations in the store to the votes ever cast; unanimity alone
  is not inductive, because nothing in a pending ring says that its confirmations agree.
  `NonceInv` says that a nonce is a past height before the first message of a block, hence
  that whatever a committee signs carries a nonce below the height any finalisation will
  write; this needs the order between committing a block and signing. `UpgradeInv` says that
  a pending upgrade raises the version and respects the lead time.
* From it: `Unanimity`, `ConflictSafety`, `NoResurrection`, `NoSignatureReplay`, and the
  action properties `KeyStability`, `VersionMonotonicity` and `VersionNotice`.
* `ValidRings`: every stored ring passes `validateRing`, and so does the ring that a pending
  reshare would leave: settings may change between scheduling and finalising, but each handler
  checks the ring together with its target (`TargetValid`).
* `NamedAreRegistered`: every node a stored ring names is registered. It rests on the checks of
  each handler that brings a node in, and on the registry, which forgets none.
* `NobodyDrafted`: a step that names a new node in a ring's pending reshare finds the ring or
  its policy on the whitelist of the node. It needs no invariant: every way into a committee
  goes through the check, in the step that drafts.
* `ReportImplementsRing`: `ReportSpec => Spec`. Every step of the detailed specification is a
  step of the ring lifecycle or leaves it alone, so all of the above carries over
  (`ReportKeepsRingInv`).
* `ReportInvariant` and `EvidenceCountsOnce`, for block times in different seconds
  (`0 \notin BlockGap`; see the finding above): a record written at or after the observation
  expires no sooner than the evidence, and the sweep removes only what expired before the next
  block.
* `KickSize`: the committee that a kick schedules has the size of the old one. A backup that is
  promoted is not in the committee already, since the ring is valid.
* `KicksAreEarned`: a kicked node has, within the current reset interval, been reported for at
  least the points the ring kicks at. The invariant is `DemeritInv`: the points on a node are at
  most the sum of the points of the reports against it since its window began. This is a sum
  over a growing set, so that a report must be shown not to be in it yet, which the dedupe
  stores give for one second; and the points wrap at `Word`, which can only make them fewer.
* `DocumentImplementsRing`, `StoredForGood` and `FirstCreator`: storing a document changes no
  ring, and what is stored stays usable. The invariant adds that an entry belongs to a *final*
  ring, whose keys `NextKeeps` preserves, and that `FinalizeRing` accepts a PET key exactly for a
  ring that requires one (`PetInv`).

### Grants, commands, tokens and the faucet

* `DidQueueAgrees` and `DidGrantsImplement`: the queue of DID grants has exactly the entries of
  the stored grants, and from that, every step of grants with queue, pruning and sweep is a step
  of `GrantPromise` or leaves its state alone. Exactness is needed because the sweep follows the
  queue and deletes without looking at the grant.
* `ChargedUnderGrantHolds`: an account that signs nothing pays only under a grant of its own that
  is alive and has room for the fee, however the ante handler falls through its payers.
* `DrawnTwiceHolds`: `OffersWithinPeriod => (FeeSpec => []DrawnTwiceAtMost)`. `PeriodInv`
  relates what a grant has yielded in this block to where its reset lies: nothing while the
  reset is in the past, at most one budget when it is now, and together with what is left at
  most two once it is in the future. The hypothesis, that a grant does not offer more at first
  than one period's budget, is what the command line sends (`x/feegrant/client/cli/tx.go:154`)
  and x/tier writes; `ValidateBasic` in `periodic_fee.go` does not demand it, and a grant that
  offers more is not covered.
* `CommandsImplement`: `CmdSpec => Spec`. A command, signed or direct, does what a registration
  message does or nothing, so that `ClaimsOnlyGetOlder`, `OnlyCommitmentsTake` and
  `AmendmentsStand` hold however the messages arrive. `AmendmentsStand` is inductive with types:
  each step leaves a registration at most as young as it was.
* `EachJwsRunsOnce`: the entry of an executed string in the replay cache expires no sooner than
  the command in it, in the same arithmetic modulo `Word`. It is about strings; that a payload in
  another form runs again is the finding above.
* `IndicesExact`, `LifeKept` and `InvalidForGood`: both indices of tokens list the recorded ones,
  a token is used within its life, and is never revived (`NeverRevived`, which has no run).
* `AtMostOnePending`: of all transactions that handlers of the faucet sign at the same time, at
  most one waits in the mempool. `PendingInv` adds that a handler signs with a sequence number
  the chain has reached (`SignedForThePast`): the mempool accepts only the number that comes
  next, so that a second transaction would need one that no handler can have read.

### Locked stake

All theorems are about `TierSubscription`, hence about lockups with developers, grants, epochs,
slashes and imports together. `SumTheorems` proves what they need about sums: the sum over a
finite set is defined by recursion over its elements in an order left open, and
`SubsetInduction` (induction over the subsets of a set, stated for a *set* of subsets instead of
a predicate) shows how it changes with the set and with the function. Steps that rest on the type
of the state alone are in `TierTypes`, those about sums in `TierSteps`; the theorems are in
`TierProofs` and `TierBooks`.

* `TypesInvariant`: credits, slash rates and rewards stay within the numbers, in spite of
  `calculateCredit`, which divides, and of roundings that may not go below zero.
* `TotalsAlwaysSums`: `TotalLockupsAmount` is the sum of all lockups after every step, the
  partial writes of a failing hook included; `TotalDevGranted` is the sum of the subscriptions of
  a developer until an import.
* `UnitsPaidOnce`: `DescendingRates => (Spec => []PaysEachUnitOnce)`. `calculateCredit` goes down
  the tiers once and pays, for each, the part of the lock above both the tier's amount and what
  was locked before. The reference definition `CreditByTier` asks of every single unit which tier
  it is in. `Floor(held, a, k)` is down to where the lock has been paid after *k* tiers; the units
  of tier *k* are those between two floors, and the rounds add up by induction over the initial
  segments of the tiers. What is held may be any integer, so the theorem covers what slashes and
  insurance leave. The hypothesis is the order in which `DefaultParams` lists the rates
  (`tier/types/params.go:58`), highest amount first; `validateRewardRates` does not check it, and a
  list in another order is not covered.
* `NothingIsOrphaned`: the invariant `Developing` says that a developer with subscriptions is
  registered, `Expiring` that a grant without subscription has an expiry.
* `LossesHaveReasons`: with `UniqueKeys` (no two records with one delegator, validator and
  height) and `SlashFree`, every step that leaves a delegator with less is a slash, a second
  unlock in one block, or a failed automatic lock.
* `NobodyEverGains`: `ModerateSlashes => (Spec => []NobodyGains)`. No lockup is ever negative
  (`NoDebt`), which is what a slash might break: `handleSlashingEvents` subtracts the burned
  tokens from a stake that is already reduced, and with a fraction *f* takes the part *f / (1 -
  2f)* of a lockup. `ModerateSlashes`, no fraction above a third, keeps that part at most the
  whole (`ModerateEvent`: what was burned is at most half of what is left). The chain's fractions
  are 5% and 1% (`tests/docker/files/genesis.json:350`). Beyond one half the part is negative, so
  that a slash would raise a lockup: the hypothesis is needed.
* `OwedStaysBacked`: `Spec => [](slashes = 0 => OwedIsBacked)`. `OwedIsBacked` is not inductive:
  coins of unlocking lockups come back through unbonding entries, one for each validator and
  height, which delegators share. The invariant `Books` has `LockedIsStaked` (delegations cover
  lockups) and `Ledger`: entries are unique for a height (`UniqueEntries`), each covers the
  records of its height (`EntriesCover`) and falls due with them (`EntriesTimed`,
  `RecordsTimed`), and the records whose coins are back or mature now are covered by the module
  account and those coins (`OpenCovered`).
* `DueIsPaid`: `Spec => DuePaid`. From `Ledger` the module account covers every record that is
  due at the end of an epoch, in whichever order the loop pays them, so that the loop is not cut
  short.

### Model-checked only

* `OwedIsBacked` after a slash that x/tier learns of: whether the lockups stay below the delegation
  depends on how decimals are rounded at each lockup, which holds on the instance of the run and
  has no proof. For the other slashes it claims nothing of the lockups.
* The type invariants of the remaining components, which no proof needs.
* The liveness properties `ExpiredRemoved`, `EventuallyFlagged`, `ExpiryNoticed` and
  `AcceptedSettled`. Liveness under fairness and `ENABLED` are out of the prover's reach.

## Not modelled

* `x/bulletin`: a thin layer over the external acp_core engine, whose objects and relations are
  its state.
* The acp_core engine itself: policies, relationships and access decisions. Capabilities and
  access tickets hold no state that changes.
* ICA connections and the chain configuration of `x/core`, timers of `x/epochs` beside the one
  `x/tier` uses, hooks of other modules, `UpdateParams` of `x/tier`, and `DrainNodeKey`, which
  only moves bank balances.
* Elliptic-curve verification, wire formats and canonical encodings: out of reach of TLC.
* Queries, transaction lanes (a stateless comparison), decimal arithmetic of the mint function,
  wiring of the application, command line, client SDK and generated code.

* Export and import of x/acp: `ExportGenesis` (`acp/module/genesis.go:16`) writes the parameters only,
  so that registrations, commitments, amendment events and the replay cache are not carried over.
  `AcpRegistration` and `AcpCommand` describe a chain between two imports.

Genesis export and import copy each orbis store as it is; `ReportInv` shows that the expiry
index, from which accepted reports are exported, holds all of them.

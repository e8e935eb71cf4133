# VAAS: a TLA+ development

VAAS (validators as a service) lets a *provider* chain lend its validator set to
*consumer* chains. This directory holds TLA+ models of the program in `src/x/vaas`,
the TLC runs that check them on small instances, and TLAPS proofs of the most
important of their properties for instances of any size. `PROJECT.json` relates every
definition to the lines it models, lists the runs, the mutants that show each property
can fail, the hazards of the code, the findings and the theorems.

- [The system](#the-system)
- [Modules](#modules)
- [ValSetSync](#valsetsync-the-validator-set-change-protocol)
- [ConsumerLifecycle](#consumerlifecycle-phases-and-time-queues)
- [KeyAssignment](#keyassignment-who-an-address-belongs-to)
- [DowntimeAccusation](#downtimeaccusation-from-evidence-to-slash)
- [FeePool](#feepool-shares-distribution-and-escrow)
- [MissedBlocks](#missedblocks-how-evidence-comes-about-and-travels)
- [Equivocation](#equivocation-punished-once)
- [SafeMode](#safemode-how-old-a-set-may-be)
- [Runs and bounds](#runs-and-bounds)
- [Fairness](#fairness)
- [Proofs](#proofs)
- [Findings](#findings)
- [What is not modelled](#what-is-not-modelled)
- [Plan](#plan)
- [Running it](#running-it)

## The system

Both sides are Cosmos SDK modules. Inside one chain everything is sequential: a block
is `BeginBlock`, the transactions, `EndBlock`. A transaction that fails is rolled back,
an error that leaves `BeginBlock` or `EndBlock` halts the chain. Concurrency lies
between the chains, which talk through IBC v2: an unordered transport whose packets
may be lost (timeout), delayed and reordered, and whose acknowledgements come back in
any order. The rest of the difficulty is in long sequences of legal calls: owners,
governance, validators, relayers and challengers act on the same records in an order
nobody prescribes, and block time fires sweeps in between.

| Component | State it keeps | Operations | Depends on | Hard behaviour |
|---|---|---|---|---|
| Validator set change protocol (`provider/keeper/relay.go`, `validator_set_update.go`; `consumer/keeper/relay.go`, `validators.go`) | provider: update id, stored set, pending packets, highest sent and acknowledged id per consumer; consumer: pinned client, pending changes, highest id, debt flag, CometBFT's set | queue a diff or a snapshot each epoch and at a key rotation, send, acknowledge, time out; receive, refuse, skip, accumulate, flush | staking and key assignment give the set; lifecycle starts, pauses and ends it | loss, reordering, resends after a partial send, error acknowledgements, restart |
| Consumer lifecycle (`consumer_lifecycle.go`, `msg_server.go`, `permissionless.go`, `module.go`) | phase, chain id, client, times, pause reason; three time queues | create, update, launch, pause, resume, stop, delete, five BeginBlock sweeps | everything else reads the phase | queue entries that must be moved and cancelled from many places; limit per block; failed launches |
| Fork containment (`consumer_equivocation.go`, `consumer_lifecycle.go`) | client status (02-client), pause reason and time | freeze and pause on evidence or on a client found frozen; resume only when the evidence is stale | lifecycle | two submission paths, evidence that is replayed, a silent forked chain |
| Downtime accusations (`downtime.go`, `downtime_slash.go`, `downtime_challenge.go`) | pending slashes, accepted windows, window floors, epoch marks | accept evidence, challenge, execute, prune | key assignment, rotation, fees, lifecycle | replays across pruning and rotation, challenge racing execution |
| Fees and escrow (`fees.go`, `debt.go`) | debt flags, withheld-fee records, epoch share records | distribute per epoch, withhold for open accusations, pay back, expire | share ledger, downtime | funds promised twice, pool at its limit |
| Fee pool shares (`fee_pool_shares.go`, `invariants.go`) | shares and totals per denomination, community booking | mint, withdraw, sweep, absorb | bank balances | rounding, shares without balance |
| Key assignment (`key_assignment.go`, `hooks.go`) | assigned keys, reverse index, prune times | assign, look up, prune | rotation | old addresses that must still resolve |
| Key rotation (`cons_pubkey_rotation.go`, ante) | pending rotations; moves address-keyed state | migrate, queue snapshots | all address-keyed state | claims of a key made in the same block |
| Equivocation (`consumer_equivocation.go`) | punished equivocations, minimum heights | verify, jail, slash, tombstone | key assignment, rotation | punished once, whatever is reused |
| Consumer tracker (`consumer/keeper/downtime.go`, `evidence_packet.go`) | window counters, staged parameters, evidence queue | track, close window, queue, evict, send, requeue | its validator set | bounds, retries, parameters changed mid-window |
| Staleness clock and gate (`consumer/keeper/keeper.go`, ante) | last VSC time, debt flag | arm, filter transactions | VSC packets | chain that gates itself for ever |
| Genesis (`genesis.go` on both sides) | all of it | export, import | all | what is dropped must be rebuilt |

How they interact: lifecycle decides which consumers get packets, evidence and fees;
the packets carry the validator set (staking through key assignment) and the debt flag
(fees) to the consumer; the consumer's tracker sends evidence back, which opens an
accusation that withholds fees and matures into a slash unless a challenge pauses the
consumer; key rotation moves the address-keyed state of all of them.

What makes each correct, in a line: the consumer runs with sets the provider published,
in order, and catches up once faults cease; a consumer is in exactly the queue its
phase says, once, at the promised time, and no pause is for ever; a fork is contained
once and not taken for death; no window is punished twice and an accusation stays
challengeable until it is executed; the pool never promises more than it holds and
every share is redeemable; a consumer address resolves to its validator as long as
evidence can name it; an equivocation is punished once; a consumer window is judged by
the parameters it began with.

## Modules

| Module | What it is |
|---|---|
| `ValSetReplication` | abstract specification: per consumer a log of sets, and a chain that moves forward along its own log |
| `ValSetSync` | the VSC protocol: provider, transport, consumers; implements `ValSetReplication` |
| `MCValSetSync` | TLC instances of `ValSetSync`, the fair specification and `Converges` |
| `ValSetSyncProofs` | TLAPS proofs about `ValSetSync` |
| `ConsumerLifecycle` | phases, time queues, client declaration, fork containment, BeginBlock |
| `MCConsumerLifecycle` | TLC instances of `ConsumerLifecycle` |
| `ConsumerLifecycleProofs` | TLAPS proofs about `ConsumerLifecycle` |
| `KeyAssignment` | assigned consumer keys, their indexes and pruning, rotations and the staking hooks |
| `MCKeyAssignment` | TLC instance of `KeyAssignment` |
| `KeyAssignmentProofs` | TLAPS proofs about `KeyAssignment` |
| `DowntimeAccusation` | extends `KeyAssignment`: accepted windows, pending slashes, challenges, floors, fee marks and escrow, and what rotations, pauses and removals do to them |
| `FeePool` | one consumer's fee pool: share ledger, distribution, escrow, fee overrides |
| `MissedBlocks` | the consumer's windows and evidence queue, the transport of evidence, the provider's check of echoed parameters |
| `Equivocation` | extends `KeyAssignment`: double votes, their punishment and its record |
| `SafeMode` | the two clocks of a consumer's validator set, and the transaction gate |
| `DowntimeAccusationProofs`, `FeePoolProofs`, `MissedBlocksProofs`, `EquivocationProofs`, `SafeModeProofs` | TLAPS proofs about these five |
| `MCDowntimeAccusation`, `MCFeePool`, `MCMissedBlocks`, `MCEquivocation`, `MCSafeMode` | TLC instances of the five |

Definitions that begin a comment with "Faulty variant", and those directly above the
definition they deform, are the mutants of `PROJECT.json`; no action uses them.

## ValSetSync: the validator set change protocol

A validator set is a function from consensus keys to powers, 0 for "not in it"; an
update list is a partial function. What the provider computes for a consumer is an
input, any non-empty set at any epoch. Time is left out, so a timeout may take any
packet not yet received.

| Code | Model |
|---|---|
| `ConsumerValSet`, `PendingVSCPackets`, `ConsumerHighestSentVscId`, `ConsumerHighestAckedVscId`, `ValidatorSetUpdateId` | `storedSet`, `pendingVSC`, `highestSent`, `highestAcked`, `valsetUpdateId` |
| `EndBlockVSU`, `QueueVSCPackets`, `SendVSCPackets` | `EndBlockVSU`: one step, because nothing runs in between; how many packets of a queue get through before a send error is an input |
| `QueueConsPubKeyRotationSnapshots` | the action of that name: a snapshot for any set of launched consumers, each under an id of its own |
| `sendVSCPacketsToChainStrict` | `SentNow`, `Retained`, `HighestAfter`: the queue is cleared only when all of it went out |
| `OnAcknowledgementPacketV2`, `OnTimeoutPacketV2` | actions of those names |
| `OnRecvVSCPacketV2` with `enforcePinnedProviderClient`, `wouldEmptyValidatorSet`, the id check | `RefuseVSCPacket` (error acknowledgement, no change), `SkipVSCPacket` (late: success acknowledgement, no change), `OnRecvVSCPacketV2` |
| consumer `EndBlock`, `ApplyVaasValidatorChanges` | `EndBlockConsumer`: flushes all pending changes |
| launch, client declaration, pause, resume, stop, delete, export | the parts of them that touch the protocol; resume fails as a whole when its send fails |

`log`, `debtLog` and `appliedId` are history variables no action reads.

A provider in a state-export restart loses `storedSet` only; a deleted consumer's
packets may still be in flight and its chain may still take them, so the invariants
speak of deleted consumers too.

## ConsumerLifecycle: phases and time queues

The provider's whole record of a consumer, for two consumers at a time in the runs and
any number in the proofs. `stage` walks through BeginBlock's sweeps in the order of
`module.go`: launch, remove, frozen clients, unresponsive, auto-stop; then come
transactions in any order and number. A queue bucket is a count per id instead of a
list: the order inside a bucket decides only who waits when more than `Limit` are due,
and the model lets it be anybody among the earliest.

| Code | Model |
|---|---|
| `CreateConsumer`, `UpdateConsumer`, `RemoveConsumer`, `ResumeConsumer` of `msg_server.go` | `CreateConsumer`, `UpdateConsumer`, `RemovePrelaunched` and `RemoveLaunched`, `ResumeConsumerChain` |
| `PrepareConsumerForLaunch`, `SetConsumerClient`, `ValidateConsumerChainIdFree`, `ValidateInitialHeight` | operators of those names |
| `ConsumeIdsFromTimeQueue`, `appendConsumerToTimeQueue`, `removeConsumerFromTimeQueue`, `CancelConsumerPauseExpiration` | `ConsumeIds` with `Consumed`, `Enqueue`, `Dequeue`, `CancelConsumerPauseExpiration` |
| `BeginBlockLaunchConsumers` | launches each consumer due or, when the launch fails, resets it; a reset that fails in turn sets `halted` |
| `PauseConsumerChain`, `StopAndPrepareForConsumerRemoval`, `DeleteConsumerChain` | operators of those names on sets of consumers |
| `PauseConsumersWithFrozenClients`, `SweepUnresponsiveConsumers`, `BeginBlockAutoStopPausedConsumers` | actions of those names |
| `HandleConsumerMisbehaviour` with `containLightClientAttack`; `forkEvidenceExpired` | `HandleConsumerMisbehaviour`, `ForkEvidenceExpired` |
| 02-client status, forks, `MsgUpdateClient`, `MsgRecoverClient` | external: `status`, `forkAt`, `Fork`, `ReportFork`, `ExpireClient`, `RecoverClient` |
| `ExportGenesis` and `InitGenesis` | `InitGenesis`: keeps the records, rebuilds the queues from them |

Errors of the per-consumer steps in the sweeps come only from the store itself and are
not modelled, except the one the code's own check raises (see Findings). A fork
reported while the consumer is already paused for a downtime challenge leaves the
reason at "challenge", so the resume does not wait for the evidence to age; the model
follows the code there and `SameForkPausesOnce` holds because such a fork has paused
nothing yet.

## KeyAssignment: who an address belongs to

Keys and their addresses correspond one to one and are one thing in the model; provider
and consumer addresses are drawn from the same set, which is the point: the hazard is
that one validator's consumer key becomes another's provider key. `live` and `owner` are
x/staking's answers (`GetConsAddr`, `GetValidatorByConsAddr`, which also knows the addresses
a validator rotated away from), `rotations` the ones recorded in the current block.

| Code | Model |
|---|---|
| `ValidatorConsumerPubKey`, `ValidatorByConsumerAddr`, `ConsumerAddrsToPrune` | `key`, `byAddr`, `toPrune` |
| `AssignConsumerKey` of `key_assignment.go` | `Assignable` (its refusals), `Replaced`, `ReplacedIsKept`, `AssignConsumerKey` |
| `GetProviderAddrFromConsumerAddr`, `IsConsumerConsAddrInUse`, `nonDeletedConsumerIds`, `DeleteKeyAssignments` | operators of those names |
| the rotation decorator of `provider/ante` | `InATransaction`, `checkRotation`: a message runs in the transaction of the one before or begins one, and a rotation is checked against the addresses that were in use when its transaction began (`checked`) |
| `CreateConsumerValidators` at launch, resume, each epoch and after a rotation | the operator of that name: who was given to the consumer under which address, and when, is noted in `seen` |
| x/staking's EndBlock with `migrateKeyAssignment`, then `EndBlockPruneKeyAssignments` | `EndBlock`: `MigratedKey`, `MigratedByAddr`, `PrunedNow`, in one step as nothing runs in between |
| `AfterValidatorCreated`, `AfterValidatorRemoved` | `CreateValidator`, `AfterValidatorRemoved` |
| x/staking: unbonding, removal once the unbonding time is over | external: `BeginUnbonding`, `RemoveValidator` |
| lifecycle | the phase changes, as `ConsumerLifecycle` has them; only erasure touches the keys |

Registered and initialized consumers are one phase here, since assignment treats them
alike. Two variables are histories. `slipped` has the addresses that a validator rotated to
in the very transaction that made them somebody's consumer key, which the ante handler does
not see (see Findings); the properties except them, and only them. `seen` has entries of the
sets computed for the consumers, any `MaxSeen` of them. Nothing is said of when a consumer
applies a set, or for how long it goes on with it: it may get the packet late, and while it is
paused it gets none. What resolution promises is counted from the computation of the set, the
last moment at which the provider knows that the validator was bonded and had the address;
`EvidenceFindsItsValidator` and everything `Equivocation` says about votes starts there.
Export and import carry the three collections over unchanged and are left out.

## DowntimeAccusation: from evidence to slash

`HandleConsumerDowntime` accepts a window of a consumer address once, `executeDowntimeSlash`
slashes when the challenge window is over, and in between one signed block of a claimed
height, in a `MsgChallengeConsumerDowntime`, pauses the consumer and cancels what is
pending. The module extends `KeyAssignment`: every key step is taken jointly with the
migration of the downtime state.

| Code | Model |
|---|---|
| `PendingDowntimeSlashes`, `AcceptedDowntimeWindows`, `DowntimeWindowFloors`, `EpochDowntime`, `WithheldFeeRecords` | `pending`, `accepted`, `floor`, `marks`, `withheld` (only the expiry) |
| `HandleConsumerDowntime` | `Fresh` (ages, grace period, trusting period), `NewWindow` (floor and intersection), `ConsumerDowntime` |
| `windowEndTimestamp` | `Anchors`: the consensus state nearest to the window's end lies up to `AnchorLag` away |
| `HandleChallengeConsumerDowntime`, `findPendingDowntimeSlashContaining` | `ChallengeConsumerDowntime`, the operator of that name, `Verifiable` |
| `BeginBlock`: slash sweep, escrow expiry, pruning, distribution | `NextBlock`, one step in module.go's order: `Matured`, `Forfeited`, `Unexpired`, `Pruned`, `Excluded` |
| `migrateConsumerValidator`, `migrateDowntimeAcceptance`, `migrateDowntimeWindowFloor`, `migrateFeeExclusion` | `NextValSet`, `MigratedRecords`, `MigratedAccepted`, `MigratedFloor`, `MigratedMarks`, `MigratedWithheld` |
| pause, stop, erasure, launch, resume | `PauseWithDowntime`, `StopWithDowntime`, `DeleteWithDowntime`, `StartWithDowntime` |
| `UpdateInfractionParams`, export and import | actions; an import drops the stored sets |

The consumer's block at height h has time h, and every height of a window is claimed
missed. Whether the evidence's content refutes it (bitmap, echoed parameters) is
`MissedBlocks`' matter. `accused` is a history variable: which validator was accused of which
height under which consumer address. `WindowAcceptedOnce` leaves out a validator that both
assigned a consumer key and rotated: there the code accepts a window twice (see Findings). It
also leaves out the addresses in `orphaned`, another history: the replaced keys of a validator
that was removed. Such an address leads, until it is pruned, to whoever has the removed one's
provider address next, and what was accepted under it before is not remembered there.

A challenge names a consumer address and a height, and may be answered with the slash of
another validator than the one it is about: when a replaced consumer address is pruned and
assigned to somebody else while an accusation under it is open. `ChallengeReachesSlash` asks
that some accusation under that address and height is found; what a proven challenge does,
pausing the consumer and cancelling everything pending, is the same for both.

One condition appears in the theorems, and the MC module evaluates it on the instances:
`UnbondingOutlastsRecords`, that a window's length, the ages and challenge windows governance
sets, and an epoch together are shorter than the unbonding time. Then nothing is left of a
removed validator's records when another can rotate to its address. The code does not
enforce it (`provider/types/params.go:215-247` bounds age plus challenge window by the
default client's trusting period); its defaults, 3 + 7 + 3 days and a window against 21
days, satisfy it. Without it a validator may rotate onto records it has no part in, and the
windows of the pair may overlap, which genesis validation refuses.

## FeePool: shares, distribution and escrow

Pools of different consumers, and the denominations of one, share nothing that changes,
so there is one of each. Divisions truncate as the code's do. `Sum` of a ledger is the number
of its units (`Units`, the pairs of a holder and a number up to its balance): a sum without
recursion, about which the prover can reason through cardinalities.

| Code | Model |
|---|---|
| `feePoolDraw`, `ComputeClaim`, `MintShares`, `absorbUnaccountedBalance`, `WithdrawShares`, `SweepConsumerFeePoolDenom` | `feePoolDraw`, `Claim`, `MintShares`, `absorbUnaccountedBalance` with `Reconciled`, `Drawn`, `Swept` with `SweptTo` |
| `MsgFundConsumerFeePool`, `MsgWithdrawConsumerFeePool`, `MsgSweepConsumerFeePool`, `MsgSetConsumerFeesPerBlock`, `UpdateParams` | actions of those names |
| `FeePoolSendRestriction` | `SendToPool`: the community pool always, others only before the consumer exists |
| `DistributeConsumerFees` | `SkipZeroShare`, `SkipUnderfunded`, `SkipFailed`, `PayShares`: its four exits; the bank failing is an input |
| `recordWithheldFee`, `PayWithheldFees`, `SweepExpiredWithheldFeeRecords`, `outstandingWithheldFees` | `recordWithheldFee`, `PayWithheldFees` (with the validators that can be paid as an input), `Kept`, `outstandingWithheldFees` |
| `EpochShareRecords`, `PruneEpochShareRecords`, `ResolveEpochShare` | `records`, the operators of those names; the horizon is `cutoff`, from the parameters of the day |
| `MsgUpdateInfractionParams` with `Validate`: challenge window and evidence age | `UpdateInfractionParams`, `Validate`, variable `infraction` |
| pause, stop, erasure, export and import | the parts of them that touch the pool |

`reach` is a history variable, the furthest any block's cutoff has got. Governance may lower the
ages, records are pruned by the lower ones, and when it raises them again windows come back into
reach whose records are gone: the code prices them by a later epoch. `EvidenceIsPricedByItsEpoch`
excepts exactly the windows that a cutoff had passed, and TLC does reach them.

## MissedBlocks: how evidence comes about and travels

| Code | Model |
|---|---|
| `TrackMissedBlocks`, `closeWindow`, `rebaseBitmap` | `TrackMissedBlocks` with `Sightings`, `Misses`, `EvidenceAgainst`, `IsOffence`, `ClearBitmap`, `ClearTracked` |
| `StageDowntimeParams`, `applyStagedDowntimeParams` | operators of those names |
| `QueueEvidencePacket`, `evictOldestPendingEvidence`, `RequeueEvidencePacket` | operators of those names |
| `SendEvidencePackets` | `EndBlock`: in the order of the keys, at most `MaxSends`, each send may fail |
| `OnTimeoutPacket`, error acknowledgements | `OnTimeoutPacket`, `OnRecvEvidence` (a refusal comes back as one and drops the packet) |
| `SetInfractionParams`, `AcceptableDowntimeParams` | `UpdateInfractionParams` with `SupersededBy`; `AcceptableDowntimeParams` |
| consumer export and import | `Restart` with the three `export...` operators |

A bitmap is the set of its set bits. `missed`, `closed`, `reported`, `accepted`, `refused`
and `changes` are histories. `InFlightSurvivesAChange` speaks of evidence the provider refused
at or after the change: what a later change refuses may well be older than that. `OnRecvEvidence` is everything of the provider's handler that looks at the
content of a packet; the rest is `DowntimeAccusation`.

## Equivocation: punished once

| Code | Model |
|---|---|
| `HandleConsumerDoubleVoting` | `Receivable` (phase, chain id, minimum height), `Verifies`, `Slashable`, `AlreadyTombstoned`, `AlreadyPunished`, then `Punish` and `Remember` or `Forget` |
| `PunishedEquivocations` | `records`, by chain id, height and address |
| `migratePunishedEquivocations` | the operator of that name, at the end of the block, with `KeyAssignment`'s `EndBlock` |
| chain ids: create, update, erase | `CreateConsumer`, `UpdateConsumer`, `RecordsKept` |
| x/slashing, x/staking | external: `Unjail`, `IsTombstoned`, `IsUnbonded` |

A validator that is removed and created anew counts as a new one, so `PunishedOnce` counts the
slashes of validators that exist, and `Settled` accepts the record of the former incarnation. A
double vote is cast under an entry of `seen`, any time after that set was computed and in every
phase of the consumer, so also by the old key of a paused consumer. A vote is `Accountable` until
an unbonding period after its set was computed; later the signer may have left, its replaced
address may be pruned and belong to another, and the code, which takes evidence of any age,
promises nothing (see Findings). The export carries the
records over unchanged, so a restart is a stutter. `votes`, `taken`, `punished` and
`slashes` are histories.

## SafeMode: how old a set may be

| Code | Model |
|---|---|
| `msg_filter_ante.go` | `isAllowedBootstrapTx`, `isAllowedRestrictedTx`, `Admits`, over sets of message kinds |
| `LastVSCRecvTime`, `IsVSCStale`, `ArmVSCStalenessClock` | `recvAge` (since it), the operators of those names |
| consumer `InitGenesis`, new or restarted, and `ExportGenesis` | `StartConsumer`, `InitGenesis` with `RestoredClock`, `ExportGenesis` |
| `OnRecvVSCPacketV2` | `RecvPacket`; whether it counts as a sync is `Counts` |
| `SendVSCPackets`, `sendVSCPacketsToChainStrict` | `SendVSCPackets`: without a client, or if sending fails, the packets stay in `queue` and go out later, as old sets with a fresh timeout |
| `EndBlockVSU`, `QueueConsPubKeyRotationSnapshots` | `Epoch`, `SendRotationSnapshot` |
| `SweepUnresponsiveConsumers`, `OnAcknowledgementPacketV2`, pause and resume | `Epoch` with `Unresponsive`, `RelayAck`, `PauseConsumer`, `ResumeConsumer` |
| `MsgUpdateParams`, `validateConsumerInitParams` | `UpdateParams` changes the grace period freely; that the threshold is below it is required when a consumer is created (`SMInit`) |

Time is kept as ages that stop growing where nothing depends on them, so behaviours are
infinite without a bound on time and the liveness property needs none. A packet has two ages:
since its set was computed (`age`, which stands for the order of the update ids), and since it was
sent (`sent`, which decides its timeout). `sentAge` is a history: `SetIsRecent` bounds the time since
the set in force was *sent*. Nothing bounds the time since it was computed, because a packet may
wait in the queue for any number of epochs; see Findings for what this does to the slashability of
the set.

## Runs and bounds

There is one safety run per component. Where one instance with everything in it is too
large, the run's CONSTRAINT (in the MC module) makes it the union of smaller ones, each of
which leaves out what the others have; a state outside of all of them is not explored
further, and every property is checked on all that are.

| Run | Checks | Shows | Bounds |
|---|---|---|---|
| `valset_sync` | `ReplicaMatchesLog`, `AppliedSetWasPublished`, `DiffsHaveTheirBase`, `DebtFlagFollows`, `IInv`, `ImplementsReplication` | whatever is lost, reordered, resent or refused, the consumer holds the set published under its id and the debt flag of the newest packet; the protocol implements the abstract log; the inductive invariant of the proofs | one consumer, three ids: a diff needs a predecessor to be wrong about, and a third packet to overtake or follow it. Two parts: two keys without debt, and one key with both flags. Several consumers sharing the id counter are the proofs' matter |
| `valset_sync_live` | `Converges` | lost packets are healed by later snapshots | three ids, of which the last round is reliable |
| `lifecycle` | `SchedulesMatchPhases`, `ChainIdsAreExclusive`, `LaunchedAreResponsive`, `ForkIsNotMistakenForDeath`, `SameForkPausesOnce` | queues agree with phases, ids and clients are exclusive, served consumers are responsive, forks are contained once | a limit of one per block, so a bucket is split; three chain ids, one the provider's, one with another revision. Two parts: two consumers until `NoForkUntil`; one whose chain may fork. A pause may last 4 > `Trusting` + `MaxClockDrift` and transactions go on until 5, so a consumer paused for a fork is resumed once its evidence is stale, launched again and meets that evidence |
| `lifecycle_live` | `PausesAndStopsEnd` | nothing stays paused or stopped for ever | messages until time 3, time up to 11: enough for every pause and stop begun by then to run out, one per block |
| `lifecycle_launch_failure` | `FailedLaunchIsReset` | expected violation, see Findings | one consumer |
| `shared_consumer_key` | `NoSharedConsumerKey` | expected violation, see Findings | two validators, four addresses |
| `downtime` | `DTInv` (types, `ImportableState`), `WindowAcceptedOnce`, `FloorHidesNothingFresh`, `EscrowBacksAccusation`, `ChallengeReachesSlash`, `EntriesAreLive` | no window is accepted twice, floors hide nothing fresh, every pending slash can be challenged and its share is in escrow, the export of any block passes the import's validation | two parts: overlapping, adjacent and containing windows under two parameter sets, long enough for them to mature and be pruned; the window of the first block and two validators, of which one assigns and rotates and one leaves, with keys or without, evidence until `EvidenceEnd`, and time up to the unbonding period of 11 and two blocks more, so that the one that left is removed and its address taken again. Transactions of one message (`OneMessageEach`); those of several are the matter of `equivocation` and of the proofs |
| `downtime_twice` | `NoWindowAcceptedTwice` | expected violation, see Findings | one validator, three addresses |
| `fee_pool` | `FPInv` (types, `SharesSumToTotal`, `SharesCoverBalance`, overrides above the default), `TokensAreConserved`, `EscrowIsFunded`, `EvidenceIsPricedByItsEpoch`, `OthersAreNotDiluted`, `NobodyIsPaidShort` | the ledger adds up, no token appears or is left behind, rounding costs nobody else, escrow is there and repaid in full, evidence is priced by its epoch | a depositor, the community pool, two validators. Three parts: amounts 1, 2 and 4 and gifts of 2 under one fee (a share becomes worth 2/3 and 3/2 of a token); escrow under two defaults and an override, deposits of 4; two infraction parameter sets with cutoffs 3 and 8 blocks back over 6 blocks, so that records are pruned under one that the other would keep |
| `missed_blocks` | `MBInv` (types, `EvidenceIsInOnePlace`, `EvidenceIsLostToNewerOnly`), `EvidenceMatchesVotes`, `OffendersAreReported`, `NextWindowFollowsProvider`, `InFlightSurvivesAChange` | what is reported is what was missed, offenders are reported, no packet is duplicated, or lost to anything but a newer one | windows of two and three blocks, half to be signed. Two parts: one validator and two parameter changes; two validators, a queue and a send limit of one, a pause. One restart in either |
| `equivocation` | `ConsumerKeysAreDistinct`, `IndexesAgree`, `EvidenceFindsItsValidator`, `EQInv` (types, `KeyAssignment`'s `IInv`, `PunishedOnce`), `ProvenIsPunishable`, `EvidencePunishesSigner` | keys: no shared address but one that slipped through, agreeing indexes, recent addresses that find their validator; votes: each infraction proven in time is punished, on its signer, none twice | two validators, both assigning, one of which rotates, leaves and returns; four addresses, one each and two to assign or rotate to; unbonding time 2 and four block times, so that a replaced address is pruned, taken again and rotated to. Parts about keys: an address may slip through, nobody leaves; none does, one may leave and return. Parts about votes: two heights; a validator that leaves and returns; two validators on one consumer; two consumers and a chain id taken over |
| `safe_mode` | `SMInv` (types, `SetIsRecent`, `AckFollowsReceipt`), `SafeModeBeforeRemoval`, `Recovers` | ordinary transactions run under a recently sent set only; what the sweep removes is in safe mode, with three exceptions; no lock-out | threshold 2, grace periods 2 and 5 (one that governance has put below what the threshold needs), packets that live 2 epochs, queued sets told apart up to an age of 1, one unrelayed acknowledgement: a set may go stale and come back before and after the sweep |

`MaxVscId`, `MaxPower`, `Horizon`, `EndOfTime`, `MaxStep`, `Forkable`,
`Rotators`, `Assigners`, `Leavers`, `Tracked` and the constants marked "bound" in their
modules bound the instances; the proofs hold for every value of those of their modules.
Time stands still at `EndOfTime` while blocks go on; transactions stop at `Horizon`.
`CHECK_DEADLOCK FALSE` is set only where a halted chain is part of the run: after the
failed reset of a launch the provider really stops. Consensus keys are symmetric in
`valset_sync`, the addresses nobody has at first in `shared_consumer_key` and `equivocation`,
the validators in `fee_pool` (safety only). No cfg replaces a definition.

## Fairness

- `Converges` assumes that both chains produce blocks, that the owner declares the
  client and pins the provider's, that relayers deliver what can be delivered, and that
  the last of the bounded rounds is reliable. Nothing is assumed of earlier rounds. The
  code has no retry timer: recovery rests on the packet of each epoch, which is what the
  property is about.
- `PausesAndStopsEnd` assumes weak fairness of BeginBlock only: the provider goes on
  producing blocks whose time advances. Nobody has to send anything.
- `Recovers` assumes that epochs pass and that the chain is started, and restarted after an
  export (weak fairness), and that the owner pins a client, governance recovers a dead one
  and a relayer delivers packets and acknowledgements (strong fairness: the client may keep
  dying and the chain keep restarting, which disables them again and again). The gate
  decides which of their transactions get in, and that is what the property is about.
- The delivery of evidence has no liveness property: a consumer's heights are bounded in
  `MissedBlocks`, and what can be said without time going on for ever, that nothing is
  lost, is `MBInv`.

## Proofs

Each theorem is for every value of the constants that satisfies the module's
assumptions (and the hypotheses it states), and each inductive invariant is one TLC has found to
hold on the instance of its run. All but one are among the run's invariants, `KeyAssignment`'s as a part of `EQInv`; that of
`ConsumerLifecycle` (`IInv`, `FrozenArePaused`, `ContainedForksAreOver`) is not, because the
run checks the properties it is for, and can be added to `ConsumerLifecycle.cfg`.

**ValSetSyncProofs.** The properties are not inductive: that a diff fits the consumer's
set when it arrives depends on why the provider chose to send a diff, several packets
ago. `IInv` adds what ties the three sides together, per consumer: everything on its way
carries what was published under its id (`PacketMatchesLog`), the queue ascends, the
watermarks bound what is in flight and what the consumer has seen (`WatermarksHold`),
and, the heart, `DiffIsNext`: a diff the consumer has not passed is the oldest thing on
its way, because the provider builds one only when everything it sent was acknowledged.

| Theorem | States |
|---|---|
| `TypeCorrect`, `Invariance` | `Spec => []TypeOK`, `Spec => []IInv` |
| `ReplicaAgrees`, `AppliedSetsArePublished`, `DiffsAreSafe`, `AcksAreTruthful`, `DebtFlagAgrees` | the safety properties of `valset_sync`, and `AckedIsReceived`: an acknowledged id was received |
| `Refinement` | `Spec => Abstract!Spec`: every step of the protocol is a step of `ValSetReplication` or a stutter |

**ConsumerLifecycleProofs.** `SchedulesMatchPhases` says a queue holds exactly one entry
per consumer in its phase; with the type invariant and the exclusivity of ids it is
inductive, and one lemma per queue operation carries it through each action.
`LaunchedAreResponsive` speaks of the end of BeginBlock and is strengthened to
`SweptAreResponsive`, which holds from the sweep onward.

The action properties on forks need to know what came before. `FrozenArePaused`: when the
liveness sweep comes, the sweep before it has left nobody running whose client is frozen.
`ContainedForksAreOver`: a fork that paused a consumer is one whose consumer is still down
(`HeldDown`, with the time of its pause or removal tied to the fork's by the clock drift), or
one that no longer verifies and whose client, if frozen, nobody holds. The second theorem has
the hypothesis `ErasureOutlastsForks`, that trusting period and clock drift are no longer
than the unbonding time: without it a chain id registered again after the erasure would find
the old fork still provable. 02-client keeps a client's trusting period below the unbonding
period of its chain, and the provider refuses a consumer whose unbonding period exceeds its
own (`docs/consumer-liveness.md:155`); that the drift fits in between is left to the relayer,
which derives the trusting period as a fraction.

| Theorem | States |
|---|---|
| `TypeCorrect`, `Invariance` | `Spec => []TypeOK`, `Spec => []IInv` |
| `SchedulesAgree`, `ChainIdsExclusive`, `Responsive` | the three safety properties of the run |
| `ForksAreNotMistaken`, `ForksPauseOnce` | the action properties `ForkIsNotMistakenForDeath` and, under `ErasureOutlastsForks`, `SameForkPausesOnce` |

**KeyAssignmentProofs.** That two validators do not share an address rests on checks in three
places (the assignment, the ante handler, the creation hook), each of which sees only part of
the state. `IInv` says what they keep up together: `AddressesHaveOneOwner` for x/staking's
addresses and recorded rotations; `ResolvableIsUnclaimed`, that an address which resolves
on a consumer is the target of no rotation and is a provider address only of the validator
it resolves to, unless it slipped through the ante handler; and `SetsResolve`, that an address
of a set computed less than an unbonding period ago resolves to its validator and is not due for
pruning. The last needs that a validator is removed an unbonding period after it left, and that a
replaced key is kept on a paused consumer too.

| Theorem | States |
|---|---|
| `TypeCorrect`, `Invariance` | `Spec => []TypeOK`, `Spec => []IInv` |
| `KeysStayDistinct`, `IndexesStayTogether`, `EvidenceResolves` | `ConsumerKeysAreDistinct`, `IndexesAgree`, `EvidenceFindsItsValidator` |

**DowntimeAccusationProofs.** Built on `KeyAssignmentProofs`: its `IInv` and its step lemmas are
used as they are. `DTInv` has a part for each thing the records must be tied to.
`PendingIsOpen` and `AcceptedIsRecent` bound how long a slash and a window are kept, the latter
from the window's end, because pruning goes from the lowest window up and a high one may wait
for a lower one accepted later. `SetIsCurrent`, `AcceptedIsAnswered`, `FloorsAreOld` and
`EscrowIsOwned` tie sets, windows, floors and escrow to the validator behind the address they
are kept under, or to one removed an unbonding period ago: with `UnbondingOutlastsRecords` an
address somebody rotates to is then free of anything that could collide with what moves there,
which is what `ImportableState` needs. `AccusedIsRemembered` says where an accepted height is
remembered, per accused validator: at its only address if it never rotated, at the address it
was accused under if it has no key, or nowhere any more, when every window with that height is
too old. Addresses in `orphaned` are left out of it, and `OrphansAreNoted` says that nothing else of a
removed validator still resolves. One lemma per action shows that this survives.

| Theorem | States |
|---|---|
| `EntriesStayLive` | `DTSpec => []EntriesAreLive`, without a condition |
| `StateIsImportable` | `DTInv`, under `UnbondingOutlastsRecords` |
| `EscrowOutlastsAccusation`, `SlashesStayChallengeable`, `FloorsHideNothingFresh` | `EscrowBacksAccusation`, `ChallengeReachesSlash`, `FloorHidesNothingFresh`, under the same condition |
| `NoneIsAcceptedAgain` | the action property `WindowAcceptedOnce`, under the same condition |

**EquivocationProofs.** `PunishedOnce` counts, and says nothing of why the next piece of evidence
is turned down. `PunishmentIsRemembered` does: the tombstone, or the record at the address the
signer has today, which is why records migrate with every rotation. `VotesResolve` ties each
double vote, from the computation of its set on, to `KeyAssignment`'s `StillResolves`, so that `KeyAssignmentProofs`' step lemmas on
resolution are used as they are, and `SlashesAreAccounted` says of a slash without an infraction
of its own that it came from the one exception, a chain id taken again after a rotation.

| Theorem | States |
|---|---|
| `NeverPunishedTwice` | `EQSpec => []EQInv` |
| `ProvenStaysPunishable`, `EvidenceSettles` | `ProvenIsPunishable`, `EvidencePunishesSigner` |

**FeePoolProofs.** The arithmetic is the matter: truncating divisions whose numerators are
products. Lemmas on `Sum` (one holder changes, all become zero, a bound by parts) come from
`Cardinality` of `Units`; lemmas on quotients give that a draw costs the others nothing and that
what is minted is worth no more than what is paid. `FPInv` then is inductive with two additions:
escrow ends with a pause (`EscrowEndsWithPause`), and the epoch share records reach back as far
as no cutoff has got (`RecordsReachBack`), whatever governance did to the ages.

| Theorem | States |
|---|---|
| `LedgerAddsUp` | `FPSpec => []FPInv` |
| `NoTokenIsLost`, `EscrowStaysFunded`, `EvidenceFindsItsEpoch` | `TokensAreConserved`, `EscrowIsFunded`, `EvidenceIsPricedByItsEpoch` |
| `NobodyDilutesAnother`, `PausesPayInFull` | the action properties `OthersAreNotDiluted`, `NobodyIsPaidShort` |

**MissedBlocksProofs.** Three groups of invariants that do not need each other: the tracker
(`TrackerMatchesVotes`: between blocks the bitmap is what was missed since the validator was first
seen in the open window), the places a packet can be in (`EvidenceWasReported`,
`EvidenceIsInOnePlace`, `EvidenceIsLostToNewerOnly`), and what the provider remembers of the last
change (`LastChangeIsRemembered`). Each action is proved to keep each group it touches.

| Theorem | States |
|---|---|
| `EvidenceIsAccountedFor` | `Spec => []MBInv` |
| `EvidenceIsExact`, `NoOffenderEscapes`, `ConsumerFollowsTheNewestPair`, `ChangesSpareEvidenceInFlight` | the four other invariants of the run |

**SafeModeProofs.** `SetIsRecent` rests on a relation between a clock and what it measures:
`ClockBoundsSet`, that the set was sent at most one packet's lifetime (or one start) longer ago
than the consumer's clock says. `AckFollowsReceipt` relates the clocks of the two chains: the
provider's is no older than the consumer's, unless an acknowledgement was not relayed, because
what restarts the consumer's leaves an acknowledgement behind. Stopped by the sweep, its clock is
past the grace period, so the consumer's is past the threshold: `RemovedInSafeMode`.

| Theorem | States |
|---|---|
| `Invariance`, `OrdinaryWorkIsUnderARecentSet` | `SMSpec => []SMInv`, and of it `SetIsRecent` |
| `RemovedInSafeMode` | the action property `SafeModeBeforeRemoval` |

Only model-checked: `Converges`, `PausesAndStopsEnd` and `Recovers` (liveness under fairness
is out of the prover's reach), and the three violations. Every other property of a run is stated by
a theorem. `TypeOK` of `ValSetSync`,
`ConsumerLifecycle` and `KeyAssignment` and `AckedIsReceived` are in no run by themselves: they
are conjuncts or consequences of the `IInv`s.


## Findings

Each is a run that TLC refutes, about a sentence of the repository.

1. `lifecycle_launch_failure` - `FailedLaunchIsReset`: a launch that fails is to be reset. Changing the
   chain id to another revision without new initialization parameters leaves an initial height
   that no longer validates; the launch fails, the write that resets it validates the height
   again and fails too, and its error leaves BeginBlock.
2. `downtime_twice` - `NoWindowAcceptedTwice`: "no window is ever accepted twice". A window accepted under the
   validator's own address before it assigned a consumer key moves with a later rotation to the
   new provider address, while the old consumer identity still resolves to the old one, which
   then has neither record nor floor: the same window is accepted again.
3. `shared_consumer_key` - `NoSharedConsumerKey`: "Key assignment and the provider ante handler refuse to
   create such a state". The decorator checks all messages of a transaction before the first one
   runs; a transaction that assigns a key to one validator and rotates another to it, signed by
   both, is admitted. The hook logs it at the end of the block, and every set computed for the
   consumer from then on lacks one of the two validators.

Disagreements of the code with its comments or documents that the models made visible and
that have no run of their own; the properties above say what does hold.

*Validator set change and lifecycle*
- `sendVSCPacketsToChainStrict`'s comment says a retry resends exactly what did not go through; the
  queue is cleared only after a complete send, so a failure half-way resends the rest too.
  Consumers skip the duplicates.
- The binding of a client to a chain id is called permanent, but the chain id can be changed
  before launch, and the client of the old chain stays. `docs/consumer-lifecycle.md` and `DeleteConsumerChain` say a
  consumer before launch has no client; an update may declare one.

*Keys*
- `docs/key-assignment.md:63-67` says that a PAUSED consumer takes no key assignment. The code takes
  it (`key_assignment.go:65`, `IsConsumerActive` includes the phase), and so does the model.
- `PruneKeyAssignments` prunes addresses that "cannot be referenced in slash requests (by a correct
  consumer)" (`key_assignment.go:190`). A consumer that was paused when the key was replaced goes on
  with it until a set of the resume reaches it, and the address is pruned in the first block after
  the resume if the unbonding period is over by then.

*Downtime and evidence*
- An accusation "must stay challengeable for its whole window" (`downtime.go:197`): the age is taken at the
  window's end, so the first heights of a long window leave the trusting period earlier.
- The escrow takes its deadline from the challenge window at the distribution, a slash from that
  at its acceptance; shortened in between, the escrow expires first. `EscrowBacksAccusation` speaks of
  escrow made to outlast its accusation.
- Escrow moves with every rotation, a pending slash only with an assigned key: the last slash
  executed at the new address deletes escrow that also backs one at the old.
- A raised evidence age makes windows below the floor fresh again; they are refused
  (`downtime.go:226` says nothing acceptable can sit there).
- One superseded parameter pair is kept: after two changes within the horizon evidence computed
  before the first is refused, against `msg_server.go:91`.
- Evidence refused because the consumer is paused is dropped, although `evidence_packet.go:110` says all
  refusals are permanent. Evidence is evicted by number, not by age (`evidence_packet.go:31`).

*Fees*
- A distribution may pay out the last token and leave shares without balance, which the
  registered invariant reports (`invariants.go:27`).
- A community-pool spend into a pool that has shares belongs to the shareholders, and anyone can
  send to a pool's address before the consumer exists (`fee_pool_shares.go:113` and `:117`).
- A withdrawal may burn shares for no token once a share is worth less than one (`fee_pool_shares.go:42`).

- Epoch share records are kept "at least as long as downtime evidence and its challenge window can
  reference them" (`fees.go:90`, `module.go:178`). They are pruned by the parameters of the day: once
  governance raises the evidence age, windows may be accused whose records went before.

*Equivocation*
- `keeper.go:171` says that the same infraction is never punished twice, also when the chain id is
  re-registered. The records of a deleted consumer's chain id do not follow a rotation, so a
  validator that rotates before the chain id is taken again is punished for the dead chain's
  double vote once more (`cons_pubkey_rotation.go:57`). `PunishedOnce` excepts this case.
- Double-vote evidence has no maximum age and the minimum height is one per consumer: after a
  replaced key is pruned, a later validator under that address is blamed for its former holder's
  votes, against `consumer_equivocation.go:59`. For the same reason a double vote is not "punished
  whenever proven" (`consumer_equivocation.go:55`): the votes of a paused consumer's old key may be
  unresolvable while its signer is still bonded. `ProvenIsPunishable` says until when they are not.
- The minimum height is said to be set "at launch and on each resync" (`consumer_equivocation.go:48`);
  it is set at launch and at the import of a genesis (`consumer_lifecycle.go:228`).

*Safe mode*
- `docs/consumer-liveness.md:65` says that at removal the set of the last successful sync is still
  slashable. Three things restart the provider's clock under a set of any age: a late acknowledgement
  of an old packet, a resume, and a packet that waited in the queue for epochs (no client, or failing
  sends) and is then sent with a fresh timeout and acknowledged at once. No property claims it.
- The same document (line 125) says a lagging consumer "always" enters safe mode before the sweep
  removes it. Not if packets are relayed and acknowledgements are not, if governance lowers the
  grace period below the threshold of a consumer that exists, or if the consumer never synced and
  started late; `SafeModeBeforeRemoval` names the three and says that there is no fourth.

*Text only*: `docs/` describe a refusal coalition and a `RefusalPauseThreshold` that are not in
the code; `docs/consumer-lifecycle.md` says the consumer's InitGenesis creates an IBC client, and
`consumer/keeper/relay.go` says none is created; a comment gives `MaxPauseDuration` as 30 days and the
default is 1080 hours.

## What is not modelled

- Signature, header and proof verification: cryptography, an input wherever it decides.
- Wire formats, stateless validation of single messages, events, errors, queries, command
  line, fee decorators: no state of their own.
- Staking, slashing, bank, 02-client: external, modelled by what the code uses of them.
- Applications, generated code, mocks, end-to-end harness.
- Parameter changes other than those of the infraction parameters, the fees, the tombstoning
  policy and the liveness grace period: the other parameters are CONSTANTS.
- When a consumer applies a set, in `KeyAssignment` and `Equivocation`: any time after it was computed,
  or never. That it does so in order and in the end is `ValSetSync`.
- The export for zero height (`app/*/export.go`), the validation of hand-made genesis files,
  `disabled_modules_ante.go` (refuses messages by type, no state).
- Slashed amounts, and the splitting of fees among more than equal validators.
- About 35,000 of the repository's 57,000 lines of Go are generated protobuf code, and most of the
  rest beside `keeper/` is application wiring, command line and queries. The map covers the
  state-changing code of `x/vaas` and little else, by intention.

## Plan

All components with state of their own are modelled, and every safety property the runs check
is proved. What is left:

1. A tighter account of addresses in use: tie the entries of `seen` to the packets of `ValSetSync`,
   so that a replaced address can be said to be retired when the consumer has taken a later set.
2. Safety lemmas beneath the liveness properties: that the set a consumer holds never gets
   further from the newest one without a packet on its way (`Converges`), that a due entry of
   a time queue is passed over only for an earlier one (`PausesAndStopsEnd`).

## Running it

`tlc -config ValSetSync.cfg MCValSetSync` (or any other pair of `PROJECT.json`'s `runs`);
`tlapm ValSetSyncProofs.tla`.

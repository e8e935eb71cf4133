-------------------------- MODULE ConsumerLifecycle --------------------------
(***************************************************************************)
(* The provider's view of a consumer chain's life: registration, launch at *)
(* its spawn time, pause, resume, stop and erasure, and the three time     *)
(* queues (SpawnTimeToConsumerIds, RemovalTimeToConsumerIds,               *)
(* PauseExpirationTimeToConsumerIds) that carry it from one to the next.   *)
(*                                                                         *)
(* x/vaas/provider/keeper: consumer_lifecycle.go, msg_server.go,           *)
(* permissionless.go, the time queues of keeper.go, the containment of     *)
(* consumer_equivocation.go, genesis.go; x/vaas/provider/module.go.        *)
(*                                                                         *)
(* A block is BeginBlock's five sweeps, in module.go's order, and then any *)
(* number of transactions; `stage` says where in the block we are.  Every  *)
(* message is taken as sent by a signer the handler admits: a refused      *)
(* message changes nothing.                                                *)
(*                                                                         *)
(* A time-queue bucket is a list of ids in the code; here it is the number *)
(* of times each id is in it.  What is abstracted is the order inside one  *)
(* bucket, which decides only who waits when more than Limit ids are due.  *)
(*                                                                         *)
(* There is one IBC client per chain, named by the chain id it tracks.     *)
(***************************************************************************)
EXTENDS Integers, FiniteSets

CONSTANTS
  Consumers,        \* consumer ids, natural numbers as in the code
  ChainIds,         \* chain ids owners may ask for
  ProviderChainId,  \* the provider's own chain id
  NoChain,          \* "no chain id" and "no client"
  Revision,         \* the revision number ParseChainID reads off a chain id
  Unbonding,        \* the staking module's unbonding time
  Grace,            \* LivenessGracePeriod
  MaxPause,         \* MaxPauseDuration
  Trusting,         \* trusting period of the consumers' clients
  MaxClockDrift,    \* clock-drift allowance of the consumers' clients
  Forkable,         \* bound: the chains that may fork or go quiet
  Limit,            \* how many ids one block takes from a time queue
  MaxStep,          \* bound: how far block time may jump
  Horizon,          \* bound: transactions arrive until this time
  EndOfTime         \* bound: block time stops advancing here

ASSUME ConstantsAssumption ==
  /\ Consumers \subseteq Nat /\ IsFiniteSet(Consumers)
  /\ NoChain \notin ChainIds /\ Forkable \subseteq ChainIds
  /\ Revision \in [ChainIds -> Nat]
  /\ Unbonding \in Nat \ {0} /\ MaxPause \in Nat \ {0} /\ Grace \in Nat
  /\ Trusting \in Nat /\ MaxClockDrift \in Nat
  /\ Limit \in Nat \ {0} /\ MaxStep \in Nat \ {0}
  /\ EndOfTime \in Nat \ {0} /\ Horizon \in 1..EndOfTime

VARIABLES
  now,          \* block time; 0 is Go's zero time and never a block's
  stage,        \* the part of the block that runs next
  halted,       \* BeginBlock or InitGenesis returned an error
  cons,         \* what the provider stores of each consumer
  launchQueue,  \* SpawnTimeToConsumerIds
  removalQueue, \* RemovalTimeToConsumerIds
  pauseQueue,   \* PauseExpirationTimeToConsumerIds
  status,       \* 02-client's status of the client of each chain (external)
  forkAt,       \* time of the consensus state a fork of the chain verifies
                \* against, 0 if it has not forked (external)
  contained     \* history, read by no action: has that fork paused a consumer?

queues   == <<launchQueue, removalQueue, pauseQueue>>
external == <<status, forkAt>>
vars     == <<now, stage, halted, cons, queues, external, contained>>

Phases   == {"NONE", "REGISTERED", "INITIALIZED", "LAUNCHED", "PAUSED",
             "STOPPED", "DELETED"}
Stages   == {"launch", "remove", "frozen", "sweep", "autostop", "deliver"}
Reasons  == {"none", "challenge", "fork"}
Statuses == {"Active", "Frozen", "Expired"}

Times      == 0 .. (EndOfTime + Unbonding + MaxPause)
SpawnTimes == 0 .. Horizon

\* An absent time is 0, an absent chain id or client NoChain.
Record == [phase : Phases, chainId : ChainIds \cup {NoChain},
           client : ChainIds \cup {NoChain}, spawnTime : Times, revision : Nat,
           removalTime : Times, pauseExpiration : Times, pausedAt : Times,
           pauseReason : Reasons, lastAck : Times]

Unregistered ==
  [phase |-> "NONE", chainId |-> NoChain, client |-> NoChain, spawnTime |-> 0,
   revision |-> 0, removalTime |-> 0, pauseExpiration |-> 0, pausedAt |-> 0,
   pauseReason |-> "none", lastAck |-> 0]

EmptyQueue == [t \in Times |-> [c \in Consumers |-> 0]]

Init ==
  /\ now = 1 /\ stage = "deliver" /\ halted = FALSE
  /\ cons = [c \in Consumers |-> Unregistered]
  /\ launchQueue = EmptyQueue /\ removalQueue = EmptyQueue
  /\ pauseQueue = EmptyQueue
  /\ status = [i \in ChainIds |-> "Active"]
  /\ forkAt = [i \in ChainIds |-> 0]
  /\ contained = [i \in ChainIds |-> FALSE]

In(p)      == {c \in Consumers : cons[c].phase = p}
Prelaunched == {"REGISTERED", "INITIALIZED"}

(***************************************************************************)
(* Time queues.                                                            *)
(***************************************************************************)
\* AppendConsumerTo...: one more entry for each consumer of S.
Enqueue(q, t, S) ==
  [q EXCEPT ![t] = [c \in Consumers |-> IF c \in S THEN @[c] + 1 ELSE @[c]]]

\* removeConsumerFromTimeQueue, which fails unless the entry is there: callers
\* guard it with Queued.
Queued(q, t, c) == q[t][c] > 0
Dequeue(q, t, c) == [q EXCEPT ![t][c] = @ - 1]

Due(q) == {c \in Consumers : \E t \in Times : t <= now /\ Queued(q, t, c)}

\* ConsumeIdsFromTimeQueue: T are the ids handed to the caller, the earliest
\* due first and no more than Limit of them, ...
ConsumeIds(q, T) ==
  /\ T \subseteq Due(q)
  /\ IF Cardinality(Due(q)) <= Limit THEN T = Due(q) ELSE Cardinality(T) = Limit
  /\ \A c \in T, d \in Due(q) \ T : \A u \in Times :
       u <= now /\ Queued(q, u, d) => \E t \in Times : t <= u /\ Queued(q, t, c)

\* ... and the queue they are gone from.
DropsTheRest(q, T) ==
  [t \in Times |-> [c \in Consumers |-> IF t <= now THEN 0 ELSE q[t][c]]]
Consumed(q, T) ==
  [t \in Times |-> [c \in Consumers |->
     IF c \in T /\ t <= now THEN 0 ELSE q[t][c]]]

\* CancelConsumerPauseExpiration on the queue, for each consumer of S; an entry
\* that is already gone is tolerated.
CancelConsumerPauseExpiration(q, S) ==
  [t \in Times |-> [c \in Consumers |->
     IF c \in S /\ t = cons[c].pauseExpiration /\ t # 0 /\ Queued(q, t, c)
     THEN q[t][c] - 1 ELSE q[t][c]]]

(***************************************************************************)
(* The transitions the handlers and sweeps share.                          *)
(***************************************************************************)
Becomes(S, Change(_)) ==
  [c \in Consumers |-> IF c \in S THEN Change(cons[c]) ELSE cons[c]]

\* PauseConsumerChain; the fees it repays and the downtime state it cancels are
\* no part of this module.
PauseConsumerChain(S, reason) ==
  LET Paused(r) == [r EXCEPT !.phase = "PAUSED", !.pauseReason = reason,
                             !.pausedAt = now, !.pauseExpiration = now + MaxPause]
  IN  /\ cons' = Becomes(S, Paused)
      /\ pauseQueue' = Enqueue(pauseQueue, now + MaxPause, S)

\* StopAndPrepareForConsumerRemoval; q is the pause queue it finds.
StopAndPrepareForConsumerRemoval(S, q) ==
  LET Stopped(r) == [r EXCEPT !.phase = "STOPPED", !.pauseExpiration = 0,
                              !.pauseReason = "none", !.pausedAt = 0,
                              !.removalTime = now + Unbonding]
  IN  /\ cons' = Becomes(S, Stopped)
      /\ pauseQueue' = CancelConsumerPauseExpiration(q, S)
      /\ removalQueue' = Enqueue(removalQueue, now + Unbonding, S)

\* DeleteConsumerChain keeps the phase, the owner and the initialization
\* parameters, and releases the chain id.
Deletable(c) ==
  \/ cons[c].phase \in {"STOPPED", "REGISTERED"}
  \/ cons[c].phase = "INITIALIZED" /\ Queued(launchQueue, cons[c].spawnTime, c)

DeleteConsumerChain(S) ==
  LET Deleted(r) == [r EXCEPT !.phase = "DELETED", !.chainId = NoChain,
                              !.client = NoChain, !.removalTime = 0, !.lastAck = 0,
                              !.pauseReason = "none", !.pausedAt = 0]
  IN  /\ cons' = Becomes(S, Deleted)
      /\ launchQueue' =
           [t \in Times |-> [c \in Consumers |->
              IF c \in S /\ cons[c].phase = "INITIALIZED" /\ t = cons[c].spawnTime
              THEN launchQueue[t][c] - 1 ELSE launchQueue[t][c]]]

(***************************************************************************)
(* BeginBlock.                                                             *)
(***************************************************************************)
\* CometBFT starts a block: its time is later than the last block's (it stays
\* at the bound once it reaches it).
StartBlock ==
  /\ stage = "deliver" /\ ~halted
  /\ now' \in IF now = EndOfTime THEN {now}
              ELSE {t \in (now + 1) .. (now + MaxStep) : t <= EndOfTime}
  /\ stage' = "launch"
  /\ UNCHANGED <<halted, cons, queues, external, contained>>

\* SetConsumerInitializationParameters refuses an initial height whose revision
\* is not the chain id's.
ValidateInitialHeight(c) == cons[c].revision = Revision[cons[c].chainId]

\* BeginBlockLaunchConsumers: each id taken launches or fails (no bonded
\* validator, no historical info, ...).  A failed one loses its spawn time and is
\* REGISTERED again; if that write is refused the error leaves BeginBlock and the
\* block is lost.
BeginBlockLaunchConsumers ==
  /\ stage = "launch" /\ ~halted
  /\ \E T \in SUBSET Due(launchQueue) : \E failed \in SUBSET T :
       /\ ConsumeIds(launchQueue, T)
       /\ IF \A c \in failed : ValidateInitialHeight(c)
          THEN /\ cons' = [c \in Consumers |->
                    IF c \in failed
                    THEN [cons[c] EXCEPT !.phase = "REGISTERED", !.spawnTime = 0]
                    ELSE IF c \in T
                    THEN [cons[c] EXCEPT !.phase = "LAUNCHED", !.lastAck = now]
                    ELSE cons[c]]
               /\ launchQueue' = Consumed(launchQueue, T)
               /\ stage' = "remove"
               /\ UNCHANGED halted
          ELSE /\ halted' = TRUE
               /\ UNCHANGED <<cons, launchQueue, stage>>
  /\ UNCHANGED <<now, removalQueue, pauseQueue, external, contained>>

\* BeginBlockRemoveConsumers: a deletion that fails is logged and dropped.
BeginBlockRemoveConsumers ==
  /\ stage = "remove"
  /\ \E T \in SUBSET Due(removalQueue) :
       /\ ConsumeIds(removalQueue, T)
       /\ DeleteConsumerChain({c \in T : Deletable(c)})
       /\ removalQueue' = Consumed(removalQueue, T)
  /\ stage' = "frozen"
  /\ UNCHANGED <<now, halted, pauseQueue, external, contained>>

HasFrozenClient(c) == cons[c].client # NoChain /\ status[cons[c].client] = "Frozen"

\* A pause for a fork accounts for it.
Containing(S) ==
  contained' = [i \in ChainIds |->
                  contained[i] \/ \E c \in S : cons[c].client = i]

NoConsumersWithFrozenClients == stage = "frozen" /\ stage' = "sweep"
                                /\ UNCHANGED <<now, halted, cons, queues, external,
                                               contained>>
PauseConsumersWithFrozenClients ==
  /\ stage = "frozen"
  /\ LET S == {c \in In("LAUNCHED") : HasFrozenClient(c)}
     IN  PauseConsumerChain(S, "fork") /\ Containing(S)
  /\ stage' = "sweep"
  /\ UNCHANGED <<now, halted, launchQueue, removalQueue, external>>

SweepUnresponsiveConsumers ==
  /\ stage = "sweep"
  /\ StopAndPrepareForConsumerRemoval(
       {c \in In("LAUNCHED") : now - cons[c].lastAck > Grace}, pauseQueue)
  /\ stage' = "autostop"
  /\ UNCHANGED <<now, halted, launchQueue, external, contained>>

BeginBlockAutoStopPausedConsumers ==
  /\ stage = "autostop"
  /\ \E T \in SUBSET Due(pauseQueue) :
       /\ ConsumeIds(pauseQueue, T)
       /\ StopAndPrepareForConsumerRemoval(T \cap In("PAUSED"), Consumed(pauseQueue, T))
  /\ stage' = "deliver"
  /\ UNCHANGED <<now, halted, launchQueue, external, contained>>

(***************************************************************************)
(* Transactions.                                                           *)
(***************************************************************************)
Deliver == stage = "deliver" /\ ~halted /\ now <= Horizon

FreeAmongLaunched(i) ==
  /\ i # ProviderChainId
  /\ \A c \in In("LAUNCHED") : cons[c].chainId # i
ValidateConsumerChainIdFree(i) ==
  /\ i # ProviderChainId
  /\ \A c \in Consumers : cons[c].chainId # i

\* The initial height a message carries must match the chain id, so its revision
\* is not an input.  Zero spawn time: the consumer stays REGISTERED.
CreateConsumer(c, i, t) ==
  /\ Deliver
  /\ cons[c].phase = "NONE"
  /\ ValidateConsumerChainIdFree(i)
  /\ cons' = [cons EXCEPT ![c] =
       [Unregistered EXCEPT !.chainId = i, !.revision = Revision[i], !.spawnTime = t,
          !.phase = IF t = 0 THEN "REGISTERED" ELSE "INITIALIZED"]]
  /\ launchQueue' = IF t = 0 THEN launchQueue ELSE Enqueue(launchQueue, t, {c})
  /\ UNCHANGED <<now, stage, halted, removalQueue, pauseQueue, external, contained>>

\* What a client declaration must satisfy; the client index is unique, so a
\* client another consumer holds is refused too.
SetConsumerClient(c) ==
  /\ cons[c].client = NoChain
  /\ status[cons[c].chainId] = "Active"
  /\ \A d \in Consumers : cons[d].client # cons[c].chainId

\* The spawn-time queue after an update: the old entry is dropped, which fails if
\* it is missing, and the new spawn time, if any, is queued.
ForgetsTheOldSpawnTime(c, t) ==
  launchQueue' = IF t = 0 THEN launchQueue ELSE Enqueue(launchQueue, t, {c})
PrepareConsumerForLaunch(c, t) ==
  LET previous == cons[c].spawnTime
      dropped  == IF previous = 0 THEN launchQueue ELSE Dequeue(launchQueue, previous, c)
  IN  /\ previous # 0 => Queued(launchQueue, previous, c)
      /\ launchQueue' = IF t = 0 THEN dropped ELSE Enqueue(dropped, t, {c})

\* MsgUpdateConsumer: `declare` if it names a client, i the chain id it leaves the
\* consumer with, `params` if it carries initialization parameters, and t the
\* spawn time it leaves the consumer with.  The client is checked against the chain
\* id the consumer had before; the initial height against the new one, and only
\* when there are parameters.
UpdateConsumer(c, declare, i, params, t) ==
  LET r == cons[c]
      declared == [r EXCEPT !.client = IF declare THEN r.chainId ELSE @]
  IN  /\ Deliver
      /\ r.phase \in Prelaunched \cup {"LAUNCHED"}
      /\ declare => SetConsumerClient(c)
      /\ i # r.chainId => ValidateConsumerChainIdFree(i)
      /\ ~params => t = r.spawnTime
      /\ \/ /\ r.phase = "LAUNCHED" /\ i = r.chainId /\ ~params
            /\ cons' = [cons EXCEPT ![c] = declared]
            /\ UNCHANGED launchQueue
         \/ /\ r.phase \in Prelaunched
            /\ PrepareConsumerForLaunch(c, t)
            /\ cons' = [cons EXCEPT ![c] =
                 [declared EXCEPT !.chainId = i, !.spawnTime = t,
                    !.revision = IF params THEN Revision[i] ELSE @,
                    !.phase = IF t = 0 THEN "REGISTERED" ELSE "INITIALIZED"]]
      /\ UNCHANGED <<now, stage, halted, removalQueue, pauseQueue, external, contained>>

\* MsgRemoveConsumer before launch (owner or governance) ...
RemovePrelaunched(c) ==
  /\ Deliver
  /\ cons[c].phase \in Prelaunched /\ Deletable(c)
  /\ DeleteConsumerChain({c})
  /\ UNCHANGED <<now, stage, halted, removalQueue, pauseQueue, external, contained>>

\* ... and after it (governance).
RemoveLaunched(c) ==
  /\ Deliver
  /\ cons[c].phase \in {"LAUNCHED", "PAUSED"}
  /\ StopAndPrepareForConsumerRemoval({c}, pauseQueue)
  /\ UNCHANGED <<now, stage, halted, launchQueue, external, contained>>

\* A downtime challenge is proven.
HandleChallengeConsumerDowntime(c) ==
  /\ Deliver
  /\ cons[c].phase = "LAUNCHED"
  /\ cons[c].client # NoChain
  /\ PauseConsumerChain({c}, "challenge")
  /\ UNCHANGED <<now, stage, halted, launchQueue, removalQueue, external, contained>>

\* The headers of chain i's fork verify while the consensus state they build on
\* is inside the client's trusting period.
Verifiable(i) == forkAt[i] # 0 /\ now < forkAt[i] + Trusting

\* containLightClientAttack: freeze the client if it is still active, pause.
HandleConsumerMisbehaviour(c) ==
  LET i == cons[c].client
  IN  /\ Deliver
      /\ cons[c].phase = "LAUNCHED"
      /\ i # NoChain /\ i = cons[c].chainId
      /\ Verifiable(i)
      /\ status' = [status EXCEPT ![i] = IF @ = "Active" THEN "Frozen" ELSE @]
      /\ PauseConsumerChain({c}, "fork") /\ Containing({c})
      /\ UNCHANGED <<now, stage, halted, launchQueue, removalQueue, forkAt>>

\* A pause for a fork outlasts the evidence of it.
ForkEvidenceAged(c) == now >= cons[c].pausedAt + Trusting
ForkEvidenceExpired(c) == now >= cons[c].pausedAt + Trusting + MaxClockDrift

\* MsgResumeConsumer; the snapshot it sends is ValSetSync's.
ResumedWithOldClock(c) ==
  /\ pauseQueue' = CancelConsumerPauseExpiration(pauseQueue, {c})
  /\ cons' = [cons EXCEPT ![c].phase = "LAUNCHED", ![c].pauseReason = "none",
                          ![c].pausedAt = 0, ![c].pauseExpiration = 0]
Resumed(c) ==
  /\ pauseQueue' = CancelConsumerPauseExpiration(pauseQueue, {c})
  /\ cons' = [cons EXCEPT ![c].phase = "LAUNCHED", ![c].pauseReason = "none",
                          ![c].pausedAt = 0, ![c].pauseExpiration = 0,
                          ![c].lastAck = now]

ResumeConsumerChain(c) ==
  /\ Deliver
  /\ cons[c].phase = "PAUSED"
  /\ cons[c].client # NoChain /\ status[cons[c].client] = "Active"
  /\ cons[c].pauseReason = "fork" => ForkEvidenceExpired(c)
  /\ Resumed(c)
  /\ UNCHANGED <<now, stage, halted, launchQueue, removalQueue, external, contained>>

\* A success acknowledgement of some VSC packet; the client mapping exists until
\* the consumer is deleted, so a paused or stopped consumer's clock moves too.
OnAcknowledgementPacketV2(c) ==
  /\ Deliver
  /\ cons[c].phase \in {"LAUNCHED", "PAUSED", "STOPPED"}
  /\ cons[c].client # NoChain /\ status[cons[c].client] = "Active"
  /\ cons' = [cons EXCEPT ![c].lastAck = now]
  /\ UNCHANGED <<now, stage, halted, queues, external, contained>>

(***************************************************************************)
(* The IBC clients and the chains they track (external).                   *)
(***************************************************************************)
\* Chain i forks: two headers that conflict, built on a consensus state the
\* client holds, whose time may run ahead of the provider's clock.
Fork(i) ==
  /\ Deliver
  /\ status[i] = "Active" /\ ~Verifiable(i)
  /\ \E ts \in now .. (now + MaxClockDrift) : forkAt' = [forkAt EXCEPT ![i] = ts]
  /\ contained' = [contained EXCEPT ![i] = FALSE]
  /\ UNCHANGED <<now, stage, halted, cons, queues, status>>

\* Anyone reports the fork through ibc-go's MsgUpdateClient.
ReportFork(i) ==
  /\ Deliver
  /\ status[i] = "Active" /\ Verifiable(i)
  /\ status' = [status EXCEPT ![i] = "Frozen"]
  /\ UNCHANGED <<now, stage, halted, cons, queues, forkAt, contained>>

\* Nobody updates the client for a trusting period.
ExpireClient(i) ==
  /\ Deliver
  /\ status[i] = "Active" /\ ~Verifiable(i)
  /\ status' = [status EXCEPT ![i] = "Expired"]
  /\ UNCHANGED <<now, stage, halted, cons, queues, forkAt, contained>>

\* Governance's MsgRecoverClient keeps the old consensus states.
RecoverClient(i) ==
  /\ Deliver
  /\ status[i] # "Active"
  /\ status' = [status EXCEPT ![i] = "Active"]
  /\ UNCHANGED <<now, stage, halted, cons, queues, forkAt, contained>>

(***************************************************************************)
(* Export and re-import of the provider's state: the queues are not part   *)
(* of the genesis file, InitGenesis derives them from the phases.          *)
(***************************************************************************)
RebuildQueue(p, at(_)) ==
  [t \in Times |-> [c \in Consumers |->
     IF cons[c].phase = p /\ at(cons[c]) = t /\ t # 0 THEN 1 ELSE 0]]

SpawnTimeOf(r)       == r.spawnTime
RemovalTimeOf(r)     == r.removalTime
PauseExpirationOf(r) == r.pauseExpiration

InitGenesis ==
  /\ Deliver
  /\ IF \A c \in Consumers : cons[c].phase \in {"NONE", "DELETED"} \/ ValidateInitialHeight(c)
     THEN /\ launchQueue'  = RebuildQueue("INITIALIZED", SpawnTimeOf)
          /\ removalQueue' = RebuildQueue("STOPPED", RemovalTimeOf)
          /\ pauseQueue'   = RebuildQueue("PAUSED", PauseExpirationOf)
          /\ UNCHANGED halted
     ELSE halted' = TRUE /\ UNCHANGED queues
  /\ UNCHANGED <<now, stage, cons, external, contained>>

Message(c) ==
  \/ \E i \in ChainIds, t \in SpawnTimes : CreateConsumer(c, i, t)
  \/ \E declare, params \in BOOLEAN, i \in ChainIds, t \in SpawnTimes :
       UpdateConsumer(c, declare, i, params, t)
  \/ RemovePrelaunched(c) \/ RemoveLaunched(c)
  \/ HandleChallengeConsumerDowntime(c) \/ HandleConsumerMisbehaviour(c)
  \/ ResumeConsumerChain(c) \/ OnAcknowledgementPacketV2(c)

Client(i) == Fork(i) \/ ReportFork(i) \/ ExpireClient(i) \/ RecoverClient(i)

BeginBlock ==
  \/ StartBlock
  \/ BeginBlockLaunchConsumers \/ BeginBlockRemoveConsumers
  \/ PauseConsumersWithFrozenClients \/ SweepUnresponsiveConsumers
  \/ BeginBlockAutoStopPausedConsumers

Next ==
  \/ BeginBlock
  \/ InitGenesis
  \/ \E c \in Consumers : Message(c)
  \/ \E i \in Forkable : Client(i)

Spec == Init /\ [][Next]_vars

\* The provider keeps producing blocks, whether or not anybody sends anything.
FairSpec == Spec /\ WF_vars(BeginBlock)

(***************************************************************************)
(* Properties.                                                             *)
(***************************************************************************)
Queue == [Times -> [Consumers -> Nat]]

\* Every variable has its type.
TypeOK ==
  /\ now \in 1 .. EndOfTime /\ stage \in Stages /\ halted \in BOOLEAN
  /\ cons \in [Consumers -> Record]
  /\ launchQueue \in Queue /\ removalQueue \in Queue /\ pauseQueue \in Queue
  /\ status \in [ChainIds -> Statuses] /\ forkAt \in [ChainIds -> Nat]
  /\ contained \in [ChainIds -> BOOLEAN]

\* A time queue holds one entry for each consumer in phase p, at the time its
\* record says, and nothing else.
Schedules(q, p, at(_)) ==
  /\ \A c \in Consumers : cons[c].phase = p => at(cons[c]) # 0
  /\ \A c \in Consumers, t \in Times :
       q[t][c] = IF cons[c].phase = p /\ t = at(cons[c]) THEN 1 ELSE 0

\* Whatever updates, failed launches, resumes, removals and restarts came before,
\* a consumer is queued for launch exactly when it is INITIALIZED, for auto-stop
\* exactly when it is PAUSED, for erasure exactly when it is STOPPED: once each and
\* at the time it was promised, so that no sweep meets a stale or a missing entry.
SchedulesMatchPhases ==
  /\ Schedules(launchQueue, "INITIALIZED", SpawnTimeOf)
  /\ Schedules(removalQueue, "STOPPED", RemovalTimeOf)
  /\ Schedules(pauseQueue, "PAUSED", PauseExpirationOf)

\* No two consumers hold the same chain id or the same client, none holds the
\* provider's chain id, and an erased consumer holds neither: what deletion
\* releases can be registered again and nothing else can.
ChainIdsAreExclusive ==
  \A c, d \in Consumers :
    /\ cons[c].chainId # NoChain <=> cons[c].phase \notin {"NONE", "DELETED"}
    /\ cons[c].chainId \in ChainIds => cons[c].chainId # ProviderChainId
    /\ cons[c].phase \in {"NONE", "DELETED"} => cons[c].client = NoChain
    /\ c # d /\ cons[c].chainId = cons[d].chainId => cons[c].chainId = NoChain
    /\ c # d /\ cons[c].client = cons[d].client => cons[c].client = NoChain

\* Once BeginBlock is over, every consumer still served acknowledged something
\* (or was launched or resumed) within the liveness grace period.
LaunchedAreResponsive ==
  stage = "deliver" => \A c \in In("LAUNCHED") : now - cons[c].lastAck <= Grace

\* The same, from the moment the sweep has run: the invariant the proofs carry.
SweptAreResponsive ==
  stage \in {"autostop", "deliver"} =>
    \A c \in In("LAUNCHED") : now - cons[c].lastAck <= Grace

IInv == TypeOK /\ SchedulesMatchPhases /\ ChainIdsAreExclusive /\ SweptAreResponsive

\* When the liveness sweep comes, no consumer with a frozen client is running.
FrozenArePaused == stage = "sweep" => \A c \in In("LAUNCHED") : ~HasFrozenClient(c)

\* c holds the client i and does not run while a fork of i can be proved: it was paused
\* for the fork, or stopped since.
HeldDown(c, i) ==
  /\ cons[c].client = i
  /\ \/ /\ cons[c].phase = "PAUSED" /\ cons[c].pauseReason = "fork"
        /\ forkAt[i] <= cons[c].pausedAt + MaxClockDrift
     \/ /\ cons[c].phase = "STOPPED"
        /\ forkAt[i] + Unbonding <= cons[c].removalTime + MaxClockDrift

\* A fork that paused a consumer holds the consumer down for as long as it can be proved;
\* after that its client is frozen only while nobody, or a consumer held down, has it.
ContainedForksAreOver ==
  \A i \in ChainIds :
    /\ forkAt[i] <= now + MaxClockDrift
    /\ contained[i] =>
         \/ \E c \in Consumers : HeldDown(c, i)
         \/ ~Verifiable(i) /\ (status[i] = "Frozen" => \A c \in Consumers : cons[c].client # i)

\* A consumer is erased, and its client free for another, after every fork of it.
ErasureOutlastsForks == Trusting + MaxClockDrift <= Unbonding

\* The liveness sweep never stops a consumer that is silent because its client is
\* frozen: such a consumer is paused for governance first.
ForkIsNotMistakenForDeath ==
  [][\A c \in Consumers :
       stage = "sweep" /\ cons[c].phase = "LAUNCHED" /\ cons'[c].phase = "STOPPED"
         => ~HasFrozenClient(c)]_vars

\* A fork pauses a consumer once: after the resume its headers no longer verify,
\* on neither submission path.
SameForkPausesOnce ==
  [][\A c \in Consumers :
       cons[c].phase = "LAUNCHED" /\ cons'[c].phase = "PAUSED"
                                  /\ cons'[c].pauseReason = "fork"
         => ~contained[cons[c].client]]_vars

\* No pause and no stop is for ever, even when more consumers are due than one
\* block handles: governance resumes the consumer or it is erased, unless the chain
\* halts (FailedLaunchIsReset).
PausesAndStopsEnd ==
  \A c \in Consumers :
    cons[c].phase \in {"PAUSED", "STOPPED"} ~> cons[c].phase \in {"LAUNCHED", "DELETED"} \/ halted

\* A claim of the text that the code does not keep.
\* docs/consumer-lifecycle.md: a failed launch resets the spawn time and the phase;
\* it does not stop the provider.
FailedLaunchIsReset == ~(halted /\ stage = "launch")
=============================================================================

----------------------------- MODULE ValSetSync -----------------------------
(***************************************************************************)
(* The validator-set-change (VSC) protocol between the provider chain and  *)
(* its consumer chains: what the provider queues and sends, what the       *)
(* unordered IBC v2 transport may do to it, and what a consumer applies.   *)
(*                                                                         *)
(* Provider side: x/vaas/provider/keeper/relay.go and                      *)
(* validator_set_update.go.  Consumer side: x/vaas/consumer/keeper/relay.go*)
(* and validators.go, and consumer/module.go's EndBlock.                   *)
(*                                                                         *)
(* A consumer's validator set is a function from consensus keys to voting  *)
(* power, 0 meaning "not in the set".  The set the provider would compute  *)
(* for a consumer (bonded validators, mapped through key assignment) is an *)
(* input: staking and key assignment may move it between any two blocks.   *)
(* Time is left out: a timeout is a step that may happen to any packet not *)
(* yet received.                                                           *)
(***************************************************************************)
EXTENDS Naturals, Sequences, FiniteSets

CONSTANTS
  Consumers,   \* consumer ids, natural numbers as in the code
  Keys,        \* consensus public keys
  MaxPower,    \* bound: the largest voting power
  MaxVscId,    \* bound: the last valset update id the provider hands out
  DebtFlags    \* the values the consumer's debt flag takes over time

ASSUME ConstantsAssumption ==
  /\ Consumers \subseteq Nat /\ IsFiniteSet(Consumers)
  /\ MaxPower \in Nat \ {0}
  /\ MaxVscId \in Nat \ {0}
  /\ DebtFlags \subseteq BOOLEAN

VARIABLES
  \* provider state
  phase,           \* lifecycle phase of each consumer
  client,          \* has the owner declared the consumer's IBC client?
  valsetUpdateId,  \* the id the next queued packet takes, shared by all consumers
  storedSet,       \* ConsumerValSet: the set computed for the last queued packet
  pendingVSC,      \* PendingVSCPackets: queued and not known to be all sent
  highestSent,     \* ConsumerHighestSentVscId
  highestAcked,    \* ConsumerHighestAckedVscId
  \* IBC transport, one direction of packets and one of acknowledgements
  nextSeq,         \* the sequence number of the next IBC packet
  inflight,        \* packets sent, neither received nor timed out
  acks,            \* acknowledgements written and not yet relayed
  \* consumer state
  pinned,          \* has MsgSetProviderClient pinned the provider client?
  valset,          \* the validator set CometBFT runs with
  pendingChanges,  \* updates received and not yet flushed by EndBlock
  highest,         \* HighestValsetUpdateID, 0 when none was recorded
  inDebt,          \* ConsumerInDebt, as the consumer knows it
  \* history, read by no action: what was published under each id (0: genesis),
  \* and the id whose set was last handed to CometBFT
  log, debtLog, appliedId

providerVars  == <<phase, client, valsetUpdateId, storedSet, pendingVSC,
                   highestSent, highestAcked>>
transportVars == <<nextSeq, inflight, acks>>
consumerVars  == <<pinned, valset, pendingChanges, highest, inDebt, appliedId>>
historyVars   == <<log, debtLog>>
vars == <<providerVars, transportVars, consumerVars, historyVars>>

-----------------------------------------------------------------------------
(* Validator sets and updates *)

Power   == 0..MaxPower
VscId   == 1..MaxVscId
NoSet   == [k \in Keys |-> 0]
ValSet  == {s \in [Keys -> Power] : \E k \in Keys : s[k] > 0}
Updates == UNION {[D -> Power] : D \in SUBSET Keys}
NoUpdates == [k \in {} |-> 0]

Packet   == [id : VscId, snapshot : BOOLEAN, updates : Updates, debt : BOOLEAN]
Envelope == [seq : Nat, data : Packet]
Ack      == [seq : Nat, id : VscId, ok : BOOLEAN]

Phases == {"INITIALIZED", "LAUNCHED", "PAUSED", "STOPPED", "DELETED"}

Launched == {c \in Consumers : phase[c] = "LAUNCHED"}

\* The consumer chain is started from the genesis written at launch.
Started(c) == phase[c] # "INITIALIZED"

\* Keys that leave get power 0, keys whose power moved or that join get the
\* new power; a key that is the same on both sides gets no update.
DiffValidators(current, next) ==
  [k \in {x \in Keys : current[x] # next[x]} |-> next[k]]

\* A snapshot lists the whole set, absolute powers, no removals.
FullValSetUpdates(s) == [k \in {x \in Keys : s[x] > 0} |-> s[k]]

AccumulateChanges(currentChanges, newChanges) ==
  [k \in DOMAIN currentChanges \cup DOMAIN newChanges |->
     IF k \in DOMAIN newChanges THEN newChanges[k] ELSE currentChanges[k]]

\* Faulty variant: validators outside the snapshot are never removed.
ReplaceWithoutRemovals(current, target) == target

\* The target set plus a removal for every current validator outside it.
ComputeReplaceUpdates(current, target) ==
  [k \in DOMAIN target \cup {x \in Keys : current[x] > 0} |->
     IF k \in DOMAIN target THEN target[k] ELSE 0]

ApplyVaasValidatorChanges(s, changes) ==
  [k \in Keys |-> IF k \in DOMAIN changes THEN changes[k] ELSE s[k]]

HasPositivePower(u) == \E k \in DOMAIN u : u[k] > 0

-----------------------------------------------------------------------------
(* Provider: queueing and sending *)

\* Faulty variants of NeedsSnapshot, each forgetting one of its conditions.
NeedsSnapshotUnlessQueued(c) == storedSet[c] = NoSet \/ highestAcked[c] < highestSent[c]
NeedsSnapshotUnlessRestarted(c) == highestAcked[c] < highestSent[c] \/ pendingVSC[c] # <<>>

\* A diff is only safe on top of a consumer that has everything before it.
NeedsSnapshot(c) ==
  \/ storedSet[c] = NoSet
  \/ highestAcked[c] < highestSent[c]
  \/ pendingVSC[c] # <<>>

BuildVSCPacket(c, next, id, isSnapshot, debt) ==
  [id       |-> id,
   snapshot |-> isSnapshot,
   updates  |-> IF isSnapshot THEN FullValSetUpdates(next)
                              ELSE DiffValidators(storedSet[c], next),
   debt     |-> debt]

\* Faulty variant: the queue is cleared although a send failed.
RetainedNever(queue, n) == <<>>

\* The first n packets of the queue go out; only a send that empties the queue
\* clears it.
SentNow(c, queue, n)    == {[seq |-> nextSeq[c] + i, data |-> queue[i]] : i \in 1..n}
Retained(queue, n)      == IF n = Len(queue) THEN <<>> ELSE queue
\* Ids ascend along the queue, so the last packet sent has the highest.
HighestAfter(c, queue, n) ==
  IF n > 0 /\ queue[n].id > highestSent[c] THEN queue[n].id ELSE highestSent[c]

\* Every consumer in S gets a packet carrying next[c] under the id idOf[c],
\* and then its whole queue is sent in order; sent[c] packets get through, the
\* next one (if any) fails.  Without a client nothing can be sent.
QueueAndSend(S, idOf, next, isSnapshot, debt, sent) ==
  LET packet(c) == BuildVSCPacket(c, next[c], idOf[c], isSnapshot[c], debt[c])
      queue(c)  == Append(pendingVSC[c], packet(c))
  IN  /\ \A c \in S : sent[c] \in 0..(IF client[c] THEN Len(queue(c)) ELSE 0)
      /\ storedSet' = [c \in Consumers |-> IF c \in S THEN next[c] ELSE storedSet[c]]
      /\ pendingVSC' = [c \in Consumers |->
           IF c \in S THEN Retained(queue(c), sent[c]) ELSE pendingVSC[c]]
      /\ highestSent' = [c \in Consumers |->
           IF c \in S THEN HighestAfter(c, queue(c), sent[c]) ELSE highestSent[c]]
      /\ inflight' = [c \in Consumers |->
           IF c \in S THEN inflight[c] \cup SentNow(c, queue(c), sent[c]) ELSE inflight[c]]
      /\ nextSeq' = [c \in Consumers |->
           IF c \in S THEN nextSeq[c] + sent[c] ELSE nextSeq[c]]
      /\ log' = [c \in Consumers |->
           IF c \in S THEN [log[c] EXCEPT ![idOf[c]] = next[c]] ELSE log[c]]
      /\ debtLog' = [c \in Consumers |->
           IF c \in S THEN [debtLog[c] EXCEPT ![idOf[c]] = debt[c]] ELSE debtLog[c]]

\* The last block of an epoch: one packet per launched consumer, all under the
\* same id, which is spent even when no consumer is launched.
EndBlockVSU ==
  /\ valsetUpdateId \in VscId
  /\ \E next \in [Launched -> ValSet], debt \in [Launched -> DebtFlags],
        sent \in [Launched -> 0..MaxVscId] :
       QueueAndSend(Launched, [c \in Launched |-> valsetUpdateId], next,
                    [c \in Launched |-> NeedsSnapshot(c)], debt, sent)
  /\ valsetUpdateId' = valsetUpdateId + 1
  /\ UNCHANGED <<phase, client, highestAcked, acks, consumerVars>>

\* A validator rotated its provider key: the consumers it validates with that
\* key (those where it has no assigned key) get a snapshot at once, in
\* ascending order of consumer id, each under an id of its own.
QueueConsPubKeyRotationSnapshots ==
  \E S \in (SUBSET Launched) \ {{}} :
    LET idOf == [c \in S |-> valsetUpdateId + Cardinality({d \in S : d < c})]
    IN  /\ valsetUpdateId + Cardinality(S) <= MaxVscId + 1
        /\ \E next \in [S -> ValSet], debt \in [S -> DebtFlags],
              sent \in [S -> 0..MaxVscId] :
             QueueAndSend(S, idOf, next, [c \in S |-> TRUE], debt, sent)
        /\ valsetUpdateId' = valsetUpdateId + Cardinality(S)
        /\ UNCHANGED <<phase, client, highestAcked, acks, consumerVars>>

-----------------------------------------------------------------------------
(* Provider: the lifecycle steps that start, suspend or end the protocol *)

\* Launch fixes the genesis validator set; the consumer chain starts from it.
LaunchConsumer(c) ==
  /\ phase[c] = "INITIALIZED"
  /\ \E s \in ValSet :
       /\ storedSet' = [storedSet EXCEPT ![c] = s]
       /\ valset'    = [valset EXCEPT ![c] = s]
       /\ log'       = [log EXCEPT ![c][0] = s]
  /\ phase' = [phase EXCEPT ![c] = "LAUNCHED"]
  /\ UNCHANGED <<client, valsetUpdateId, pendingVSC, highestSent, highestAcked,
                 transportVars, pinned, pendingChanges, highest, inDebt,
                 appliedId, debtLog>>

\* The owner declares the client once, through MsgUpdateConsumer.
SetConsumerClient(c) ==
  /\ phase[c] \in {"INITIALIZED", "LAUNCHED"}
  /\ ~ client[c]
  /\ client' = [client EXCEPT ![c] = TRUE]
  /\ UNCHANGED <<phase, valsetUpdateId, storedSet, pendingVSC, highestSent,
                 highestAcked, transportVars, consumerVars, historyVars>>

PauseConsumerChain(c) ==
  /\ phase[c] = "LAUNCHED"
  /\ phase' = [phase EXCEPT ![c] = "PAUSED"]
  /\ UNCHANGED <<client, valsetUpdateId, storedSet, pendingVSC, highestSent,
                 highestAcked, transportVars, consumerVars, historyVars>>

\* Resuming queues a snapshot and must get the whole queue out: a send error
\* fails the transaction, which rolls everything back.
ResumeConsumerChain(c) ==
  /\ phase[c] = "PAUSED"
  /\ client[c]
  /\ valsetUpdateId \in VscId
  /\ phase' = [phase EXCEPT ![c] = "LAUNCHED"]
  /\ \E s \in ValSet, d \in DebtFlags :
       QueueAndSend({c}, [x \in {c} |-> valsetUpdateId], [x \in {c} |-> s],
                    [x \in {c} |-> TRUE], [x \in {c} |-> d],
                    [x \in {c} |-> Len(pendingVSC[x]) + 1])
  /\ valsetUpdateId' = valsetUpdateId + 1
  /\ UNCHANGED <<client, highestAcked, acks, consumerVars>>

StopAndPrepareForConsumerRemoval(c) ==
  /\ phase[c] \in {"LAUNCHED", "PAUSED"}
  /\ phase' = [phase EXCEPT ![c] = "STOPPED"]
  /\ UNCHANGED <<client, valsetUpdateId, storedSet, pendingVSC, highestSent,
                 highestAcked, transportVars, consumerVars, historyVars>>

\* Deletion forgets the consumer; packets already sent are not recalled.
DeleteConsumerChain(c) ==
  /\ phase[c] = "STOPPED"
  /\ phase'        = [phase EXCEPT ![c] = "DELETED"]
  /\ client'       = [client EXCEPT ![c] = FALSE]
  /\ storedSet'    = [storedSet EXCEPT ![c] = NoSet]
  /\ pendingVSC'   = [pendingVSC EXCEPT ![c] = <<>>]
  /\ highestSent'  = [highestSent EXCEPT ![c] = 0]
  /\ highestAcked' = [highestAcked EXCEPT ![c] = 0]
  /\ UNCHANGED <<valsetUpdateId, transportVars, consumerVars, historyVars>>

\* A state-export restart of the provider keeps the queue, the ids and the
\* watermarks, and drops the per-consumer validator sets.
RestartProvider ==
  /\ storedSet # [c \in Consumers |-> NoSet]
  /\ storedSet' = [c \in Consumers |-> NoSet]
  /\ UNCHANGED <<phase, client, valsetUpdateId, pendingVSC, highestSent,
                 highestAcked, transportVars, consumerVars, historyVars>>

-----------------------------------------------------------------------------
(* Provider: acknowledgements and timeouts *)

\* Faulty variant: an error acknowledgement counts as a delivery.
OnAnyAcknowledgement(c, a) ==
  /\ acks' = [acks EXCEPT ![c] = @ \ {a}]
  /\ highestAcked' =
       IF client[c] /\ a.id > highestAcked[c]
       THEN [highestAcked EXCEPT ![c] = a.id] ELSE highestAcked
  /\ UNCHANGED <<phase, client, valsetUpdateId, storedSet, pendingVSC,
                 highestSent, nextSeq, inflight, consumerVars, historyVars>>

\* A deleted consumer has no client, so its late acknowledgements are ignored;
\* an error acknowledgement changes nothing.
OnAcknowledgementPacketV2(c, a) ==
  /\ acks' = [acks EXCEPT ![c] = @ \ {a}]
  /\ highestAcked' =
       IF client[c] /\ a.ok /\ a.id > highestAcked[c]
       THEN [highestAcked EXCEPT ![c] = a.id] ELSE highestAcked
  /\ UNCHANGED <<phase, client, valsetUpdateId, storedSet, pendingVSC,
                 highestSent, nextSeq, inflight, consumerVars, historyVars>>

\* A timeout is only logged.
OnTimeoutPacketV2(c, e) ==
  /\ inflight' = [inflight EXCEPT ![c] = @ \ {e}]
  /\ UNCHANGED <<providerVars, nextSeq, acks, consumerVars, historyVars>>

-----------------------------------------------------------------------------
(* Consumer *)

SetProviderClient(c) ==
  /\ Started(c)
  /\ ~ pinned[c]
  /\ pinned' = [pinned EXCEPT ![c] = TRUE]
  /\ UNCHANGED <<providerVars, transportVars, valset, pendingChanges, highest,
                 inDebt, appliedId, historyVars>>

\* The set the next EndBlock would hand to CometBFT.
EffectiveSet(c) == ApplyVaasValidatorChanges(valset[c], pendingChanges[c])

WouldEmptyValidatorSet(c, p) ==
  IF p.snapshot
  THEN ~ HasPositivePower(p.updates)
  ELSE ~ HasPositivePower(ApplyVaasValidatorChanges(EffectiveSet(c), p.updates))

\* Faulty variant: no deduplication by id.
NeverStale(c, p) == FALSE

Stale(c, p)   == p.id <= highest[c]
Refused(c, p) == ~ pinned[c] \/ (~ Stale(c, p) /\ WouldEmptyValidatorSet(c, p))

Receive(c, e, ok) ==
  /\ inflight' = [inflight EXCEPT ![c] = @ \ {e}]
  /\ acks' = [acks EXCEPT ![c] = @ \cup {[seq |-> e.seq, id |-> e.data.id, ok |-> ok]}]
  /\ UNCHANGED <<providerVars, nextSeq, pinned, valset, appliedId, historyVars>>

\* Refused with an error acknowledgement, before any state is touched.
RefuseVSCPacket(c, e) ==
  /\ Started(c)
  /\ Refused(c, e.data)
  /\ Receive(c, e, FALSE)
  /\ UNCHANGED <<pendingChanges, highest, inDebt>>

\* Faulty variant: a stale packet still sets the debt flag.
SkipButTakeDebt(c, e) ==
  /\ Started(c)
  /\ ~ Refused(c, e.data) /\ Stale(c, e.data)
  /\ Receive(c, e, TRUE)
  /\ inDebt' = [inDebt EXCEPT ![c] = e.data.debt]
  /\ UNCHANGED <<pendingChanges, highest>>

\* Not newer than what was applied: skipped, but acknowledged as a success.
SkipVSCPacket(c, e) ==
  /\ Started(c)
  /\ ~ Refused(c, e.data) /\ Stale(c, e.data)
  /\ Receive(c, e, TRUE)
  /\ UNCHANGED <<pendingChanges, highest, inDebt>>

\* A snapshot replaces whatever is pending; a diff is accumulated onto it.
OnRecvVSCPacketV2(c, e) ==
  /\ Started(c)
  /\ ~ Refused(c, e.data) /\ ~ Stale(c, e.data)
  /\ Receive(c, e, TRUE)
  /\ pendingChanges' = [pendingChanges EXCEPT ![c] =
       IF e.data.snapshot THEN ComputeReplaceUpdates(valset[c], e.data.updates)
                          ELSE AccumulateChanges(@, e.data.updates)]
  /\ inDebt'  = [inDebt EXCEPT ![c] = e.data.debt]
  /\ highest' = [highest EXCEPT ![c] = e.data.id]

\* EndBlock flushes the pending changes to CometBFT.
EndBlockConsumer(c) ==
  /\ Started(c)
  /\ valset' = [valset EXCEPT ![c] = EffectiveSet(c)]
  /\ pendingChanges' = [pendingChanges EXCEPT ![c] = NoUpdates]
  /\ appliedId' = [appliedId EXCEPT ![c] = highest[c]]
  /\ UNCHANGED <<providerVars, transportVars, pinned, highest, inDebt, historyVars>>

-----------------------------------------------------------------------------
Init ==
  /\ phase          = [c \in Consumers |-> "INITIALIZED"]
  /\ client         = [c \in Consumers |-> FALSE]
  /\ valsetUpdateId = 1
  /\ storedSet      = [c \in Consumers |-> NoSet]
  /\ pendingVSC     = [c \in Consumers |-> <<>>]
  /\ highestSent    = [c \in Consumers |-> 0]
  /\ highestAcked   = [c \in Consumers |-> 0]
  /\ nextSeq        = [c \in Consumers |-> 0]
  /\ inflight       = [c \in Consumers |-> {}]
  /\ acks           = [c \in Consumers |-> {}]
  /\ pinned         = [c \in Consumers |-> FALSE]
  /\ valset         = [c \in Consumers |-> NoSet]
  /\ pendingChanges = [c \in Consumers |-> NoUpdates]
  /\ highest        = [c \in Consumers |-> 0]
  /\ inDebt         = [c \in Consumers |-> FALSE]
  /\ log            = [c \in Consumers |-> [i \in 0..MaxVscId |-> NoSet]]
  /\ debtLog        = [c \in Consumers |-> [i \in 0..MaxVscId |-> FALSE]]
  /\ appliedId      = [c \in Consumers |-> 0]

Next ==
  \/ EndBlockVSU
  \/ QueueConsPubKeyRotationSnapshots
  \/ RestartProvider
  \/ \E c \in Consumers :
       \/ LaunchConsumer(c)
       \/ SetConsumerClient(c)
       \/ PauseConsumerChain(c)
       \/ ResumeConsumerChain(c)
       \/ StopAndPrepareForConsumerRemoval(c)
       \/ DeleteConsumerChain(c)
       \/ SetProviderClient(c)
       \/ EndBlockConsumer(c)
       \/ \E a \in acks[c] : OnAcknowledgementPacketV2(c, a)
       \/ \E e \in inflight[c] :
            \/ OnTimeoutPacketV2(c, e)
            \/ RefuseVSCPacket(c, e)
            \/ SkipVSCPacket(c, e)
            \/ OnRecvVSCPacketV2(c, e)

Spec == Init /\ [][Next]_vars

-----------------------------------------------------------------------------
(* Properties *)

\* Every variable has its type; validator sets on the wire and in the stores
\* only name known keys and powers.
TypeOK ==
  /\ phase \in [Consumers -> Phases]
  /\ client \in [Consumers -> BOOLEAN]
  /\ valsetUpdateId \in 1..(MaxVscId + 1)
  /\ storedSet \in [Consumers -> [Keys -> Power]]
  /\ pendingVSC \in [Consumers -> Seq(Packet)]
  /\ highestSent \in [Consumers -> 0..MaxVscId]
  /\ highestAcked \in [Consumers -> 0..MaxVscId]
  /\ nextSeq \in [Consumers -> Nat]
  /\ inflight \in [Consumers -> SUBSET Envelope]
  /\ acks \in [Consumers -> SUBSET Ack]
  /\ pinned \in [Consumers -> BOOLEAN]
  /\ valset \in [Consumers -> [Keys -> Power]]
  /\ pendingChanges \in [Consumers -> Updates]
  /\ highest \in [Consumers -> 0..MaxVscId]
  /\ inDebt \in [Consumers -> BOOLEAN]
  /\ log \in [Consumers -> [0..MaxVscId -> [Keys -> Power]]]
  /\ debtLog \in [Consumers -> [0..MaxVscId -> BOOLEAN]]
  /\ appliedId \in [Consumers -> 0..MaxVscId]

\* The set a started consumer is about to run with is exactly the set the
\* provider published under the id the consumer has recorded as its highest,
\* whatever was lost, delayed, reordered, resent or refused on the way.
ReplicaMatchesLog ==
  \A c \in Consumers : Started(c) => EffectiveSet(c) = log[c][highest[c]]

\* The set CometBFT runs with on a started consumer is one the provider
\* published for it, and it is never empty (which would halt the chain).
AppliedSetWasPublished ==
  \A c \in Consumers :
    Started(c) => valset[c] = log[c][appliedId[c]] /\ valset[c] \in ValSet

OnItsWay(c) == {e.data : e \in inflight[c]} \cup {pendingVSC[c][i] : i \in 1..Len(pendingVSC[c])}

\* Never a diff behind an undelivered packet (the comment in QueueVSCPackets):
\* a queued or travelling diff that the consumer has not passed yet turns the
\* set the consumer holds now into the set published under the diff's id.
DiffHasItsBase(c) ==
  \A p \in OnItsWay(c) :
    ~ p.snapshot /\ p.id > highest[c] =>
      ApplyVaasValidatorChanges(log[c][highest[c]], p.updates) = log[c][p.id]

DiffsHaveTheirBase == \A c \in Consumers : DiffHasItsBase(c)

\* What the provider takes as acknowledged, the consumer has applied or passed
\* (otherwise the provider would send a diff to a consumer that lacks its base).
AckIsReceived(c) ==
  /\ highestAcked[c] <= highest[c]
  /\ \A a \in acks[c] : a.ok => a.id <= highest[c]

AckedIsReceived == \A c \in Consumers : AckIsReceived(c)

\* The debt flag the consumer gates transactions on is the one the provider
\* stamped on the newest packet the consumer has taken.
DebtFlagFollows == \A c \in Consumers : inDebt[c] = debtLog[c][highest[c]]

\* The consumer chain runs with one entry of its own log at a time and only
\* moves forward: the protocol implements ValSetReplication.
Abstract == INSTANCE ValSetReplication WITH at <- appliedId, view <- valset

ImplementsReplication == Abstract!Spec

-----------------------------------------------------------------------------
(***************************************************************************)
(* The inductive invariant behind the safety properties.  The heart of it  *)
(* is DiffIsNext: a diff the consumer has not passed is the oldest thing   *)
(* on its way, because the provider only builds one when everything it     *)
(* ever sent was acknowledged.                                             *)
(***************************************************************************)

\* Before launch the consumer does not exist on either side.
Unstarted(c) ==
  /\ storedSet[c] = NoSet /\ pendingVSC[c] = <<>>
  /\ highestSent[c] = 0 /\ highestAcked[c] = 0
  /\ inflight[c] = {} /\ acks[c] = {}
  /\ highest[c] = 0 /\ appliedId[c] = 0
  /\ pendingChanges[c] = NoUpdates
  /\ \A i \in 0..MaxVscId : log[c][i] = NoSet

\* A packet on its way carries what was published under its id.
PacketMatchesLog(c, p) ==
  /\ p.id < valsetUpdateId
  /\ log[c][p.id] \in ValSet
  /\ p.debt = debtLog[c][p.id]
  /\ p.snapshot => p.updates = FullValSetUpdates(log[c][p.id])

DiffIsNext(c) ==
  \A p, q \in OnItsWay(c) :
    ~ p.snapshot /\ p.id > highest[c] /\ q.id > highest[c] => p.id <= q.id

QueueAscends(c) ==
  \A i, j \in 1..Len(pendingVSC[c]) :
    i <= j => pendingVSC[c][i].id <= pendingVSC[c][j].id

\* What the provider's watermarks say about the network and the consumer.
WatermarksHold(c) ==
  /\ highestSent[c] < valsetUpdateId
  /\ phase[c] # "DELETED" =>
       /\ highest[c] <= highestSent[c]
       /\ \A e \in inflight[c] : e.data.id <= highestSent[c]
       /\ storedSet[c] # NoSet /\ pendingVSC[c] = <<>> =>
            storedSet[c] = log[c][highestSent[c]]

ConsumerHoldsLog(c) ==
  /\ highest[c] < valsetUpdateId
  /\ appliedId[c] <= highest[c]
  /\ log[c][0] \in ValSet
  /\ log[c][highest[c]] \in ValSet
  /\ log[c][appliedId[c]] \in ValSet
  /\ valset[c] = log[c][appliedId[c]]
  /\ EffectiveSet(c) = log[c][highest[c]]

ConsumerInv(c) ==
  /\ \A i \in valsetUpdateId..MaxVscId : log[c][i] = NoSet
  /\ ~ Started(c) => Unstarted(c)
  /\ Started(c) => ConsumerHoldsLog(c)
  /\ \A p \in OnItsWay(c) : PacketMatchesLog(c, p)
  /\ DiffHasItsBase(c)
  /\ DiffIsNext(c)
  /\ QueueAscends(c)
  /\ WatermarksHold(c)
  /\ AckIsReceived(c)
  /\ inDebt[c] = debtLog[c][highest[c]]

\* TypeOK and ConsumerInv are preserved by every step, and together imply the
\* safety properties above.
IInv == TypeOK /\ \A c \in Consumers : ConsumerInv(c)

=============================================================================

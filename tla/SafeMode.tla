------------------------------ MODULE SafeMode ------------------------------
(***************************************************************************)
(* How old a validator set a consumer may work with.  The consumer counts  *)
(* the time since it last took a validator set change and, past a          *)
(* threshold, admits only the transactions it needs to recover.  The       *)
(* provider counts the time since the last acknowledgement and, past its   *)
(* grace period, stops the consumer.                                       *)
(*                                                                         *)
(* x/vaas/consumer/ante/msg_filter_ante.go; the clock of                   *)
(* x/vaas/consumer/keeper (keeper.go, relay.go, genesis.go, msg_server.go);*)
(* the queue, the clock and the sweep of x/vaas/provider/keeper (relay.go, *)
(* consumer_lifecycle.go).                                                 *)
(*                                                                         *)
(* One consumer.  Time is kept as ages, in epochs, that stop growing where *)
(* nothing depends on them any more, so that behaviours are infinite and   *)
(* states are not.  A packet stands for the ages of the set it carries:    *)
(* since the set was computed, which orders the packets, and since it was  *)
(* sent; two packets of one epoch are one here.                            *)
(***************************************************************************)
EXTENDS Naturals, FiniteSets

CONSTANTS
  Threshold,     \* SafeModeThreshold
  Graces,        \* the liveness grace periods that governance may set
  MaxGrace,      \* bound: the longest of them
  PacketTimeout, \* VaasTimeoutPeriod
  NoClock,       \* LastVSCRecvTime was never set
  DebtFlags,     \* the values of the debt flag
  QueueAge,      \* bound: from where on the ages of queued sets are not told apart
  MaxAcks,       \* bound: the acknowledgements that are not relayed
  StartDelay     \* bound: the age of the genesis set when the consumer starts

ASSUME SafeModeAssumption ==
  /\ Threshold \in Nat \ {0}
  /\ MaxGrace \in Nat /\ Graces \subseteq 1 .. MaxGrace
  /\ PacketTimeout \in Nat \ {0} /\ NoClock \notin Nat
  /\ QueueAge \in Nat /\ MaxAcks \in Nat \ {0} /\ StartDelay \in Nat
  /\ DebtFlags \subseteq BOOLEAN /\ DebtFlags # {}

VARIABLES
  phase,     \* the consumer's phase on the provider
  grace,     \* LivenessGracePeriod
  ackAge,    \* since ConsumerLastAckTime
  queue,     \* PendingVSCPackets: the ages of their sets
  inflight,  \* packets sent and neither received nor timed out
  acks,      \* how many acknowledgements were not relayed yet
  chain,     \* the consumer chain: not started, in its genesis block, running, halted
  client,    \* is the consumer's client of the provider active? (external)
  pinned,    \* ProviderClientID is set
  recvAge,   \* since LastVSCRecvTime
  inDebt,    \* ConsumerInDebt
  setAge,    \* HighestValsetUpdateID: since the set in force was computed
  synced,    \* has the consumer taken a packet?
  sentAge    \* history: since the set in force was sent, or written to genesis

providerVars == <<phase, grace, ackAge, queue, inflight, acks>>
consumerVars == <<chain, client, pinned, recvAge, inDebt, setAge, synced, sentAge>>
smVars == <<providerVars, consumerVars>>

\* From where on an age makes no difference.
Higher(m, n) == IF m > n THEN m ELSE n
SetAgeCap == QueueAge + PacketTimeout
SentAgeCap == 1 + Threshold + Higher(PacketTimeout, StartDelay + 1)
Grown(age, cap) == IF age < cap THEN age + 1 ELSE age

Packet == [age : 0 .. SetAgeCap, sent : 0 .. PacketTimeout]

\* validateConsumerInitParams, when the consumer is created.
SMInit ==
  /\ phase = "LAUNCHED" /\ grace \in {g \in Graces : Threshold < g}
  /\ ackAge = 0 /\ queue = {} /\ inflight = {} /\ acks = 0
  /\ chain = "NONE" /\ client = TRUE /\ pinned = FALSE
  /\ recvAge = NoClock /\ inDebt = FALSE
  /\ setAge = 0 /\ synced = FALSE /\ sentAge = 0

(***************************************************************************)
(* The gate.  A transaction is the set of the kinds of its messages:       *)
(* ibc.core, ibc.apps, gov, pin (MsgSetProviderClient) and other.          *)
(***************************************************************************)
AllowedWithoutPin(tx) == tx \subseteq {"ibc.core", "ibc.apps", "gov"}
isAllowedBootstrapTx(tx) == tx \subseteq {"ibc.core", "ibc.apps", "gov", "pin"}
isAllowedRestrictedTx(tx) == tx \subseteq {"ibc.core", "gov"}

IsVSCStale == recvAge # NoClock /\ recvAge > Threshold

\* MsgFilterDecorator.
Admits(tx) ==
  IF ~pinned THEN isAllowedBootstrapTx(tx)
  ELSE inDebt \/ IsVSCStale => isAllowedRestrictedTx(tx)

AdmitsOrdinary == Admits({"other"})

Running == chain \in {"GENESIS", "RUNNING"}

(***************************************************************************)
(* The consumer.                                                           *)
(***************************************************************************)
\* InitGenesis: no pin, no clock.
StartConsumer ==
  /\ chain = "NONE" /\ sentAge <= StartDelay
  /\ chain' = "GENESIS"
  /\ UNCHANGED <<providerVars, client, pinned, recvAge, inDebt, setAge, synced, sentAge>>

\* The owner's or governance's MsgSetProviderClient.
SetProviderClient ==
  /\ Running /\ Admits({"pin"})
  /\ ~pinned /\ client
  /\ pinned' = TRUE
  /\ UNCHANGED <<providerVars, chain, client, recvAge, inDebt, setAge, synced, sentAge>>

\* IBC delivers a packet until its timeout, and drops it then.
TimedOut(p) == p.sent >= PacketTimeout

\* OnRecvVSCPacketV2: refused without a pin, skipped if a later one was taken.
Counts(p) == synced => p.age <= setAge

\* The flag is the packet's: nothing reads it before.
RecvPacket(p, debt) ==
  /\ Running /\ client /\ Admits({"ibc.core"})
  /\ ~TimedOut(p)
  /\ inflight' = inflight \ {p}
  /\ acks' = IF pinned THEN Grown(acks, MaxAcks) ELSE acks
  /\ IF pinned /\ Counts(p)
     THEN /\ recvAge' = 0
          /\ inDebt' = debt
          /\ setAge' = p.age
          /\ sentAge' = p.sent
          /\ synced' = TRUE
     ELSE UNCHANGED <<recvAge, inDebt, setAge, sentAge, synced>>
  /\ UNCHANGED <<phase, grace, ackAge, queue, chain, client, pinned>>

\* An export, and the start from it; what the gate reads is carried over.
ExportGenesis ==
  /\ chain = "RUNNING"
  /\ chain' = "HALTED"
  /\ UNCHANGED <<providerVars, client, pinned, recvAge, inDebt, setAge, synced, sentAge>>
ClockDropped == NoClock
RestoredClock == recvAge
InitGenesis ==
  /\ chain = "HALTED"
  /\ chain' = "GENESIS"
  /\ recvAge' = RestoredClock
  /\ UNCHANGED <<providerVars, client, pinned, inDebt, setAge, synced, sentAge>>

\* The client expires or is frozen; a governance proposal recovers it (external).
ClientDies ==
  /\ chain # "NONE" /\ client
  /\ client' = FALSE
  /\ UNCHANGED <<providerVars, chain, pinned, recvAge, inDebt, setAge, synced, sentAge>>
RecoverClient ==
  /\ Running /\ Admits({"gov"})
  /\ ~client /\ client' = TRUE
  /\ UNCHANGED <<providerVars, chain, pinned, recvAge, inDebt, setAge, synced, sentAge>>

(***************************************************************************)
(* The provider.                                                           *)
(***************************************************************************)
\* OnAcknowledgementPacketV2, of whichever packet.
AckIsLoggedOnly ==
  /\ acks > 0 /\ acks' = acks - 1
  /\ UNCHANGED <<phase, grace, ackAge, queue, inflight, consumerVars>>
RelayAck ==
  /\ acks > 0 /\ acks' = acks - 1
  /\ ackAge' = 0
  /\ UNCHANGED <<phase, grace, queue, inflight, consumerVars>>

\* sendVSCPacketsToChainStrict: all queued packets go, or none if there is no client
\* or the first send fails.
SendVSCPackets(queued, flying, works) ==
  /\ queue' = IF works THEN {} ELSE queued
  /\ inflight' = IF works THEN flying \cup {[age |-> a, sent |-> 0] : a \in queued} ELSE flying

\* QueueConsPubKeyRotationSnapshots, between two epochs.
SendRotationSnapshot(works) ==
  /\ phase = "LAUNCHED"
  /\ SendVSCPackets(queue \cup {0}, inflight, works)
  /\ UNCHANGED <<phase, grace, ackAge, acks, consumerVars>>

PauseConsumer ==
  /\ phase = "LAUNCHED"
  /\ phase' = "PAUSED"
  /\ UNCHANGED <<grace, ackAge, queue, inflight, acks, consumerVars>>

\* ResumeConsumerChain restarts the clock and sends a snapshot, or fails.
ResumeConsumer ==
  /\ phase = "PAUSED"
  /\ phase' = "LAUNCHED"
  /\ ackAge' = 0
  /\ SendVSCPackets(queue \cup {0}, inflight, TRUE)
  /\ UNCHANGED <<grace, acks, consumerVars>>

\* MsgUpdateParams, which looks at no consumer's threshold.
UpdateParams(g) ==
  /\ grace' = g
  /\ UNCHANGED <<phase, ackAge, queue, inflight, acks, consumerVars>>

(***************************************************************************)
(* An epoch passes: the provider sweeps, then queues and sends; the        *)
(* consumer's first block after genesis arms the clock.                    *)
(***************************************************************************)
Unresponsive(age) == age > grace

ArmVSCStalenessClock ==
  recvAge' = IF recvAge # NoClock THEN Grown(recvAge, Threshold + 1)
             ELSE IF Running THEN 0 ELSE NoClock

Epoch(works) ==
  LET swept == phase = "LAUNCHED" /\ Unresponsive(ackAge + 1)
      queued == {Grown(a, QueueAge) : a \in queue}
      flying == {[age |-> p.age + 1, sent |-> p.sent + 1] : p \in inflight}
  IN /\ phase' = IF swept THEN "STOPPED" ELSE phase
     /\ ackAge' = Grown(ackAge, MaxGrace + 1)
     /\ IF phase' = "LAUNCHED"
        THEN SendVSCPackets(queued \cup {0}, {p \in flying : ~TimedOut(p)}, works)
        ELSE queue' = queued /\ inflight' = {p \in flying : ~TimedOut(p)}
     /\ chain' = IF chain = "GENESIS" THEN "RUNNING" ELSE chain
     /\ ArmVSCStalenessClock
     /\ setAge' = Grown(setAge, SetAgeCap)
     /\ sentAge' = Grown(sentAge, SentAgeCap)
     /\ UNCHANGED <<grace, acks, client, pinned, inDebt, synced>>

Receives == \E p \in inflight, debt \in DebtFlags : RecvPacket(p, debt)
Passes == \E works \in BOOLEAN : Epoch(works)

SMNext ==
  \/ StartConsumer \/ SetProviderClient \/ Receives
  \/ ExportGenesis \/ InitGenesis \/ ClientDies \/ RecoverClient
  \/ RelayAck \/ PauseConsumer \/ ResumeConsumer \/ Passes
  \/ (\E works \in BOOLEAN : SendRotationSnapshot(works))
  \/ (\E g \in Graces : UpdateParams(g))

SMSpec == SMInit /\ [][SMNext]_smVars

\* Time goes on, the chain is started and restarted, the owner pins a client, a
\* dead one is recovered, and a relayer at work delivers again and again what it
\* can, also when the client keeps dying.
Fairness ==
  /\ WF_smVars(Passes) /\ WF_smVars(StartConsumer) /\ WF_smVars(InitGenesis)
  /\ SF_smVars(SetProviderClient) /\ SF_smVars(RecoverClient)
  /\ SF_smVars(Receives) /\ SF_smVars(RelayAck)

SMFairSpec == SMSpec /\ Fairness

(***************************************************************************)
(* Properties.                                                             *)
(***************************************************************************)
\* Every variable has its type.
SMTypeOK ==
  /\ phase \in {"LAUNCHED", "PAUSED", "STOPPED"}
  /\ grace \in Graces /\ ackAge \in 0 .. MaxGrace + 1
  /\ queue \subseteq 0 .. QueueAge /\ inflight \subseteq Packet /\ acks \in 0 .. MaxAcks
  /\ chain \in {"NONE", "GENESIS", "RUNNING", "HALTED"}
  /\ client \in BOOLEAN /\ pinned \in BOOLEAN /\ inDebt \in BOOLEAN /\ synced \in BOOLEAN
  /\ recvAge \in 0 .. Threshold + 1 \cup {NoClock}
  /\ setAge \in 0 .. SetAgeCap /\ sentAge \in 0 .. SentAgeCap

\* "The consumer refuses to do value-bearing work under a validator set it cannot
\* trust": when an ordinary transaction is admitted, the set in force was sent no
\* longer ago than the threshold and the time a packet, or the first start, may take.
\* When it was computed is another matter: a packet may have been queued before.
SetIsRecent ==
  Running /\ AdmitsOrdinary =>
    sentAge <= Threshold + Higher(PacketTimeout, StartDelay + 1)

\* The consumer's clock is never older than its set by more than what a packet, or
\* the first start, took; without a clock the chain is not past its genesis block.
ClockBoundsSet ==
  /\ recvAge = NoClock =>
       /\ ~synced /\ chain \in {"NONE", "GENESIS"}
       /\ chain = "GENESIS" => sentAge <= StartDelay
  /\ recvAge # NoClock /\ recvAge <= Threshold =>
       sentAge <= recvAge + IF synced THEN PacketTimeout ELSE StartDelay + 1
  /\ \A p \in inflight : ~TimedOut(p) /\ p.age <= QueueAge + p.sent

\* The provider's clock is no older than the consumer's, unless an acknowledgement was
\* not relayed; before the first packet, no older than by what the start took.
AckFollowsReceipt ==
  /\ recvAge # NoClock /\ recvAge <= Threshold =>
       \/ synced /\ acks > 0
       \/ ackAge <= recvAge + IF synced THEN 0 ELSE StartDelay + 1
  /\ recvAge = NoClock /\ sentAge <= StartDelay => ackAge <= sentAge

\* The state is of its type, the set in force is recent, and the clocks of the two
\* chains keep step: the invariant of the module, and inductive.
SMInv == SMTypeOK /\ SetIsRecent /\ ClockBoundsSet /\ AckFollowsReceipt

\* "So a lagging consumer always enters safe mode before the provider's sweep would
\* remove it": a consumer that the sweep stops does no ordinary work any more, unless an
\* acknowledgement was not relayed, governance has set the grace period below the
\* threshold since, or the consumer started too late to be stale and never synced.
SafeModeBeforeRemoval ==
  [][phase = "LAUNCHED" /\ phase' = "STOPPED" /\ (Running /\ AdmitsOrdinary)' =>
       \/ synced /\ acks > 0
       \/ grace <= Threshold + IF synced THEN 0 ELSE StartDelay + 1]_smVars

\* Neither an unpinned nor a restricted consumer locks itself out: once it is started,
\* with a relayer, an owner and governance at work, it has a live client pinned again
\* and again, and it is in sync again and again if again and again there is a packet
\* for it while it runs with a live client.
Recovers ==
  /\ []<>(chain = "NONE" \/ (pinned /\ client))
  /\ []<>(inflight # {} /\ Running /\ client) => []<>(pinned /\ ~IsVSCStale)
=============================================================================

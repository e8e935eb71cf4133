-------------------------- MODULE ValSetSyncProofs --------------------------
(***************************************************************************)
(* Proofs about ValSetSync, for every number of consumers, every key set   *)
(* and every bound: type correctness, the agreement of each consumer with  *)
(* what the provider published for it, and the implementation of           *)
(* ValSetReplication.                                                      *)
(***************************************************************************)
EXTENDS ValSetSync, FiniteSetTheorems, TLAPS

-----------------------------------------------------------------------------
(* Updates *)

\* An update list names known keys and powers.
LEMMA UpdatesElim ==
  ASSUME NEW u \in Updates
  PROVE  DOMAIN u \subseteq Keys /\ u \in [DOMAIN u -> Power]
<1>1. PICK D \in SUBSET Keys : u \in [D -> Power]
  BY DEF Updates
<1>2. QED
  BY <1>1

\* A function from some keys to powers is an update list.
LEMMA UpdatesIntro ==
  ASSUME NEW D, D \subseteq Keys, NEW u, u \in [D -> Power]
  PROVE  u \in Updates
BY DEF Updates

\* The empty update list is one.
LEMMA NoUpdatesType == NoUpdates \in Updates
<1>1. NoUpdates \in [{} -> Power]
  BY DEF NoUpdates
<1>2. QED
  BY <1>1, UpdatesIntro

\* DiffValidators turns the one set into the other, and is an update list.
LEMMA DiffIsExact ==
  ASSUME NEW s \in [Keys -> Power], NEW t \in [Keys -> Power]
  PROVE  /\ DiffValidators(s, t) \in Updates
         /\ ApplyVaasValidatorChanges(s, DiffValidators(s, t)) = t
<1>1. DiffValidators(s, t) \in [{x \in Keys : s[x] # t[x]} -> Power]
  BY DEF DiffValidators
<1>2. DiffValidators(s, t) \in Updates
  BY <1>1, UpdatesIntro
<1>3. ApplyVaasValidatorChanges(s, DiffValidators(s, t)) = t
  BY DEF ApplyVaasValidatorChanges, DiffValidators
<1>4. QED
  BY <1>2, <1>3

\* A snapshot's updates are an update list.
LEMMA FullType ==
  ASSUME NEW t \in [Keys -> Power]
  PROVE  FullValSetUpdates(t) \in Updates
<1>1. FullValSetUpdates(t) \in [{x \in Keys : t[x] > 0} -> Power]
  BY DEF FullValSetUpdates
<1>2. QED
  BY <1>1, UpdatesIntro

\* Applying ComputeReplaceUpdates of a snapshot gives the snapshot's set, whatever
\* the consumer held.
LEMMA ReplaceIsExact ==
  ASSUME NEW s \in [Keys -> Power], NEW t \in [Keys -> Power]
  PROVE  /\ ComputeReplaceUpdates(s, FullValSetUpdates(t)) \in Updates
         /\ ApplyVaasValidatorChanges(s, ComputeReplaceUpdates(s, FullValSetUpdates(t))) = t
<1> DEFINE u == ComputeReplaceUpdates(s, FullValSetUpdates(t))
           D == DOMAIN FullValSetUpdates(t) \cup {x \in Keys : s[x] > 0}
<1>0. 0 \in Power
  BY ConstantsAssumption DEF Power
<1>1. D \subseteq Keys
  BY DEF FullValSetUpdates
<1>2. u \in [D -> Power]
  BY <1>0 DEF ComputeReplaceUpdates, FullValSetUpdates
<1>3. u \in Updates
  BY <1>1, <1>2, UpdatesIntro
<1>4. \A k \in Keys : (IF k \in DOMAIN u THEN u[k] ELSE s[k]) = t[k]
  BY ConstantsAssumption DEF ComputeReplaceUpdates, FullValSetUpdates, Power
<1>5. ApplyVaasValidatorChanges(s, u) = t
  BY <1>4 DEF ApplyVaasValidatorChanges
<1>6. QED
  BY <1>3, <1>5

\* ComputeReplaceUpdates returns an update list.
LEMMA ReplaceType ==
  ASSUME NEW s \in [Keys -> Power], NEW u \in Updates
  PROVE  ComputeReplaceUpdates(s, u) \in Updates
<1> DEFINE D == DOMAIN u \cup {x \in Keys : s[x] > 0}
<1>0. 0 \in Power
  BY ConstantsAssumption DEF Power
<1>1. D \subseteq Keys
  BY UpdatesElim
<1>2. ComputeReplaceUpdates(s, u) \in [D -> Power]
  BY <1>0, UpdatesElim DEF ComputeReplaceUpdates
<1>3. QED
  BY <1>1, <1>2, UpdatesIntro

\* Applying accumulated changes is applying the one list and then the other.
LEMMA AccumulateIsSequential ==
  ASSUME NEW s \in [Keys -> Power], NEW u \in Updates, NEW v \in Updates
  PROVE  /\ AccumulateChanges(u, v) \in Updates
         /\ ApplyVaasValidatorChanges(s, AccumulateChanges(u, v))
              = ApplyVaasValidatorChanges(ApplyVaasValidatorChanges(s, u), v)
<1>1. DOMAIN u \cup DOMAIN v \subseteq Keys
  BY UpdatesElim
<1>2. AccumulateChanges(u, v) \in [DOMAIN u \cup DOMAIN v -> Power]
  BY UpdatesElim DEF AccumulateChanges
<1>3. AccumulateChanges(u, v) \in Updates
  BY <1>1, <1>2, UpdatesIntro
<1>4. ApplyVaasValidatorChanges(s, AccumulateChanges(u, v))
        = ApplyVaasValidatorChanges(ApplyVaasValidatorChanges(s, u), v)
  BY DEF AccumulateChanges, ApplyVaasValidatorChanges
<1>5. QED
  BY <1>3, <1>4

\* Applying updates to a set gives a set.
LEMMA ApplyType ==
  ASSUME NEW s \in [Keys -> Power], NEW u \in Updates
  PROVE  ApplyVaasValidatorChanges(s, u) \in [Keys -> Power]
BY UpdatesElim DEF ApplyVaasValidatorChanges

\* Applying no updates changes nothing.
LEMMA ApplyNothing ==
  ASSUME NEW s \in [Keys -> Power]
  PROVE  ApplyVaasValidatorChanges(s, NoUpdates) = s
BY DEF ApplyVaasValidatorChanges, NoUpdates

\* The types of the sets the definitions quantify over.
LEMMA SetTypes ==
  /\ NoSet \in [Keys -> Power]
  /\ NoSet \notin ValSet
  /\ \A s \in ValSet : s \in [Keys -> Power]
BY ConstantsAssumption DEF NoSet, ValSet, Power

-----------------------------------------------------------------------------
(* Types *)

\* The premises the three callers of QueueAndSend establish.
QueueStep(S, idOf, next, isSnapshot, debt, sent) ==
  /\ S \subseteq Consumers
  /\ idOf \in [S -> VscId]
  /\ next \in [S -> ValSet]
  /\ isSnapshot \in [S -> BOOLEAN]
  /\ debt \in [S -> BOOLEAN]
  /\ QueueAndSend(S, idOf, next, isSnapshot, debt, sent)

\* BuildVSCPacket returns a packet.
LEMMA BuiltPacketType ==
  ASSUME TypeOK, NEW c \in Consumers, NEW s \in ValSet, NEW id \in VscId,
         NEW b \in BOOLEAN, NEW d \in BOOLEAN
  PROVE  BuildVSCPacket(c, s, id, b, d) \in Packet
<1>1. storedSet[c] \in [Keys -> Power] /\ s \in [Keys -> Power]
  BY SetTypes DEF TypeOK
<1>2. FullValSetUpdates(s) \in Updates /\ DiffValidators(storedSet[c], s) \in Updates
  BY <1>1, FullType, DiffIsExact
<1>3. QED
  BY <1>2 DEF BuildVSCPacket, Packet

\* Queueing and sending keeps the types of what it changes.
LEMMA QueueStepType ==
  ASSUME TypeOK,
         NEW S, NEW idOf, NEW next, NEW isSnapshot, NEW debt, NEW sent,
         QueueStep(S, idOf, next, isSnapshot, debt, sent)
  PROVE  /\ storedSet' \in [Consumers -> [Keys -> Power]]
         /\ pendingVSC' \in [Consumers -> Seq(Packet)]
         /\ highestSent' \in [Consumers -> 0..MaxVscId]
         /\ inflight' \in [Consumers -> SUBSET Envelope]
         /\ nextSeq' \in [Consumers -> Nat]
         /\ log' \in [Consumers -> [0..MaxVscId -> [Keys -> Power]]]
         /\ debtLog' \in [Consumers -> [0..MaxVscId -> BOOLEAN]]
<1> DEFINE packet(c) == BuildVSCPacket(c, next[c], idOf[c], isSnapshot[c], debt[c])
           queue(c)  == Append(pendingVSC[c], packet(c))
<1> USE ConstantsAssumption
<1>1. \A c \in S : packet(c) \in Packet
  BY BuiltPacketType DEF QueueStep
<1>2. \A c \in S : queue(c) \in Seq(Packet) /\ Len(queue(c)) \in Nat
                   /\ \A i \in 1..Len(queue(c)) : queue(c)[i] \in Packet
  BY <1>1 DEF QueueStep, TypeOK
<1>3. \A c \in S : sent[c] \in Nat /\ sent[c] <= Len(queue(c))
  <2>1. \A c \in S : sent[c] \in 0..(IF client[c] THEN Len(queue(c)) ELSE 0)
    BY DEF QueueStep, QueueAndSend
  <2>2. QED
    BY <1>2, <2>1
<1>4. storedSet' \in [Consumers -> [Keys -> Power]]
  BY SetTypes DEF QueueStep, QueueAndSend, TypeOK
<1>5. pendingVSC' \in [Consumers -> Seq(Packet)]
  <2>1. \A c \in S : Retained(queue(c), sent[c]) \in Seq(Packet)
    BY <1>2 DEF Retained
  <2>2. QED
    BY <2>1 DEF QueueStep, QueueAndSend, TypeOK
<1>6. highestSent' \in [Consumers -> 0..MaxVscId]
  <2>1. \A c \in S : HighestAfter(c, queue(c), sent[c]) \in 0..MaxVscId
    <3> TAKE c \in S
    <3>1. PICK q : q = queue(c)
      OBVIOUS
    <3>2. \A i \in 1..Len(q) : q[i].id \in 0..MaxVscId
      BY <1>2, <3>1 DEF Packet, VscId
    <3>3. highestSent[c] \in 0..MaxVscId
      BY DEF QueueStep, TypeOK
    <3>4. sent[c] > 0 => sent[c] \in 1..Len(q)
      BY <1>2, <1>3, <3>1
    <3>5. HighestAfter(c, q, sent[c]) \in 0..MaxVscId
      BY <3>2, <3>3, <3>4 DEF HighestAfter
    <3>6. QED
      BY <3>1, <3>5
  <2>2. QED
    BY <2>1 DEF QueueStep, QueueAndSend, TypeOK
<1>7. inflight' \in [Consumers -> SUBSET Envelope]
  <2>1. \A c \in S : SentNow(c, queue(c), sent[c]) \subseteq Envelope
    <3> TAKE c \in S
    <3>1. PICK q : q = queue(c)
      OBVIOUS
    <3>2. PICK n : n = sent[c]
      OBVIOUS
    <3>3. nextSeq[c] \in Nat
      BY DEF QueueStep, TypeOK
    <3>4. n \in Nat /\ \A i \in 1..n : i \in Nat /\ q[i] \in Packet
      BY <1>2, <1>3, <3>1, <3>2
    <3>5. SentNow(c, q, n) \subseteq Envelope
      BY <3>3, <3>4 DEF SentNow, Envelope
    <3>6. QED
      BY <3>1, <3>2, <3>5
  <2>2. QED
    BY <2>1 DEF QueueStep, QueueAndSend, TypeOK
<1>8. nextSeq' \in [Consumers -> Nat]
  BY <1>3 DEF QueueStep, QueueAndSend, TypeOK
<1>9. log' \in [Consumers -> [0..MaxVscId -> [Keys -> Power]]]
  <2>1. \A c \in S : [log[c] EXCEPT ![idOf[c]] = next[c]] \in [0..MaxVscId -> [Keys -> Power]]
    BY SetTypes DEF QueueStep, TypeOK, VscId
  <2>2. QED
    BY <2>1 DEF QueueStep, QueueAndSend, TypeOK
<1>10. debtLog' \in [Consumers -> [0..MaxVscId -> BOOLEAN]]
  BY DEF QueueStep, QueueAndSend, TypeOK, VscId
<1>11. QED
  BY <1>4, <1>5, <1>6, <1>7, <1>8, <1>9, <1>10

\* Ranks of consumers within a set, as the rotation loop hands out ids.
LEMMA RankBound ==
  ASSUME NEW S, S \subseteq Consumers, NEW c \in S
  PROVE  /\ Cardinality(S) \in Nat
         /\ Cardinality({d \in S : d < c}) \in Nat
         /\ Cardinality({d \in S : d < c}) < Cardinality(S)
<1> DEFINE L == {d \in S : d < c}
<1>1. IsFiniteSet(S)
  BY ConstantsAssumption, FS_Subset
<1>2. L \in SUBSET S /\ c \notin L
  BY ConstantsAssumption
<1>3. /\ IsFiniteSet(L)
      /\ Cardinality(L) <= Cardinality(S)
      /\ Cardinality(L) = Cardinality(S) => L = S
  BY <1>1, <1>2, FS_Subset
<1>4. Cardinality(S) \in Nat /\ Cardinality(L) \in Nat
  BY <1>1, <1>3, FS_CardinalityType
<1>5. QED
  BY <1>2, <1>3, <1>4

\* An epoch's end is a QueueStep of the launched consumers.
LEMMA EndBlockVSUStep ==
  ASSUME TypeOK, EndBlockVSU
  PROVE  \E S, idOf, next, isSnapshot, debt, sent :
           /\ QueueStep(S, idOf, next, isSnapshot, debt, sent)
           /\ S \subseteq Launched
           /\ \A c \in S : idOf[c] >= valsetUpdateId /\ valsetUpdateId' > idOf[c]
           /\ \A c \in S : isSnapshot[c] = NeedsSnapshot(c)
<1>1. PICK next \in [Launched -> ValSet], debt \in [Launched -> DebtFlags],
           sent \in [Launched -> 0..MaxVscId] :
        QueueAndSend(Launched, [c \in Launched |-> valsetUpdateId], next,
                     [c \in Launched |-> NeedsSnapshot(c)], debt, sent)
  BY DEF EndBlockVSU
<1>2. QueueStep(Launched, [c \in Launched |-> valsetUpdateId], next,
                [c \in Launched |-> NeedsSnapshot(c)], debt, sent)
  BY <1>1, ConstantsAssumption DEF QueueStep, EndBlockVSU, Launched, NeedsSnapshot
<1>3. valsetUpdateId \in Nat /\ valsetUpdateId' = valsetUpdateId + 1
  BY ConstantsAssumption DEF EndBlockVSU, VscId
<1>4. \A c \in Launched :
        /\ [x \in Launched |-> valsetUpdateId][c] >= valsetUpdateId
        /\ valsetUpdateId' > [x \in Launched |-> valsetUpdateId][c]
  BY <1>3
<1>5. \A c \in Launched : [x \in Launched |-> NeedsSnapshot(x)][c] = NeedsSnapshot(c)
  OBVIOUS
<1>6. QED
  BY <1>2, <1>4, <1>5

\* So is a key rotation, with ids in ascending order of consumer.
LEMMA RotationStep ==
  ASSUME TypeOK, QueueConsPubKeyRotationSnapshots
  PROVE  \E S, idOf, next, isSnapshot, debt, sent :
           /\ QueueStep(S, idOf, next, isSnapshot, debt, sent)
           /\ S \subseteq Launched /\ S # {}
           /\ valsetUpdateId' \in 1..(MaxVscId + 1)
           /\ \A c \in S : /\ idOf[c] >= valsetUpdateId
                            /\ valsetUpdateId' > idOf[c]
                            /\ isSnapshot[c]
<1> DEFINE rank(S, c) == Cardinality({d \in S : d < c})
           ids(S) == [c \in S |-> valsetUpdateId + rank(S, c)]
<1>1. PICK S \in (SUBSET Launched) \ {{}} :
        /\ valsetUpdateId + Cardinality(S) <= MaxVscId + 1
        /\ \E next \in [S -> ValSet], debt \in [S -> DebtFlags],
              sent \in [S -> 0..MaxVscId] :
             QueueAndSend(S, ids(S), next, [c \in S |-> TRUE], debt, sent)
        /\ valsetUpdateId' = valsetUpdateId + Cardinality(S)
  BY DEF QueueConsPubKeyRotationSnapshots
<1>2. PICK next \in [S -> ValSet], debt \in [S -> DebtFlags], sent \in [S -> 0..MaxVscId] :
        QueueAndSend(S, ids(S), next, [c \in S |-> TRUE], debt, sent)
  BY <1>1
<1>3. S \subseteq Consumers
  BY DEF Launched
<1>4. \A c \in S : Cardinality(S) \in Nat /\ rank(S, c) \in Nat /\ rank(S, c) < Cardinality(S)
  BY <1>3, RankBound
<1>5. valsetUpdateId \in 1..(MaxVscId + 1)
  BY DEF TypeOK
<1>6. ids(S) \in [S -> VscId]
  <2>1. \A c \in S : valsetUpdateId + rank(S, c) \in VscId
    BY <1>1, <1>4, <1>5, ConstantsAssumption DEF VscId
  <2>2. QED
    BY <2>1
<1>7. QueueStep(S, ids(S), next, [c \in S |-> TRUE], debt, sent)
  BY <1>2, <1>3, <1>6, ConstantsAssumption DEF QueueStep
<1>8. valsetUpdateId' \in 1..(MaxVscId + 1)
  <2>1. Cardinality(S) \in Nat
    BY <1>1, <1>4
  <2>2. QED
    BY <1>1, <1>5, <2>1, ConstantsAssumption
<1>9. \A c \in S : /\ ids(S)[c] >= valsetUpdateId
                   /\ valsetUpdateId' > ids(S)[c]
                   /\ [x \in S |-> TRUE][c]
  BY <1>1, <1>4, <1>5, ConstantsAssumption
<1>10. QED
  BY <1>1, <1>7, <1>8, <1>9

\* And a resume, of one consumer, with the whole queue sent.
LEMMA ResumeStep ==
  ASSUME TypeOK, NEW c \in Consumers, ResumeConsumerChain(c)
  PROVE  \E S, idOf, next, isSnapshot, debt, sent :
           /\ QueueStep(S, idOf, next, isSnapshot, debt, sent)
           /\ S = {c}
           /\ idOf[c] = valsetUpdateId /\ isSnapshot[c]
<1>1. PICK s \in ValSet, d \in DebtFlags :
        QueueAndSend({c}, [x \in {c} |-> valsetUpdateId], [x \in {c} |-> s],
                     [x \in {c} |-> TRUE], [x \in {c} |-> d],
                     [x \in {c} |-> Len(pendingVSC[x]) + 1])
  BY DEF ResumeConsumerChain
<1>2. QueueStep({c}, [x \in {c} |-> valsetUpdateId], [x \in {c} |-> s],
                [x \in {c} |-> TRUE], [x \in {c} |-> d],
                [x \in {c} |-> Len(pendingVSC[x]) + 1])
  BY <1>1, ConstantsAssumption DEF QueueStep, ResumeConsumerChain
<1>3. [x \in {c} |-> valsetUpdateId][c] = valsetUpdateId /\ [x \in {c} |-> TRUE][c]
  OBVIOUS
<1>4. QED
  BY <1>2, <1>3

\* The initial state is well typed.
LEMMA TypeInit == Init => TypeOK
BY ConstantsAssumption, SetTypes, NoUpdatesType
   DEF Init, TypeOK, Phases

\* Every step keeps the types.
LEMMA TypeStep == TypeOK /\ [Next]_vars => TypeOK'
<1> SUFFICES ASSUME TypeOK, [Next]_vars PROVE TypeOK'
  OBVIOUS
<1> USE ConstantsAssumption
<1>1. CASE EndBlockVSU
  <2>1. PICK S, idOf, next, isSnapshot, debt, sent :
          QueueStep(S, idOf, next, isSnapshot, debt, sent)
    BY <1>1, EndBlockVSUStep
  <2>2. valsetUpdateId' \in 1..(MaxVscId + 1)
    BY <1>1 DEF EndBlockVSU, VscId
  <2>3. QED
    BY <1>1, <2>1, <2>2, QueueStepType DEF EndBlockVSU, TypeOK, consumerVars
<1>2. CASE QueueConsPubKeyRotationSnapshots
  <2>1. PICK S, idOf, next, isSnapshot, debt, sent :
          /\ QueueStep(S, idOf, next, isSnapshot, debt, sent)
          /\ valsetUpdateId' \in 1..(MaxVscId + 1)
    BY <1>2, RotationStep
  <2>2. UNCHANGED <<phase, client, highestAcked, acks, consumerVars>>
    BY <1>2 DEF QueueConsPubKeyRotationSnapshots
  <2>3. QED
    BY <2>1, <2>2, QueueStepType DEF TypeOK, consumerVars
<1>3. CASE RestartProvider
  BY <1>3, SetTypes DEF RestartProvider, TypeOK, transportVars, consumerVars, historyVars
<1>4. ASSUME NEW c \in Consumers, LaunchConsumer(c) PROVE TypeOK'
  <2>1. PICK s \in ValSet :
          /\ storedSet' = [storedSet EXCEPT ![c] = s]
          /\ valset'    = [valset EXCEPT ![c] = s]
          /\ log'       = [log EXCEPT ![c][0] = s]
    BY <1>4 DEF LaunchConsumer
  <2>2. s \in [Keys -> Power]
    BY SetTypes
  <2>3. log' \in [Consumers -> [0..MaxVscId -> [Keys -> Power]]]
    BY <2>1, <2>2 DEF TypeOK
  <2>4. QED
    BY <1>4, <2>1, <2>2, <2>3 DEF LaunchConsumer, TypeOK, transportVars, Phases
<1>5. ASSUME NEW c \in Consumers, SetConsumerClient(c) PROVE TypeOK'
  BY <1>5 DEF SetConsumerClient, TypeOK, transportVars, consumerVars, historyVars
<1>6. ASSUME NEW c \in Consumers, PauseConsumerChain(c) PROVE TypeOK'
  BY <1>6 DEF PauseConsumerChain, TypeOK, Phases, transportVars, consumerVars, historyVars
<1>7. ASSUME NEW c \in Consumers, ResumeConsumerChain(c) PROVE TypeOK'
  <2>1. PICK S, idOf, next, isSnapshot, debt, sent :
          QueueStep(S, idOf, next, isSnapshot, debt, sent)
    BY <1>7, ResumeStep
  <2>2. valsetUpdateId' \in 1..(MaxVscId + 1) /\ phase' \in [Consumers -> Phases]
    BY <1>7 DEF ResumeConsumerChain, VscId, TypeOK, Phases
  <2>3. QED
    BY <1>7, <2>1, <2>2, QueueStepType DEF ResumeConsumerChain, TypeOK, consumerVars
<1>8. ASSUME NEW c \in Consumers, StopAndPrepareForConsumerRemoval(c) PROVE TypeOK'
  BY <1>8 DEF StopAndPrepareForConsumerRemoval, TypeOK, Phases, transportVars,
              consumerVars, historyVars
<1>9. ASSUME NEW c \in Consumers, DeleteConsumerChain(c) PROVE TypeOK'
  <2>1. /\ phase' \in [Consumers -> Phases]
        /\ client' \in [Consumers -> BOOLEAN]
        /\ storedSet' \in [Consumers -> [Keys -> Power]]
        /\ highestSent' \in [Consumers -> 0..MaxVscId]
        /\ highestAcked' \in [Consumers -> 0..MaxVscId]
    BY <1>9, SetTypes DEF DeleteConsumerChain, TypeOK, Phases
  <2>2. pendingVSC' \in [Consumers -> Seq(Packet)]
    BY <1>9 DEF DeleteConsumerChain, TypeOK
  <2>3. QED
    BY <1>9, <2>1, <2>2
       DEF DeleteConsumerChain, TypeOK, transportVars, consumerVars, historyVars
<1>10. ASSUME NEW c \in Consumers, SetProviderClient(c) PROVE TypeOK'
  BY <1>10 DEF SetProviderClient, TypeOK, providerVars, transportVars, historyVars
<1>11. ASSUME NEW c \in Consumers, EndBlockConsumer(c) PROVE TypeOK'
  <2>1. EffectiveSet(c) \in [Keys -> Power]
    BY ApplyType DEF EffectiveSet, TypeOK
  <2>2. QED
    BY <1>11, <2>1, NoUpdatesType
       DEF EndBlockConsumer, TypeOK, providerVars, transportVars, historyVars
<1>12. ASSUME NEW c \in Consumers, NEW a \in acks[c], OnAcknowledgementPacketV2(c, a)
       PROVE  TypeOK'
  <2>1. a.id \in 0..MaxVscId
    BY DEF TypeOK, Ack, VscId
  <2>2. highestAcked' \in [Consumers -> 0..MaxVscId]
    BY <1>12, <2>1 DEF OnAcknowledgementPacketV2, TypeOK
  <2>3. QED
    BY <1>12, <2>2 DEF OnAcknowledgementPacketV2, TypeOK, consumerVars, historyVars
<1>13. ASSUME NEW c \in Consumers, NEW e \in inflight[c], OnTimeoutPacketV2(c, e)
       PROVE  TypeOK'
  BY <1>13 DEF OnTimeoutPacketV2, TypeOK, providerVars, consumerVars, historyVars
<1>14. ASSUME NEW c \in Consumers, NEW e \in inflight[c], NEW ok \in BOOLEAN, Receive(c, e, ok),
              pendingChanges' \in [Consumers -> Updates],
              highest' \in [Consumers -> 0..MaxVscId],
              inDebt' \in [Consumers -> BOOLEAN]
       PROVE  TypeOK'
  <2>1. [seq |-> e.seq, id |-> e.data.id, ok |-> ok] \in Ack
    BY DEF TypeOK, Envelope, Packet, Ack
  <2>2. QED
    BY <1>14, <2>1 DEF Receive, TypeOK, providerVars, historyVars
<1>15. ASSUME NEW c \in Consumers, NEW e \in inflight[c],
              RefuseVSCPacket(c, e) \/ SkipVSCPacket(c, e)
       PROVE  TypeOK'
  BY <1>14, <1>15 DEF RefuseVSCPacket, SkipVSCPacket, TypeOK
<1>16. ASSUME NEW c \in Consumers, NEW e \in inflight[c], OnRecvVSCPacketV2(c, e)
       PROVE  TypeOK'
  <2>1. e.data.updates \in Updates /\ e.data.debt \in BOOLEAN /\ e.data.id \in 0..MaxVscId
    BY DEF TypeOK, Envelope, Packet, VscId
  <2>2. valset[c] \in [Keys -> Power] /\ pendingChanges[c] \in Updates
    BY DEF TypeOK
  <2>3. /\ ComputeReplaceUpdates(valset[c], e.data.updates) \in Updates
        /\ AccumulateChanges(pendingChanges[c], e.data.updates) \in Updates
    BY <2>1, <2>2, ReplaceType, AccumulateIsSequential
  <2>4. pendingChanges' \in [Consumers -> Updates]
    BY <1>16, <2>3 DEF OnRecvVSCPacketV2, TypeOK
  <2>5. highest' \in [Consumers -> 0..MaxVscId] /\ inDebt' \in [Consumers -> BOOLEAN]
    BY <1>16, <2>1 DEF OnRecvVSCPacketV2, TypeOK
  <2>6. QED
    BY <1>14, <1>16, <2>4, <2>5 DEF OnRecvVSCPacketV2
<1>17. CASE UNCHANGED vars
  BY <1>17 DEF vars, providerVars, transportVars, consumerVars, historyVars, TypeOK
<1>18. QED
  BY <1>1, <1>2, <1>3, <1>4, <1>5, <1>6, <1>7, <1>8, <1>9, <1>10, <1>11, <1>12,
     <1>13, <1>15, <1>16, <1>17 DEF Next

\* Type correctness of the protocol for every number of consumers and keys and
\* every bound.
THEOREM TypeCorrect == Spec => []TypeOK
<1>1. QED
  BY TypeInit, TypeStep, PTL DEF Spec

-----------------------------------------------------------------------------
(* Preservation of ConsumerInv *)

\* A consumer none of whose state a step touches.
LEMMA Frame ==
  ASSUME NEW c \in Consumers, ConsumerInv(c),
         valsetUpdateId' = valsetUpdateId,
         phase'[c] = phase[c], storedSet'[c] = storedSet[c],
         pendingVSC'[c] = pendingVSC[c], highestSent'[c] = highestSent[c],
         highestAcked'[c] = highestAcked[c], inflight'[c] = inflight[c],
         acks'[c] = acks[c], valset'[c] = valset[c],
         pendingChanges'[c] = pendingChanges[c], highest'[c] = highest[c],
         inDebt'[c] = inDebt[c], log'[c] = log[c], debtLog'[c] = debtLog[c],
         appliedId'[c] = appliedId[c]
  PROVE  ConsumerInv(c)'
BY SMTT(40) DEF ConsumerInv, Started, Unstarted, ConsumerHoldsLog, OnItsWay, PacketMatchesLog,
       DiffHasItsBase, DiffIsNext, QueueAscends, WatermarksHold, AckIsReceived, EffectiveSet

\* The initial state satisfies the invariant.
LEMMA InvInit == Init => IInv
<1> SUFFICES ASSUME Init PROVE IInv
  OBVIOUS
<1>1. TypeOK
  BY TypeInit
<1>2. \A c \in Consumers : ConsumerInv(c)
  <2> TAKE c \in Consumers
  <2>1. OnItsWay(c) = {}
    BY DEF Init, OnItsWay
  <2>2. QED
    BY <2>1, ConstantsAssumption
       DEF Init, ConsumerInv, Started, Unstarted, DiffHasItsBase, DiffIsNext,
           QueueAscends, WatermarksHold, AckIsReceived
<1>3. QED
  BY <1>1, <1>2 DEF IInv

\* The provider's own lifecycle and restart steps: nothing new is on its way.
LEMMA ProviderLocalStep ==
  ASSUME TypeOK, NEW c \in Consumers, ConsumerInv(c),
         valsetUpdateId' = valsetUpdateId, Started(c), Started(c)',
         UNCHANGED <<transportVars, consumerVars, historyVars>>,
         \/ /\ pendingVSC'[c] = pendingVSC[c]
            /\ highestSent'[c] = highestSent[c]
            /\ highestAcked'[c] = highestAcked[c]
            /\ phase[c] # "DELETED"
            /\ phase'[c] # "DELETED"
         \/ /\ pendingVSC'[c] = <<>>
            /\ highestSent'[c] = 0
            /\ highestAcked'[c] = 0
            /\ phase'[c] = "DELETED",
         storedSet'[c] = storedSet[c] \/ storedSet'[c] = NoSet
  PROVE  ConsumerInv(c)'
<1> USE ConstantsAssumption DEF transportVars, consumerVars, historyVars
<1>1. OnItsWay(c)' \subseteq OnItsWay(c)
  BY DEF OnItsWay
<1>2. ConsumerHoldsLog(c)'
  BY DEF ConsumerInv, ConsumerHoldsLog, EffectiveSet
<1>3. \A p \in OnItsWay(c)' : PacketMatchesLog(c, p)'
  BY <1>1 DEF ConsumerInv, PacketMatchesLog
<1>4. DiffHasItsBase(c)' /\ DiffIsNext(c)'
  BY <1>1 DEF ConsumerInv, DiffHasItsBase, DiffIsNext
<1>5. QueueAscends(c)'
  BY DEF ConsumerInv, QueueAscends
<1>6. WatermarksHold(c)'
  BY DEF ConsumerInv, WatermarksHold, TypeOK
<1>7. AckIsReceived(c)'
  BY DEF ConsumerInv, AckIsReceived, TypeOK
<1>8. QED
  BY <1>2, <1>3, <1>4, <1>5, <1>6, <1>7 DEF ConsumerInv

\* The heart of the protocol: queueing a packet under a fresh id and sending
\* any prefix of the queue.  A diff is only queued when the consumer is known
\* to hold the set it is computed from.
LEMMA QueueInv ==
  ASSUME TypeOK, TypeOK', NEW c \in Consumers, ConsumerInv(c),
         NEW S, NEW idOf, NEW next, NEW isSnapshot, NEW debt, NEW sent,
         QueueStep(S, idOf, next, isSnapshot, debt, sent), c \in S,
         idOf[c] >= valsetUpdateId, valsetUpdateId' > idOf[c],
         ~ isSnapshot[c] => ~ NeedsSnapshot(c),
         phase[c] \in {"LAUNCHED", "PAUSED"}, phase'[c] \in {"LAUNCHED", "PAUSED"},
         UNCHANGED <<highestAcked, acks, consumerVars>>
  PROVE  ConsumerInv(c)'
<1> USE ConstantsAssumption
<1>0. PICK p : p = BuildVSCPacket(c, next[c], idOf[c], isSnapshot[c], debt[c])
  OBVIOUS
<1>1. PICK q : q = Append(pendingVSC[c], p)
  OBVIOUS
<1>2. PICK id, n, new : id = idOf[c] /\ n = sent[c] /\ new = next[c]
  OBVIOUS
<1>3. /\ id \in VscId /\ id >= valsetUpdateId /\ valsetUpdateId' > id
      /\ new \in ValSet /\ new \in [Keys -> Power]
  BY <1>2, SetTypes DEF QueueStep
<1>4. /\ p \in Packet /\ p.id = id /\ p.debt = debt[c] /\ p.snapshot = isSnapshot[c]
      /\ p.snapshot => p.updates = FullValSetUpdates(new)
      /\ ~ p.snapshot => p.updates = DiffValidators(storedSet[c], new)
  <2>1. p \in Packet
    BY <1>0, BuiltPacketType DEF QueueStep
  <2>2. QED
    BY <1>0, <1>2, <2>1 DEF BuildVSCPacket
<1>5. /\ pendingVSC[c] \in Seq(Packet) /\ q \in Seq(Packet)
      /\ Len(q) = Len(pendingVSC[c]) + 1 /\ q[Len(q)] = p
      /\ \A i \in 1..Len(pendingVSC[c]) : q[i] = pendingVSC[c][i]
      /\ \A i \in 1..Len(q) : q[i] \in Packet
  BY <1>1, <1>4 DEF TypeOK
<1>6. n \in 0..Len(q)
  <2>1. n \in 0..(IF client[c] THEN Len(q) ELSE 0)
    BY <1>0, <1>1, <1>2 DEF QueueStep, QueueAndSend
  <2>2. QED
    BY <1>5, <2>1
<1>7. /\ storedSet'[c] = new
      /\ pendingVSC'[c] = Retained(q, n)
      /\ highestSent'[c] = HighestAfter(c, q, n)
      /\ inflight'[c] = inflight[c] \cup SentNow(c, q, n)
      /\ log'[c] = [log[c] EXCEPT ![id] = new]
      /\ debtLog'[c] = [debtLog[c] EXCEPT ![id] = debt[c]]
  BY <1>0, <1>1, <1>2 DEF QueueStep, QueueAndSend
<1>8. /\ log'[c] \in [0..MaxVscId -> [Keys -> Power]]
      /\ log'[c][id] = new /\ debtLog'[c][id] = debt[c]
      /\ \A i \in 0..MaxVscId : i # id => /\ log'[c][i] = log[c][i]
                                          /\ debtLog'[c][i] = debtLog[c][i]
  BY <1>3, <1>7, SMTT(40) DEF TypeOK, VscId
<1>9. /\ valsetUpdateId \in Nat /\ valsetUpdateId' \in Nat
      /\ highest[c] \in 0..MaxVscId /\ appliedId[c] \in 0..MaxVscId
      /\ highestSent[c] \in 0..MaxVscId /\ highestAcked[c] \in 0..MaxVscId
      /\ highest'[c] = highest[c] /\ appliedId'[c] = appliedId[c]
      /\ highestAcked'[c] = highestAcked[c] /\ acks'[c] = acks[c]
      /\ inDebt'[c] = inDebt[c] /\ valset'[c] = valset[c]
      /\ pendingChanges'[c] = pendingChanges[c]
      /\ Started(c) /\ Started(c)' /\ phase[c] # "DELETED"
  BY DEF TypeOK, consumerVars, Started
<1>10. ConsumerHoldsLog(c) /\ WatermarksHold(c) /\ AckIsReceived(c)
  BY <1>9 DEF ConsumerInv
<1>11. highest[c] < id /\ appliedId[c] < id /\ highestSent[c] < id
  BY <1>3, <1>9, <1>10 DEF ConsumerHoldsLog, WatermarksHold, VscId
<1>12. \A x \in OnItsWay(c) : x.id \in 1..MaxVscId /\ x.id < id /\ PacketMatchesLog(c, x)
  <2>1. \A x \in OnItsWay(c) : PacketMatchesLog(c, x)
    BY DEF ConsumerInv
  <2>2. OnItsWay(c) \subseteq Packet
    BY <1>5, SMTT(40) DEF OnItsWay, TypeOK, Envelope
  <2>3. QED
    BY <1>3, <1>9, <2>1, <2>2 DEF PacketMatchesLog, Packet, VscId
<1>13. \A i \in 1..Len(q) : q[i] \in OnItsWay(c) \cup {p}
  BY <1>5, SMTT(40) DEF OnItsWay
<1>14. OnItsWay(c)' \subseteq OnItsWay(c) \cup {p}
  <2>1. \A e \in SentNow(c, q, n) : e.data \in OnItsWay(c) \cup {p}
    BY <1>5, <1>6, <1>13 DEF SentNow
  <2>2. \A e \in inflight'[c] : e.data \in OnItsWay(c) \cup {p}
    BY <1>7, <2>1 DEF OnItsWay
  <2>3. \A i \in 1..Len(pendingVSC'[c]) : pendingVSC'[c][i] \in OnItsWay(c) \cup {p}
    BY <1>7, <1>13 DEF Retained
  <2>4. QED
    BY <2>2, <2>3 DEF OnItsWay
\* A diff is built from the set the consumer holds, with nothing ahead of it.
<1>15. ~ p.snapshot => /\ storedSet[c] = log[c][highest[c]]
                       /\ \A x \in OnItsWay(c) : x.id <= highest[c]
  <2> SUFFICES ASSUME ~ p.snapshot
               PROVE  /\ storedSet[c] = log[c][highest[c]]
                      /\ \A x \in OnItsWay(c) : x.id <= highest[c]
    OBVIOUS
  <2>1. storedSet[c] # NoSet /\ highestAcked[c] >= highestSent[c] /\ pendingVSC[c] = <<>>
    BY <1>4, <1>9 DEF NeedsSnapshot
  <2>2. highest[c] = highestSent[c]
    BY <1>9, <1>10, <2>1 DEF WatermarksHold, AckIsReceived
  <2>3. storedSet[c] = log[c][highest[c]]
    BY <1>9, <1>10, <2>1, <2>2 DEF WatermarksHold
  <2>4. \A x \in OnItsWay(c) : \E e \in inflight[c] : x = e.data
    BY <2>1 DEF OnItsWay
  <2>5. \A e \in inflight[c] : e.data.id <= highestSent[c]
    BY <1>9, <1>10 DEF WatermarksHold
  <2>6. QED
    BY <2>2, <2>3, <2>4, <2>5
<1>16. \A i \in valsetUpdateId'..MaxVscId : log'[c][i] = NoSet
  <2>1. \A i \in valsetUpdateId..MaxVscId : log[c][i] = NoSet
    BY DEF ConsumerInv
  <2>2. QED
    BY <1>3, <1>8, <1>9, <2>1 DEF VscId
<1>17. ConsumerHoldsLog(c)'
  <2>1. EffectiveSet(c)' = EffectiveSet(c)
    BY <1>9 DEF EffectiveSet
  <2>2. \A i \in {0, highest[c], appliedId[c]} : log'[c][i] = log[c][i]
    BY <1>3, <1>8, <1>9, <1>11 DEF VscId
  <2>3. highest[c] < valsetUpdateId'
    BY <1>3, <1>9, <1>11 DEF VscId
  <2>4. QED
    BY <1>9, <1>10, <2>1, <2>2, <2>3 DEF ConsumerHoldsLog
<1>18. \A x \in OnItsWay(c)' : PacketMatchesLog(c, x)'
  <2>1. \A x \in OnItsWay(c) : PacketMatchesLog(c, x)'
    <3> TAKE x \in OnItsWay(c)
    <3>1. log'[c][x.id] = log[c][x.id] /\ debtLog'[c][x.id] = debtLog[c][x.id]
      BY <1>3, <1>8, <1>12 DEF VscId
    <3>2. x.id < valsetUpdateId'
      BY <1>3, <1>9, <1>12 DEF VscId
    <3>3. QED
      BY <1>12, <3>1, <3>2 DEF PacketMatchesLog
  <2>2. PacketMatchesLog(c, p)'
    BY <1>3, <1>4, <1>8 DEF PacketMatchesLog
  <2>3. QED
    BY <1>14, <2>1, <2>2
<1>19. DiffHasItsBase(c)'
  <2>1. \A x \in OnItsWay(c) : ~ x.snapshot /\ x.id > highest'[c] =>
          ApplyVaasValidatorChanges(log'[c][highest'[c]], x.updates) = log'[c][x.id]
    <3>1. \A x \in OnItsWay(c) : log'[c][x.id] = log[c][x.id]
      BY <1>8, <1>9, <1>12, <1>3 DEF VscId
    <3>2. log'[c][highest'[c]] = log[c][highest[c]]
      BY <1>8, <1>9, <1>11, <1>3 DEF VscId
    <3>3. DiffHasItsBase(c)
      BY DEF ConsumerInv
    <3>4. QED
      BY <1>9, <3>1, <3>2, <3>3 DEF DiffHasItsBase
  <2>2. ~ p.snapshot => ApplyVaasValidatorChanges(log'[c][highest'[c]], p.updates) = log'[c][p.id]
    <3> SUFFICES ASSUME ~ p.snapshot
                 PROVE  ApplyVaasValidatorChanges(log'[c][highest'[c]], p.updates) = log'[c][p.id]
      OBVIOUS
    <3>1. log'[c][highest'[c]] = storedSet[c] /\ storedSet[c] \in [Keys -> Power]
      BY <1>8, <1>9, <1>11, <1>3, <1>15 DEF VscId, TypeOK
    <3>2. QED
      BY <1>3, <1>4, <1>8, <3>1, DiffIsExact
  <2>3. QED
    BY <1>14, <2>1, <2>2 DEF DiffHasItsBase
<1>20. DiffIsNext(c)'
  <2>1. ASSUME NEW x \in OnItsWay(c)', NEW y \in OnItsWay(c)',
               ~ x.snapshot, x.id > highest[c], y.id > highest[c]
        PROVE  x.id <= y.id
    <3>1. CASE x = p
      <4>1. y = p
        BY <1>9, <1>12, <1>14, <1>15, <2>1, <3>1
      <4>2. QED
        BY <1>3, <1>4, <3>1, <4>1 DEF VscId
    <3>2. CASE x # p /\ y = p
      BY <1>4, <1>12, <1>14, <1>3, <3>2 DEF VscId
    <3>3. CASE x # p /\ y # p
      <4>1. DiffIsNext(c)
        BY DEF ConsumerInv
      <4>2. QED
        BY <1>14, <2>1, <3>3, <4>1 DEF DiffIsNext
    <3>4. QED
      BY <3>1, <3>2, <3>3
  <2>2. QED
    BY <1>9, <2>1 DEF DiffIsNext
<1>21. \A i, j \in 1..Len(q) : i <= j => q[i].id <= q[j].id
  <2>1. QueueAscends(c)
    BY DEF ConsumerInv
  <2>2. \A i \in 1..Len(pendingVSC[c]) : pendingVSC[c][i].id \in Nat /\ pendingVSC[c][i].id < id
    BY <1>12 DEF OnItsWay
  <2>3. \A i \in 1..Len(q) : i = Len(q) \/ i \in 1..Len(pendingVSC[c])
    BY <1>5
  <2>4. \A i \in 1..Len(q) : q[i].id \in Nat /\ q[i].id <= q[Len(q)].id
    BY <1>3, <1>4, <1>5, <2>2, <2>3 DEF VscId
  <2>5. ASSUME NEW i \in 1..Len(q), NEW j \in 1..Len(q), i <= j
        PROVE  q[i].id <= q[j].id
    <3>1. CASE j = Len(q)
      BY <2>4, <3>1
    <3>2. CASE j # Len(q)
      <4>1. i \in 1..Len(pendingVSC[c]) /\ j \in 1..Len(pendingVSC[c])
        BY <1>5, <2>3, <2>5, <3>2
      <4>2. QED
        BY <1>5, <2>1, <2>5, <4>1 DEF QueueAscends
    <3>3. QED
      BY <3>1, <3>2
  <2>6. QED
    BY <2>5
<1>22. QueueAscends(c)'
  BY <1>7, <1>21 DEF QueueAscends, Retained
<1>23. WatermarksHold(c)'
  <2>1. \A i \in 1..Len(q) : q[i].id \in 1..MaxVscId /\ q[i].id <= id
    BY <1>3, <1>4, <1>12, <1>13 DEF VscId
  <2>2. /\ highestSent'[c] >= highestSent[c]
        /\ highestSent'[c] \in Nat
        /\ highestSent'[c] <= id
        /\ n > 0 => q[n].id <= highestSent'[c]
    BY <1>3, <1>6, <1>7, <1>9, <1>11, <2>1 DEF HighestAfter, VscId
  <2>3. \A e \in inflight'[c] : e.data.id <= highestSent'[c]
    <3>1. \A e \in inflight[c] : e.data.id \in Nat /\ e.data.id <= highestSent[c]
      BY <1>9, <1>10 DEF WatermarksHold, TypeOK, Envelope, Packet, VscId
    <3>2. \A e \in SentNow(c, q, n) : e.data.id <= highestSent'[c]
      <4>1. \A i \in 1..n : q[i].id <= highestSent'[c]
        BY <1>5, <1>6, <1>21, <2>1, <2>2, SMTT(40)
      <4>2. QED
        BY <4>1 DEF SentNow
    <3>3. QED
      BY <1>7, <1>9, <2>2, <3>1, <3>2
  <2>4. pendingVSC'[c] = <<>> => storedSet'[c] = log'[c][highestSent'[c]]
    <3>1. pendingVSC'[c] = <<>> => n = Len(q)
      BY <1>5, <1>7 DEF Retained
    <3>2. n = Len(q) => highestSent'[c] = id
      BY <1>3, <1>4, <1>5, <1>7, <1>9, <1>11 DEF HighestAfter, VscId
    <3>3. QED
      BY <1>7, <1>8, <3>1, <3>2
  <2>5. QED
    BY <1>3, <1>9, <1>10, <2>2, <2>3, <2>4 DEF WatermarksHold, VscId
<1>24. AckIsReceived(c)'
  BY <1>9, <1>10 DEF AckIsReceived
<1>25. inDebt'[c] = debtLog'[c][highest'[c]]
  BY <1>3, <1>8, <1>9, <1>11, SMTT(40) DEF ConsumerInv, VscId
<1>26. QED
  BY <1>9, <1>16, <1>17, <1>18, <1>19, <1>20, <1>22, <1>23, <1>24, <1>25 DEF ConsumerInv

\* Launch: both sides start from the genesis set.
LEMMA LaunchInv ==
  ASSUME TypeOK, NEW c \in Consumers, ConsumerInv(c), LaunchConsumer(c)
  PROVE  ConsumerInv(c)'
<1> USE ConstantsAssumption DEF transportVars
<1>1. Unstarted(c) /\ Started(c)' /\ phase'[c] # "DELETED"
  BY DEF LaunchConsumer, ConsumerInv, Started, TypeOK
<1>2. PICK s \in ValSet : storedSet'[c] = s /\ valset'[c] = s /\ log'[c] = [log[c] EXCEPT ![0] = s]
  BY DEF LaunchConsumer, TypeOK
<1>3. /\ log'[c][0] = s
      /\ \A i \in 1..MaxVscId : log'[c][i] = log[c][i]
      /\ s \in [Keys -> Power]
      /\ valsetUpdateId \in 1..(MaxVscId + 1) /\ valsetUpdateId' = valsetUpdateId
  BY <1>2, SetTypes DEF TypeOK, LaunchConsumer
<1>4. /\ pendingVSC'[c] = <<>> /\ inflight'[c] = {} /\ acks'[c] = {}
      /\ highest'[c] = 0 /\ appliedId'[c] = 0 /\ highestSent'[c] = 0 /\ highestAcked'[c] = 0
      /\ pendingChanges'[c] = NoUpdates
  BY <1>1 DEF Unstarted, LaunchConsumer
<1>5. OnItsWay(c)' = {}
  BY <1>4 DEF OnItsWay
<1>6. EffectiveSet(c)' = s
  BY <1>2, <1>3, <1>4, ApplyNothing DEF EffectiveSet
<1>7. ConsumerHoldsLog(c)'
  BY <1>2, <1>3, <1>4, <1>6 DEF ConsumerHoldsLog
<1>8. \A i \in valsetUpdateId'..MaxVscId : log'[c][i] = NoSet
  BY <1>3 DEF ConsumerInv
<1>9. WatermarksHold(c)' /\ QueueAscends(c)' /\ AckIsReceived(c)'
  BY <1>2, <1>3, <1>4 DEF WatermarksHold, QueueAscends, AckIsReceived
<1>10. inDebt'[c] = debtLog'[c][highest'[c]]
  BY DEF LaunchConsumer, ConsumerInv
<1>11. QED
  BY <1>1, <1>5, <1>7, <1>8, <1>9, <1>10 DEF ConsumerInv, DiffHasItsBase, DiffIsNext

\* Declaring or pinning a client touches nothing the invariant reads.
LEMMA ClientInv ==
  ASSUME TypeOK, NEW c \in Consumers, SetConsumerClient(c) \/ SetProviderClient(c),
         NEW d \in Consumers, ConsumerInv(d)
  PROVE  ConsumerInv(d)'
BY Frame DEF SetConsumerClient, SetProviderClient, providerVars, transportVars, consumerVars,
             historyVars

\* EndBlock moves the pending changes into the set and leaves their sum alone.
LEMMA EndBlockInv ==
  ASSUME TypeOK, NEW c \in Consumers, ConsumerInv(c), EndBlockConsumer(c)
  PROVE  ConsumerInv(c)'
<1> USE DEF providerVars, transportVars, historyVars
<1>1. ConsumerHoldsLog(c) /\ Started(c) /\ Started(c)'
  BY DEF EndBlockConsumer, ConsumerInv, Started
<1>2. /\ valset'[c] = EffectiveSet(c) /\ pendingChanges'[c] = NoUpdates
      /\ appliedId'[c] = highest[c] /\ highest[c] \in 0..MaxVscId
  BY DEF EndBlockConsumer, TypeOK
<1>3. EffectiveSet(c) \in [Keys -> Power]
  BY ApplyType DEF EffectiveSet, TypeOK
<1>4. EffectiveSet(c)' = EffectiveSet(c)
  BY <1>2, <1>3, ApplyNothing DEF EffectiveSet
<1>5. ConsumerHoldsLog(c)'
  BY <1>1, <1>2, <1>4 DEF ConsumerHoldsLog, EndBlockConsumer
<1>6. OnItsWay(c)' = OnItsWay(c)
  BY DEF OnItsWay, EndBlockConsumer
<1>7. QED
  BY <1>1, <1>5, <1>6
     DEF ConsumerInv, EndBlockConsumer, PacketMatchesLog, DiffHasItsBase, DiffIsNext,
         QueueAscends, WatermarksHold, AckIsReceived

\* An acknowledgement raises the watermark no further than the consumer is.
LEMMA AckInv ==
  ASSUME TypeOK, NEW c \in Consumers, ConsumerInv(c), NEW a \in acks[c],
         OnAcknowledgementPacketV2(c, a)
  PROVE  ConsumerInv(c)'
<1> USE DEF consumerVars, historyVars
<1>1. AckIsReceived(c)'
  <2>1. highestAcked'[c] = highestAcked[c] \/ (a.ok /\ highestAcked'[c] = a.id)
    BY DEF OnAcknowledgementPacketV2, TypeOK
  <2>2. acks'[c] \subseteq acks[c] /\ highest'[c] = highest[c]
    BY DEF OnAcknowledgementPacketV2, TypeOK
  <2>3. AckIsReceived(c)
    BY DEF ConsumerInv
  <2>4. QED
    BY <2>1, <2>2, <2>3 DEF AckIsReceived
<1>2. OnItsWay(c)' = OnItsWay(c) /\ EffectiveSet(c)' = EffectiveSet(c) /\ Started(c)' = Started(c)
  BY DEF OnItsWay, EffectiveSet, Started, OnAcknowledgementPacketV2
<1>3. Started(c)
  BY DEF ConsumerInv, Unstarted
<1>4. QED
  BY <1>1, <1>2, <1>3
     DEF ConsumerInv, OnAcknowledgementPacketV2, ConsumerHoldsLog, PacketMatchesLog,
         DiffHasItsBase, DiffIsNext, QueueAscends, WatermarksHold

\* A packet leaves the network without reaching the consumer's validator set:
\* it timed out, was refused, or was skipped as stale.
LEMMA DropInv ==
  ASSUME TypeOK, NEW c \in Consumers, ConsumerInv(c), NEW e \in inflight[c],
         OnTimeoutPacketV2(c, e) \/ RefuseVSCPacket(c, e) \/ SkipVSCPacket(c, e)
  PROVE  ConsumerInv(c)'
<1> USE DEF providerVars, consumerVars, historyVars, Receive, OnTimeoutPacketV2,
            RefuseVSCPacket, SkipVSCPacket
<1>1. inflight'[c] \subseteq inflight[c]
  BY DEF TypeOK
<1>2. /\ phase' = phase /\ valsetUpdateId' = valsetUpdateId /\ storedSet' = storedSet
      /\ pendingVSC' = pendingVSC /\ highestSent' = highestSent
      /\ highestAcked' = highestAcked /\ valset' = valset /\ log' = log
      /\ pendingChanges' = pendingChanges /\ highest' = highest /\ inDebt' = inDebt
      /\ debtLog' = debtLog /\ appliedId' = appliedId
  OBVIOUS
<1>3. OnItsWay(c)' \subseteq OnItsWay(c)
  BY <1>1, <1>2 DEF OnItsWay
<1>4. Started(c) /\ Started(c)'
  BY <1>2 DEF ConsumerInv, Unstarted, Started
<1>5. AckIsReceived(c)'
  <2>1. \A a \in acks'[c] : a \in acks[c] \/ ~ a.ok \/ a.id <= highest[c]
    BY DEF TypeOK, Stale
  <2>2. AckIsReceived(c)
    BY DEF ConsumerInv
  <2>3. QED
    BY <1>2, <2>1, <2>2 DEF AckIsReceived
<1>6. QED
  BY <1>1, <1>2, <1>3, <1>4, <1>5
     DEF ConsumerInv, ConsumerHoldsLog, EffectiveSet, PacketMatchesLog, DiffHasItsBase,
         DiffIsNext, QueueAscends, WatermarksHold

\* A packet taken brings the consumer to the set published under its id.
LEMMA RecvInv ==
  ASSUME TypeOK, NEW c \in Consumers, ConsumerInv(c), NEW e \in inflight[c],
         OnRecvVSCPacketV2(c, e)
  PROVE  ConsumerInv(c)'
<1> USE ConstantsAssumption DEF providerVars, historyVars
<1>0. PICK p : p = e.data
  OBVIOUS
<1>1. /\ p \in Packet /\ p.id \in 1..MaxVscId /\ p.updates \in Updates /\ p.snapshot \in BOOLEAN
      /\ p \in OnItsWay(c)
  BY <1>0 DEF TypeOK, Envelope, Packet, VscId, OnItsWay
<1>2. /\ phase' = phase /\ valsetUpdateId' = valsetUpdateId /\ storedSet' = storedSet
      /\ pendingVSC' = pendingVSC /\ highestSent' = highestSent
      /\ highestAcked' = highestAcked /\ valset' = valset /\ log' = log
      /\ debtLog' = debtLog /\ appliedId' = appliedId
  BY DEF OnRecvVSCPacketV2, Receive
<1>3. /\ inflight'[c] \subseteq inflight[c]
      /\ highest'[c] = p.id /\ inDebt'[c] = p.debt
      /\ pendingChanges'[c] = IF p.snapshot THEN ComputeReplaceUpdates(valset[c], p.updates)
                                            ELSE AccumulateChanges(pendingChanges[c], p.updates)
      /\ \A a \in acks'[c] : a \in acks[c] \/ a.id = p.id
  BY <1>0 DEF OnRecvVSCPacketV2, Receive, TypeOK
<1>4. /\ highest[c] \in 0..MaxVscId /\ p.id > highest[c]
      /\ valset[c] \in [Keys -> Power] /\ pendingChanges[c] \in Updates
      /\ log[c] \in [0..MaxVscId -> [Keys -> Power]]
      /\ highestAcked[c] \in 0..MaxVscId /\ appliedId[c] \in 0..MaxVscId
      /\ valsetUpdateId \in Nat
  BY <1>0, <1>1 DEF OnRecvVSCPacketV2, Stale, TypeOK
<1>5. Started(c) /\ Started(c)' /\ ConsumerHoldsLog(c) /\ PacketMatchesLog(c, p)
  BY <1>1, <1>2 DEF OnRecvVSCPacketV2, ConsumerInv, Started
<1>6. OnItsWay(c)' \subseteq OnItsWay(c) /\ OnItsWay(c) \subseteq Packet
  BY <1>2, <1>3 DEF OnItsWay, TypeOK, Envelope
\* The packet brings the consumer exactly to the set published under its id.
<1>7. EffectiveSet(c)' = log[c][p.id]
  <2>1. CASE p.snapshot
    <3>1. p.updates = FullValSetUpdates(log[c][p.id]) /\ log[c][p.id] \in [Keys -> Power]
      BY <1>1, <1>4, <1>5, <2>1 DEF PacketMatchesLog
    <3>2. pendingChanges'[c] = ComputeReplaceUpdates(valset[c], p.updates)
      BY <1>3, <2>1
    <3>3. QED
      BY <1>2, <1>4, <3>1, <3>2, ReplaceIsExact DEF EffectiveSet
  <2>2. CASE ~ p.snapshot
    <3>1. ApplyVaasValidatorChanges(log[c][highest[c]], p.updates) = log[c][p.id]
      BY <1>1, <1>4, <2>2 DEF ConsumerInv, DiffHasItsBase
    <3>2. log[c][highest[c]] = ApplyVaasValidatorChanges(valset[c], pendingChanges[c])
      BY <1>5 DEF ConsumerHoldsLog, EffectiveSet
    <3>3. pendingChanges'[c] = AccumulateChanges(pendingChanges[c], p.updates)
      BY <1>3, <2>2
    <3>4. QED
      BY <1>1, <1>2, <1>4, <3>1, <3>2, <3>3, AccumulateIsSequential, SMTT(40) DEF EffectiveSet
  <2>3. QED
    BY <1>1, <2>1, <2>2
<1>8. ConsumerHoldsLog(c)'
  <2>1. appliedId[c] <= highest[c]
    BY <1>5 DEF ConsumerHoldsLog
  <2>2. appliedId[c] <= p.id /\ p.id < valsetUpdateId /\ log[c][p.id] \in ValSet
    BY <1>1, <1>4, <1>5, <2>1 DEF PacketMatchesLog
  <2>3. QED
    BY <1>2, <1>3, <1>5, <1>7, <2>2 DEF ConsumerHoldsLog
<1>9. \A x \in OnItsWay(c)' : PacketMatchesLog(c, x)'
  BY <1>2, <1>6 DEF ConsumerInv, PacketMatchesLog
\* Whatever is left beyond the packet is a snapshot.
<1>10. \A x \in OnItsWay(c)' : x.id > p.id => x.snapshot
  <2>1. DiffIsNext(c)
    BY DEF ConsumerInv
  <2>2. \A x \in OnItsWay(c)' : x \in OnItsWay(c) /\ x.id \in 1..MaxVscId
    BY <1>6 DEF Packet, VscId
  <2>3. QED
    BY <1>1, <1>4, <2>1, <2>2 DEF DiffIsNext
<1>11. DiffHasItsBase(c)' /\ DiffIsNext(c)'
  BY <1>3, <1>10 DEF DiffHasItsBase, DiffIsNext
<1>12. QueueAscends(c)'
  BY <1>2 DEF ConsumerInv, QueueAscends
<1>13. WatermarksHold(c)'
  <2>1. WatermarksHold(c) /\ (phase[c] # "DELETED" => p.id <= highestSent[c])
    BY <1>0 DEF ConsumerInv, WatermarksHold
  <2>2. QED
    BY <1>2, <1>3, <2>1 DEF WatermarksHold
<1>14. AckIsReceived(c)'
  <2>1. AckIsReceived(c)
    BY DEF ConsumerInv
  <2>2. \A a \in acks[c] : a.id \in 1..MaxVscId
    BY DEF TypeOK, Ack, VscId
  <2>3. QED
    BY <1>1, <1>2, <1>3, <1>4, <2>1, <2>2 DEF AckIsReceived
<1>15. inDebt'[c] = debtLog'[c][highest'[c]]
  BY <1>2, <1>3, <1>5 DEF PacketMatchesLog
<1>16. QED
  BY <1>2, <1>5, <1>8, <1>9, <1>11, <1>12, <1>13, <1>14, <1>15 DEF ConsumerInv

\* A consumer that gets no packet while others do: only the id counter moves.
LEMMA LaterId ==
  ASSUME TypeOK, TypeOK', NEW c \in Consumers, ConsumerInv(c),
         NEW S, NEW idOf, NEW next, NEW isSnapshot, NEW debt, NEW sent,
         QueueStep(S, idOf, next, isSnapshot, debt, sent), c \notin S,
         valsetUpdateId' >= valsetUpdateId, phase'[c] = phase[c],
         UNCHANGED <<highestAcked, acks, consumerVars>>
  PROVE  ConsumerInv(c)'
<1> USE ConstantsAssumption
<1>1. /\ storedSet'[c] = storedSet[c] /\ pendingVSC'[c] = pendingVSC[c]
      /\ highestSent'[c] = highestSent[c] /\ inflight'[c] = inflight[c]
      /\ log'[c] = log[c] /\ debtLog'[c] = debtLog[c]
      /\ highestAcked' = highestAcked /\ acks' = acks /\ valset' = valset
      /\ pendingChanges' = pendingChanges /\ highest' = highest /\ inDebt' = inDebt
      /\ appliedId' = appliedId
  BY DEF QueueStep, QueueAndSend, consumerVars
<1>2. /\ valsetUpdateId \in Nat /\ valsetUpdateId' \in Nat
      /\ highest[c] \in Nat /\ highestSent[c] \in Nat
  BY DEF TypeOK
<1>3. OnItsWay(c)' = OnItsWay(c) /\ OnItsWay(c) \subseteq Packet
  BY <1>1 DEF OnItsWay, TypeOK, Envelope
<1>4. \A i \in valsetUpdateId'..MaxVscId : log'[c][i] = NoSet
  BY <1>1, <1>2 DEF ConsumerInv
<1>5. Started(c)' = Started(c) /\ Unstarted(c)' = Unstarted(c)
  BY <1>1 DEF Started, Unstarted
<1>6. Started(c) => ConsumerHoldsLog(c)'
  BY <1>1, <1>2 DEF ConsumerInv, ConsumerHoldsLog, EffectiveSet
<1>7. \A p \in OnItsWay(c)' : PacketMatchesLog(c, p)'
  BY <1>1, <1>2, <1>3 DEF ConsumerInv, PacketMatchesLog, Packet, VscId
<1>8. WatermarksHold(c)'
  BY <1>1, <1>2 DEF ConsumerInv, WatermarksHold
<1>9. QED
  BY <1>1, <1>3, <1>4, <1>5, <1>6, <1>7, <1>8
     DEF ConsumerInv, DiffHasItsBase, DiffIsNext, QueueAscends, AckIsReceived

\* Every step keeps the invariant.
LEMMA InvStep == IInv /\ [Next]_vars => IInv'
<1> SUFFICES ASSUME IInv, [Next]_vars PROVE IInv'
  OBVIOUS
<1>0. TypeOK /\ TypeOK' /\ \A c \in Consumers : ConsumerInv(c)
  BY TypeStep DEF IInv
<1> SUFFICES ASSUME NEW d \in Consumers PROVE ConsumerInv(d)'
  BY <1>0 DEF IInv
<1> USE DEF providerVars, transportVars, consumerVars, historyVars
<1>a. ConsumerInv(d) /\ valsetUpdateId \in Nat /\ valsetUpdateId' \in Nat
  BY <1>0, ConstantsAssumption DEF TypeOK
<1>1. CASE EndBlockVSU
  <2>1. PICK S, idOf, next, isSnapshot, debt, sent :
           /\ QueueStep(S, idOf, next, isSnapshot, debt, sent)
           /\ S \subseteq Launched
           /\ \A c \in S : idOf[c] >= valsetUpdateId /\ valsetUpdateId' > idOf[c]
           /\ \A c \in S : isSnapshot[c] = NeedsSnapshot(c)
    BY <1>0, <1>1, EndBlockVSUStep
  <2>2. /\ UNCHANGED <<phase, highestAcked, acks, consumerVars>>
        /\ valsetUpdateId' >= valsetUpdateId
    BY <1>1, <1>a DEF EndBlockVSU
  <2>3. CASE d \in S
    <3>1. phase[d] = "LAUNCHED" /\ phase'[d] = "LAUNCHED"
      BY <2>1, <2>2, <2>3 DEF Launched
    <3>2. idOf[d] >= valsetUpdateId /\ valsetUpdateId' > idOf[d]
      BY <2>1, <2>3
    <3>3. ~ isSnapshot[d] => ~ NeedsSnapshot(d)
      BY <2>1, <2>3
    <3>4. phase[d] \in {"LAUNCHED", "PAUSED"} /\ phase'[d] \in {"LAUNCHED", "PAUSED"}
      BY <3>1
    <3>5. QueueStep(S, idOf, next, isSnapshot, debt, sent)
      BY <2>1
    <3>6. QED
      BY <1>0, <1>a, <2>2, <2>3, <3>2, <3>3, <3>4, <3>5, QueueInv
  <2>4. CASE d \notin S
    BY <1>0, <1>a, <2>1, <2>2, <2>4, LaterId
  <2>5. QED
    BY <2>3, <2>4
<1>2. CASE QueueConsPubKeyRotationSnapshots
  <2>1. PICK S, idOf, next, isSnapshot, debt, sent :
           /\ QueueStep(S, idOf, next, isSnapshot, debt, sent)
           /\ S \subseteq Launched /\ S # {}
           /\ \A c \in S : /\ idOf[c] >= valsetUpdateId
                            /\ valsetUpdateId' > idOf[c]
                            /\ isSnapshot[c]
    BY <1>0, <1>2, RotationStep
  <2>2. UNCHANGED <<phase, highestAcked, acks, consumerVars>>
    BY <1>2 DEF QueueConsPubKeyRotationSnapshots
  <2>3. valsetUpdateId' >= valsetUpdateId
    <3>1. PICK c : c \in S
      BY <2>1
    <3>2. idOf[c] \in Nat
      BY <2>1, <3>1, ConstantsAssumption DEF QueueStep, VscId
    <3>3. QED
      BY <1>a, <2>1, <3>1, <3>2
  <2>4. CASE d \in S
    <3>1. phase[d] = "LAUNCHED" /\ phase'[d] = "LAUNCHED"
      BY <2>1, <2>2, <2>4 DEF Launched
    <3>2. QED
      BY <1>0, <1>a, <2>1, <2>2, <2>4, <3>1, QueueInv
  <2>5. CASE d \notin S
    BY <1>0, <1>a, <2>1, <2>2, <2>3, <2>5, LaterId
  <2>6. QED
    BY <2>4, <2>5
<1>3. CASE RestartProvider
  <2>1. /\ storedSet'[d] = NoSet
        /\ UNCHANGED <<phase, valsetUpdateId, pendingVSC, highestSent, highestAcked,
                       transportVars, consumerVars, historyVars>>
    BY <1>3 DEF RestartProvider
  <2>2. CASE Started(d) /\ phase[d] # "DELETED"
    BY <1>0, <1>a, <2>1, <2>2, ProviderLocalStep DEF Started
  <2>3. CASE ~ Started(d)
    <3>1. storedSet[d] = NoSet
      BY <1>a, <2>3 DEF ConsumerInv, Unstarted
    <3>2. QED
      BY <1>a, <2>1, <3>1, Frame
  <2>4. CASE phase[d] = "DELETED"
    BY <1>a, <2>1, <2>4
       DEF ConsumerInv, Started, Unstarted, ConsumerHoldsLog, OnItsWay, PacketMatchesLog,
           DiffHasItsBase, DiffIsNext, QueueAscends, WatermarksHold, AckIsReceived, EffectiveSet
  <2>5. QED
    BY <2>2, <2>3, <2>4
<1>4. ASSUME NEW c \in Consumers, LaunchConsumer(c) PROVE ConsumerInv(d)'
  <2>1. CASE c = d
    BY <1>0, <1>4, <2>1, LaunchInv
  <2>2. CASE c # d
    BY <1>0, <1>4, <2>2, Frame DEF LaunchConsumer, TypeOK
  <2>3. QED
    BY <2>1, <2>2
<1>5. ASSUME NEW c \in Consumers, SetConsumerClient(c) \/ SetProviderClient(c)
      PROVE  ConsumerInv(d)'
  BY <1>0, <1>5, ClientInv
<1>6. ASSUME NEW c \in Consumers,
             PauseConsumerChain(c) \/ StopAndPrepareForConsumerRemoval(c)
                                   \/ DeleteConsumerChain(c)
      PROVE  ConsumerInv(d)'
  <2>1. CASE c = d
    <3>1. /\ phase'[d] \in {"PAUSED", "STOPPED", "DELETED"}
          /\ phase[d] \in {"LAUNCHED", "PAUSED", "STOPPED"}
          /\ valsetUpdateId' = valsetUpdateId
          /\ UNCHANGED <<transportVars, consumerVars, historyVars>>
      BY <1>0, <1>6, <2>1 DEF PauseConsumerChain, StopAndPrepareForConsumerRemoval,
                              DeleteConsumerChain, TypeOK
    <3>2. storedSet'[d] = storedSet[d] \/ storedSet'[d] = NoSet
      BY <1>0, <1>6, <2>1 DEF PauseConsumerChain, StopAndPrepareForConsumerRemoval,
                              DeleteConsumerChain, TypeOK
    <3>3. \/ /\ pendingVSC'[d] = pendingVSC[d]
             /\ highestSent'[d] = highestSent[d]
             /\ highestAcked'[d] = highestAcked[d]
             /\ phase[d] # "DELETED"
             /\ phase'[d] # "DELETED"
          \/ /\ pendingVSC'[d] = <<>>
             /\ highestSent'[d] = 0
             /\ highestAcked'[d] = 0
             /\ phase'[d] = "DELETED"
      BY <1>0, <1>6, <2>1 DEF PauseConsumerChain, StopAndPrepareForConsumerRemoval,
                              DeleteConsumerChain, TypeOK
    <3>4. Started(d) /\ Started(d)'
      BY <3>1 DEF Started
    <3>5. QED
      BY <1>0, <1>a, <3>1, <3>2, <3>3, <3>4, ProviderLocalStep
  <2>2. CASE c # d
    BY <1>0, <1>6, <2>2, Frame
       DEF PauseConsumerChain, StopAndPrepareForConsumerRemoval, DeleteConsumerChain, TypeOK
  <2>3. QED
    BY <2>1, <2>2
<1>7. ASSUME NEW c \in Consumers, ResumeConsumerChain(c) PROVE ConsumerInv(d)'
  <2>1. PICK S, idOf, next, isSnapshot, debt, sent :
           /\ QueueStep(S, idOf, next, isSnapshot, debt, sent)
           /\ S = {c}
           /\ idOf[c] = valsetUpdateId /\ isSnapshot[c]
    BY <1>0, <1>7, ResumeStep
  <2>2. /\ UNCHANGED <<highestAcked, acks, consumerVars>>
        /\ valsetUpdateId' = valsetUpdateId + 1
        /\ phase[c] = "PAUSED" /\ phase' = [phase EXCEPT ![c] = "LAUNCHED"]
    BY <1>7 DEF ResumeConsumerChain
  <2>3. CASE d = c
    <3>1. /\ phase'[d] = "LAUNCHED" /\ phase[d] = "PAUSED"
          /\ idOf[d] >= valsetUpdateId /\ valsetUpdateId' > idOf[d]
          /\ ~ isSnapshot[d] => ~ NeedsSnapshot(d)
      BY <1>0, <1>a, <2>1, <2>2, <2>3 DEF TypeOK
    <3>2. QED
      BY <1>0, <1>a, <2>1, <2>2, <2>3, <3>1, QueueInv
  <2>4. CASE d # c
    <3>1. d \notin S /\ phase'[d] = phase[d] /\ valsetUpdateId' >= valsetUpdateId
      BY <1>0, <1>a, <2>1, <2>2, <2>4 DEF TypeOK
    <3>2. QED
      BY <1>0, <1>a, <2>1, <2>2, <3>1, LaterId
  <2>5. QED
    BY <2>3, <2>4
<1>8. ASSUME NEW c \in Consumers, EndBlockConsumer(c) PROVE ConsumerInv(d)'
  <2>1. CASE c = d
    BY <1>0, <1>8, <2>1, EndBlockInv
  <2>2. CASE c # d
    BY <1>0, <1>8, <2>2, Frame DEF EndBlockConsumer, TypeOK
  <2>3. QED
    BY <2>1, <2>2
<1>9. ASSUME NEW c \in Consumers, NEW a \in acks[c], OnAcknowledgementPacketV2(c, a)
      PROVE  ConsumerInv(d)'
  <2>1. CASE c = d
    BY <1>0, <1>9, <2>1, AckInv
  <2>2. CASE c # d
    BY <1>0, <1>9, <2>2, Frame DEF OnAcknowledgementPacketV2, TypeOK
  <2>3. QED
    BY <2>1, <2>2
<1>10. ASSUME NEW c \in Consumers, NEW e \in inflight[c],
              OnTimeoutPacketV2(c, e) \/ RefuseVSCPacket(c, e) \/ SkipVSCPacket(c, e)
       PROVE  ConsumerInv(d)'
  <2>1. CASE c = d
    BY <1>0, <1>10, <2>1, DropInv
  <2>2. CASE c # d
    BY <1>0, <1>10, <2>2, Frame
       DEF OnTimeoutPacketV2, RefuseVSCPacket, SkipVSCPacket, Receive, TypeOK
  <2>3. QED
    BY <2>1, <2>2
<1>11. ASSUME NEW c \in Consumers, NEW e \in inflight[c], OnRecvVSCPacketV2(c, e)
       PROVE  ConsumerInv(d)'
  <2>1. CASE c = d
    BY <1>0, <1>11, <2>1, RecvInv
  <2>2. CASE c # d
    BY <1>0, <1>11, <2>2, Frame DEF OnRecvVSCPacketV2, Receive, TypeOK
  <2>3. QED
    BY <2>1, <2>2
<1>12. CASE UNCHANGED vars
  BY <1>0, <1>12, Frame DEF vars
<1>13. QED
  BY <1>1, <1>2, <1>3, <1>4, <1>5, <1>6, <1>7, <1>8, <1>9, <1>10, <1>11, <1>12 DEF Next

\* The inductive invariant holds in every reachable state.
THEOREM Invariance == Spec => []IInv
<1>1. QED
  BY InvInit, InvStep, PTL DEF Spec

\* Whatever is lost, delayed, reordered, resent or refused, a consumer's next
\* validator set is the one published under the id it recorded.
THEOREM ReplicaAgrees == Spec => []ReplicaMatchesLog
<1>1. IInv => ReplicaMatchesLog
  BY DEF IInv, ConsumerInv, ConsumerHoldsLog, ReplicaMatchesLog
<1>2. QED
  BY <1>1, Invariance, PTL

\* CometBFT on a consumer always runs with a published, nonempty set.
THEOREM AppliedSetsArePublished == Spec => []AppliedSetWasPublished
<1>1. IInv => AppliedSetWasPublished
  BY DEF IInv, ConsumerInv, ConsumerHoldsLog, AppliedSetWasPublished
<1>2. QED
  BY <1>1, Invariance, PTL

\* No diff is ever on its way to a consumer that lacks the set it builds on.
THEOREM DiffsAreSafe == Spec => []DiffsHaveTheirBase
<1>1. IInv => DiffsHaveTheirBase
  BY DEF IInv, ConsumerInv, DiffsHaveTheirBase
<1>2. QED
  BY <1>1, Invariance, PTL

\* The provider never takes a packet as delivered that the consumer lacks.
THEOREM AcksAreTruthful == Spec => []AckedIsReceived
<1>1. IInv => AckedIsReceived
  BY DEF IInv, ConsumerInv, AckedIsReceived
<1>2. QED
  BY <1>1, Invariance, PTL

\* The debt flag travels with the validator set, never out of order.
THEOREM DebtFlagAgrees == Spec => []DebtFlagFollows
<1>1. IInv => DebtFlagFollows
  BY DEF IInv, ConsumerInv, DebtFlagFollows
<1>2. QED
  BY <1>1, Invariance, PTL

-----------------------------------------------------------------------------
(* Refinement *)

\* The two modules mean the same by a set and by an unpublished one.
LEMMA SameSets == Abstract!ValSet = ValSet /\ Abstract!Unpublished = NoSet
BY DEF Abstract!ValSet, ValSet, Abstract!Unpublished, NoSet, Power

\* A QueueStep publishes one set for each of its consumers.
LEMMA QueuePublishes ==
  ASSUME IInv, TypeOK',
         NEW S, NEW idOf, NEW next, NEW isSnapshot, NEW debt, NEW sent,
         QueueStep(S, idOf, next, isSnapshot, debt, sent),
         \A c \in S : idOf[c] >= valsetUpdateId /\ Started(c),
         UNCHANGED consumerVars
  PROVE  Abstract!Publish
<1> USE ConstantsAssumption
<1>1. log' \in [Consumers -> [0..MaxVscId -> [Keys -> 0..MaxPower]]]
  BY DEF TypeOK, Power
<1>2. ASSUME NEW c \in Consumers
      PROVE  \/ log'[c] = log[c]
             \/ log[c][0] # Abstract!Unpublished /\ Abstract!Extends(c, log'[c])
  <2>1. CASE c \notin S
    BY <2>1 DEF QueueStep, QueueAndSend
  <2>2. CASE c \in S
    <3>1. PICK id, s : id = idOf[c] /\ s = next[c]
      OBVIOUS
    <3>2. id \in 1..MaxVscId /\ s \in Abstract!ValSet /\ log'[c] = [log[c] EXCEPT ![id] = s]
      BY <2>2, <3>1, SameSets DEF QueueStep, QueueAndSend, VscId
    <3>3. \A j \in id..MaxVscId : log[c][j] = Abstract!Unpublished
      <4>1. \A j \in valsetUpdateId..MaxVscId : log[c][j] = NoSet
        BY DEF IInv, ConsumerInv
      <4>2. id >= valsetUpdateId /\ valsetUpdateId \in Nat
        BY <2>2, <3>1 DEF IInv, TypeOK
      <4>3. QED
        BY <3>2, <4>1, <4>2, SameSets
    <3>4. log[c][0] # Abstract!Unpublished
      BY <2>2, SameSets, SetTypes DEF IInv, ConsumerInv, ConsumerHoldsLog
    <3>5. QED
      BY <3>2, <3>3, <3>4 DEF Abstract!Extends
  <2>3. QED
    BY <2>1, <2>2
<1>3. QED
  BY <1>1, <1>2 DEF Abstract!Publish, consumerVars

\* Every step of the protocol is a step of the abstract log, or invisible in it.
LEMMA StepRefines == IInv /\ [Next]_vars => [Abstract!Next]_(Abstract!vars)
<1> SUFFICES ASSUME IInv, [Next]_vars PROVE [Abstract!Next]_(Abstract!vars)
  OBVIOUS
<1>0. TypeOK /\ TypeOK'
  BY TypeStep DEF IInv
<1> USE DEF providerVars, transportVars, consumerVars, historyVars
<1>1. CASE EndBlockVSU
  <2>1. PICK S, idOf, next, isSnapshot, debt, sent :
           /\ QueueStep(S, idOf, next, isSnapshot, debt, sent)
           /\ S \subseteq Launched
           /\ \A c \in S : idOf[c] >= valsetUpdateId
    BY <1>0, <1>1, EndBlockVSUStep
  <2>2. \A c \in S : idOf[c] >= valsetUpdateId /\ Started(c)
    BY <2>1 DEF Launched, Started
  <2>3. QED
    BY <1>0, <1>1, <2>1, <2>2, QueuePublishes DEF EndBlockVSU, Abstract!Next
<1>2. CASE QueueConsPubKeyRotationSnapshots
  <2>1. PICK S, idOf, next, isSnapshot, debt, sent :
           /\ QueueStep(S, idOf, next, isSnapshot, debt, sent)
           /\ S \subseteq Launched
           /\ \A c \in S : idOf[c] >= valsetUpdateId
    BY <1>0, <1>2, RotationStep
  <2>2. \A c \in S : idOf[c] >= valsetUpdateId /\ Started(c)
    BY <2>1 DEF Launched, Started
  <2>3. UNCHANGED consumerVars
    BY <1>2 DEF QueueConsPubKeyRotationSnapshots
  <2>4. QED
    BY <1>0, <2>1, <2>2, <2>3, QueuePublishes DEF Abstract!Next
<1>3. ASSUME NEW c \in Consumers, ResumeConsumerChain(c) PROVE Abstract!Next
  <2>1. PICK S, idOf, next, isSnapshot, debt, sent :
           /\ QueueStep(S, idOf, next, isSnapshot, debt, sent)
           /\ S = {c}
           /\ idOf[c] = valsetUpdateId
    BY <1>0, <1>3, ResumeStep
  <2>2. \A x \in S : idOf[x] >= valsetUpdateId /\ Started(x)
    BY <1>0, <1>3, <2>1, ConstantsAssumption DEF ResumeConsumerChain, Started, TypeOK
  <2>3. UNCHANGED consumerVars
    BY <1>3 DEF ResumeConsumerChain
  <2>4. QED
    BY <1>0, <2>1, <2>2, <2>3, QueuePublishes DEF Abstract!Next
<1>4. ASSUME NEW c \in Consumers, LaunchConsumer(c) PROVE Abstract!Next
  <2>1. \A i \in 0..MaxVscId : log[c][i] = Abstract!Unpublished
    BY <1>4, SameSets DEF LaunchConsumer, IInv, ConsumerInv, Started, Unstarted
  <2>2. Abstract!Start(c)
    BY <1>4, <2>1, SameSets DEF LaunchConsumer, Abstract!Start
  <2>3. QED
    BY <2>2 DEF Abstract!Next
<1>5. ASSUME NEW c \in Consumers, EndBlockConsumer(c)
      PROVE  [Abstract!Next]_(Abstract!vars)
  <2>1. /\ ConsumerHoldsLog(c)
        /\ highest[c] \in 0..MaxVscId /\ appliedId[c] \in 0..MaxVscId
    BY <1>0, <1>5 DEF EndBlockConsumer, IInv, ConsumerInv, TypeOK
  <2>2. CASE highest[c] = appliedId[c]
    <3>1. EffectiveSet(c) = valset[c]
      BY <2>1, <2>2 DEF ConsumerHoldsLog
    <3>2. UNCHANGED <<log, appliedId, valset>>
      BY <1>0, <1>5, <2>2, <3>1 DEF EndBlockConsumer, TypeOK
    <3>3. QED
      BY <3>2 DEF Abstract!vars
  <2>3. CASE highest[c] # appliedId[c]
    <3>1. highest[c] \in 1..MaxVscId /\ appliedId[c] < highest[c]
      BY <2>1, <2>3, ConstantsAssumption DEF ConsumerHoldsLog
    <3>2. log[c][highest[c]] # Abstract!Unpublished /\ EffectiveSet(c) = log[c][highest[c]]
      BY <2>1, SameSets, SetTypes DEF ConsumerHoldsLog
    <3>3. Abstract!Adopt(c)
      BY <1>5, <3>1, <3>2 DEF EndBlockConsumer, Abstract!Adopt
    <3>4. QED
      BY <3>3 DEF Abstract!Next
  <2>4. QED
    BY <2>2, <2>3
<1>6. ASSUME UNCHANGED <<log, appliedId, valset>> PROVE [Abstract!Next]_(Abstract!vars)
  BY <1>6 DEF Abstract!vars
<1>7. CASE RestartProvider
  BY <1>6, <1>7 DEF RestartProvider
<1>8. ASSUME NEW c \in Consumers,
             \/ SetConsumerClient(c) \/ PauseConsumerChain(c)
             \/ StopAndPrepareForConsumerRemoval(c) \/ DeleteConsumerChain(c)
             \/ SetProviderClient(c)
             \/ \E a \in acks[c] : OnAcknowledgementPacketV2(c, a)
             \/ \E e \in inflight[c] : \/ OnTimeoutPacketV2(c, e) \/ RefuseVSCPacket(c, e)
                                       \/ SkipVSCPacket(c, e) \/ OnRecvVSCPacketV2(c, e)
      PROVE  [Abstract!Next]_(Abstract!vars)
  BY <1>6, <1>8
     DEF SetConsumerClient, PauseConsumerChain, StopAndPrepareForConsumerRemoval,
         DeleteConsumerChain, SetProviderClient, OnAcknowledgementPacketV2, OnTimeoutPacketV2,
         RefuseVSCPacket, SkipVSCPacket, OnRecvVSCPacketV2, Receive
<1>9. CASE UNCHANGED vars
  BY <1>6, <1>9 DEF vars
<1>10. QED
  BY <1>1, <1>2, <1>3, <1>4, <1>5, <1>7, <1>8, <1>9 DEF Next

\* The packet protocol implements the abstract replicated log: a consumer runs
\* with one entry of its own log at a time and only moves forward.
THEOREM Refinement == Spec => ImplementsReplication
<1>1. Init => Abstract!Init
  BY DEF Init, Abstract!Init, NoSet, Abstract!Unpublished
<1>2. QED
  BY <1>1, StepRefines, Invariance, PTL DEF Spec, ImplementsReplication, Abstract!Spec

=============================================================================

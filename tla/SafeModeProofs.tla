--------------------------- MODULE SafeModeProofs ---------------------------
(***************************************************************************)
(* Proofs about SafeMode, for every threshold, packet timeout and set of   *)
(* grace periods.                                                          *)
(*                                                                         *)
(* SMInv is inductive.  SetIsRecent rests on the consumer's clock          *)
(* (ClockBoundsSet), SafeModeBeforeRemoval on how the provider's follows   *)
(* it (AckFollowsReceipt): neither clock reads the other, only packets and *)
(* acknowledgements tie them together.                                     *)
(***************************************************************************)
EXTENDS SafeMode, TLAPS

USE SafeModeAssumption DEF Higher, Grown, SetAgeCap, SentAgeCap, TimedOut, Running

\* An ordinary transaction is admitted by a pinned consumer only, and not in safe mode.
LEMMA OrdinaryMeansFresh == AdmitsOrdinary => recvAge = NoClock \/ ~(recvAge > Threshold)
BY DEF AdmitsOrdinary, Admits, isAllowedBootstrapTx, isAllowedRestrictedTx, IsVSCStale

\* What the clock bounds is what the gate asks for.
LEMMA ClockMakesRecent == SMTypeOK /\ ClockBoundsSet => SetIsRecent
<1> SUFFICES ASSUME SMTypeOK, ClockBoundsSet, Running, AdmitsOrdinary
             PROVE  sentAge <= Threshold + Higher(PacketTimeout, StartDelay + 1)
  BY DEF SetIsRecent
<1>1. CASE recvAge = NoClock
  BY <1>1 DEF ClockBoundsSet, SMTypeOK
<1>2. CASE recvAge # NoClock
  <2>1. recvAge \in Nat /\ recvAge <= Threshold
    BY <1>2, OrdinaryMeansFresh DEF SMTypeOK
  <2> QED BY <1>2, <2>1 DEF ClockBoundsSet, SMTypeOK
<1> QED BY <1>1, <1>2

LEMMA InitEstablishesSMInv == SMInit => SMInv
<1> SUFFICES ASSUME SMInit PROVE SMTypeOK /\ ClockBoundsSet /\ AckFollowsReceipt
  BY ClockMakesRecent DEF SMInv
<1>1. SMTypeOK
  <2>1. /\ 0 \in 0 .. MaxGrace + 1 /\ 0 \in 0 .. MaxAcks
        /\ 0 \in 0 .. SetAgeCap /\ 0 \in 0 .. SentAgeCap
    OBVIOUS
  <2> QED BY <2>1, Zenon DEF SMInit, SMTypeOK
<1>2. ClockBoundsSet /\ AckFollowsReceipt
  BY DEF SMInit, ClockBoundsSet, AckFollowsReceipt
<1> QED BY <1>1, <1>2

\* A packet that counts brings the consumer's clock to zero, and a packet that does not
\* leaves it; either is acknowledged.
LEMMA RecvPacketKeepsSMInv ==
  ASSUME SMInv, NEW p \in inflight, NEW debt \in DebtFlags, RecvPacket(p, debt)
  PROVE  SMTypeOK' /\ ClockBoundsSet' /\ AckFollowsReceipt'
<1> USE DEF SMInv, RecvPacket
<1>1. /\ p.age \in 0 .. SetAgeCap /\ p.sent \in 0 .. PacketTimeout
      /\ p.sent < PacketTimeout /\ debt \in BOOLEAN
  BY DEF SMTypeOK, ClockBoundsSet, Packet
<1>2. acks' \in 0 .. MaxAcks /\ (pinned => acks' > 0)
  BY DEF SMTypeOK
<1>3. SMTypeOK'
  <2>1. 0 \in 0 .. Threshold + 1 \cup {NoClock} /\ p.sent \in 0 .. SentAgeCap
    BY <1>1
  <2>2. inflight' \subseteq Packet
    BY DEF SMTypeOK
  <2>3. /\ recvAge' \in 0 .. Threshold + 1 \cup {NoClock}
        /\ setAge' \in 0 .. SetAgeCap /\ sentAge' \in 0 .. SentAgeCap
        /\ inDebt' \in BOOLEAN /\ synced' \in BOOLEAN
    <3>1. CASE pinned /\ Counts(p)
      BY <1>1, <2>1, <3>1, Zenon
    <3>2. CASE ~(pinned /\ Counts(p))
      BY <3>2, Zenon DEF SMTypeOK
    <3> QED BY <3>1, <3>2
  <2> QED BY <1>2, <2>2, <2>3, Zenon DEF SMTypeOK
<1>4. ClockBoundsSet'
  BY <1>1 DEF SMTypeOK, ClockBoundsSet
<1>5. AckFollowsReceipt'
  BY <1>1, <1>2 DEF SMTypeOK, AckFollowsReceipt
<1> QED BY <1>3, <1>4, <1>5

\* An acknowledgement restarts the provider's clock.
LEMMA RelayAckKeepsSMInv ==
  ASSUME SMInv, RelayAck
  PROVE  SMTypeOK' /\ ClockBoundsSet' /\ AckFollowsReceipt'
<1> USE DEF SMInv, RelayAck, consumerVars
<1>1. SMTypeOK' /\ ClockBoundsSet'
  BY DEF SMTypeOK, ClockBoundsSet
<1>2. AckFollowsReceipt'
  BY DEF SMTypeOK, AckFollowsReceipt
<1> QED BY <1>1, <1>2

\* Whether or not the queue can be sent, what is queued and what is under way are sets
\* and packets of their types.
LEMMA SendingKeepsPackets ==
  ASSUME NEW queued, NEW flying, NEW works \in BOOLEAN, SendVSCPackets(queued, flying, works),
         queued \subseteq 0 .. QueueAge, flying \subseteq Packet,
         \A p \in flying : ~TimedOut(p) /\ p.age <= QueueAge + p.sent
  PROVE  /\ queue' \subseteq 0 .. QueueAge /\ inflight' \subseteq Packet
         /\ \A p \in inflight' : ~TimedOut(p) /\ p.age <= QueueAge + p.sent
<1> USE DEF SendVSCPackets
<1>1. queue' \subseteq 0 .. QueueAge
  OBVIOUS
<1>2. ASSUME NEW p \in inflight'
      PROVE  p \in Packet /\ ~TimedOut(p) /\ p.age <= QueueAge + p.sent
  <2>1. CASE p \in flying
    BY <2>1
  <2>2. ASSUME NEW a \in queued, p = [age |-> a, sent |-> 0]
        PROVE  p \in Packet /\ ~TimedOut(p) /\ p.age <= QueueAge + p.sent
    BY <2>2 DEF Packet
  <2> QED BY <1>2, <2>1, <2>2
<1> QED BY <1>1, <1>2

LEMMA RotationKeepsSMInv ==
  ASSUME SMInv, NEW works \in BOOLEAN, SendRotationSnapshot(works)
  PROVE  SMTypeOK' /\ ClockBoundsSet' /\ AckFollowsReceipt'
<1> USE DEF SMInv, SendRotationSnapshot, consumerVars
<1>1. /\ queue' \subseteq 0 .. QueueAge /\ inflight' \subseteq Packet
      /\ \A p \in inflight' : ~TimedOut(p) /\ p.age <= QueueAge + p.sent
  <2>1. queue \cup {0} \subseteq 0 .. QueueAge
    BY DEF SMTypeOK
  <2> QED BY <2>1, SendingKeepsPackets DEF SMTypeOK, ClockBoundsSet
<1>2. SMTypeOK' /\ ClockBoundsSet' /\ AckFollowsReceipt'
  BY <1>1 DEF SMTypeOK, ClockBoundsSet, AckFollowsReceipt
<1> QED BY <1>2

\* A resume sends the queue with a snapshot, and restarts the provider's clock.
LEMMA ResumeKeepsSMInv ==
  ASSUME SMInv, ResumeConsumer
  PROVE  SMTypeOK' /\ ClockBoundsSet' /\ AckFollowsReceipt'
<1> USE DEF SMInv, ResumeConsumer, consumerVars
<1>1. /\ queue' \subseteq 0 .. QueueAge /\ inflight' \subseteq Packet
      /\ \A p \in inflight' : ~TimedOut(p) /\ p.age <= QueueAge + p.sent
  <2>1. queue \cup {0} \subseteq 0 .. QueueAge
    BY DEF SMTypeOK
  <2> QED BY <2>1, SendingKeepsPackets DEF SMTypeOK, ClockBoundsSet
<1>2. SMTypeOK' /\ ClockBoundsSet' /\ AckFollowsReceipt'
  BY <1>1 DEF SMTypeOK, ClockBoundsSet, AckFollowsReceipt
<1> QED BY <1>2

\* With an epoch every age grows by one, up to where it makes no difference.
LEMMA EpochKeepsSMInv ==
  ASSUME SMInv, NEW works \in BOOLEAN, Epoch(works)
  PROVE  SMTypeOK' /\ ClockBoundsSet' /\ AckFollowsReceipt'
<1> USE DEF SMInv, ArmVSCStalenessClock
<1> DEFINE queued == {Grown(a, QueueAge) : a \in queue}
           flying == {[age |-> p.age + 1, sent |-> p.sent + 1] : p \in inflight}
           left == {p \in flying : ~TimedOut(p)}
<1>1. /\ \/ SendVSCPackets(queued \cup {0}, left, works)
         \/ queue' = queued /\ inflight' = left
      /\ phase' \in {phase, "STOPPED"}
      /\ ackAge' = Grown(ackAge, MaxGrace + 1)
      /\ chain' = IF chain = "GENESIS" THEN "RUNNING" ELSE chain
      /\ ArmVSCStalenessClock
      /\ setAge' = Grown(setAge, SetAgeCap) /\ sentAge' = Grown(sentAge, SentAgeCap)
      /\ UNCHANGED <<grace, acks, client, pinned, inDebt, synced>>
  BY DEF Epoch
<1>2. /\ queue' \subseteq 0 .. QueueAge /\ inflight' \subseteq Packet
      /\ \A p \in inflight' : ~TimedOut(p) /\ p.age <= QueueAge + p.sent
  <2>1. queued \subseteq 0 .. QueueAge /\ queued \cup {0} \subseteq 0 .. QueueAge
    BY DEF SMTypeOK
  <2>2. ASSUME NEW q \in left
        PROVE  q \in Packet /\ ~TimedOut(q) /\ q.age <= QueueAge + q.sent
    <3>1. PICK p \in inflight : q = [age |-> p.age + 1, sent |-> p.sent + 1]
      BY <2>2
    <3>2. p.age \in Nat /\ p.sent \in Nat /\ p.age <= QueueAge + p.sent
      BY DEF SMTypeOK, ClockBoundsSet, Packet
    <3>3. q.age = p.age + 1 /\ q.sent = p.sent + 1 /\ q.sent < PacketTimeout
      BY <2>2, <3>1, <3>2
    <3> QED BY <3>1, <3>2, <3>3 DEF Packet
  <2>3. left \subseteq Packet
    BY <2>2
  <2> HIDE DEF queued, left
  <2>4. CASE SendVSCPackets(queued \cup {0}, left, works)
    BY <2>1, <2>2, <2>3, <2>4, SendingKeepsPackets
  <2>5. CASE queue' = queued /\ inflight' = left
    BY <2>1, <2>2, <2>3, <2>5
  <2> QED BY <1>1, <2>4, <2>5
<1> HIDE DEF queued, flying, left
<1>3. SMTypeOK'
  <2>1. recvAge' \in 0 .. Threshold + 1 \cup {NoClock}
    BY <1>1 DEF SMTypeOK
  <2>2. /\ ackAge' \in 0 .. MaxGrace + 1
        /\ setAge' \in 0 .. SetAgeCap /\ sentAge' \in 0 .. SentAgeCap
    BY <1>1 DEF SMTypeOK
  <2> QED BY <1>1, <1>2, <2>1, <2>2 DEF SMTypeOK
<1>4. recvAge' = NoClock => recvAge = NoClock /\ chain = "NONE"
  BY <1>1 DEF SMTypeOK, ClockBoundsSet
<1>5. recvAge = NoClock /\ recvAge' # NoClock =>
        recvAge' = 0 /\ ~synced /\ sentAge <= StartDelay /\ sentAge' <= StartDelay + 1
  BY <1>1 DEF SMTypeOK, ClockBoundsSet
<1>6. recvAge # NoClock /\ recvAge' <= Threshold => recvAge' = recvAge + 1
  BY <1>1 DEF SMTypeOK
<1>7. sentAge' <= sentAge + 1 /\ ackAge' <= ackAge + 1
  BY <1>1 DEF SMTypeOK
<1>t. /\ sentAge \in Nat /\ sentAge' \in Nat /\ ackAge \in Nat /\ ackAge' \in Nat
      /\ recvAge \in Nat \cup {NoClock} /\ recvAge' \in Nat \cup {NoClock} /\ acks \in Nat
  BY <1>3 DEF SMTypeOK
<1> HIDE DEF SMInv, ArmVSCStalenessClock
<1>8. ClockBoundsSet'
  <2>1. recvAge' = NoClock => ~synced' /\ chain' = "NONE"
    BY <1>1, <1>4 DEF SMInv, ClockBoundsSet
  <2>2. ASSUME recvAge' # NoClock, recvAge' <= Threshold
        PROVE  sentAge' <= recvAge' + IF synced' THEN PacketTimeout ELSE StartDelay + 1
    <3>1. CASE recvAge = NoClock
      BY <1>1, <1>5, <1>t, <2>2, <3>1
    <3>2. CASE recvAge # NoClock
      <4>1. recvAge' = recvAge + 1 /\ recvAge \in Nat /\ recvAge <= Threshold
        BY <1>6, <1>t, <2>2, <3>2
      <4>2. sentAge <= recvAge + IF synced THEN PacketTimeout ELSE StartDelay + 1
        BY <3>2, <4>1 DEF SMInv, ClockBoundsSet
      <4> QED BY <1>1, <1>7, <1>t, <4>1, <4>2
    <3> QED BY <3>1, <3>2
  <2> QED BY <1>2, <2>1, <2>2 DEF ClockBoundsSet
<1>9. AckFollowsReceipt'
  <2>1. ASSUME recvAge' = NoClock, sentAge' <= StartDelay PROVE ackAge' <= sentAge'
    <3>1. sentAge' = sentAge + 1 /\ sentAge <= StartDelay
      BY <1>1, <1>t, <2>1
    <3>2. ackAge <= sentAge
      BY <1>4, <2>1, <3>1 DEF SMInv, AckFollowsReceipt
    <3> QED BY <1>7, <1>t, <3>1, <3>2
  <2>2. ASSUME recvAge' # NoClock, recvAge' <= Threshold, ~(synced' /\ acks' > 0)
        PROVE  ackAge' <= recvAge' + IF synced' THEN 0 ELSE StartDelay + 1
    <3>1. CASE recvAge = NoClock
      <4>1. ackAge <= sentAge
        BY <1>5, <2>2, <3>1 DEF SMInv, AckFollowsReceipt
      <4> QED BY <1>1, <1>5, <1>7, <1>t, <2>2, <3>1, <4>1
    <3>2. CASE recvAge # NoClock
      <4>1. recvAge' = recvAge + 1 /\ recvAge \in Nat /\ recvAge <= Threshold
        BY <1>6, <1>t, <2>2, <3>2
      <4>2. ackAge <= recvAge + IF synced THEN 0 ELSE StartDelay + 1
        BY <1>1, <2>2, <3>2, <4>1 DEF SMInv, AckFollowsReceipt
      <4> QED BY <1>1, <1>7, <1>t, <4>1, <4>2
    <3> QED BY <3>1, <3>2
  <2> QED BY <2>1, <2>2 DEF AckFollowsReceipt
<1> QED BY <1>3, <1>8, <1>9

\* Every step of either chain keeps the invariant.
LEMMA NextKeepsSMInv == SMInv /\ [SMNext]_smVars => SMInv'
<1> SUFFICES ASSUME SMInv, [SMNext]_smVars
             PROVE  SMTypeOK' /\ ClockBoundsSet' /\ AckFollowsReceipt'
  <2>1. SMTypeOK' /\ ClockBoundsSet' => SetIsRecent'
    BY ClockMakesRecent, PTL
  <2> QED BY <2>1 DEF SMInv
<1> USE DEF SMInv
<1>1. CASE StartConsumer
  BY <1>1 DEF StartConsumer, providerVars, SMTypeOK, ClockBoundsSet, AckFollowsReceipt
<1>2. CASE SetProviderClient
  BY <1>2 DEF SetProviderClient, providerVars, SMTypeOK, ClockBoundsSet, AckFollowsReceipt
<1>3. CASE Receives
  BY <1>3, RecvPacketKeepsSMInv DEF Receives
<1>4. CASE ExportGenesis
  BY <1>4 DEF ExportGenesis, providerVars, SMTypeOK, ClockBoundsSet, AckFollowsReceipt
<1>5. CASE InitGenesis
  BY <1>5 DEF InitGenesis, RestoredClock, providerVars, SMTypeOK, ClockBoundsSet, AckFollowsReceipt
<1>6. CASE ClientDies
  BY <1>6 DEF ClientDies, providerVars, SMTypeOK, ClockBoundsSet, AckFollowsReceipt
<1>7. CASE RecoverClient
  BY <1>7 DEF RecoverClient, providerVars, SMTypeOK, ClockBoundsSet, AckFollowsReceipt
<1>8. CASE RelayAck
  BY <1>8, RelayAckKeepsSMInv
<1>9. CASE PauseConsumer
  BY <1>9 DEF PauseConsumer, consumerVars, SMTypeOK, ClockBoundsSet, AckFollowsReceipt
<1>10. CASE ResumeConsumer
  BY <1>10, ResumeKeepsSMInv
<1>11. CASE Passes
  BY <1>11, EpochKeepsSMInv DEF Passes
<1>12. CASE UNCHANGED smVars
  BY <1>12 DEF smVars, providerVars, consumerVars, SMTypeOK, ClockBoundsSet, AckFollowsReceipt
<1>13. CASE \E works \in BOOLEAN : SendRotationSnapshot(works)
  BY <1>13, RotationKeepsSMInv
<1>14. CASE \E g \in Graces : UpdateParams(g)
  BY <1>14 DEF UpdateParams, consumerVars, SMTypeOK, ClockBoundsSet, AckFollowsReceipt
<1> QED
  BY <1>1, <1>2, <1>3, <1>4, <1>5, <1>6, <1>7, <1>8, <1>9, <1>10, <1>11, <1>12, <1>13, <1>14
     DEF SMNext

\* The state is of its type, the consumer's staleness clock bounds the age of its set,
\* and ConsumerLastAckTime on the provider follows it.
THEOREM Invariance == SMSpec => []SMInv
BY InitEstablishesSMInv, NextKeepsSMInv, PTL DEF SMSpec

\* Ordinary transactions run under a recently sent validator set only, whatever is lost,
\* late, queued, exported or restarted (MsgFilterDecorator, IsVSCStale).
THEOREM OrdinaryWorkIsUnderARecentSet == SMSpec => []SetIsRecent
<1>1. SMInv => SetIsRecent
  BY DEF SMInv
<1> QED BY <1>1, Invariance, PTL

\* A consumer that SweepUnresponsiveConsumers stops is in safe mode, unless it has an
\* acknowledgement that was not relayed, or the grace period is too short for it.
THEOREM RemovedInSafeMode == SMSpec => SafeModeBeforeRemoval
<1> DEFINE Removal == phase = "LAUNCHED" /\ phase' = "STOPPED" /\ (Running /\ AdmitsOrdinary)' =>
                        \/ synced /\ acks > 0
                        \/ grace <= Threshold + IF synced THEN 0 ELSE StartDelay + 1
<1>1. SMInv /\ SMInv' /\ [SMNext]_smVars => [Removal]_smVars
  <2> SUFFICES ASSUME SMInv, SMInv', SMNext, phase = "LAUNCHED", phase' = "STOPPED",
                      Running', AdmitsOrdinary', ~(synced /\ acks > 0)
               PROVE  grace <= Threshold + IF synced THEN 0 ELSE StartDelay + 1
    OBVIOUS
  <2>1. PICK works \in BOOLEAN : Epoch(works)
    BY DEF SMNext, StartConsumer, SetProviderClient, Receives, RecvPacket, ExportGenesis,
           InitGenesis, ClientDies, RecoverClient, RelayAck, PauseConsumer, ResumeConsumer,
           SendRotationSnapshot, UpdateParams, Passes, providerVars
  <2>2. recvAge' = NoClock \/ ~(recvAge' > Threshold)
    <3>1. (AdmitsOrdinary => recvAge = NoClock \/ ~(recvAge > Threshold))'
      BY OrdinaryMeansFresh, PTL
    <3> QED BY <3>1
  <2>3. ackAge + 1 > grace /\ acks' = acks /\ synced' = synced /\ ArmVSCStalenessClock
    BY <2>1 DEF Epoch, Unresponsive
  <2>4. grace \in Nat /\ ackAge \in Nat /\ recvAge \in Nat \cup {NoClock}
    BY DEF SMInv, SMTypeOK
  <2>5. CASE recvAge = NoClock
    <3>1. chain = "GENESIS" /\ ~synced /\ sentAge <= StartDelay
      BY <2>1, <2>5 DEF Epoch, SMInv, ClockBoundsSet
    <3>2. ackAge <= sentAge /\ sentAge \in Nat
      BY <2>5, <3>1 DEF SMInv, SMTypeOK, AckFollowsReceipt
    <3> QED BY <2>3, <2>4, <3>1, <3>2
  <2>6. CASE recvAge # NoClock
    BY <2>2, <2>3, <2>4, <2>6 DEF SMInv, SMTypeOK, AckFollowsReceipt, ArmVSCStalenessClock
  <2> QED BY <2>5, <2>6
<1>2. SMSpec => [][Removal]_smVars
  BY <1>1, Invariance, PTL DEF SMSpec
<1> QED BY <1>2 DEF SafeModeBeforeRemoval
=============================================================================
